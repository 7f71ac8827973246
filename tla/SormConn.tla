------------------------------ MODULE SormConn ------------------------------
(***************************************************************************)
(* The connections of sorm (src/sorm.c) over one SQLite database file.     *)
(*                                                                         *)
(* Every connection belongs to one thread or process, so it executes one   *)
(* call of the API at a time; the calls of different connections           *)
(* interleave at every point where they touch shared state: the lock of    *)
(* sorm (a System V semaphore or a pthread rwlock shared by all the        *)
(* connections) and the locks SQLite 3.7.7.1 takes on the database file.   *)
(*                                                                         *)
(* A row, a table or an index that a statement writes is a token of        *)
(* Tokens.  The text of statements, their binding and the rows they return *)
(* are left out: a call that fails before its statement is stepped and     *)
(* without touching the file (bad argument, text too long, syntax or bind  *)
(* error) gives the statement back and changes nothing, so it is a         *)
(* stuttering step here.                                                   *)
(***************************************************************************)
EXTENDS Integers, FiniteSets

CONSTANTS
    Conns,            \* the open connections
    Tokens,           \* what can be written, each written successfully once
    NoToken,          \* "this call writes nothing"
    LockMode,         \* flags of sorm_open: "semaphore", "rwlock" or "none"
    Ops,              \* the families of calls the callers make
    BUSY_RETRY_TIME,  \* tries of prepare and step while SQLite is busy
    MaxNest,          \* bound: depth of nested sorm transactions
    MaxEnded,         \* bound: ended transactions of a connection
    MaxLeak,          \* bound: statements a connection has lost
    MaxRows,          \* bound: rows of one select
    MaxFaults         \* bound: I/O faults met inside a write statement

AllOps == {"write", "save", "leaky", "select", "iterate", "transaction", "close"}

ASSUME ConstantsAssumption ==
    /\ NoToken \notin Tokens
    /\ LockMode \in {"semaphore", "rwlock", "none"}
    /\ Ops \subseteq AllOps
    /\ BUSY_RETRY_TIME \in Nat \ {0}
    /\ MaxNest \in Nat /\ MaxEnded \in Nat /\ MaxLeak \in Nat
    /\ MaxRows \in Nat /\ MaxFaults \in Nat

\* Levels of the lock that SQLite holds on the database file.
NONE      == 0
SHARED    == 1
RESERVED  == 2
PENDING   == 3
EXCLUSIVE == 4

VARIABLES
  \* the call a connection is executing
    pc,              \* where it is
    op,              \* which call it is
    tok,             \* the token it writes
    rc,              \* result of its last sqlite3_step (or sqlite3_prepare)
    tries,           \* retry_time of _sqlite3_prepare and _sqlite3_step
    rows,            \* rows the select has read
  \* sorm_connection_t and the statements made from it
    transaction_num, \* the nesting counter of sorm
    iter,            \* the statement of its open iterator
    leaked,          \* halted statements no one will finalize
    stuck,           \* unfinished write statements no one will finalize
  \* the connection inside SQLite
    inTx,            \* TRUE iff autocommit is off
    flk,             \* its lock on the database file
    buf,             \* tokens written and not committed
  \* shared by all connections
    db,              \* the committed database
    avail,           \* value of the semaphore
    rheld, wheld,    \* connections inside _lock .. _unlock
  \* history
    extra,           \* unlocks a connection made without holding the lock
    unmatched,       \* TRUE iff any such unlock was ever made
    told,            \* tokens a call returned SORM_OK for in a transaction
    acked,           \* tokens the caller was told are stored
    undone,          \* tokens of transactions that were rolled back
    faulted,         \* SQLite itself rolled back the transaction
    faults,          \* faults so far
    finalizedTwice   \* connections that finalized a statement twice

call  == <<pc, op, tok, rc, tries, rows>>
conn  == <<transaction_num, iter, leaked, stuck>>
lite  == <<inTx, flk, buf>>
lock  == <<avail, rheld, wheld, extra, unmatched>>
hist  == <<told, acked, undone, faulted, faults, finalizedTwice>>
vars  == <<call, conn, lite, db, lock, hist>>

PCs == {"idle", "prepare", "reading", "lock", "step", "excl", "sync", "undo",
        "unlock", "row", "final", "tstep", "tsync", "tfinal", "refinal",
        "close", "closed", "dead"}

Writes == {"write", "ddl", "save", "leaky"}
Begins == {"begin_write", "begin_read"}
Ends   == {"commit", "rollback"}
OpNames == Writes \cup {"select", "iterate", "iterate_open", "none"}
                  \cup Begins \cup Ends

(***************************************************************************)
(* BUSY: the statement stopped at its first instruction and is unfinished. *)
(* ERRBUSY: the statement is halted and its result is SQLITE_BUSY, which   *)
(* sqlite3_finalize will report once more: the commit of a write was busy, *)
(* or COMMIT or ROLLBACK was refused.  SCHEMA: sqlite3_prepare found its   *)
(* copy of the schema out of date and compiles a second time.              *)
(***************************************************************************)
Codes == {"none", "ROW", "DONE", "BUSY", "ERR", "ERRBUSY", "SCHEMA"}

\* The statement of an iterator: not open; prepared or halted; positioned on
\* a row; or stopped by SQLITE_BUSY before it could read.
IterStates == {"none", "ready", "row", "busy"}

CallTypeOK ==
    /\ pc \in [Conns -> PCs]
    /\ op \in [Conns -> OpNames]
    /\ tok \in [Conns -> Tokens \cup {NoToken}]
    /\ rc \in [Conns -> Codes]
    /\ tries \in [Conns -> 0..BUSY_RETRY_TIME]
    /\ rows \in [Conns -> 0..MaxRows]

ConnTypeOK ==
    /\ transaction_num \in [Conns -> Nat]
    /\ iter \in [Conns -> IterStates]
    /\ leaked \in [Conns -> Nat]
    /\ stuck \in [Conns -> Nat]

LiteTypeOK ==
    /\ inTx \in [Conns -> BOOLEAN]
    /\ flk \in [Conns -> NONE..EXCLUSIVE]
    /\ buf \in [Conns -> SUBSET Tokens]

LockTypeOK ==
    /\ avail \in Nat
    /\ rheld \in SUBSET Conns
    /\ wheld \in SUBSET Conns
    /\ extra \in [Conns -> Nat]
    /\ unmatched \in BOOLEAN

HistTypeOK ==
    /\ told \in [Conns -> SUBSET Tokens]
    /\ acked \in SUBSET Tokens
    /\ undone \in SUBSET Tokens
    /\ faulted \in [Conns -> BOOLEAN]
    /\ faults \in Nat
    /\ finalizedTwice \in SUBSET Conns

\* The type invariant.  That transaction_num is never negative needs the code's
\* guard of every count-down, and that only tokens are stored that every write
\* that is committed names one.
TypeOK ==
    /\ CallTypeOK
    /\ ConnTypeOK
    /\ LiteTypeOK
    /\ db \in SUBSET Tokens
    /\ LockTypeOK
    /\ HistTypeOK

Init ==
    /\ pc = [c \in Conns |-> "closed"]
    /\ op = [c \in Conns |-> "none"]
    /\ tok = [c \in Conns |-> NoToken]
    /\ rc = [c \in Conns |-> "none"]
    /\ tries = [c \in Conns |-> 0]
    /\ rows = [c \in Conns |-> 0]
    /\ transaction_num = [c \in Conns |-> 0]
    /\ iter = [c \in Conns |-> "none"]
    /\ leaked = [c \in Conns |-> 0]
    /\ stuck = [c \in Conns |-> 0]
    /\ inTx = [c \in Conns |-> FALSE]
    /\ flk = [c \in Conns |-> NONE]
    /\ buf = [c \in Conns |-> {}]
    /\ db = {}
    /\ avail = 1
    /\ rheld = {}
    /\ wheld = {}
    /\ extra = [c \in Conns |-> 0]
    /\ unmatched = FALSE
    /\ told = [c \in Conns |-> {}]
    /\ acked = {}
    /\ undone = {}
    /\ faulted = [c \in Conns |-> FALSE]
    /\ faults = 0
    /\ finalizedTwice = {}
-----------------------------------------------------------------------------
(* The file locks of SQLite, as far as the calls of sorm can see them.     *)

CanShare(c) ==
    flk[c] >= SHARED \/ \A d \in Conns \ {c} : flk[d] < PENDING

CanReserve(c) ==
    /\ CanShare(c)
    /\ flk[c] >= RESERVED \/ \A d \in Conns \ {c} : flk[d] < RESERVED

CanExclude(c) == \A d \in Conns \ {c} : flk[d] = NONE

AtLeast(c, level) == IF flk[c] >= level THEN flk[c] ELSE level

\* A transaction that held `level` ends; another statement may be unfinished.
Downgrade(level, otherReading) ==
    IF level >= SHARED /\ otherReading THEN SHARED ELSE NONE

(***************************************************************************)
(* The lock a connection keeps when a statement that held `level` halts.   *)
(* Inside a transaction that is level.  In autocommit mode sqlite3VdbeHalt *)
(* ends the implicit transaction only if no other write statement is       *)
(* unfinished, and keeps SHARED for another statement that is reading.     *)
(***************************************************************************)
AfterHalt(c, level, otherReading) ==
    IF inTx[c] \/ stuck[c] > 0 THEN level ELSE Downgrade(level, otherReading)

Reading(c) == iter[c] \in {"row", "busy"}
-----------------------------------------------------------------------------
(* The lock of sorm.                                                       *)

\* Mutant: a writer does not wait for readers.
FreeOfWriters(mode) == unmatched \/ wheld = {}

\* A rwlock that was unlocked by a thread that did not hold it is undefined:
\* from then on it may let anyone in.
Free(mode) ==
    \/ unmatched
    \/ wheld = {} /\ (mode = "write" => rheld = {})

\* Mutant: sem_p returns without waiting.
_lock_NoWait(c, mode) ==
    /\ wheld' = wheld \cup {c}
    /\ UNCHANGED <<avail, rheld, extra, unmatched>>

_lock(c, mode) ==
    \/ /\ LockMode = "semaphore"
       /\ avail > 0
       /\ avail' = avail - 1
       /\ wheld' = wheld \cup {c}
       /\ UNCHANGED <<rheld, extra, unmatched>>
    \/ /\ LockMode = "rwlock"
       /\ Free(mode)
       /\ rheld' = IF mode = "read" THEN rheld \cup {c} ELSE rheld
       /\ wheld' = IF mode = "read" THEN wheld ELSE wheld \cup {c}
       /\ UNCHANGED <<avail, extra, unmatched>>
    \/ /\ LockMode = "none"
       /\ UNCHANGED lock

\* Mutant: sem_v fails unnoticed.
_unlock_Lost(c) ==
    /\ wheld' = wheld \ {c}
    /\ UNCHANGED <<avail, rheld, extra, unmatched>>

_unlock(c) ==
    IF LockMode = "none" THEN UNCHANGED lock
    ELSE /\ avail' = IF LockMode = "semaphore" THEN avail + 1 ELSE avail
         /\ rheld' = rheld \ {c}
         /\ wheld' = wheld \ {c}
         /\ IF c \in rheld \cup wheld
            THEN UNCHANGED <<extra, unmatched>>
            ELSE /\ extra' = [extra EXCEPT ![c] = @ + 1]
                 /\ unmatched' = TRUE
-----------------------------------------------------------------------------
(* Entering and leaving a call.                                            *)

Fresh(t) ==
    /\ t \notin db \cup acked \cup undone
    /\ \A d \in Conns : t \notin buf[d] \cup told[d] \cup {tok[d]}

Enter(c, o, t, where) ==
    /\ pc[c] = "idle"
    /\ pc' = [pc EXCEPT ![c] = where]
    /\ op' = [op EXCEPT ![c] = o]
    /\ tok' = [tok EXCEPT ![c] = t]
    /\ UNCHANGED <<rc, tries, rows>>

Leave(c) ==
    /\ pc' = [pc EXCEPT ![c] = "idle"]
    /\ op' = [op EXCEPT ![c] = "none"]
    /\ tok' = [tok EXCEPT ![c] = NoToken]
    /\ rc' = [rc EXCEPT ![c] = "none"]
    /\ tries' = [tries EXCEPT ![c] = 0]
    /\ rows' = [rows EXCEPT ![c] = 0]

\* _sqlite3_step takes the lock only outside a transaction.
AtStep(c) == IF transaction_num[c] = 0 THEN "lock" ELSE "step"

\* What a call does with the result r of _sqlite3_step.
Resume(c, r) == IF op[c] = "select" /\ r = "ROW" THEN "row" ELSE "final"

\* sqlite3_step returned r and _sqlite3_step does not try again.
Stepped(c, r) ==
    /\ pc' = [pc EXCEPT ![c] = IF transaction_num[c] = 0 THEN "unlock"
                                                         ELSE Resume(c, r)]
    /\ rc' = [rc EXCEPT ![c] = r]
    /\ tries' = [tries EXCEPT ![c] = 0]
    /\ UNCHANGED <<op, tok>>

\* _sqlite3_prepare, outside the lock of sorm.  If SQLite must read the schema
\* (its first use, a change of the schema anywhere, a name it does not know)
\* and holds no lock on the file, it takes SHARED for that.
Prepare(c, o, t) ==
    \/ Enter(c, o, t, AtStep(c))
    \/ flk[c] = NONE /\ Enter(c, o, t, "prepare")

\* The family of calls that makes statements of kind o.
Family(o) == IF o = "ddl" THEN "write" ELSE o

StartWrite(c, o, t) ==
    /\ Family(o) \in Ops
    /\ Fresh(t)
    /\ Family(o) = "write" \/ leaked[c] + stuck[c] < MaxLeak
    /\ Prepare(c, o, t)
    /\ UNCHANGED <<conn, lite, db, lock, hist>>

(***************************************************************************)
(* The write calls.  All prepare one statement, step it once under the     *)
(* write lock and finalize it; they differ in what they do when the step   *)
(* failed or succeeded, which the Final actions tell apart by `op`.  The   *)
(* caller of sorm_run_stmt names the lock; it writes, so it names WRITE,   *)
(* and its statement may change the schema ("ddl") or not.                 *)
(***************************************************************************)
sorm_run_stmt(c, t)     == \E o \in {"write", "ddl"} : StartWrite(c, o, t)
sorm_create_table(c, t) == StartWrite(c, "ddl", t)
sorm_delete_table(c, t) == StartWrite(c, "ddl", t)
sorm_delete_by(c, t)    == StartWrite(c, "write", t)
sorm_create_index(c, t) == StartWrite(c, "ddl", t)
sorm_drop_index(c, t)   == StartWrite(c, "ddl", t)
_save(c, t)             == StartWrite(c, "save", t)
sorm_delete(c, t)       == StartWrite(c, "leaky", t)
sorm_update(c, t)       == StartWrite(c, "leaky", t)

_select(c) ==
    /\ "select" \in Ops
    /\ Prepare(c, "select", NoToken)
    /\ UNCHANGED <<conn, lite, db, lock, hist>>

_select_iterate_open(c) ==
    /\ "iterate" \in Ops
    /\ iter[c] = "none"
    /\ \/ /\ pc[c] = "idle"
          /\ iter' = [iter EXCEPT ![c] = "ready"]
          /\ UNCHANGED call
       \/ /\ flk[c] = NONE
          /\ Enter(c, "iterate_open", NoToken, "prepare")
          /\ UNCHANGED iter
    /\ UNCHANGED <<transaction_num, leaked, stuck, lite, db, lock, hist>>

\* The next row of an open iterator; its statement is already prepared.
_select_iterate(c) ==
    /\ iter[c] # "none"
    /\ Enter(c, "iterate", NoToken, AtStep(c))
    /\ UNCHANGED <<conn, lite, db, lock, hist>>
-----------------------------------------------------------------------------
(* _sqlite3_prepare while it reads the schema.                             *)

\* SQLITE_BUSY: try again at most BUSY_RETRY_TIME times.  schemaIsValid ignores
\* it, and the error that called for the check fails the prepare.
PrepareBusy(c) ==
    /\ pc[c] = "prepare"
    /\ ~CanShare(c)
    /\ \/ /\ tries[c] + 1 < BUSY_RETRY_TIME
          /\ tries' = [tries EXCEPT ![c] = @ + 1]
          /\ rc' = [rc EXCEPT ![c] = "none"]
          /\ UNCHANGED <<pc, op, tok, rows>>
       \/ Leave(c)
    /\ UNCHANGED <<conn, lite, db, lock, hist>>

PrepareRead(c) ==
    /\ pc[c] = "prepare"
    /\ CanShare(c)
    /\ flk' = [flk EXCEPT ![c] = SHARED]
    /\ pc' = [pc EXCEPT ![c] = "reading"]
    /\ UNCHANGED <<op, tok, rc, tries, rows, conn, inTx, buf, db, lock, hist>>

\* The end of the read: btreeEndTransaction keeps SHARED if more than one other
\* statement is unfinished.
ReadDone(c) ==
    /\ pc[c] = "reading"
    /\ flk' = [flk EXCEPT ![c] =
                  IF stuck[c] + (IF Reading(c) THEN 1 ELSE 0) > 1
                  THEN SHARED ELSE NONE]
    /\ UNCHANGED <<inTx, buf>>

\* The statement is compiled; an iterator is open now, other calls step it.
Prepared(c) ==
    /\ ReadDone(c)
    /\ IF op[c] = "iterate_open"
       THEN /\ iter' = [iter EXCEPT ![c] = "ready"]
            /\ Leave(c)
       ELSE /\ pc' = [pc EXCEPT ![c] = AtStep(c)]
            /\ rc' = [rc EXCEPT ![c] = "none"]
            /\ tries' = [tries EXCEPT ![c] = 0]
            /\ UNCHANGED <<op, tok, rows, iter>>
    /\ UNCHANGED <<transaction_num, leaked, stuck, db, lock, hist>>

\* It cannot be compiled: the call returns SORM_DB_ERROR ...
PrepareFailed(c) ==
    /\ ReadDone(c)
    /\ Leave(c)
    /\ UNCHANGED <<conn, db, lock, hist>>

\* ... unless the schema was out of date: sqlite3_prepare compiles once more.
PrepareAgain(c) ==
    /\ ReadDone(c)
    /\ flk[c]' = NONE
    /\ rc[c] # "SCHEMA"
    /\ pc' = [pc EXCEPT ![c] = "prepare"]
    /\ rc' = [rc EXCEPT ![c] = "SCHEMA"]
    /\ UNCHANGED <<op, tok, tries, rows, conn, db, lock, hist>>
-----------------------------------------------------------------------------
(* _sqlite3_step.                                                          *)

\* Only the selects ask for the read lock; iterating asks for the write lock.
Mode(c) == IF op[c] = "select" THEN "read" ELSE "write"

StepLock(c) ==
    /\ pc[c] = "lock"
    /\ _lock(c, Mode(c))
    /\ pc' = [pc EXCEPT ![c] = "step"]
    /\ UNCHANGED <<op, tok, rc, tries, rows, conn, lite, db, hist>>

StepUnlock(c) ==
    /\ pc[c] = "unlock"
    /\ _unlock(c)
    /\ pc' = [pc EXCEPT ![c] = Resume(c, rc[c])]
    /\ UNCHANGED <<op, tok, rc, tries, rows, conn, lite, db, hist>>

\* SQLITE_BUSY: try again at most BUSY_RETRY_TIME times, then give up.
StepBusy(c) ==
    /\ pc[c] = "step"
    /\ IF op[c] \in Writes THEN ~CanReserve(c) ELSE ~CanShare(c)
    /\ \/ /\ tries[c] + 1 < BUSY_RETRY_TIME
          /\ tries' = [tries EXCEPT ![c] = @ + 1]
          /\ UNCHANGED <<pc, op, tok, rc, iter>>
       \/ /\ tries[c] + 1 >= BUSY_RETRY_TIME
          /\ Stepped(c, "BUSY")
          /\ iter' = IF op[c] = "iterate" THEN [iter EXCEPT ![c] = "busy"]
                                          ELSE iter
    /\ UNCHANGED <<rows, transaction_num, leaked, stuck, lite, db, lock, hist>>

\* A read statement finds a row ...
StepRow(c) ==
    /\ pc[c] = "step"
    /\ CanShare(c)
    /\ flk' = [flk EXCEPT ![c] = AtLeast(c, SHARED)]
    /\ Stepped(c, "ROW")
    /\ \/ /\ op[c] = "select"
          /\ rows[c] < MaxRows
          /\ rows' = [rows EXCEPT ![c] = @ + 1]
          /\ UNCHANGED iter
       \/ /\ op[c] = "iterate"
          /\ iter' = [iter EXCEPT ![c] = "row"]
          /\ UNCHANGED rows
    /\ UNCHANGED <<transaction_num, leaked, stuck, inTx, buf, db, lock, hist>>

\* ... or its end, or an error (the schema has changed, a page cannot be read):
\* it halts.
StepEnd(c) ==
    /\ pc[c] = "step"
    /\ op[c] \in {"select", "iterate"}
    /\ CanShare(c)
    /\ \E r \in {"DONE", "ERR"} : Stepped(c, r)
    /\ \/ /\ op[c] = "select"
          /\ flk' = [flk EXCEPT ![c] =
                        AfterHalt(c, AtLeast(c, SHARED), Reading(c))]
          /\ UNCHANGED iter
       \/ /\ op[c] = "iterate"
          /\ flk' = [flk EXCEPT ![c] = AfterHalt(c, AtLeast(c, SHARED), FALSE)]
          /\ iter' = [iter EXCEPT ![c] = "ready"]
    /\ UNCHANGED <<rows, transaction_num, leaked, stuck, inTx, buf, db, lock, hist>>

\* A constraint, or a schema that has changed since it was prepared, stops the
\* write: its changes are taken back and it halts.
StepConstraint(c) ==
    /\ pc[c] = "step"
    /\ op[c] \in Writes
    /\ CanReserve(c)
    /\ flk' = [flk EXCEPT ![c] = AfterHalt(c, AtLeast(c, RESERVED), Reading(c))]
    /\ Stepped(c, "ERR")
    /\ UNCHANGED <<rows, conn, inTx, buf, db, lock, hist>>

\* The write succeeds.  With no transaction open it goes on to commit, unless
\* an unfinished write statement of the connection stands in the way.
StepWrite(c) ==
    /\ pc[c] = "step"
    /\ op[c] \in Writes
    /\ CanReserve(c)
    /\ flk' = [flk EXCEPT ![c] = AtLeast(c, RESERVED)]
    /\ \/ /\ inTx[c] \/ stuck[c] > 0
          /\ buf' = [buf EXCEPT ![c] = @ \cup {tok[c]}]
          /\ Stepped(c, "DONE")
       \/ /\ ~inTx[c] /\ stuck[c] = 0
          /\ pc' = [pc EXCEPT ![c] = "excl"]
          /\ UNCHANGED <<op, tok, rc, tries, buf>>
    /\ UNCHANGED <<rows, conn, inTx, db, lock, hist>>

\* A full disk or an I/O error inside a transaction: SQLite rolls back the
\* whole transaction and turns autocommit on again.
StepFault(c) ==
    /\ pc[c] = "step"
    /\ op[c] \in Writes
    /\ inTx[c]
    /\ CanReserve(c)
    /\ faults < MaxFaults
    /\ faults' = faults + 1
    /\ faulted' = [faulted EXCEPT ![c] = TRUE]
    /\ inTx' = [inTx EXCEPT ![c] = FALSE]
    /\ buf' = [buf EXCEPT ![c] = {}]
    /\ flk' = [flk EXCEPT ![c] =
                  Downgrade(RESERVED, Reading(c) \/ stuck[c] > 0)]
    /\ Stepped(c, "ERR")
    /\ UNCHANGED <<rows, conn, db, lock, told, acked, undone, finalizedTwice>>

\* The implicit transaction of a write commits: it needs the file for itself.
\* While another connection reads it gets no further than PENDING.
StepExclusive(c) ==
    /\ pc[c] = "excl"
    /\ \/ /\ CanExclude(c)
          /\ flk' = [flk EXCEPT ![c] = EXCLUSIVE]
          /\ pc' = [pc EXCEPT ![c] = "sync"]
       \/ /\ ~CanExclude(c)
          /\ flk' = [flk EXCEPT ![c] = PENDING]
          /\ pc' = [pc EXCEPT ![c] = "undo"]
    /\ UNCHANGED <<op, tok, rc, tries, rows, conn, inTx, buf, db, lock, hist>>

\* Mutant: the retries are not counted.
StepUndoForever(c) ==
    /\ pc[c] = "undo"
    /\ flk' = [flk EXCEPT ![c] = AfterHalt(c, flk[c], Reading(c))]
    /\ pc' = [pc EXCEPT ![c] = "step"]
    /\ UNCHANGED <<op, tok, rc, tries, rows, conn, inTx, buf, db, lock, hist>>

(***************************************************************************)
(* sqlite3VdbeHalt rolls the write back and sqlite3_step returns           *)
(* SQLITE_BUSY.  _sqlite3_step tries again, which resets the statement and *)
(* executes it anew; but one that changes the schema has expired with the  *)
(* rollback and fails with SQLITE_ERROR.                                   *)
(***************************************************************************)
StepUndo(c) ==
    /\ pc[c] = "undo"
    /\ flk' = [flk EXCEPT ![c] = AfterHalt(c, flk[c], Reading(c))]
    /\ \/ /\ tries[c] + 1 < BUSY_RETRY_TIME
          /\ op[c] # "ddl"
          /\ pc' = [pc EXCEPT ![c] = "step"]
          /\ tries' = [tries EXCEPT ![c] = @ + 1]
          /\ UNCHANGED <<op, tok, rc>>
       \/ /\ tries[c] + 1 < BUSY_RETRY_TIME
          /\ op[c] = "ddl"
          /\ Stepped(c, "ERR")
       \/ /\ tries[c] + 1 >= BUSY_RETRY_TIME
          /\ Stepped(c, "ERRBUSY")
    /\ UNCHANGED <<rows, conn, inTx, buf, db, lock, hist>>

StepSync(c) ==
    /\ pc[c] = "sync"
    /\ db' = db \cup {tok[c]}
    /\ flk' = [flk EXCEPT ![c] = AfterHalt(c, flk[c], Reading(c))]
    /\ Stepped(c, "DONE")
    /\ UNCHANGED <<rows, conn, inTx, buf, lock, hist>>
-----------------------------------------------------------------------------
(* After the step: the loop of the selects, and the end of every call.     *)

SelectNext(c) ==
    /\ pc[c] = "row"
    /\ pc' = [pc EXCEPT ![c] = AtStep(c)]
    /\ UNCHANGED <<op, tok, rc, tries, rows, conn, lite, db, lock, hist>>

\* max_rows_num is reached, or the row could not be converted.
SelectStop(c) ==
    /\ pc[c] = "row"
    /\ pc' = [pc EXCEPT ![c] = "final"]
    /\ UNCHANGED <<op, tok, rc, tries, rows, conn, lite, db, lock, hist>>

\* A write call returns SORM_OK.
TellStored(c) ==
    IF transaction_num[c] = 0
    THEN acked' = acked \cup {tok[c]} /\ UNCHANGED told
    ELSE told' = [told EXCEPT ![c] = @ \cup {tok[c]}] /\ UNCHANGED acked

\* sorm_delete and sorm_update return without finalizing a failed statement;
\* one that is BUSY stays an unfinished writer of the connection.
FinalLeak(c) ==
    /\ pc[c] = "final"
    /\ op[c] = "leaky"
    /\ rc[c] # "DONE"
    /\ IF rc[c] = "BUSY"
       THEN stuck' = [stuck EXCEPT ![c] = @ + 1] /\ UNCHANGED leaked
       ELSE leaked' = [leaked EXCEPT ![c] = @ + 1] /\ UNCHANGED stuck
    /\ Leave(c)
    /\ UNCHANGED <<transaction_num, iter, lite, db, lock, hist>>

\* _save returns an error, without finalizing, when the row was stored but
\* its primary key cannot be copied back into the object.
FinalNoPK(c) ==
    /\ pc[c] = "final"
    /\ op[c] = "save"
    /\ rc[c] = "DONE"
    /\ leaked' = [leaked EXCEPT ![c] = @ + 1]
    /\ Leave(c)
    /\ UNCHANGED <<transaction_num, iter, stuck, lite, db, lock, hist>>

\* Mutant: a failed step does not set ret_val.
FinalWriteUnchecked(c) ==
    /\ pc[c] = "final"
    /\ op[c] \in Writes
    /\ rc[c] \in {"DONE", "ERR"}
    /\ TellStored(c)
    /\ Leave(c)
    /\ UNCHANGED <<conn, lite, db, lock, undone, faulted, faults, finalizedTwice>>

\* Mutant: every write call returns at once when its step failed.
FinalWriteLeaks(c) ==
    /\ pc[c] = "final"
    /\ op[c] \in Writes
    /\ rc[c] \in {"DONE", "ERR"}
    /\ IF rc[c] = "DONE"
       THEN TellStored(c) /\ UNCHANGED leaked
       ELSE leaked' = [leaked EXCEPT ![c] = 1] /\ UNCHANGED <<told, acked>>
    /\ Leave(c)
    /\ UNCHANGED <<transaction_num, iter, stuck, lite, db, lock>>
    /\ UNCHANGED <<undone, faulted, faults, finalizedTwice>>

FinalWrite(c) ==
    /\ pc[c] = "final"
    /\ op[c] \in Writes
    /\ rc[c] = "DONE" \/ (rc[c] = "ERR" /\ op[c] # "leaky")
    /\ IF rc[c] = "DONE" THEN TellStored(c) ELSE UNCHANGED <<told, acked>>
    /\ Leave(c)
    /\ UNCHANGED <<conn, lite, db, lock, undone, faulted, faults, finalizedTwice>>

\* Mutant: a select that stops early is not finalized.
FinalSelectEarly(c) ==
    /\ pc[c] = "final"
    /\ op[c] = "select"
    /\ rc[c] # "BUSY"
    /\ Leave(c)
    /\ UNCHANGED <<conn, lite, db, lock, hist>>

\* Finalizing a select that stands on a row halts it.
FinalSelect(c) ==
    /\ pc[c] = "final"
    /\ op[c] = "select"
    /\ rc[c] # "BUSY"
    /\ flk' = [flk EXCEPT ![c] = IF rc[c] = "ROW"
                                 THEN AfterHalt(c, flk[c], Reading(c))
                                 ELSE flk[c]]
    /\ Leave(c)
    /\ UNCHANGED <<conn, inTx, buf, db, lock, hist>>

\* _select_iterate keeps its statement.
FinalIterate(c) ==
    /\ pc[c] = "final"
    /\ op[c] = "iterate"
    /\ Leave(c)
    /\ UNCHANGED <<conn, lite, db, lock, hist>>

\* _sqlite3_finalize calls sqlite3_finalize again, on the same statement,
\* because the first call, which freed it, reported SQLITE_BUSY.
FinalizeBusy(c) ==
    /\ \/ pc[c] = "final" /\ op[c] \in {"write", "ddl", "save", "select"}
       \/ pc[c] = "tfinal"
    /\ rc[c] \in {"BUSY", "ERRBUSY"}
    /\ pc' = [pc EXCEPT ![c] = "refinal"]
    /\ finalizedTwice' = finalizedTwice \cup {c}
    /\ UNCHANGED <<op, tok, rc, tries, rows, conn, lite, db, lock>>
    /\ UNCHANGED <<told, acked, undone, faulted, faults>>

(***************************************************************************)
(* The second sqlite3_finalize reads freed memory.  Either it finds that   *)
(* the statement is gone and returns SQLITE_MISUSE, and the call returns   *)
(* SORM_DB_ERROR ...                                                       *)
(***************************************************************************)
RefinalizeMisuse(c) ==
    /\ pc[c] = "refinal"
    /\ Leave(c)
    /\ UNCHANGED <<conn, lite, db, lock, hist>>

\* The threads that share a rwlock die together; processes die alone.
Victims(c) == IF LockMode = "rwlock" THEN Conns ELSE {c}

Ended(f, D, v) == [d \in Conns |-> IF d \in D THEN v ELSE f[d]]

(***************************************************************************)
(* ... or the process is killed: the kernel drops its file locks and       *)
(* applies its SEM_UNDO adjustment, never below zero, and the next reader  *)
(* rolls back its journal.                                                 *)
(***************************************************************************)
RefinalizeCrash(c) ==
    LET D == Victims(c) IN
    /\ pc[c] = "refinal"
    /\ pc' = Ended(pc, D, "dead")
    /\ op' = Ended(op, D, "none")
    /\ tok' = Ended(tok, D, NoToken)
    /\ rc' = Ended(rc, D, "none")
    /\ tries' = Ended(tries, D, 0)
    /\ rows' = Ended(rows, D, 0)
    /\ transaction_num' = Ended(transaction_num, D, 0)
    /\ iter' = Ended(iter, D, "none")
    /\ leaked' = Ended(leaked, D, 0)
    /\ stuck' = Ended(stuck, D, 0)
    /\ inTx' = Ended(inTx, D, FALSE)
    /\ flk' = Ended(flk, D, NONE)
    /\ buf' = Ended(buf, D, {})
    /\ told' = Ended(told, D, {})
    /\ extra' = Ended(extra, D, 0)
    /\ avail' = IF avail >= extra[c] THEN avail - extra[c] ELSE 0
    /\ rheld' = rheld \ D
    /\ wheld' = wheld \ D
    /\ UNCHANGED <<db, unmatched, acked, undone, faulted, faults, finalizedTwice>>

\* Mutant: the iterator is freed and its statement is not finalized.
IterateCloseForgets(c) ==
    /\ pc[c] = "idle"
    /\ iter[c] # "none"
    /\ iter' = [iter EXCEPT ![c] = "none"]
    /\ UNCHANGED <<call, transaction_num, leaked, stuck, lite, db, lock, hist>>

sorm_select_iterate_close(c) ==
    /\ pc[c] = "idle"
    /\ iter[c] # "none"
    /\ iter' = [iter EXCEPT ![c] = "none"]
    /\ flk' = [flk EXCEPT ![c] = IF Reading(c)
                                 THEN AfterHalt(c, flk[c], FALSE) ELSE flk[c]]
    /\ IF iter[c] = "busy"
       THEN /\ pc' = [pc EXCEPT ![c] = "refinal"]
            /\ finalizedTwice' = finalizedTwice \cup {c}
       ELSE UNCHANGED <<pc, finalizedTwice>>
    /\ UNCHANGED <<op, tok, rc, tries, rows, transaction_num, leaked, stuck,
                   inTx, buf, db, lock, told, acked, undone, faulted, faults>>
-----------------------------------------------------------------------------
(* Transactions.  None of the three calls takes the lock of sorm.          *)

sorm_begin_transaction(c, kind) ==
    /\ "transaction" \in Ops
    /\ transaction_num[c] < MaxNest
    /\ extra[c] < MaxEnded
    /\ \/ /\ transaction_num[c] = 0
          /\ Enter(c, kind, NoToken, "tstep")
          /\ UNCHANGED transaction_num
       \/ /\ transaction_num[c] > 0
          /\ pc[c] = "idle"
          /\ transaction_num' = [transaction_num EXCEPT ![c] = @ + 1]
          /\ UNCHANGED call
    /\ UNCHANGED <<iter, leaked, stuck, lite, db, lock, hist>>

\* Mutant: an inner commit already ends the transaction of SQLite.
EndAtAnyDepth(c, kind) ==
    /\ transaction_num[c] > 0
    /\ Enter(c, kind, NoToken, "tstep")
    /\ UNCHANGED <<conn, lite, db, lock, hist>>

\* Mutant: ending without a transaction counts down too.
EndWithoutBegin(c, kind) ==
    /\ transaction_num[c] # 1
    /\ pc[c] = "idle"
    /\ transaction_num' = [transaction_num EXCEPT ![c] = @ - 1]
    /\ UNCHANGED <<call, iter, leaked, stuck, lite, db, lock, hist>>

\* sorm_commit_transaction and sorm_rollback_transaction: only the outermost
\* one ends the transaction of SQLite; with none open they do nothing.
EndTransaction(c, kind) ==
    /\ \/ /\ transaction_num[c] = 1
          /\ Enter(c, kind, NoToken, "tstep")
          /\ UNCHANGED transaction_num
       \/ /\ transaction_num[c] > 1
          /\ pc[c] = "idle"
          /\ transaction_num' = [transaction_num EXCEPT ![c] = @ - 1]
          /\ UNCHANGED call
    /\ UNCHANGED <<iter, leaked, stuck, lite, db, lock, hist>>

sorm_commit_transaction(c)   == EndTransaction(c, "commit")
sorm_rollback_transaction(c) == EndTransaction(c, "rollback")

\* The single sqlite3_step of these calls returned r; there is no retry.
TStepped(c, r) ==
    /\ pc' = [pc EXCEPT ![c] = "tfinal"]
    /\ rc' = [rc EXCEPT ![c] = r]
    /\ UNCHANGED <<op, tok, tries, rows>>

\* BEGIN: IMMEDIATE reserves the file, DEFERRED takes no lock yet.
TStepBegin(c) ==
    /\ pc[c] = "tstep"
    /\ op[c] \in Begins
    /\ \/ /\ op[c] = "begin_write"
          /\ ~CanReserve(c)
          /\ TStepped(c, "BUSY")
          /\ UNCHANGED <<inTx, flk>>
       \/ /\ op[c] = "begin_write" => CanReserve(c)
          /\ inTx' = [inTx EXCEPT ![c] = TRUE]
          /\ flk' = [flk EXCEPT ![c] = IF op[c] = "begin_write"
                                       THEN AtLeast(c, RESERVED) ELSE flk[c]]
          /\ TStepped(c, "DONE")
    /\ UNCHANGED <<conn, buf, db, lock, hist>>

\* COMMIT and ROLLBACK fail when SQLite has no transaction, and when
\* unfinished statements of the connection forbid them.
TStepRefused(c) ==
    /\ pc[c] = "tstep"
    /\ op[c] \in Ends
    /\ \/ /\ ~inTx[c]
          /\ TStepped(c, "ERR")
       \/ /\ inTx[c]
          /\ stuck[c] > 0 \/ (op[c] = "rollback" /\ Reading(c))
          /\ TStepped(c, "ERRBUSY")
    /\ UNCHANGED <<conn, lite, db, lock, hist>>

\* A commit that has reserved the file, even without changes, needs it for
\* itself.  If another connection is reading it fails, and keeps the transaction
\* and the PENDING lock.
TStepCommit(c) ==
    /\ pc[c] = "tstep"
    /\ op[c] = "commit"
    /\ inTx[c] /\ stuck[c] = 0
    /\ \/ /\ flk[c] < RESERVED
          /\ inTx' = [inTx EXCEPT ![c] = FALSE]
          /\ flk' = [flk EXCEPT ![c] = Downgrade(flk[c], Reading(c))]
          /\ TStepped(c, "DONE")
       \/ /\ flk[c] >= RESERVED
          /\ CanExclude(c)
          /\ flk' = [flk EXCEPT ![c] = EXCLUSIVE]
          /\ pc' = [pc EXCEPT ![c] = "tsync"]
          /\ UNCHANGED <<op, tok, rc, tries, rows, inTx>>
       \/ /\ flk[c] >= RESERVED
          /\ ~CanExclude(c)
          /\ flk' = [flk EXCEPT ![c] = AtLeast(c, PENDING)]
          /\ TStepped(c, "BUSY")
          /\ UNCHANGED inTx
    /\ UNCHANGED <<conn, buf, db, lock, hist>>

TStepSync(c) ==
    /\ pc[c] = "tsync"
    /\ db' = db \cup buf[c]
    /\ buf' = [buf EXCEPT ![c] = {}]
    /\ inTx' = [inTx EXCEPT ![c] = FALSE]
    /\ flk' = [flk EXCEPT ![c] = Downgrade(flk[c], Reading(c))]
    /\ TStepped(c, "DONE")
    /\ UNCHANGED <<conn, lock, hist>>

\* Mutant: the outermost rollback runs COMMIT.
TStepRollbackCommits(c) ==
    /\ pc[c] = "tstep"
    /\ op[c] = "rollback"
    /\ inTx[c] /\ stuck[c] = 0 /\ ~Reading(c)
    /\ db' = db \cup buf[c]
    /\ buf' = [buf EXCEPT ![c] = {}]
    /\ inTx' = [inTx EXCEPT ![c] = FALSE]
    /\ flk' = [flk EXCEPT ![c] = NONE]
    /\ TStepped(c, "DONE")
    /\ UNCHANGED <<conn, lock, hist>>

TStepRollback(c) ==
    /\ pc[c] = "tstep"
    /\ op[c] = "rollback"
    /\ inTx[c] /\ stuck[c] = 0 /\ ~Reading(c)
    /\ buf' = [buf EXCEPT ![c] = {}]
    /\ inTx' = [inTx EXCEPT ![c] = FALSE]
    /\ flk' = [flk EXCEPT ![c] = NONE]
    /\ TStepped(c, "DONE")
    /\ UNCHANGED <<conn, db, lock, hist>>

BeginDone(c) ==
    /\ pc[c] = "tfinal"
    /\ op[c] \in Begins
    /\ rc[c] = "DONE"
    /\ transaction_num' = [transaction_num EXCEPT ![c] = @ + 1]
    /\ faulted' = [faulted EXCEPT ![c] = FALSE]
    /\ Leave(c)
    /\ UNCHANGED <<iter, leaked, stuck, lite, db, lock>>
    /\ UNCHANGED <<told, acked, undone, faults, finalizedTwice>>

\* Mutant: only a commit counts down.
EndDoneCommitOnly(c) ==
    /\ pc[c] = "tfinal"
    /\ op[c] \in Ends
    /\ rc[c] = "DONE"
    /\ transaction_num' = IF op[c] = "commit"
                          THEN [transaction_num EXCEPT ![c] = @ - 1]
                          ELSE transaction_num
    /\ _unlock(c)
    /\ told' = [told EXCEPT ![c] = {}]
    /\ Leave(c)
    /\ UNCHANGED <<iter, leaked, stuck, lite, db>>
    /\ UNCHANGED <<acked, undone, faulted, faults, finalizedTwice>>

\* COMMIT or ROLLBACK succeeded: count down and unlock a lock never taken.
EndDone(c) ==
    /\ pc[c] = "tfinal"
    /\ op[c] \in Ends
    /\ rc[c] = "DONE"
    /\ transaction_num' = [transaction_num EXCEPT ![c] = @ - 1]
    /\ _unlock(c)
    /\ told' = [told EXCEPT ![c] = {}]
    /\ IF op[c] = "commit"
       THEN acked' = acked \cup told[c] /\ UNCHANGED undone
       ELSE undone' = undone \cup told[c] /\ UNCHANGED acked
    /\ Leave(c)
    /\ UNCHANGED <<iter, leaked, stuck, lite, db, faulted, faults, finalizedTwice>>

\* finalize reports the error: return SORM_DB_ERROR, counting and unlocking
\* nothing.
EndFailed(c) ==
    /\ pc[c] = "tfinal"
    /\ rc[c] = "ERR"
    /\ Leave(c)
    /\ UNCHANGED <<conn, lite, db, lock, hist>>
-----------------------------------------------------------------------------
(* Opening and closing.                                                    *)

Outstanding(c) == leaked[c] + stuck[c] + (IF iter[c] = "none" THEN 0 ELSE 1)

sorm_open(c) ==
    /\ pc[c] = "closed"
    /\ pc' = [pc EXCEPT ![c] = "idle"]
    /\ UNCHANGED <<op, tok, rc, tries, rows, conn, lite, db, lock, hist>>

sorm_close(c) ==
    /\ "close" \in Ops
    /\ pc[c] = "idle"
    /\ pc' = [pc EXCEPT ![c] = "close"]
    /\ UNCHANGED <<op, tok, rc, tries, rows, conn, lite, db, lock, hist>>

\* sqlite3_close refuses while a statement is outstanding; sorm asks again.
CloseAgain(c) ==
    /\ pc[c] = "close"
    /\ Outstanding(c) > 0
    /\ UNCHANGED vars

CloseDone(c) ==
    /\ pc[c] = "close"
    /\ Outstanding(c) = 0
    /\ pc' = [pc EXCEPT ![c] = "closed"]
    /\ transaction_num' = [transaction_num EXCEPT ![c] = 0]
    /\ inTx' = [inTx EXCEPT ![c] = FALSE]
    /\ flk' = [flk EXCEPT ![c] = NONE]
    /\ buf' = [buf EXCEPT ![c] = {}]
    /\ told' = [told EXCEPT ![c] = {}]
    /\ faulted' = [faulted EXCEPT ![c] = FALSE]
    /\ UNCHANGED <<op, tok, rc, tries, rows, iter, leaked, stuck, db, lock>>
    /\ UNCHANGED <<acked, undone, faults, finalizedTwice>>
-----------------------------------------------------------------------------
Call(c) ==
    \/ \E t \in Tokens :
          \/ sorm_run_stmt(c, t) \/ sorm_create_table(c, t)
          \/ sorm_delete_table(c, t) \/ sorm_delete_by(c, t)
          \/ sorm_create_index(c, t) \/ sorm_drop_index(c, t)
          \/ _save(c, t) \/ sorm_delete(c, t) \/ sorm_update(c, t)
    \/ _select(c)
    \/ _select_iterate_open(c)
    \/ _select_iterate(c)
    \/ sorm_select_iterate_close(c)
    \/ \E kind \in Begins : sorm_begin_transaction(c, kind)
    \/ sorm_commit_transaction(c)
    \/ sorm_rollback_transaction(c)
    \/ sorm_open(c)
    \/ sorm_close(c)

\* The steps inside a call, except the one that may wait for the lock.
Work(c) ==
    \/ PrepareBusy(c) \/ PrepareRead(c) \/ Prepared(c)
    \/ PrepareFailed(c) \/ PrepareAgain(c)
    \/ StepBusy(c) \/ StepRow(c) \/ StepEnd(c) \/ StepConstraint(c)
    \/ StepWrite(c) \/ StepFault(c) \/ StepExclusive(c) \/ StepSync(c)
    \/ StepUndo(c) \/ StepUnlock(c) \/ SelectNext(c) \/ SelectStop(c)
    \/ FinalLeak(c) \/ FinalNoPK(c) \/ FinalWrite(c) \/ FinalSelect(c)
    \/ FinalIterate(c) \/ FinalizeBusy(c)
    \/ RefinalizeMisuse(c) \/ RefinalizeCrash(c)
    \/ TStepBegin(c) \/ TStepRefused(c) \/ TStepCommit(c) \/ TStepSync(c)
    \/ TStepRollback(c) \/ BeginDone(c) \/ EndDone(c) \/ EndFailed(c)
    \/ CloseAgain(c) \/ CloseDone(c)

\* Everyone has been killed.
Halted == (\A c \in Conns : pc[c] = "dead") /\ UNCHANGED vars

Next ==
    \/ \E c \in Conns : Call(c) \/ StepLock(c) \/ Work(c)
    \/ Halted

Spec == Init /\ [][Next]_vars

(***************************************************************************)
(* A thread inside a call goes on; that is all WF asks.  A thread waiting  *)
(* for the lock gets it if it becomes free again and again: the kernel     *)
(* serves the waiters of a System V semaphore in order.  Nobody is obliged *)
(* to make a call.                                                         *)
(***************************************************************************)
Fairness == \A c \in Conns : WF_vars(Work(c)) /\ SF_vars(StepLock(c))

FairSpec == Spec /\ Fairness
-----------------------------------------------------------------------------
(* Properties.                                                             *)

\* The counter of sorm and the transaction of SQLite agree whenever no call is
\* in progress, through nesting, failed begins, refused commits and closes,
\* unless SQLite rolled the transaction back by itself.
TransactionAgrees ==
    \A c \in Conns :
        pc[c] = "idle" /\ ~faulted[c] => (inTx[c] <=> transaction_num[c] > 0)

\* As long as no unlock without a lock has been made, the lock of sorm excludes:
\* a connection inside _lock .. _unlock of a write is alone.
LockExcludes ==
    ~unmatched =>
        \A c \in wheld : wheld = {c} /\ rheld = {}

\* The semaphore never loses its unit, whatever commits, rollbacks, crashes and
\* SEM_UNDO adjustments happen: it is available or someone will give it back.
SemaphoreKept ==
    LockMode = "semaphore" => avail + Cardinality(wheld) >= 1

\* What a caller was told is stored is stored: a write call outside a
\* transaction that returned SORM_OK, and every write of a transaction whose
\* outermost commit returned SORM_OK.
Stored == acked \subseteq db

\* Without transactions the lock of sorm keeps every statement from finding the
\* file locked at its first instruction, so that none is left unfinished, and
\* none is lost unfinished by sorm_delete or sorm_update: PENDING is held only
\* inside the lock, although prepare reads the file outside it and may well make
\* a commit busy.
NoneUnfinished ==
    \A c \in Conns :
        rc[c] # "BUSY" /\ iter[c] # "busy" /\ stuck[c] = 0

\* The writes of an open transaction are invisible to other connections, even
\* when inner transactions were "committed" before.
Isolated ==
    \A c \in Conns :
        pc[c] = "idle" /\ transaction_num[c] > 0 /\ ~faulted[c] =>
            told[c] \cap db = {}

\* What was rolled back by the outermost rollback stays out of the database.
RolledBack == undone \cap db = {}

\* Between calls a connection outside a transaction holds no lock on the file,
\* except SHARED for an iterator that is reading, and except what an unfinished
\* statement that sorm_delete or sorm_update lost keeps.
FileReleased ==
    \A c \in Conns :
        pc[c] = "idle" /\ ~inTx[c] /\ stuck[c] = 0 =>
            flk[c] <= (IF Reading(c) THEN SHARED ELSE NONE)

\* Every call but sorm_close comes back to its caller, or its process died in
\* it: no call waits for the lock, retries or reads rows for ever.
CallsReturn ==
    \A c \in Conns :
        pc[c] \notin {"idle", "closed", "close", "dead"} ~> pc[c] \in {"idle", "dead"}

\* sorm_close comes back when the caller has closed its iterator.
CloseReturns ==
    \A c \in Conns :
        pc[c] = "close" /\ iter[c] = "none" ~> pc[c] # "close"

\* What src/sorm.h says of the rwlock mode: a transaction holds the lock.
TransactionHoldsLock ==
    \A c \in Conns :
        pc[c] = "idle" /\ transaction_num[c] > 0 => c \in rheld \cup wheld

\* What sqlite3.h asks of its callers: a statement is finalized once.
FinalizedOnce == finalizedTwice = {}
-----------------------------------------------------------------------------
(* sorm implements TxStore, where it loses no unfinished statement and     *)
(* SQLite meets no fault.  A transaction ends when SQLite ends it, before  *)
(* the call counts down.                                                   *)

SqliteEnded(c) == pc[c] = "tfinal" /\ op[c] \in Ends /\ rc[c] = "DONE"

Store == INSTANCE TxStore WITH
    store    <- db,
    depth    <- [c \in Conns |-> IF SqliteEnded(c) THEN 0 ELSE transaction_num[c]],
    pend     <- buf,
    promised <- acked

\* Every behaviour of the calls is one of the abstract store: a transaction is
\* published at once by its outermost commit or not at all, at every depth the
\* store and sorm agree, and only stored tokens are promised.
ImplementsStore == Store!Spec
=============================================================================
