--------------------------- MODULE SormConnProofs ---------------------------
(***************************************************************************)
(* Proofs about SormConn for every number of connections, tokens, rows,    *)
(* retries and faults, every depth of nesting and every lock mode:         *)
(*   TypeCorrect        the types                                          *)
(*   TransactionsAgree  the nesting counter follows SQLite's transaction   *)
(*   LockExclusive      the lock of sorm excludes until it is misused      *)
(*   WritesStored       what the caller was told is stored is stored,      *)
(*                      where sorm_delete and sorm_update are not called   *)
(* about its data and the locks on the file:                               *)
(*   RollbackKept       what was rolled back stays out of the database     *)
(*   TransactionsHidden an open transaction's writes are not in it         *)
(*   LocksReleased      no file lock outlives the call that took it        *)
(*   StoreImplemented   sorm implements TxStore                            *)
(* and about what the lock of sorm is for:                                 *)
(*   SemaphoreNeverLost the semaphore keeps its unit, whatever unmatched   *)
(*                      unlocks and SEM_UNDO adjustments happen            *)
(*   NoStatementUnfinished  without transactions no statement stops at     *)
(*                      its first instruction because the file is locked   *)
(***************************************************************************)
EXTENDS SormConn, CountingTheorems

\* What a connection's place in a call says of that call.
CallInv ==
    \A c \in Conns :
        /\ op[c] \in Writes => tok[c] \in Tokens
        /\ pc[c] \in {"excl", "sync", "undo"} => op[c] \in Writes
        /\ pc[c] = "row" => op[c] = "select"

InTransactionCall(c) == pc[c] \in {"tstep", "tsync", "tfinal"}

(***************************************************************************)
(* TransactionAgrees speaks of idle connections only.  Inside a call the   *)
(* counter lags behind SQLite between the step of BEGIN, COMMIT or         *)
(* ROLLBACK and the assignment after its finalize; only the outermost call *)
(* gets there, so the counter is then 0 for a begin and 1 for an end.      *)
(***************************************************************************)
TxInv ==
    \A c \in Conns :
        /\ InTransactionCall(c) =>
              \/ op[c] \in Begins /\ transaction_num[c] = 0
              \/ op[c] \in Ends /\ transaction_num[c] = 1
        /\ pc[c] = "tsync" => op[c] = "commit" /\ inTx[c]
        /\ pc[c] = "tfinal" /\ rc[c] = "DONE" => ~faulted[c]
        /\ ~faulted[c] /\ pc[c] # "dead" =>
              (inTx[c] <=> IF pc[c] = "tfinal" /\ rc[c] = "DONE"
                           THEN op[c] \in Begins ELSE transaction_num[c] > 0)
        /\ faulted[c] => /\ ~inTx[c]
                         /\ transaction_num[c] > 0 \/ pc[c] = "dead"

(***************************************************************************)
(* LockExcludes with what keeps it: who waits for the lock or holds it is  *)
(* in _sqlite3_step outside a transaction (so the unlock that ends a       *)
(* transaction never takes the lock from its holder), and until the first  *)
(* such unlock the semaphore counts its one holder.                        *)
(***************************************************************************)
LockInv ==
    /\ \A c \in Conns : pc[c] = "lock" => transaction_num[c] = 0
    /\ \A c \in rheld \cup wheld :
          /\ pc[c] \in {"step", "excl", "sync", "undo", "unlock"}
          /\ transaction_num[c] = 0
    /\ ~unmatched => \A c \in Conns : extra[c] = 0
    /\ LockMode = "semaphore" =>
          /\ rheld = {}
          /\ ~unmatched => avail = IF wheld = {} THEN 1 ELSE 0
    /\ LockMode = "none" => rheld = {} /\ wheld = {}
    /\ LockExcludes

(***************************************************************************)
(* What a transaction has written is under a RESERVED lock, so a COMMIT    *)
(* that needs no EXCLUSIVE lock has nothing to write.  A prepare that      *)
(* reads the schema for itself starts and ends without a lock.             *)
(***************************************************************************)
ReservedInv ==
    \A c \in Conns :
        /\ pc[c] = "prepare" => flk[c] = NONE
        /\ pc[c] = "reading" => flk[c] = SHARED
        /\ stuck[c] = 0 /\ buf[c] # {} => inTx[c] /\ flk[c] >= RESERVED

(***************************************************************************)
(* Stored with what keeps it: a successful step outside a transaction has  *)
(* already committed its token, one inside has left it in SQLite's         *)
(* transaction, and everything the caller was told inside a transaction    *)
(* waits there until the outermost commit has put it into the database.    *)
(***************************************************************************)
StoredInv ==
    /\ Stored
    /\ \A c \in Conns :
        /\ stuck[c] = 0
        /\ op[c] # "leaky"
        /\ transaction_num[c] = 0 => told[c] = {}
        /\ inTx[c] => told[c] \subseteq buf[c]
        /\ SqliteEnded(c) /\ op[c] = "commit" => told[c] \subseteq db
        /\ pc[c] \in {"unlock", "final"} /\ op[c] \in Writes /\ rc[c] = "DONE" =>
              /\ transaction_num[c] = 0 => tok[c] \in db
              /\ inTx[c] => tok[c] \in buf[c]
        /\ pc[c] \in {"excl", "sync"} => ~inTx[c]
-----------------------------------------------------------------------------
\* The kinds of steps the proofs below go through.
LEMMA StepCases ==
    ASSUME [Next]_vars
    PROVE  \/ UNCHANGED vars
           \/ \E c \in Conns :
                \/ \E o \in Writes, t \in Tokens : StartWrite(c, o, t)
                \/ _select(c) \/ _select_iterate_open(c) \/ _select_iterate(c)
                \/ sorm_select_iterate_close(c)
                \/ \E kind \in Begins : sorm_begin_transaction(c, kind)
                \/ \E kind \in Ends : EndTransaction(c, kind)
                \/ sorm_open(c) \/ sorm_close(c)
                \/ PrepareBusy(c) \/ PrepareRead(c) \/ Prepared(c)
                \/ PrepareFailed(c) \/ PrepareAgain(c) \/ StepUndo(c)
                \/ StepLock(c) \/ StepUnlock(c)
                \/ StepBusy(c) \/ StepRow(c) \/ StepEnd(c) \/ StepConstraint(c)
                \/ StepWrite(c) \/ StepFault(c) \/ StepExclusive(c) \/ StepSync(c)
                \/ SelectNext(c) \/ SelectStop(c)
                \/ FinalLeak(c) \/ FinalNoPK(c) \/ FinalWrite(c) \/ FinalSelect(c)
                \/ FinalIterate(c) \/ FinalizeBusy(c)
                \/ RefinalizeMisuse(c) \/ RefinalizeCrash(c)
                \/ TStepBegin(c) \/ TStepRefused(c) \/ TStepCommit(c)
                \/ TStepSync(c) \/ TStepRollback(c)
                \/ BeginDone(c) \/ EndDone(c) \/ EndFailed(c)
                \/ CloseDone(c)
  <1>1. CASE UNCHANGED vars
    BY <1>1
  <1>2. CASE Halted
    BY <1>2 DEF Halted
  <1>3. ASSUME NEW c \in Conns, Call(c)
        PROVE  \/ \E o \in Writes, t \in Tokens : StartWrite(c, o, t)
               \/ _select(c) \/ _select_iterate_open(c) \/ _select_iterate(c)
               \/ sorm_select_iterate_close(c)
               \/ \E kind \in Begins : sorm_begin_transaction(c, kind)
               \/ \E kind \in Ends : EndTransaction(c, kind)
               \/ sorm_open(c) \/ sorm_close(c)
    BY <1>3 DEF Call, Writes, Ends, sorm_run_stmt, sorm_create_table,
        sorm_delete_table, sorm_delete_by, sorm_create_index, sorm_drop_index,
        _save, sorm_delete, sorm_update, sorm_commit_transaction,
        sorm_rollback_transaction
  <1>4. ASSUME NEW c \in Conns, StepLock(c) \/ Work(c)
        PROVE  \/ UNCHANGED vars
               \/ PrepareBusy(c) \/ PrepareRead(c) \/ Prepared(c)
               \/ PrepareFailed(c) \/ PrepareAgain(c) \/ StepUndo(c)
               \/ StepLock(c) \/ StepUnlock(c)
               \/ StepBusy(c) \/ StepRow(c) \/ StepEnd(c) \/ StepConstraint(c)
               \/ StepWrite(c) \/ StepFault(c) \/ StepExclusive(c) \/ StepSync(c)
               \/ SelectNext(c) \/ SelectStop(c)
               \/ FinalLeak(c) \/ FinalNoPK(c) \/ FinalWrite(c) \/ FinalSelect(c)
               \/ FinalIterate(c) \/ FinalizeBusy(c)
               \/ RefinalizeMisuse(c) \/ RefinalizeCrash(c)
               \/ TStepBegin(c) \/ TStepRefused(c) \/ TStepCommit(c)
               \/ TStepSync(c) \/ TStepRollback(c)
               \/ BeginDone(c) \/ EndDone(c) \/ EndFailed(c)
               \/ CloseDone(c)
    BY <1>4 DEF Work, CloseAgain
  <1> QED
    BY <1>1, <1>2, <1>3, <1>4 DEF Next
-----------------------------------------------------------------------------
\* _unlock keeps the types of the lock, though it never checks who holds it.
LEMMA UnlockType ==
    ASSUME LockTypeOK, NEW c \in Conns, _unlock(c)
    PROVE  LockTypeOK'
  <1>1. CASE LockMode = "none"
    BY <1>1 DEF _unlock, LockTypeOK, lock
  <1>2. CASE LockMode # "none"
    <2>1. unmatched' \in BOOLEAN
      BY <1>2 DEF _unlock, LockTypeOK
    <2>2. extra' \in [Conns -> Nat]
      BY <1>2 DEF _unlock, LockTypeOK
    <2> QED
      BY <1>2, <2>1, <2>2 DEF _unlock, LockTypeOK
  <1> QED
    BY <1>1, <1>2

\* No step leaves the types.
LEMMA TypeStep ==
    ASSUME TypeOK, CallInv, TxInv, [Next]_vars
    PROVE  TypeOK'
  <1> USE ConstantsAssumption DEF TypeOK, CallTypeOK, ConnTypeOK, LiteTypeOK,
        LockTypeOK, HistTypeOK, vars, call, conn, lite, lock, hist, PCs, OpNames,
        Writes, Begins, Ends, Codes, IterStates, NONE, SHARED, RESERVED, PENDING,
        EXCLUSIVE
  <1>1. ASSUME NEW c \in Conns, NEW o \in Writes, NEW t \in Tokens, StartWrite(c, o, t)
        PROVE TypeOK'
    BY <1>1 DEF StartWrite, Prepare, Enter, AtStep
  <1>2. ASSUME NEW c \in Conns, _select(c) PROVE TypeOK'
    BY <1>2 DEF _select, Prepare, Enter, AtStep
  <1>3. ASSUME NEW c \in Conns, _select_iterate_open(c) PROVE TypeOK'
    BY <1>3 DEF _select_iterate_open, Enter
  <1>4. ASSUME NEW c \in Conns, _select_iterate(c) PROVE TypeOK'
    BY <1>4 DEF _select_iterate, Enter, AtStep
  <1>5. ASSUME NEW c \in Conns, sorm_select_iterate_close(c) PROVE TypeOK'
    BY <1>5 DEF sorm_select_iterate_close, Downgrade, AfterHalt, Reading
  <1>6. ASSUME NEW c \in Conns, NEW kind \in Begins, sorm_begin_transaction(c, kind)
        PROVE TypeOK'
    BY <1>6 DEF sorm_begin_transaction, Enter
  <1>7. ASSUME NEW c \in Conns, NEW kind \in Ends, EndTransaction(c, kind)
        PROVE TypeOK'
    BY <1>7 DEF EndTransaction, Enter
  <1>8. ASSUME NEW c \in Conns, sorm_open(c) PROVE TypeOK'
    BY <1>8 DEF sorm_open
  <1>9. ASSUME NEW c \in Conns, sorm_close(c) PROVE TypeOK'
    BY <1>9 DEF sorm_close
  <1>10. ASSUME NEW c \in Conns, StepLock(c) PROVE TypeOK'
    BY <1>10 DEF StepLock, _lock
  <1>11. ASSUME NEW c \in Conns, StepUnlock(c) PROVE TypeOK'
    <2>1. LockTypeOK'
      BY <1>11, UnlockType DEF StepUnlock
    <2> QED
      BY <1>11, <2>1 DEF StepUnlock, Resume
  <1>12. ASSUME NEW c \in Conns, StepBusy(c) PROVE TypeOK'
    BY <1>12 DEF StepBusy, Stepped, Resume
  <1>13. ASSUME NEW c \in Conns, StepRow(c) PROVE TypeOK'
    BY <1>13 DEF StepRow, Stepped, Resume, AtLeast
  <1>14. ASSUME NEW c \in Conns, StepEnd(c) PROVE TypeOK'
    BY <1>14 DEF StepEnd, Stepped, Resume, AtLeast, Downgrade, AfterHalt, Reading
  <1>15. ASSUME NEW c \in Conns, StepConstraint(c) PROVE TypeOK'
    BY <1>15 DEF StepConstraint, Stepped, Resume, AtLeast, Downgrade, AfterHalt, Reading
  <1>16. ASSUME NEW c \in Conns, StepWrite(c) PROVE TypeOK'
    <2>1. tok[c] \in Tokens
      BY <1>16 DEF StepWrite, CallInv
    <2> QED
      BY <1>16, <2>1 DEF StepWrite, Stepped, Resume, AtLeast
  <1>17. ASSUME NEW c \in Conns, StepFault(c) PROVE TypeOK'
    BY <1>17 DEF StepFault, Stepped, Resume, Downgrade, Reading
  <1>18. ASSUME NEW c \in Conns, StepExclusive(c) PROVE TypeOK'
    BY <1>18 DEF StepExclusive
  <1>19. ASSUME NEW c \in Conns, StepSync(c) PROVE TypeOK'
    <2>1. tok[c] \in Tokens
      BY <1>19 DEF StepSync, CallInv
    <2> QED
      BY <1>19, <2>1 DEF StepSync, Stepped, Resume, Downgrade, AfterHalt, Reading
  <1>20. ASSUME NEW c \in Conns, SelectNext(c) PROVE TypeOK'
    BY <1>20 DEF SelectNext, AtStep
  <1>21. ASSUME NEW c \in Conns, SelectStop(c) PROVE TypeOK'
    BY <1>21 DEF SelectStop
  <1>22. ASSUME NEW c \in Conns, FinalLeak(c) PROVE TypeOK'
    BY <1>22 DEF FinalLeak, Leave
  <1>23. ASSUME NEW c \in Conns, FinalNoPK(c) PROVE TypeOK'
    BY <1>23 DEF FinalNoPK, Leave
  <1>24. ASSUME NEW c \in Conns, FinalWrite(c) PROVE TypeOK'
    <2>1. tok[c] \in Tokens
      BY <1>24 DEF FinalWrite, CallInv
    <2> QED
      BY <1>24, <2>1 DEF FinalWrite, TellStored, Leave
  <1>25. ASSUME NEW c \in Conns, FinalSelect(c) PROVE TypeOK'
    BY <1>25 DEF FinalSelect, Leave, Downgrade, AfterHalt, Reading
  <1>26. ASSUME NEW c \in Conns, FinalIterate(c) PROVE TypeOK'
    BY <1>26 DEF FinalIterate, Leave
  <1>27. ASSUME NEW c \in Conns, FinalizeBusy(c) PROVE TypeOK'
    BY <1>27 DEF FinalizeBusy
  <1>28. ASSUME NEW c \in Conns, RefinalizeMisuse(c) PROVE TypeOK'
    BY <1>28 DEF RefinalizeMisuse, Leave
  <1>29. ASSUME NEW c \in Conns, RefinalizeCrash(c) PROVE TypeOK'
    <2>1. CallTypeOK'
      BY <1>29 DEF RefinalizeCrash, Ended
    <2>2. ConnTypeOK'
      BY <1>29 DEF RefinalizeCrash, Ended
    <2>5. LiteTypeOK'
      <3>1. inTx' = [d \in Conns |-> IF d \in Victims(c) THEN FALSE ELSE inTx[d]]
        BY <1>29 DEF RefinalizeCrash, Ended
      <3>2. inTx' \in [Conns -> BOOLEAN]
        BY <3>1
      <3>3. flk' \in [Conns -> NONE..EXCLUSIVE]
        BY <1>29 DEF RefinalizeCrash, Ended
      <3>4. buf' \in [Conns -> SUBSET Tokens]
        BY <1>29 DEF RefinalizeCrash, Ended
      <3> QED
        BY <3>2, <3>3, <3>4
    <2>3. LockTypeOK'
      BY <1>29 DEF RefinalizeCrash, Ended
    <2>4. HistTypeOK' /\ db' \in SUBSET Tokens
      BY <1>29 DEF RefinalizeCrash, Ended
    <2> QED
      BY <2>1, <2>2, <2>3, <2>4, <2>5
  <1>30. ASSUME NEW c \in Conns, TStepBegin(c) PROVE TypeOK'
    <2>1. CallTypeOK'
      BY <1>30 DEF TStepBegin, TStepped
    <2>2. inTx' \in [Conns -> BOOLEAN]
      BY <1>30 DEF TStepBegin
    <2>3. flk' \in [Conns -> NONE..EXCLUSIVE]
      BY <1>30 DEF TStepBegin, AtLeast
    <2> QED
      BY <1>30, <2>1, <2>2, <2>3 DEF TStepBegin
  <1>31. ASSUME NEW c \in Conns, TStepRefused(c) PROVE TypeOK'
    BY <1>31 DEF TStepRefused, TStepped
  <1>32. ASSUME NEW c \in Conns, TStepCommit(c) PROVE TypeOK'
    <2>1. CallTypeOK'
      BY <1>32 DEF TStepCommit, TStepped
    <2>2. inTx' \in [Conns -> BOOLEAN]
      BY <1>32 DEF TStepCommit
    <2>3. flk' \in [Conns -> NONE..EXCLUSIVE]
      BY <1>32 DEF TStepCommit, AtLeast, Downgrade, Reading
    <2> QED
      BY <1>32, <2>1, <2>2, <2>3 DEF TStepCommit
  <1>33. ASSUME NEW c \in Conns, TStepSync(c) PROVE TypeOK'
    BY <1>33 DEF TStepSync, TStepped, Downgrade, Reading
  <1>34. ASSUME NEW c \in Conns, TStepRollback(c) PROVE TypeOK'
    BY <1>34 DEF TStepRollback, TStepped
  <1>35. ASSUME NEW c \in Conns, BeginDone(c) PROVE TypeOK'
    BY <1>35 DEF BeginDone, Leave
  <1>36. ASSUME NEW c \in Conns, EndDone(c) PROVE TypeOK'
    <2>1. transaction_num[c] = 1
      BY <1>36 DEF EndDone, TxInv, InTransactionCall
    <2>2. LockTypeOK'
      BY <1>36, UnlockType DEF EndDone
    <2>3. ConnTypeOK'
      BY <1>36, <2>1 DEF EndDone
    <2>4. HistTypeOK'
      BY <1>36 DEF EndDone
    <2> QED
      BY <1>36, <2>2, <2>3, <2>4 DEF EndDone, Leave
  <1>37. ASSUME NEW c \in Conns, EndFailed(c) PROVE TypeOK'
    BY <1>37 DEF EndFailed, Leave
  <1>38. ASSUME NEW c \in Conns, CloseDone(c) PROVE TypeOK'
    BY <1>38 DEF CloseDone
  <1>39. CASE UNCHANGED vars
    BY <1>39
  <1>40. ASSUME NEW c \in Conns, PrepareBusy(c) PROVE TypeOK'
    BY <1>40, SMTT(40) DEF PrepareBusy, Leave
  <1>41. ASSUME NEW c \in Conns, PrepareRead(c) PROVE TypeOK'
    BY <1>41 DEF PrepareRead
  <1>42. ASSUME NEW c \in Conns, Prepared(c) PROVE TypeOK'
    <2>1. LiteTypeOK'
      BY <1>42 DEF Prepared, ReadDone, Reading
    <2>2. CallTypeOK'
      BY <1>42, SMTT(40) DEF Prepared, AtStep, Leave
    <2>3. ConnTypeOK'
      BY <1>42 DEF Prepared
    <2> QED
      BY <1>42, <2>1, <2>2, <2>3 DEF Prepared
  <1>43. ASSUME NEW c \in Conns, PrepareFailed(c) PROVE TypeOK'
    BY <1>43 DEF PrepareFailed, ReadDone, Reading, Leave
  <1>44. ASSUME NEW c \in Conns, PrepareAgain(c) PROVE TypeOK'
    BY <1>44 DEF PrepareAgain, ReadDone, Reading
  <1>45. ASSUME NEW c \in Conns, StepUndo(c) PROVE TypeOK'
    BY <1>45 DEF StepUndo, Stepped, Resume, Downgrade, AfterHalt, Reading
  <1> QED
    BY ZenonT(120), StepCases, <1>1, <1>2, <1>3, <1>4, <1>5, <1>6, <1>7, <1>8, <1>9, <1>10,
        <1>11, <1>12, <1>13, <1>14, <1>15, <1>16, <1>17, <1>18, <1>19, <1>20,
        <1>21, <1>22, <1>23, <1>24, <1>25, <1>26, <1>27, <1>28, <1>29, <1>30,
        <1>31, <1>32, <1>33, <1>34, <1>35, <1>36, <1>37, <1>38, <1>39, <1>40,
        <1>41, <1>42, <1>43, <1>44, <1>45

\* No step breaks CallInv.
LEMMA CallStep ==
    ASSUME TypeOK, CallInv, [Next]_vars
    PROVE  CallInv'
  <1> USE DEF CallInv, TypeOK, CallTypeOK, vars, call, Writes, Begins, Ends
  <1>1. ASSUME NEW c \in Conns, NEW o \in Writes, NEW t \in Tokens, StartWrite(c, o, t)
        PROVE CallInv'
    BY <1>1 DEF StartWrite, Prepare, Enter, AtStep
  <1>2. ASSUME NEW c \in Conns, _select(c) PROVE CallInv'
    BY <1>2 DEF _select, Prepare, Enter, AtStep
  <1>3. ASSUME NEW c \in Conns, _select_iterate_open(c) PROVE CallInv'
    BY <1>3 DEF _select_iterate_open, Enter
  <1>4. ASSUME NEW c \in Conns, _select_iterate(c) PROVE CallInv'
    BY <1>4 DEF _select_iterate, Enter, AtStep
  <1>5. ASSUME NEW c \in Conns, sorm_select_iterate_close(c) PROVE CallInv'
    BY <1>5 DEF sorm_select_iterate_close
  <1>6. ASSUME NEW c \in Conns, NEW kind \in Begins, sorm_begin_transaction(c, kind)
        PROVE CallInv'
    BY <1>6 DEF sorm_begin_transaction, Enter
  <1>7. ASSUME NEW c \in Conns, NEW kind \in Ends, EndTransaction(c, kind)
        PROVE CallInv'
    BY <1>7 DEF EndTransaction, Enter
  <1>8. ASSUME NEW c \in Conns, sorm_open(c) PROVE CallInv'
    BY <1>8 DEF sorm_open
  <1>9. ASSUME NEW c \in Conns, sorm_close(c) PROVE CallInv'
    BY <1>9 DEF sorm_close
  <1>10. ASSUME NEW c \in Conns, StepLock(c) PROVE CallInv'
    BY <1>10 DEF StepLock
  <1>11. ASSUME NEW c \in Conns, StepUnlock(c) PROVE CallInv'
    BY <1>11 DEF StepUnlock, Resume
  <1>12. ASSUME NEW c \in Conns, StepBusy(c) PROVE CallInv'
    BY <1>12 DEF StepBusy, Stepped, Resume
  <1>13. ASSUME NEW c \in Conns, StepRow(c) PROVE CallInv'
    BY <1>13 DEF StepRow, Stepped, Resume
  <1>14. ASSUME NEW c \in Conns, StepEnd(c) PROVE CallInv'
    BY <1>14 DEF StepEnd, Stepped, Resume
  <1>15. ASSUME NEW c \in Conns, StepConstraint(c) PROVE CallInv'
    BY <1>15 DEF StepConstraint, Stepped, Resume
  <1>16. ASSUME NEW c \in Conns, StepWrite(c) PROVE CallInv'
    BY <1>16 DEF StepWrite, Stepped, Resume
  <1>17. ASSUME NEW c \in Conns, StepFault(c) PROVE CallInv'
    BY <1>17 DEF StepFault, Stepped, Resume
  <1>18. ASSUME NEW c \in Conns, StepExclusive(c) PROVE CallInv'
    BY <1>18 DEF StepExclusive
  <1>19. ASSUME NEW c \in Conns, StepSync(c) PROVE CallInv'
    BY <1>19 DEF StepSync, Stepped, Resume
  <1>20. ASSUME NEW c \in Conns, SelectNext(c) PROVE CallInv'
    BY <1>20 DEF SelectNext, AtStep
  <1>21. ASSUME NEW c \in Conns, SelectStop(c) PROVE CallInv'
    BY <1>21 DEF SelectStop
  <1>22. ASSUME NEW c \in Conns, FinalLeak(c) PROVE CallInv'
    BY <1>22 DEF FinalLeak, Leave
  <1>23. ASSUME NEW c \in Conns, FinalNoPK(c) PROVE CallInv'
    BY <1>23 DEF FinalNoPK, Leave
  <1>24. ASSUME NEW c \in Conns, FinalWrite(c) PROVE CallInv'
    BY <1>24 DEF FinalWrite, Leave
  <1>25. ASSUME NEW c \in Conns, FinalSelect(c) PROVE CallInv'
    BY <1>25 DEF FinalSelect, Leave
  <1>26. ASSUME NEW c \in Conns, FinalIterate(c) PROVE CallInv'
    BY <1>26 DEF FinalIterate, Leave
  <1>27. ASSUME NEW c \in Conns, FinalizeBusy(c) PROVE CallInv'
    BY <1>27 DEF FinalizeBusy
  <1>28. ASSUME NEW c \in Conns, RefinalizeMisuse(c) PROVE CallInv'
    BY <1>28 DEF RefinalizeMisuse, Leave
  <1>29. ASSUME NEW c \in Conns, RefinalizeCrash(c) PROVE CallInv'
    BY <1>29 DEF RefinalizeCrash, Ended
  <1>30. ASSUME NEW c \in Conns, TStepBegin(c) PROVE CallInv'
    BY <1>30 DEF TStepBegin, TStepped
  <1>31. ASSUME NEW c \in Conns, TStepRefused(c) PROVE CallInv'
    BY <1>31 DEF TStepRefused, TStepped
  <1>32. ASSUME NEW c \in Conns, TStepCommit(c) PROVE CallInv'
    BY <1>32 DEF TStepCommit, TStepped
  <1>33. ASSUME NEW c \in Conns, TStepSync(c) PROVE CallInv'
    BY <1>33 DEF TStepSync, TStepped
  <1>34. ASSUME NEW c \in Conns, TStepRollback(c) PROVE CallInv'
    BY <1>34 DEF TStepRollback, TStepped
  <1>35. ASSUME NEW c \in Conns, BeginDone(c) PROVE CallInv'
    BY <1>35 DEF BeginDone, Leave
  <1>36. ASSUME NEW c \in Conns, EndDone(c) PROVE CallInv'
    BY <1>36 DEF EndDone, Leave
  <1>37. ASSUME NEW c \in Conns, EndFailed(c) PROVE CallInv'
    BY <1>37 DEF EndFailed, Leave
  <1>38. ASSUME NEW c \in Conns, CloseDone(c) PROVE CallInv'
    BY <1>38 DEF CloseDone
  <1>39. CASE UNCHANGED vars
    BY <1>39
  <1>40. ASSUME NEW c \in Conns, PrepareBusy(c) PROVE CallInv'
    BY <1>40 DEF PrepareBusy, Leave
  <1>41. ASSUME NEW c \in Conns, PrepareRead(c) PROVE CallInv'
    BY <1>41 DEF PrepareRead
  <1>42. ASSUME NEW c \in Conns, Prepared(c) PROVE CallInv'
    BY <1>42 DEF Prepared, ReadDone, AtStep, Leave
  <1>43. ASSUME NEW c \in Conns, PrepareFailed(c) PROVE CallInv'
    BY <1>43 DEF PrepareFailed, ReadDone, Leave
  <1>44. ASSUME NEW c \in Conns, PrepareAgain(c) PROVE CallInv'
    BY <1>44 DEF PrepareAgain, ReadDone
  <1>45. ASSUME NEW c \in Conns, StepUndo(c) PROVE CallInv'
    BY <1>45 DEF StepUndo, Stepped, Resume
  <1> QED
    BY StepCases, <1>1, <1>2, <1>3, <1>4, <1>5, <1>6, <1>7, <1>8, <1>9, <1>10,
        <1>11, <1>12, <1>13, <1>14, <1>15, <1>16, <1>17, <1>18, <1>19, <1>20,
        <1>21, <1>22, <1>23, <1>24, <1>25, <1>26, <1>27, <1>28, <1>29, <1>30,
        <1>31, <1>32, <1>33, <1>34, <1>35, <1>36, <1>37, <1>38, <1>39, <1>40,
        <1>41, <1>42, <1>43, <1>44, <1>45

\* No step breaks TxInv.
LEMMA TxStep ==
    ASSUME TypeOK, TxInv, [Next]_vars
    PROVE  TxInv'
  <1> USE DEF TxInv, InTransactionCall, TypeOK, CallTypeOK, ConnTypeOK, LiteTypeOK,
        HistTypeOK, vars, call, conn, lite, hist, Begins, Ends
  <1>1. ASSUME NEW c \in Conns, NEW o \in Writes, NEW t \in Tokens, StartWrite(c, o, t)
        PROVE TxInv'
    BY <1>1 DEF StartWrite, Prepare, Enter, AtStep
  <1>2. ASSUME NEW c \in Conns, _select(c) PROVE TxInv'
    BY <1>2 DEF _select, Prepare, Enter, AtStep
  <1>3. ASSUME NEW c \in Conns, _select_iterate_open(c) PROVE TxInv'
    BY <1>3 DEF _select_iterate_open, Enter
  <1>4. ASSUME NEW c \in Conns, _select_iterate(c) PROVE TxInv'
    BY <1>4 DEF _select_iterate, Enter, AtStep
  <1>5. ASSUME NEW c \in Conns, sorm_select_iterate_close(c) PROVE TxInv'
    BY <1>5 DEF sorm_select_iterate_close
  <1>6. ASSUME NEW c \in Conns, NEW kind \in Begins, sorm_begin_transaction(c, kind)
        PROVE TxInv'
    BY <1>6 DEF sorm_begin_transaction, Enter
  <1>7. ASSUME NEW c \in Conns, NEW kind \in Ends, EndTransaction(c, kind)
        PROVE TxInv'
    BY <1>7 DEF EndTransaction, Enter
  <1>8. ASSUME NEW c \in Conns, sorm_open(c) PROVE TxInv'
    BY <1>8 DEF sorm_open
  <1>9. ASSUME NEW c \in Conns, sorm_close(c) PROVE TxInv'
    BY <1>9 DEF sorm_close
  <1>10. ASSUME NEW c \in Conns, StepLock(c) PROVE TxInv'
    BY <1>10 DEF StepLock
  <1>11. ASSUME NEW c \in Conns, StepUnlock(c) PROVE TxInv'
    BY <1>11 DEF StepUnlock, Resume
  <1>12. ASSUME NEW c \in Conns, StepBusy(c) PROVE TxInv'
    BY <1>12 DEF StepBusy, Stepped, Resume
  <1>13. ASSUME NEW c \in Conns, StepRow(c) PROVE TxInv'
    BY <1>13 DEF StepRow, Stepped, Resume
  <1>14. ASSUME NEW c \in Conns, StepEnd(c) PROVE TxInv'
    BY <1>14 DEF StepEnd, Stepped, Resume
  <1>15. ASSUME NEW c \in Conns, StepConstraint(c) PROVE TxInv'
    BY <1>15 DEF StepConstraint, Stepped, Resume
  <1>16. ASSUME NEW c \in Conns, StepWrite(c) PROVE TxInv'
    BY <1>16 DEF StepWrite, Stepped, Resume
  <1>17. ASSUME NEW c \in Conns, StepFault(c) PROVE TxInv'
    BY <1>17 DEF StepFault, Stepped, Resume
  <1>18. ASSUME NEW c \in Conns, StepExclusive(c) PROVE TxInv'
    BY <1>18 DEF StepExclusive
  <1>19. ASSUME NEW c \in Conns, StepSync(c) PROVE TxInv'
    BY <1>19 DEF StepSync, Stepped, Resume
  <1>20. ASSUME NEW c \in Conns, SelectNext(c) PROVE TxInv'
    BY <1>20 DEF SelectNext, AtStep
  <1>21. ASSUME NEW c \in Conns, SelectStop(c) PROVE TxInv'
    BY <1>21 DEF SelectStop
  <1>22. ASSUME NEW c \in Conns, FinalLeak(c) PROVE TxInv'
    BY <1>22 DEF FinalLeak, Leave
  <1>23. ASSUME NEW c \in Conns, FinalNoPK(c) PROVE TxInv'
    BY <1>23 DEF FinalNoPK, Leave
  <1>24. ASSUME NEW c \in Conns, FinalWrite(c) PROVE TxInv'
    BY <1>24 DEF FinalWrite, Leave
  <1>25. ASSUME NEW c \in Conns, FinalSelect(c) PROVE TxInv'
    BY <1>25 DEF FinalSelect, Leave
  <1>26. ASSUME NEW c \in Conns, FinalIterate(c) PROVE TxInv'
    BY <1>26 DEF FinalIterate, Leave
  <1>27. ASSUME NEW c \in Conns, FinalizeBusy(c) PROVE TxInv'
    BY <1>27 DEF FinalizeBusy
  <1>28. ASSUME NEW c \in Conns, RefinalizeMisuse(c) PROVE TxInv'
    BY <1>28 DEF RefinalizeMisuse, Leave
  <1>29. ASSUME NEW c \in Conns, RefinalizeCrash(c) PROVE TxInv'
    BY <1>29 DEF RefinalizeCrash, Ended
  <1>30. ASSUME NEW c \in Conns, TStepBegin(c) PROVE TxInv'
    BY <1>30 DEF TStepBegin, TStepped
  <1>31. ASSUME NEW c \in Conns, TStepRefused(c) PROVE TxInv'
    BY <1>31 DEF TStepRefused, TStepped
  <1>32. ASSUME NEW c \in Conns, TStepCommit(c) PROVE TxInv'
    BY <1>32 DEF TStepCommit, TStepped
  <1>33. ASSUME NEW c \in Conns, TStepSync(c) PROVE TxInv'
    BY <1>33 DEF TStepSync, TStepped
  <1>34. ASSUME NEW c \in Conns, TStepRollback(c) PROVE TxInv'
    BY <1>34 DEF TStepRollback, TStepped
  <1>35. ASSUME NEW c \in Conns, BeginDone(c) PROVE TxInv'
    BY <1>35 DEF BeginDone, Leave
  <1>36. ASSUME NEW c \in Conns, EndDone(c) PROVE TxInv'
    <2>1. /\ op[c] \in Ends /\ transaction_num[c] = 1
          /\ faulted[c] \/ ~inTx[c]
      BY <1>36 DEF EndDone
    <2>2. ~faulted[c]
      BY <2>1, <1>36 DEF EndDone
    <2>3. transaction_num' = [transaction_num EXCEPT ![c] = 0]
      BY <1>36, <2>1 DEF EndDone
    <2> QED
      BY <1>36, <2>1, <2>2, <2>3 DEF EndDone, Leave
  <1>37. ASSUME NEW c \in Conns, EndFailed(c) PROVE TxInv'
    BY <1>37 DEF EndFailed, Leave
  <1>38. ASSUME NEW c \in Conns, CloseDone(c) PROVE TxInv'
    BY <1>38 DEF CloseDone
  <1>39. CASE UNCHANGED vars
    BY <1>39
  <1>40. ASSUME NEW c \in Conns, PrepareBusy(c) PROVE TxInv'
    BY <1>40 DEF PrepareBusy, Leave
  <1>41. ASSUME NEW c \in Conns, PrepareRead(c) PROVE TxInv'
    BY <1>41 DEF PrepareRead
  <1>42. ASSUME NEW c \in Conns, Prepared(c) PROVE TxInv'
    BY <1>42 DEF Prepared, ReadDone, AtStep, Leave
  <1>43. ASSUME NEW c \in Conns, PrepareFailed(c) PROVE TxInv'
    BY <1>43 DEF PrepareFailed, ReadDone, Leave
  <1>44. ASSUME NEW c \in Conns, PrepareAgain(c) PROVE TxInv'
    BY <1>44 DEF PrepareAgain, ReadDone
  <1>45. ASSUME NEW c \in Conns, StepUndo(c) PROVE TxInv'
    BY <1>45 DEF StepUndo, Stepped, Resume
  <1> QED
    BY StepCases, <1>1, <1>2, <1>3, <1>4, <1>5, <1>6, <1>7, <1>8, <1>9, <1>10,
        <1>11, <1>12, <1>13, <1>14, <1>15, <1>16, <1>17, <1>18, <1>19, <1>20,
        <1>21, <1>22, <1>23, <1>24, <1>25, <1>26, <1>27, <1>28, <1>29, <1>30,
        <1>31, <1>32, <1>33, <1>34, <1>35, <1>36, <1>37, <1>38, <1>39, <1>40,
        <1>41, <1>42, <1>43, <1>44, <1>45

\* No step breaks LockInv.
LEMMA LockStep ==
    ASSUME TypeOK, LockInv, TxInv, [Next]_vars
    PROVE  LockInv'
  <1> USE ConstantsAssumption DEF LockInv, LockExcludes, TypeOK, CallTypeOK, ConnTypeOK,
        LockTypeOK, vars, call, conn, lock
  <1>1. ASSUME NEW c \in Conns, NEW o \in Writes, NEW t \in Tokens, StartWrite(c, o, t)
        PROVE LockInv'
    BY <1>1 DEF StartWrite, Prepare, Enter, AtStep
  <1>2. ASSUME NEW c \in Conns, _select(c) PROVE LockInv'
    BY <1>2 DEF _select, Prepare, Enter, AtStep
  <1>3. ASSUME NEW c \in Conns, _select_iterate_open(c) PROVE LockInv'
    BY <1>3 DEF _select_iterate_open, Enter
  <1>4. ASSUME NEW c \in Conns, _select_iterate(c) PROVE LockInv'
    BY <1>4 DEF _select_iterate, Enter, AtStep
  <1>5. ASSUME NEW c \in Conns, sorm_select_iterate_close(c) PROVE LockInv'
    BY <1>5 DEF sorm_select_iterate_close
  <1>6. ASSUME NEW c \in Conns, NEW kind \in Begins, sorm_begin_transaction(c, kind)
        PROVE LockInv'
    BY <1>6 DEF sorm_begin_transaction, Enter
  <1>7. ASSUME NEW c \in Conns, NEW kind \in Ends, EndTransaction(c, kind)
        PROVE LockInv'
    BY <1>7 DEF EndTransaction, Enter
  <1>8. ASSUME NEW c \in Conns, sorm_open(c) PROVE LockInv'
    BY <1>8 DEF sorm_open
  <1>9. ASSUME NEW c \in Conns, sorm_close(c) PROVE LockInv'
    BY <1>9 DEF sorm_close
  <1>10. ASSUME NEW c \in Conns, StepLock(c) PROVE LockInv'
    <2>1. CASE LockMode = "semaphore"
      <3>1. wheld' = wheld \cup {c} /\ rheld' = {} /\ avail' = avail - 1
        BY <1>10, <2>1 DEF StepLock, _lock
      <3>2. ~unmatched => wheld = {} /\ avail' = 0
        BY <1>10, <2>1 DEF StepLock, _lock
      <3> QED
        BY <1>10, <2>1, <3>1, <3>2 DEF StepLock, _lock
    <2>2. CASE LockMode = "rwlock"
      BY <1>10, <2>2 DEF StepLock, _lock, Free, Mode
    <2>3. CASE LockMode = "none"
      BY <1>10, <2>3 DEF StepLock, _lock
    <2> QED
      BY <2>1, <2>2, <2>3
  <1>11. ASSUME NEW c \in Conns, StepUnlock(c) PROVE LockInv'
    BY <1>11 DEF StepUnlock, _unlock, Resume
  <1>12. ASSUME NEW c \in Conns, StepBusy(c) PROVE LockInv'
    BY <1>12 DEF StepBusy, Stepped, Resume
  <1>13. ASSUME NEW c \in Conns, StepRow(c) PROVE LockInv'
    BY <1>13 DEF StepRow, Stepped, Resume
  <1>14. ASSUME NEW c \in Conns, StepEnd(c) PROVE LockInv'
    BY <1>14 DEF StepEnd, Stepped, Resume
  <1>15. ASSUME NEW c \in Conns, StepConstraint(c) PROVE LockInv'
    BY <1>15 DEF StepConstraint, Stepped, Resume
  <1>16. ASSUME NEW c \in Conns, StepWrite(c) PROVE LockInv'
    BY <1>16 DEF StepWrite, Stepped, Resume
  <1>17. ASSUME NEW c \in Conns, StepFault(c) PROVE LockInv'
    BY <1>17 DEF StepFault, Stepped, Resume
  <1>18. ASSUME NEW c \in Conns, StepExclusive(c) PROVE LockInv'
    BY <1>18 DEF StepExclusive
  <1>19. ASSUME NEW c \in Conns, StepSync(c) PROVE LockInv'
    BY <1>19 DEF StepSync, Stepped, Resume
  <1>20. ASSUME NEW c \in Conns, SelectNext(c) PROVE LockInv'
    BY <1>20 DEF SelectNext, AtStep
  <1>21. ASSUME NEW c \in Conns, SelectStop(c) PROVE LockInv'
    BY <1>21 DEF SelectStop
  <1>22. ASSUME NEW c \in Conns, FinalLeak(c) PROVE LockInv'
    BY <1>22 DEF FinalLeak, Leave
  <1>23. ASSUME NEW c \in Conns, FinalNoPK(c) PROVE LockInv'
    BY <1>23 DEF FinalNoPK, Leave
  <1>24. ASSUME NEW c \in Conns, FinalWrite(c) PROVE LockInv'
    BY <1>24 DEF FinalWrite, TellStored, Leave
  <1>25. ASSUME NEW c \in Conns, FinalSelect(c) PROVE LockInv'
    BY <1>25 DEF FinalSelect, Leave
  <1>26. ASSUME NEW c \in Conns, FinalIterate(c) PROVE LockInv'
    BY <1>26 DEF FinalIterate, Leave
  <1>27. ASSUME NEW c \in Conns, FinalizeBusy(c) PROVE LockInv'
    BY <1>27 DEF FinalizeBusy
  <1>28. ASSUME NEW c \in Conns, RefinalizeMisuse(c) PROVE LockInv'
    BY <1>28 DEF RefinalizeMisuse, Leave
  <1>29. ASSUME NEW c \in Conns, RefinalizeCrash(c) PROVE LockInv'
    BY <1>29 DEF RefinalizeCrash, Ended, Victims
  <1>30. ASSUME NEW c \in Conns, TStepBegin(c) PROVE LockInv'
    BY <1>30 DEF TStepBegin, TStepped
  <1>31. ASSUME NEW c \in Conns, TStepRefused(c) PROVE LockInv'
    BY <1>31 DEF TStepRefused, TStepped
  <1>32. ASSUME NEW c \in Conns, TStepCommit(c) PROVE LockInv'
    BY <1>32 DEF TStepCommit, TStepped
  <1>33. ASSUME NEW c \in Conns, TStepSync(c) PROVE LockInv'
    BY <1>33 DEF TStepSync, TStepped
  <1>34. ASSUME NEW c \in Conns, TStepRollback(c) PROVE LockInv'
    BY <1>34 DEF TStepRollback, TStepped
  <1>35. ASSUME NEW c \in Conns, BeginDone(c) PROVE LockInv'
    BY <1>35 DEF BeginDone, Leave
  <1>36. ASSUME NEW c \in Conns, EndDone(c) PROVE LockInv'
    BY <1>36 DEF EndDone, _unlock, Leave
  <1>37. ASSUME NEW c \in Conns, EndFailed(c) PROVE LockInv'
    BY <1>37 DEF EndFailed, Leave
  <1>38. ASSUME NEW c \in Conns, CloseDone(c) PROVE LockInv'
    BY <1>38 DEF CloseDone
  <1>39. CASE UNCHANGED vars
    BY <1>39
  <1>40. ASSUME NEW c \in Conns, PrepareBusy(c) PROVE LockInv'
    BY <1>40 DEF PrepareBusy, Leave
  <1>41. ASSUME NEW c \in Conns, PrepareRead(c) PROVE LockInv'
    BY <1>41 DEF PrepareRead
  <1>42. ASSUME NEW c \in Conns, Prepared(c) PROVE LockInv'
    BY <1>42 DEF Prepared, ReadDone, AtStep, Leave
  <1>43. ASSUME NEW c \in Conns, PrepareFailed(c) PROVE LockInv'
    BY <1>43 DEF PrepareFailed, ReadDone, Leave
  <1>44. ASSUME NEW c \in Conns, PrepareAgain(c) PROVE LockInv'
    BY <1>44 DEF PrepareAgain, ReadDone
  <1>45. ASSUME NEW c \in Conns, StepUndo(c) PROVE LockInv'
    BY <1>45 DEF StepUndo, Stepped, Resume
  <1> QED
    BY StepCases, <1>1, <1>2, <1>3, <1>4, <1>5, <1>6, <1>7, <1>8, <1>9, <1>10,
        <1>11, <1>12, <1>13, <1>14, <1>15, <1>16, <1>17, <1>18, <1>19, <1>20,
        <1>21, <1>22, <1>23, <1>24, <1>25, <1>26, <1>27, <1>28, <1>29, <1>30,
        <1>31, <1>32, <1>33, <1>34, <1>35, <1>36, <1>37, <1>38, <1>39, <1>40,
        <1>41, <1>42, <1>43, <1>44, <1>45

\* No step breaks ReservedInv.
LEMMA ReservedStep ==
    ASSUME TypeOK, TxInv, ReservedInv, [Next]_vars
    PROVE  ReservedInv'
  <1> USE DEF ReservedInv, Reading, TypeOK, CallTypeOK, ConnTypeOK, LiteTypeOK,
        vars, call, conn, lite, Writes, Begins, Ends, NONE, SHARED, RESERVED,
        PENDING, EXCLUSIVE
  <1>1. ASSUME NEW c \in Conns, NEW o \in Writes, NEW t \in Tokens, StartWrite(c, o, t)
        PROVE ReservedInv'
    BY <1>1 DEF StartWrite, Prepare, Enter, AtStep
  <1>2. ASSUME NEW c \in Conns, _select(c) PROVE ReservedInv'
    BY <1>2 DEF _select, Prepare, Enter, AtStep
  <1>3. ASSUME NEW c \in Conns, _select_iterate_open(c) PROVE ReservedInv'
    BY <1>3 DEF _select_iterate_open, Enter
  <1>4. ASSUME NEW c \in Conns, _select_iterate(c) PROVE ReservedInv'
    BY <1>4 DEF _select_iterate, Enter, AtStep
  <1>5. ASSUME NEW c \in Conns, sorm_select_iterate_close(c) PROVE ReservedInv'
    BY <1>5 DEF sorm_select_iterate_close, AfterHalt, Downgrade
  <1>6. ASSUME NEW c \in Conns, NEW kind \in Begins, sorm_begin_transaction(c, kind)
        PROVE ReservedInv'
    BY <1>6 DEF sorm_begin_transaction, Enter
  <1>7. ASSUME NEW c \in Conns, NEW kind \in Ends, EndTransaction(c, kind)
        PROVE ReservedInv'
    BY <1>7 DEF EndTransaction, Enter
  <1>8. ASSUME NEW c \in Conns, sorm_open(c) PROVE ReservedInv'
    BY <1>8 DEF sorm_open
  <1>9. ASSUME NEW c \in Conns, sorm_close(c) PROVE ReservedInv'
    BY <1>9 DEF sorm_close
  <1>10. ASSUME NEW c \in Conns, StepLock(c) PROVE ReservedInv'
    BY <1>10 DEF StepLock
  <1>11. ASSUME NEW c \in Conns, StepUnlock(c) PROVE ReservedInv'
    BY <1>11 DEF StepUnlock, Resume
  <1>12. ASSUME NEW c \in Conns, StepBusy(c) PROVE ReservedInv'
    BY <1>12 DEF StepBusy, Stepped, Resume
  <1>13. ASSUME NEW c \in Conns, StepRow(c) PROVE ReservedInv'
    BY <1>13 DEF StepRow, Stepped, Resume, AtLeast
  <1>14. ASSUME NEW c \in Conns, StepEnd(c) PROVE ReservedInv'
    BY <1>14 DEF StepEnd, Stepped, Resume, AtLeast, Downgrade, AfterHalt
  <1>15. ASSUME NEW c \in Conns, StepConstraint(c) PROVE ReservedInv'
    BY <1>15 DEF StepConstraint, Stepped, Resume, AtLeast, Downgrade, AfterHalt
  <1>16. ASSUME NEW c \in Conns, StepWrite(c) PROVE ReservedInv'
    BY <1>16 DEF StepWrite, Stepped, Resume, AtLeast
  <1>17. ASSUME NEW c \in Conns, StepFault(c) PROVE ReservedInv'
    BY <1>17 DEF StepFault, Stepped, Resume, Downgrade
  <1>18. ASSUME NEW c \in Conns, StepExclusive(c) PROVE ReservedInv'
    BY <1>18 DEF StepExclusive
  <1>19. ASSUME NEW c \in Conns, StepSync(c) PROVE ReservedInv'
    BY <1>19 DEF StepSync, Stepped, Resume, Downgrade, AfterHalt
  <1>20. ASSUME NEW c \in Conns, SelectNext(c) PROVE ReservedInv'
    BY <1>20 DEF SelectNext, AtStep
  <1>21. ASSUME NEW c \in Conns, SelectStop(c) PROVE ReservedInv'
    BY <1>21 DEF SelectStop
  <1>22. ASSUME NEW c \in Conns, FinalLeak(c) PROVE ReservedInv'
    BY <1>22 DEF FinalLeak, Leave
  <1>23. ASSUME NEW c \in Conns, FinalNoPK(c) PROVE ReservedInv'
    BY <1>23 DEF FinalNoPK, Leave
  <1>24. ASSUME NEW c \in Conns, FinalWrite(c) PROVE ReservedInv'
    BY <1>24 DEF FinalWrite, Leave
  <1>25. ASSUME NEW c \in Conns, FinalSelect(c) PROVE ReservedInv'
    BY <1>25 DEF FinalSelect, Leave, Downgrade, AfterHalt
  <1>26. ASSUME NEW c \in Conns, FinalIterate(c) PROVE ReservedInv'
    BY <1>26 DEF FinalIterate, Leave
  <1>27. ASSUME NEW c \in Conns, FinalizeBusy(c) PROVE ReservedInv'
    BY <1>27 DEF FinalizeBusy
  <1>28. ASSUME NEW c \in Conns, RefinalizeMisuse(c) PROVE ReservedInv'
    BY <1>28 DEF RefinalizeMisuse, Leave
  <1>29. ASSUME NEW c \in Conns, RefinalizeCrash(c) PROVE ReservedInv'
    BY <1>29 DEF RefinalizeCrash, Ended
  <1>30. ASSUME NEW c \in Conns, TStepBegin(c) PROVE ReservedInv'
    BY <1>30 DEF TStepBegin, TStepped, AtLeast
  <1>31. ASSUME NEW c \in Conns, TStepRefused(c) PROVE ReservedInv'
    BY <1>31 DEF TStepRefused, TStepped
  <1>32. ASSUME NEW c \in Conns, TStepCommit(c) PROVE ReservedInv'
    BY <1>32 DEF TStepCommit, TStepped, AtLeast
  <1>33. ASSUME NEW c \in Conns, TStepSync(c) PROVE ReservedInv'
    BY <1>33 DEF TStepSync, TStepped
  <1>34. ASSUME NEW c \in Conns, TStepRollback(c) PROVE ReservedInv'
    BY <1>34 DEF TStepRollback, TStepped
  <1>35. ASSUME NEW c \in Conns, BeginDone(c) PROVE ReservedInv'
    BY <1>35 DEF BeginDone, Leave
  <1>36. ASSUME NEW c \in Conns, EndDone(c) PROVE ReservedInv'
    BY <1>36 DEF EndDone, Leave
  <1>37. ASSUME NEW c \in Conns, EndFailed(c) PROVE ReservedInv'
    BY <1>37 DEF EndFailed, Leave
  <1>38. ASSUME NEW c \in Conns, CloseDone(c) PROVE ReservedInv'
    BY <1>38 DEF CloseDone
  <1>39. CASE UNCHANGED vars
    BY <1>39
  <1>40. ASSUME NEW c \in Conns, PrepareBusy(c) PROVE ReservedInv'
    BY <1>40 DEF PrepareBusy, Leave
  <1>41. ASSUME NEW c \in Conns, PrepareRead(c) PROVE ReservedInv'
    BY <1>41 DEF PrepareRead
  <1>42. ASSUME NEW c \in Conns, Prepared(c) PROVE ReservedInv'
    BY <1>42 DEF Prepared, ReadDone, AtStep, Leave
  <1>43. ASSUME NEW c \in Conns, PrepareFailed(c) PROVE ReservedInv'
    BY <1>43 DEF PrepareFailed, ReadDone, Leave
  <1>44. ASSUME NEW c \in Conns, PrepareAgain(c) PROVE ReservedInv'
    BY <1>44 DEF PrepareAgain, ReadDone
  <1>45. ASSUME NEW c \in Conns, StepUndo(c) PROVE ReservedInv'
    BY <1>45 DEF StepUndo, Stepped, Resume, Downgrade, AfterHalt
  <1> QED
    BY ZenonT(120), StepCases, <1>1, <1>2, <1>3, <1>4, <1>5, <1>6, <1>7, <1>8, <1>9, <1>10,
        <1>11, <1>12, <1>13, <1>14, <1>15, <1>16, <1>17, <1>18, <1>19, <1>20,
        <1>21, <1>22, <1>23, <1>24, <1>25, <1>26, <1>27, <1>28, <1>29, <1>30,
        <1>31, <1>32, <1>33, <1>34, <1>35, <1>36, <1>37, <1>38, <1>39, <1>40,
        <1>41, <1>42, <1>43, <1>44, <1>45

\* No step breaks StoredInv, if no call loses an unfinished statement.
LEMMA StoredStep ==
    ASSUME "leaky" \notin Ops, TypeOK, CallInv, TxInv, ReservedInv, StoredInv,
           [Next]_vars
    PROVE  StoredInv'
  <1> USE DEF StoredInv, SqliteEnded, Stored, TypeOK, CallTypeOK, ConnTypeOK,
        LiteTypeOK, HistTypeOK, vars, call, conn, lite, hist, Writes, Begins, Ends
  <1>1. ASSUME NEW c \in Conns, NEW o \in Writes, NEW t \in Tokens, StartWrite(c, o, t)
        PROVE StoredInv'
    BY <1>1 DEF StartWrite, Family, Prepare, Enter, AtStep
  <1>2. ASSUME NEW c \in Conns, _select(c) PROVE StoredInv'
    BY <1>2 DEF _select, Prepare, Enter, AtStep
  <1>3. ASSUME NEW c \in Conns, _select_iterate_open(c) PROVE StoredInv'
    BY <1>3 DEF _select_iterate_open, Enter
  <1>4. ASSUME NEW c \in Conns, _select_iterate(c) PROVE StoredInv'
    BY <1>4 DEF _select_iterate, Enter, AtStep
  <1>5. ASSUME NEW c \in Conns, sorm_select_iterate_close(c) PROVE StoredInv'
    BY <1>5 DEF sorm_select_iterate_close
  <1>6. ASSUME NEW c \in Conns, NEW kind \in Begins, sorm_begin_transaction(c, kind)
        PROVE StoredInv'
    BY <1>6 DEF sorm_begin_transaction, Enter
  <1>7. ASSUME NEW c \in Conns, NEW kind \in Ends, EndTransaction(c, kind)
        PROVE StoredInv'
    BY <1>7 DEF EndTransaction, Enter
  <1>8. ASSUME NEW c \in Conns, sorm_open(c) PROVE StoredInv'
    BY <1>8 DEF sorm_open
  <1>9. ASSUME NEW c \in Conns, sorm_close(c) PROVE StoredInv'
    BY <1>9 DEF sorm_close
  <1>10. ASSUME NEW c \in Conns, StepLock(c) PROVE StoredInv'
    BY <1>10 DEF StepLock
  <1>11. ASSUME NEW c \in Conns, StepUnlock(c) PROVE StoredInv'
    BY <1>11 DEF StepUnlock, Resume
  <1>12. ASSUME NEW c \in Conns, StepBusy(c) PROVE StoredInv'
    BY <1>12 DEF StepBusy, Stepped, Resume
  <1>13. ASSUME NEW c \in Conns, StepRow(c) PROVE StoredInv'
    BY <1>13 DEF StepRow, Stepped, Resume
  <1>14. ASSUME NEW c \in Conns, StepEnd(c) PROVE StoredInv'
    BY <1>14 DEF StepEnd, Stepped, Resume
  <1>15. ASSUME NEW c \in Conns, StepConstraint(c) PROVE StoredInv'
    BY <1>15 DEF StepConstraint, Stepped, Resume
  <1>16. ASSUME NEW c \in Conns, StepWrite(c) PROVE StoredInv'
    BY <1>16 DEF StepWrite, Stepped, Resume, TxInv
  <1>17. ASSUME NEW c \in Conns, StepFault(c) PROVE StoredInv'
    BY <1>17 DEF StepFault, Stepped, Resume
  <1>18. ASSUME NEW c \in Conns, StepExclusive(c) PROVE StoredInv'
    BY <1>18 DEF StepExclusive
  <1>19. ASSUME NEW c \in Conns, StepSync(c) PROVE StoredInv'
    BY <1>19 DEF StepSync, Stepped, Resume
  <1>20. ASSUME NEW c \in Conns, SelectNext(c) PROVE StoredInv'
    BY <1>20 DEF SelectNext, AtStep
  <1>21. ASSUME NEW c \in Conns, SelectStop(c) PROVE StoredInv'
    BY <1>21 DEF SelectStop, CallInv
  <1>22. ASSUME NEW c \in Conns, FinalLeak(c) PROVE StoredInv'
    BY <1>22 DEF FinalLeak, Leave
  <1>23. ASSUME NEW c \in Conns, FinalNoPK(c) PROVE StoredInv'
    BY <1>23 DEF FinalNoPK, Leave
  <1>24. ASSUME NEW c \in Conns, FinalWrite(c) PROVE StoredInv'
    BY <1>24 DEF FinalWrite, TellStored, Leave
  <1>25. ASSUME NEW c \in Conns, FinalSelect(c) PROVE StoredInv'
    BY <1>25 DEF FinalSelect, Leave
  <1>26. ASSUME NEW c \in Conns, FinalIterate(c) PROVE StoredInv'
    BY <1>26 DEF FinalIterate, Leave
  <1>27. ASSUME NEW c \in Conns, FinalizeBusy(c) PROVE StoredInv'
    BY <1>27 DEF FinalizeBusy
  <1>28. ASSUME NEW c \in Conns, RefinalizeMisuse(c) PROVE StoredInv'
    BY <1>28 DEF RefinalizeMisuse, Leave
  <1>29. ASSUME NEW c \in Conns, RefinalizeCrash(c) PROVE StoredInv'
    BY <1>29 DEF RefinalizeCrash, Ended
  <1>30. ASSUME NEW c \in Conns, TStepBegin(c) PROVE StoredInv'
    BY <1>30 DEF TStepBegin, TStepped, TxInv, InTransactionCall
  <1>31. ASSUME NEW c \in Conns, TStepRefused(c) PROVE StoredInv'
    BY <1>31 DEF TStepRefused, TStepped
  <1>32. ASSUME NEW c \in Conns, TStepCommit(c) PROVE StoredInv'
    <2>1. CASE TStepped(c, "DONE")
      <3>1. flk[c] < RESERVED /\ stuck[c] = 0 /\ flk[c] \in Int
        BY <1>32, <2>1 DEF TStepCommit, TStepped, NONE, EXCLUSIVE
      <3>2. buf[c] = {}
        BY <3>1 DEF ReservedInv, RESERVED
      <3>3. told[c] \subseteq db
        BY <1>32, <3>2 DEF TStepCommit
      <3> QED
        BY <1>32, <2>1, <3>3 DEF TStepCommit, TStepped
    <2>2. CASE ~TStepped(c, "DONE")
      BY <1>32, <2>2 DEF TStepCommit, TStepped
    <2> QED
      BY <2>1, <2>2
  <1>33. ASSUME NEW c \in Conns, TStepSync(c) PROVE StoredInv'
    BY <1>33 DEF TStepSync, TStepped, TxInv
  <1>34. ASSUME NEW c \in Conns, TStepRollback(c) PROVE StoredInv'
    BY <1>34 DEF TStepRollback, TStepped
  <1>35. ASSUME NEW c \in Conns, BeginDone(c) PROVE StoredInv'
    BY <1>35 DEF BeginDone, Leave
  <1>36. ASSUME NEW c \in Conns, EndDone(c) PROVE StoredInv'
    BY <1>36 DEF EndDone, Leave, TxInv, InTransactionCall
  <1>37. ASSUME NEW c \in Conns, EndFailed(c) PROVE StoredInv'
    BY <1>37 DEF EndFailed, Leave
  <1>38. ASSUME NEW c \in Conns, CloseDone(c) PROVE StoredInv'
    BY <1>38 DEF CloseDone
  <1>39. CASE UNCHANGED vars
    BY <1>39
  <1>40. ASSUME NEW c \in Conns, PrepareBusy(c) PROVE StoredInv'
    BY <1>40 DEF PrepareBusy, Leave
  <1>41. ASSUME NEW c \in Conns, PrepareRead(c) PROVE StoredInv'
    BY <1>41 DEF PrepareRead
  <1>42. ASSUME NEW c \in Conns, Prepared(c) PROVE StoredInv'
    BY <1>42 DEF Prepared, ReadDone, AtStep, Leave
  <1>43. ASSUME NEW c \in Conns, PrepareFailed(c) PROVE StoredInv'
    BY <1>43 DEF PrepareFailed, ReadDone, Leave
  <1>44. ASSUME NEW c \in Conns, PrepareAgain(c) PROVE StoredInv'
    BY <1>44 DEF PrepareAgain, ReadDone
  <1>45. ASSUME NEW c \in Conns, StepUndo(c) PROVE StoredInv'
    BY <1>45 DEF StepUndo, Stepped, Resume
  <1> QED
    BY ZenonT(120), StepCases, <1>1, <1>2, <1>3, <1>4, <1>5, <1>6, <1>7, <1>8, <1>9, <1>10,
        <1>11, <1>12, <1>13, <1>14, <1>15, <1>16, <1>17, <1>18, <1>19, <1>20,
        <1>21, <1>22, <1>23, <1>24, <1>25, <1>26, <1>27, <1>28, <1>29, <1>30,
        <1>31, <1>32, <1>33, <1>34, <1>35, <1>36, <1>37, <1>38, <1>39, <1>40,
        <1>41, <1>42, <1>43, <1>44, <1>45

-----------------------------------------------------------------------------
\* The part of the induction that needs no assumption about the calls.
LEMMA CoreInvariant == Spec => [](TypeOK /\ CallInv /\ TxInv)
  <1>1. Init => TypeOK
    <2> SUFFICES ASSUME Init PROVE TypeOK
      OBVIOUS
    <2>1. CallTypeOK
      BY ConstantsAssumption DEF Init, CallTypeOK, PCs, OpNames, Codes
    <2>2. ConnTypeOK
      BY DEF Init, ConnTypeOK, IterStates
    <2>3. LiteTypeOK
      BY DEF Init, LiteTypeOK, NONE, EXCLUSIVE
    <2>4. LockTypeOK /\ HistTypeOK /\ db \in SUBSET Tokens
      BY DEF Init, LockTypeOK, HistTypeOK
    <2> QED
      BY <2>1, <2>2, <2>3, <2>4 DEF TypeOK
  <1>2. Init => CallInv /\ TxInv
    BY DEF Init, CallInv, TxInv, InTransactionCall, Writes, Begins, Ends
  <1>3. TypeOK /\ CallInv /\ TxInv /\ [Next]_vars => (TypeOK /\ CallInv /\ TxInv)'
    BY TypeStep, CallStep, TxStep
  <1> QED
    BY <1>1, <1>2, <1>3, PTL DEF Spec

\* Writes of a transaction are under a RESERVED lock in every behaviour.
LEMMA ReservedInvariant == Spec => []ReservedInv
  <1>1. Init => ReservedInv
    BY DEF Init, ReservedInv
  <1>2. TypeOK /\ TxInv /\ ReservedInv /\ [Next]_vars => ReservedInv'
    BY ReservedStep
  <1> QED
    BY <1>1, <1>2, CoreInvariant, PTL DEF Spec

\* Type correctness: in particular no sequence of begins, commits and rollbacks,
\* failed, refused or nested, makes transaction_num negative.
THEOREM TypeCorrect == Spec => []TypeOK
  BY CoreInvariant, PTL

\* The nesting counter of sorm and SQLite's transaction agree between calls, in
\* every lock mode and at every depth, whatever calls failed in between.
THEOREM TransactionsAgree == Spec => []TransactionAgrees
  <1>1. TxInv => TransactionAgrees
    BY DEF TxInv, TransactionAgrees
  <1> QED
    BY <1>1, CoreInvariant, PTL

\* The lock of sorm excludes as long as no transaction has ended: the first
\* _unlock without a _lock is the only thing that can break it.
THEOREM LockExclusive == Spec => []LockExcludes
  <1>1. Init => LockInv
    BY DEF Init, LockInv, LockExcludes
  <1>2. TypeOK /\ TxInv /\ LockInv /\ [Next]_vars => LockInv'
    BY LockStep
  <1>3. LockInv => LockExcludes
    BY DEF LockInv
  <1> QED
    BY <1>1, <1>2, <1>3, CoreInvariant, PTL DEF Spec

\* Where sorm_delete and sorm_update, which lose unfinished statements, are not
\* called, what a caller was told is stored is stored: after any interleaving,
\* refused commits, faults that make SQLite roll back, crashes and closes.
THEOREM WritesStored ==
    ASSUME "leaky" \notin Ops
    PROVE  Spec => []Stored
  <1>1. Init => StoredInv
    BY DEF Init, StoredInv, Stored, SqliteEnded, Writes, Ends
  <1>2. TypeOK /\ CallInv /\ TxInv /\ ReservedInv /\ StoredInv /\ [Next]_vars
            => StoredInv'
    BY StoredStep
  <1>3. StoredInv => Stored
    BY DEF StoredInv
  <1> QED
    BY <1>1, <1>2, <1>3, CoreInvariant, ReservedInvariant, PTL DEF Spec

-----------------------------------------------------------------------------
(* The data and the locks on the file.                                     *)

(***************************************************************************)
(* A token has one owner.  Isolated and RolledBack say that tokens of some *)
(* connections are not in db; db grows by what another connection's        *)
(* transaction holds (buf) or by what its statement writes (tok), so the   *)
(* tokens of two connections, and those already rolled back, must be kept  *)
(* apart from the moment a call names them.                                *)
(***************************************************************************)
TokensApart ==
    \A c \in Conns :
        /\ op[c] \in Writes \/ tok[c] = NoToken
        /\ tok[c] \notin told[c] \cup undone
        /\ undone \cap (buf[c] \cup told[c]) = {}
        /\ \A d \in Conns \ {c} :
              /\ (buf[c] \cup told[c]) \cap (buf[d] \cup told[d]) = {}
              /\ tok[c] \notin buf[d] \cup told[d]
              /\ tok[c] = tok[d] => tok[c] = NoToken

CommitEnded(c) == SqliteEnded(c) /\ op[c] = "commit"

\* What is hidden of a transaction: everything the caller was told in it, and
\* the token of the call in progress, until SQLite has committed.
Hidden ==
    \A c \in Conns :
        /\ ~faulted[c] /\ ~CommitEnded(c) => told[c] \cap db = {}
        /\ ~faulted[c] /\ transaction_num[c] > 0 => tok[c] \notin db
        /\ pc[c] \in {"excl", "sync"} => ~inTx[c]
        /\ SqliteEnded(c) /\ op[c] = "rollback" => buf[c] = {}

DataInv == TokensApart /\ Hidden /\ RolledBack

(***************************************************************************)
(* FileReleased with what the calls hold in between: a write that is       *)
(* committing, and a select that stands on a row.                          *)
(***************************************************************************)
OnRow(c) == op[c] = "select" /\ rc[c] = "ROW"

FileInv ==
    \A c \in Conns :
        /\ pc[c] \in {"idle", "refinal", "close", "closed"} => ~OnRow(c)
        /\ ~inTx[c] /\ stuck[c] = 0 /\ pc[c] \notin {"excl", "sync", "undo", "reading"} =>
              flk[c] <= (IF Reading(c) \/ OnRow(c) THEN SHARED ELSE NONE)

\* SQLite has never rolled back a transaction by itself.
NoFault == \A c \in Conns : ~faulted[c]
-----------------------------------------------------------------------------
\* No step breaks DataInv.
LEMMA DataStep ==
    ASSUME TypeOK, CallInv, TxInv, DataInv, [Next]_vars
    PROVE  DataInv'
  <1> USE ConstantsAssumption DEF DataInv, TokensApart, Hidden, RolledBack,
        CommitEnded, SqliteEnded, TypeOK, CallTypeOK, ConnTypeOK, LiteTypeOK,
        HistTypeOK, vars, call, conn, lite, hist, Writes, Begins, Ends
  <1>1. ASSUME NEW c \in Conns, NEW o \in Writes, NEW t \in Tokens, StartWrite(c, o, t)
        PROVE DataInv'
    <2>1. PICK w \in {"lock", "step", "prepare"} : Enter(c, o, t, w)
      BY <1>1 DEF StartWrite, Prepare, AtStep
    <2> QED
      BY <1>1, <2>1 DEF StartWrite, Enter, Fresh
  <1>2. ASSUME NEW c \in Conns, _select(c) PROVE DataInv'
    <2>1. PICK w \in {"lock", "step", "prepare"} : Enter(c, "select", NoToken, w)
      BY <1>2 DEF _select, Prepare, AtStep
    <2> QED
      BY <1>2, <2>1 DEF _select, Enter
  <1>3. ASSUME NEW c \in Conns, _select_iterate_open(c) PROVE DataInv'
    <2>1. CASE UNCHANGED call
      BY <1>3, <2>1 DEF _select_iterate_open
    <2>2. CASE Enter(c, "iterate_open", NoToken, "prepare")
      BY <1>3, <2>2 DEF _select_iterate_open, Enter
    <2> QED
      BY <1>3, <2>1, <2>2 DEF _select_iterate_open
  <1>4. ASSUME NEW c \in Conns, _select_iterate(c) PROVE DataInv'
    BY <1>4 DEF _select_iterate, Enter, AtStep
  <1>5. ASSUME NEW c \in Conns, sorm_select_iterate_close(c) PROVE DataInv'
    BY <1>5 DEF sorm_select_iterate_close
  <1>6. ASSUME NEW c \in Conns, NEW kind \in Begins, sorm_begin_transaction(c, kind)
        PROVE DataInv'
    BY <1>6 DEF sorm_begin_transaction, Enter
  <1>7. ASSUME NEW c \in Conns, NEW kind \in Ends, EndTransaction(c, kind)
        PROVE DataInv'
    BY <1>7, SMTT(40) DEF EndTransaction, Enter
  <1>8. ASSUME NEW c \in Conns, sorm_open(c) PROVE DataInv'
    BY <1>8 DEF sorm_open
  <1>9. ASSUME NEW c \in Conns, sorm_close(c) PROVE DataInv'
    BY <1>9 DEF sorm_close
  <1>10. ASSUME NEW c \in Conns, StepLock(c) PROVE DataInv'
    BY <1>10 DEF StepLock
  <1>11. ASSUME NEW c \in Conns, StepUnlock(c) PROVE DataInv'
    BY <1>11 DEF StepUnlock, Resume
  <1>12. ASSUME NEW c \in Conns, StepBusy(c) PROVE DataInv'
    BY <1>12 DEF StepBusy, Stepped, Resume
  <1>13. ASSUME NEW c \in Conns, StepRow(c) PROVE DataInv'
    BY <1>13 DEF StepRow, Stepped, Resume
  <1>14. ASSUME NEW c \in Conns, StepEnd(c) PROVE DataInv'
    BY <1>14 DEF StepEnd, Stepped, Resume
  <1>15. ASSUME NEW c \in Conns, StepConstraint(c) PROVE DataInv'
    BY <1>15 DEF StepConstraint, Stepped, Resume
  <1>16. ASSUME NEW c \in Conns, StepWrite(c) PROVE DataInv'
    <2>1. /\ tok[c] \in Tokens /\ op' = op
          /\ tok' = tok /\ told' = told /\ undone' = undone
      BY <1>16 DEF StepWrite, CallInv, Stepped
    <2>2. \A d \in Conns :
            buf'[d] = buf[d] \/ (d = c /\ buf'[d] = buf[d] \cup {tok[c]})
      BY <1>16 DEF StepWrite
    <2>3. TokensApart'
      <3>1. \A d \in Conns : undone \cap (buf'[d] \cup told[d]) = {}
        BY <2>2
      <3>2. \A d \in Conns : \A e \in Conns \ {d} :
              (buf'[d] \cup told[d]) \cap (buf'[e] \cup told[e]) = {}
        BY <2>1, <2>2
      <3>3. \A d \in Conns : \A e \in Conns \ {d} : tok[d] \notin buf'[e] \cup told[e]
        BY <2>1, <2>2
      <3> QED
        BY <2>1, <3>1, <3>2, <3>3
    <2>4. Hidden'
      BY <1>16 DEF StepWrite, Stepped, Resume, TxInv
    <2>5. RolledBack'
      BY <1>16 DEF StepWrite
    <2> QED
      BY <2>3, <2>4, <2>5
  <1>17. ASSUME NEW c \in Conns, StepFault(c) PROVE DataInv'
    BY <1>17 DEF StepFault, Stepped, Resume
  <1>18. ASSUME NEW c \in Conns, StepExclusive(c) PROVE DataInv'
    BY <1>18 DEF StepExclusive
  <1>19. ASSUME NEW c \in Conns, StepSync(c) PROVE DataInv'
    <2>1. /\ tok' = tok /\ told' = told /\ undone' = undone /\ buf' = buf
          /\ inTx' = inTx /\ transaction_num' = transaction_num
          /\ faulted' = faulted /\ op' = op /\ db' = db \cup {tok[c]}
      BY <1>19 DEF StepSync, Stepped
    <2>2. tok[c] \in Tokens /\ (~faulted[c] => transaction_num[c] = 0)
      BY <1>19 DEF StepSync, CallInv, TxInv
    <2>3. pc[c] = "sync" /\ pc'[c] \in {"unlock", "row", "final"}
      BY <1>19 DEF StepSync, Stepped, Resume
    <2>4. \A d \in Conns \ {c} : pc'[d] = pc[d] /\ rc'[d] = rc[d]
      BY <1>19 DEF StepSync, Stepped
    <2>5. \A d \in Conns : ~faulted[d] /\ ~CommitEnded(d) => told[d] \cap db' = {}
      BY <2>1, <2>2
    <2>6. \A d \in Conns : ~faulted[d] /\ transaction_num[d] > 0 => tok[d] \notin db'
      BY <2>1, <2>2
    <2>7. Hidden'
      <3> SUFFICES ASSUME NEW d \in Conns
                   PROVE  /\ ~faulted[d] /\ ~CommitEnded(d)' => told[d] \cap db' = {}
                          /\ pc'[d] \in {"excl", "sync"} => ~inTx[d]
                          /\ SqliteEnded(d)' /\ op[d] = "rollback" => buf[d] = {}
        BY <2>1, <2>6
      <3>1. CASE d = c
        BY <2>1, <2>3, <2>5, <3>1
      <3>2. CASE d # c
        BY <2>1, <2>4, <2>5, <3>2
      <3> QED
        BY <3>1, <3>2
    <2>8. TokensApart' /\ RolledBack'
      BY <2>1
    <2> QED
      BY <2>7, <2>8
  <1>20. ASSUME NEW c \in Conns, SelectNext(c) PROVE DataInv'
    BY <1>20 DEF SelectNext, AtStep
  <1>21. ASSUME NEW c \in Conns, SelectStop(c) PROVE DataInv'
    BY <1>21 DEF SelectStop
  <1>22. ASSUME NEW c \in Conns, FinalLeak(c) PROVE DataInv'
    BY <1>22 DEF FinalLeak, Leave
  <1>23. ASSUME NEW c \in Conns, FinalNoPK(c) PROVE DataInv'
    BY <1>23 DEF FinalNoPK, Leave
  <1>24. ASSUME NEW c \in Conns, FinalWrite(c) PROVE DataInv'
    <2>1. tok[c] \in Tokens
      BY <1>24 DEF FinalWrite, CallInv
    <2>2. /\ undone' = undone /\ buf' = buf
          /\ tok' = [tok EXCEPT ![c] = NoToken]
      BY <1>24 DEF FinalWrite, Leave
    <2>3. \A d \in Conns :
            told'[d] = told[d] \/ (d = c /\ told'[d] = told[d] \cup {tok[c]})
      BY <1>24 DEF FinalWrite, TellStored
    <2>4. TokensApart'
      <3>1. \A d \in Conns : told'[d] \in SUBSET Tokens
        BY <2>1, <2>3
      <3>2. \A d \in Conns : tok'[d] = NoToken \/ (d # c /\ tok'[d] = tok[d])
        BY <2>2
      <3>3. \A d \in Conns : /\ tok'[d] \notin told'[d] \cup undone
                            /\ undone \cap (buf[d] \cup told'[d]) = {}
        BY <2>1, <2>3, <3>1, <3>2
      <3>4. \A d \in Conns : \A e \in Conns \ {d} :
              (buf[d] \cup told'[d]) \cap (buf[e] \cup told'[e]) = {}
        BY <2>1, <2>3
      <3>5. \A d \in Conns : \A e \in Conns \ {d} :
              /\ tok'[d] \notin buf[e] \cup told'[e]
              /\ tok'[d] = tok'[e] => tok'[d] = NoToken
        BY <2>1, <2>3, <3>1, <3>2
      <3>6. \A d \in Conns : op'[d] \in Writes \/ tok'[d] = NoToken
        BY <1>24, <2>2 DEF FinalWrite, Leave
      <3> QED
        BY <2>2, <3>3, <3>4, <3>5, <3>6
    <2>5. Hidden'
      BY <1>24 DEF FinalWrite, TellStored, Leave
    <2>6. RolledBack'
      BY <1>24 DEF FinalWrite
    <2> QED
      BY <2>4, <2>5, <2>6
  <1>25. ASSUME NEW c \in Conns, FinalSelect(c) PROVE DataInv'
    BY <1>25 DEF FinalSelect, Leave
  <1>26. ASSUME NEW c \in Conns, FinalIterate(c) PROVE DataInv'
    BY <1>26 DEF FinalIterate, Leave
  <1>27. ASSUME NEW c \in Conns, FinalizeBusy(c) PROVE DataInv'
    BY <1>27 DEF FinalizeBusy
  <1>28. ASSUME NEW c \in Conns, RefinalizeMisuse(c) PROVE DataInv'
    BY <1>28 DEF RefinalizeMisuse, Leave
  <1>29. ASSUME NEW c \in Conns, RefinalizeCrash(c) PROVE DataInv'
    BY <1>29 DEF RefinalizeCrash, Ended
  <1>30. ASSUME NEW c \in Conns, TStepBegin(c) PROVE DataInv'
    BY <1>30 DEF TStepBegin, TStepped, TxInv, InTransactionCall
  <1>31. ASSUME NEW c \in Conns, TStepRefused(c) PROVE DataInv'
    BY <1>31 DEF TStepRefused, TStepped
  <1>32. ASSUME NEW c \in Conns, TStepCommit(c) PROVE DataInv'
    BY <1>32, SMTT(40) DEF TStepCommit, TStepped
  <1>33. ASSUME NEW c \in Conns, TStepSync(c) PROVE DataInv'
    <2>1. op[c] = "commit" /\ inTx[c]
      BY <1>33 DEF TStepSync, TxInv
    <2>2. /\ db' = db \cup buf[c]
          /\ tok' = tok /\ told' = told /\ undone' = undone
          /\ buf' = [buf EXCEPT ![c] = {}] /\ inTx' = [inTx EXCEPT ![c] = FALSE]
          /\ transaction_num' = transaction_num /\ faulted' = faulted /\ op' = op
      BY <1>33 DEF TStepSync, TStepped
    <2>3. \A d \in Conns \ {c} : CommitEnded(d)' <=> CommitEnded(d)
      BY <1>33 DEF TStepSync, TStepped
    <2>4. CommitEnded(c)'
      BY <1>33, <2>1 DEF TStepSync, TStepped
    <2>5. \A d \in Conns : ~faulted[d] /\ ~CommitEnded(d)' => told[d] \cap db' = {}
      <3> SUFFICES ASSUME NEW d \in Conns, ~faulted[d], ~CommitEnded(d)'
                   PROVE  told[d] \cap db' = {}
        OBVIOUS
      <3>1. d # c
        BY <2>4
      <3>2. told[d] \cap db = {}
        BY <2>3, <3>1
      <3>3. told[d] \cap buf[c] = {}
        BY <3>1
      <3> QED
        BY <2>2, <3>2, <3>3
    <2>6. \A d \in Conns : ~faulted[d] /\ transaction_num[d] > 0 => tok[d] \notin db'
      <3>1. tok[c] = NoToken
        BY <1>33, <2>1 DEF TStepSync
      <3> QED
        BY <2>2, <3>1
    <2>7. Hidden'
      BY <1>33, <2>1, <2>2, <2>5, <2>6 DEF TStepSync, TStepped
    <2>8. TokensApart' /\ RolledBack'
      BY <2>2
    <2> QED
      BY <2>7, <2>8
  <1>34. ASSUME NEW c \in Conns, TStepRollback(c) PROVE DataInv'
    BY <1>34 DEF TStepRollback, TStepped
  <1>35. ASSUME NEW c \in Conns, BeginDone(c) PROVE DataInv'
    BY <1>35 DEF BeginDone, Leave, TxInv, InTransactionCall
  <1>36. ASSUME NEW c \in Conns, EndDone(c) PROVE DataInv'
    BY <1>36 DEF EndDone, Leave, TxInv, InTransactionCall
  <1>37. ASSUME NEW c \in Conns, EndFailed(c) PROVE DataInv'
    BY <1>37 DEF EndFailed, Leave
  <1>38. ASSUME NEW c \in Conns, CloseDone(c) PROVE DataInv'
    BY <1>38 DEF CloseDone
  <1>39. CASE UNCHANGED vars
    BY <1>39
  <1>40. ASSUME NEW c \in Conns, PrepareBusy(c) PROVE DataInv'
    BY <1>40 DEF PrepareBusy, Leave
  <1>41. ASSUME NEW c \in Conns, PrepareRead(c) PROVE DataInv'
    BY <1>41 DEF PrepareRead
  <1>42. ASSUME NEW c \in Conns, Prepared(c) PROVE DataInv'
    BY <1>42 DEF Prepared, ReadDone, AtStep, Leave
  <1>43. ASSUME NEW c \in Conns, PrepareFailed(c) PROVE DataInv'
    BY <1>43 DEF PrepareFailed, ReadDone, Leave
  <1>44. ASSUME NEW c \in Conns, PrepareAgain(c) PROVE DataInv'
    BY <1>44 DEF PrepareAgain, ReadDone
  <1>45. ASSUME NEW c \in Conns, StepUndo(c) PROVE DataInv'
    BY <1>45 DEF StepUndo, Stepped, Resume
  <1> QED
    BY ZenonT(120), StepCases, <1>1, <1>2, <1>3, <1>4, <1>5, <1>6, <1>7, <1>8, <1>9, <1>10,
        <1>11, <1>12, <1>13, <1>14, <1>15, <1>16, <1>17, <1>18, <1>19, <1>20,
        <1>21, <1>22, <1>23, <1>24, <1>25, <1>26, <1>27, <1>28, <1>29, <1>30,
        <1>31, <1>32, <1>33, <1>34, <1>35, <1>36, <1>37, <1>38, <1>39, <1>40,
        <1>41, <1>42, <1>43, <1>44, <1>45

\* No step breaks FileInv.
LEMMA FileStep ==
    ASSUME TypeOK, CallInv, TxInv, ReservedInv, FileInv, [Next]_vars
    PROVE  FileInv'
  <1> USE DEF FileInv, OnRow, Reading, TypeOK, CallTypeOK, ConnTypeOK,
        LiteTypeOK, vars, call, conn, lite, Writes, Begins, Ends, NONE, SHARED,
        RESERVED, PENDING, EXCLUSIVE
  <1>1. ASSUME NEW c \in Conns, NEW o \in Writes, NEW t \in Tokens, StartWrite(c, o, t)
        PROVE FileInv'
    BY <1>1 DEF StartWrite, Prepare, Enter, AtStep
  <1>2. ASSUME NEW c \in Conns, _select(c) PROVE FileInv'
    BY <1>2 DEF _select, Prepare, Enter, AtStep
  <1>3. ASSUME NEW c \in Conns, _select_iterate_open(c) PROVE FileInv'
    BY <1>3 DEF _select_iterate_open, Enter
  <1>4. ASSUME NEW c \in Conns, _select_iterate(c) PROVE FileInv'
    BY <1>4 DEF _select_iterate, Enter, AtStep
  <1>5. ASSUME NEW c \in Conns, sorm_select_iterate_close(c) PROVE FileInv'
    BY <1>5 DEF sorm_select_iterate_close, Downgrade, AfterHalt
  <1>6. ASSUME NEW c \in Conns, NEW kind \in Begins, sorm_begin_transaction(c, kind)
        PROVE FileInv'
    BY <1>6 DEF sorm_begin_transaction, Enter
  <1>7. ASSUME NEW c \in Conns, NEW kind \in Ends, EndTransaction(c, kind)
        PROVE FileInv'
    BY <1>7 DEF EndTransaction, Enter
  <1>8. ASSUME NEW c \in Conns, sorm_open(c) PROVE FileInv'
    BY <1>8 DEF sorm_open
  <1>9. ASSUME NEW c \in Conns, sorm_close(c) PROVE FileInv'
    BY <1>9 DEF sorm_close
  <1>10. ASSUME NEW c \in Conns, StepLock(c) PROVE FileInv'
    BY <1>10 DEF StepLock
  <1>11. ASSUME NEW c \in Conns, StepUnlock(c) PROVE FileInv'
    BY <1>11 DEF StepUnlock, Resume
  <1>12. ASSUME NEW c \in Conns, StepBusy(c) PROVE FileInv'
    BY <1>12 DEF StepBusy, Stepped, Resume, CanShare
  <1>13. ASSUME NEW c \in Conns, StepRow(c) PROVE FileInv'
    BY <1>13 DEF StepRow, Stepped, Resume, AtLeast
  <1>14. ASSUME NEW c \in Conns, StepEnd(c) PROVE FileInv'
    BY <1>14 DEF StepEnd, Stepped, Resume, AtLeast, Downgrade, AfterHalt
  <1>15. ASSUME NEW c \in Conns, StepConstraint(c) PROVE FileInv'
    BY <1>15 DEF StepConstraint, Stepped, Resume, AtLeast, Downgrade, AfterHalt
  <1>16. ASSUME NEW c \in Conns, StepWrite(c) PROVE FileInv'
    BY <1>16 DEF StepWrite, Stepped, Resume, AtLeast
  <1>17. ASSUME NEW c \in Conns, StepFault(c) PROVE FileInv'
    BY <1>17 DEF StepFault, Stepped, Resume, Downgrade
  <1>18. ASSUME NEW c \in Conns, StepExclusive(c) PROVE FileInv'
    BY <1>18 DEF StepExclusive
  <1>19. ASSUME NEW c \in Conns, StepSync(c) PROVE FileInv'
    BY <1>19 DEF StepSync, Stepped, Resume, Downgrade, AfterHalt
  <1>20. ASSUME NEW c \in Conns, SelectNext(c) PROVE FileInv'
    BY <1>20 DEF SelectNext, AtStep
  <1>21. ASSUME NEW c \in Conns, SelectStop(c) PROVE FileInv'
    BY <1>21 DEF SelectStop
  <1>22. ASSUME NEW c \in Conns, FinalLeak(c) PROVE FileInv'
    BY <1>22 DEF FinalLeak, Leave
  <1>23. ASSUME NEW c \in Conns, FinalNoPK(c) PROVE FileInv'
    BY <1>23 DEF FinalNoPK, Leave
  <1>24. ASSUME NEW c \in Conns, FinalWrite(c) PROVE FileInv'
    BY <1>24 DEF FinalWrite, TellStored, Leave
  <1>25. ASSUME NEW c \in Conns, FinalSelect(c) PROVE FileInv'
    BY <1>25 DEF FinalSelect, Leave, Downgrade, AfterHalt
  <1>26. ASSUME NEW c \in Conns, FinalIterate(c) PROVE FileInv'
    BY <1>26 DEF FinalIterate, Leave
  <1>27. ASSUME NEW c \in Conns, FinalizeBusy(c) PROVE FileInv'
    BY <1>27 DEF FinalizeBusy
  <1>28. ASSUME NEW c \in Conns, RefinalizeMisuse(c) PROVE FileInv'
    BY <1>28 DEF RefinalizeMisuse, Leave
  <1>29. ASSUME NEW c \in Conns, RefinalizeCrash(c) PROVE FileInv'
    BY <1>29 DEF RefinalizeCrash, Ended
  <1>30. ASSUME NEW c \in Conns, TStepBegin(c) PROVE FileInv'
    BY <1>30 DEF TStepBegin, TStepped, AtLeast
  <1>31. ASSUME NEW c \in Conns, TStepRefused(c) PROVE FileInv'
    BY <1>31 DEF TStepRefused, TStepped
  <1>32. ASSUME NEW c \in Conns, TStepCommit(c) PROVE FileInv'
    BY <1>32 DEF TStepCommit, TStepped, AtLeast, Downgrade
  <1>33. ASSUME NEW c \in Conns, TStepSync(c) PROVE FileInv'
    BY <1>33 DEF TStepSync, TStepped, Downgrade
  <1>34. ASSUME NEW c \in Conns, TStepRollback(c) PROVE FileInv'
    BY <1>34 DEF TStepRollback, TStepped
  <1>35. ASSUME NEW c \in Conns, BeginDone(c) PROVE FileInv'
    BY <1>35 DEF BeginDone, Leave
  <1>36. ASSUME NEW c \in Conns, EndDone(c) PROVE FileInv'
    BY <1>36 DEF EndDone, Leave
  <1>37. ASSUME NEW c \in Conns, EndFailed(c) PROVE FileInv'
    BY <1>37 DEF EndFailed, Leave, TxInv, InTransactionCall
  <1>38. ASSUME NEW c \in Conns, CloseDone(c) PROVE FileInv'
    BY <1>38 DEF CloseDone
  <1>39. CASE UNCHANGED vars
    BY <1>39
  <1>40. ASSUME NEW c \in Conns, PrepareBusy(c) PROVE FileInv'
    BY <1>40 DEF PrepareBusy, Leave, ReservedInv
  <1>41. ASSUME NEW c \in Conns, PrepareRead(c) PROVE FileInv'
    BY <1>41 DEF PrepareRead
  <1>42. ASSUME NEW c \in Conns, Prepared(c) PROVE FileInv'
    BY <1>42 DEF Prepared, ReadDone, Reading, AtStep, Leave
  <1>43. ASSUME NEW c \in Conns, PrepareFailed(c) PROVE FileInv'
    BY <1>43 DEF PrepareFailed, ReadDone, Reading, Leave
  <1>44. ASSUME NEW c \in Conns, PrepareAgain(c) PROVE FileInv'
    BY <1>44 DEF PrepareAgain, ReadDone, Reading
  <1>45. ASSUME NEW c \in Conns, StepUndo(c) PROVE FileInv'
    BY <1>45 DEF StepUndo, Stepped, Resume, Downgrade, AfterHalt, Reading
  <1> QED
    BY StepCases, <1>1, <1>2, <1>3, <1>4, <1>5, <1>6, <1>7, <1>8, <1>9, <1>10,
        <1>11, <1>12, <1>13, <1>14, <1>15, <1>16, <1>17, <1>18, <1>19, <1>20,
        <1>21, <1>22, <1>23, <1>24, <1>25, <1>26, <1>27, <1>28, <1>29, <1>30,
        <1>31, <1>32, <1>33, <1>34, <1>35, <1>36, <1>37, <1>38, <1>39, <1>40,
        <1>41, <1>42, <1>43, <1>44, <1>45

\* Every step is a step of the store or leaves it alone, and SQLite meets no fault.
LEMMA StoreStep ==
    ASSUME "leaky" \notin Ops, MaxFaults = 0, TypeOK, CallInv, TxInv,
           ReservedInv, StoredInv, NoFault, [Next]_vars
    PROVE  NoFault' /\ [Store!Next]_(Store!vars)
  <1> USE DEF NoFault, SqliteEnded, Store!vars, TypeOK, CallTypeOK, ConnTypeOK,
        LiteTypeOK, HistTypeOK, vars, call, conn, lite, hist, Writes, Begins,
        Ends
  <1>1. ASSUME NEW c \in Conns, NEW o \in Writes, NEW t \in Tokens, StartWrite(c, o, t)
        PROVE NoFault' /\ [Store!Next]_(Store!vars)
    BY <1>1 DEF StartWrite, Prepare, Enter, AtStep
  <1>2. ASSUME NEW c \in Conns, _select(c)
        PROVE NoFault' /\ [Store!Next]_(Store!vars)
    BY <1>2 DEF _select, Prepare, Enter, AtStep
  <1>3. ASSUME NEW c \in Conns, _select_iterate_open(c)
        PROVE NoFault' /\ [Store!Next]_(Store!vars)
    BY <1>3 DEF _select_iterate_open, Enter
  <1>4. ASSUME NEW c \in Conns, _select_iterate(c)
        PROVE NoFault' /\ [Store!Next]_(Store!vars)
    BY <1>4 DEF _select_iterate, Enter, AtStep
  <1>5. ASSUME NEW c \in Conns, sorm_select_iterate_close(c)
        PROVE NoFault' /\ [Store!Next]_(Store!vars)
    BY <1>5 DEF sorm_select_iterate_close
  <1>6. ASSUME NEW c \in Conns, NEW kind \in Begins, sorm_begin_transaction(c, kind)
        PROVE NoFault' /\ [Store!Next]_(Store!vars)
    <2>1. CASE transaction_num[c] = 0
      BY <1>6, <2>1 DEF sorm_begin_transaction, Enter
    <2>2. CASE transaction_num[c] > 0
      <3>1. /\ pc[c] = "idle" /\ UNCHANGED <<pc, op, rc, db, buf, acked>>
            /\ transaction_num' = [transaction_num EXCEPT ![c] = transaction_num[c] + 1]
        BY <1>6, <2>2 DEF sorm_begin_transaction
      <3>2. Store!Begin(c)
        BY <3>1 DEF Store!Begin
      <3> QED
        BY <1>6, <2>2, <3>2 DEF sorm_begin_transaction, Store!Next
    <2> QED
      BY <2>1, <2>2
  <1>7. ASSUME NEW c \in Conns, NEW kind \in Ends, EndTransaction(c, kind)
        PROVE NoFault' /\ [Store!Next]_(Store!vars)
    <2>1. CASE transaction_num[c] = 1
      BY <1>7, <2>1 DEF EndTransaction, Enter
    <2>2. CASE transaction_num[c] > 1
      <3>1. /\ pc[c] = "idle" /\ UNCHANGED <<pc, op, rc, db, buf, acked>>
            /\ transaction_num' = [transaction_num EXCEPT ![c] = transaction_num[c] - 1]
        BY <1>7, <2>2 DEF EndTransaction
      <3>2. Store!EndInner(c)
        BY <2>2, <3>1 DEF Store!EndInner
      <3> QED
        BY <1>7, <2>2, <3>2 DEF EndTransaction, Store!Next
    <2> QED
      BY <1>7, <2>1, <2>2 DEF EndTransaction
  <1>8. ASSUME NEW c \in Conns, sorm_open(c)
        PROVE NoFault' /\ [Store!Next]_(Store!vars)
    BY <1>8 DEF sorm_open
  <1>9. ASSUME NEW c \in Conns, sorm_close(c)
        PROVE NoFault' /\ [Store!Next]_(Store!vars)
    BY <1>9 DEF sorm_close
  <1>10. ASSUME NEW c \in Conns, StepLock(c)
        PROVE NoFault' /\ [Store!Next]_(Store!vars)
    BY <1>10 DEF StepLock
  <1>11. ASSUME NEW c \in Conns, StepUnlock(c)
        PROVE NoFault' /\ [Store!Next]_(Store!vars)
    BY <1>11 DEF StepUnlock, Resume
  <1>12. ASSUME NEW c \in Conns, StepBusy(c)
        PROVE NoFault' /\ [Store!Next]_(Store!vars)
    BY <1>12 DEF StepBusy, Stepped, Resume
  <1>13. ASSUME NEW c \in Conns, StepRow(c)
        PROVE NoFault' /\ [Store!Next]_(Store!vars)
    BY <1>13 DEF StepRow, Stepped, Resume
  <1>14. ASSUME NEW c \in Conns, StepEnd(c)
        PROVE NoFault' /\ [Store!Next]_(Store!vars)
    BY <1>14 DEF StepEnd, Stepped, Resume
  <1>15. ASSUME NEW c \in Conns, StepConstraint(c)
        PROVE NoFault' /\ [Store!Next]_(Store!vars)
    BY <1>15 DEF StepConstraint, Stepped, Resume
  <1>16. ASSUME NEW c \in Conns, StepWrite(c)
        PROVE NoFault' /\ [Store!Next]_(Store!vars)
    <2>1. CASE inTx[c]
      <3>1. Store!WriteInTransaction(c, tok[c])
        BY <1>16, <2>1 DEF StepWrite, Stepped, Resume, TxInv,
            Store!WriteInTransaction
      <3> QED
        BY <1>16, <3>1 DEF StepWrite, CallInv, Store!Next
    <2>2. CASE ~inTx[c]
      BY <1>16, <2>2 DEF StepWrite, Stepped, StoredInv
    <2> QED
      BY <2>1, <2>2
  <1>17. ASSUME NEW c \in Conns, StepFault(c)
        PROVE NoFault' /\ [Store!Next]_(Store!vars)
    BY <1>17 DEF StepFault, Stepped, Resume
  <1>18. ASSUME NEW c \in Conns, StepExclusive(c)
        PROVE NoFault' /\ [Store!Next]_(Store!vars)
    BY <1>18 DEF StepExclusive
  <1>19. ASSUME NEW c \in Conns, StepSync(c)
        PROVE NoFault' /\ [Store!Next]_(Store!vars)
    <2>1. Store!Write(c, tok[c])
      BY <1>19 DEF StepSync, Stepped, Resume, CallInv, TxInv, StoredInv,
            Store!Write
    <2> QED
      BY <1>19, <2>1 DEF StepSync, CallInv, Store!Next
  <1>20. ASSUME NEW c \in Conns, SelectNext(c)
        PROVE NoFault' /\ [Store!Next]_(Store!vars)
    BY <1>20 DEF SelectNext, AtStep
  <1>21. ASSUME NEW c \in Conns, SelectStop(c)
        PROVE NoFault' /\ [Store!Next]_(Store!vars)
    BY <1>21 DEF SelectStop
  <1>22. ASSUME NEW c \in Conns, FinalLeak(c)
        PROVE NoFault' /\ [Store!Next]_(Store!vars)
    BY <1>22 DEF FinalLeak, Leave
  <1>23. ASSUME NEW c \in Conns, FinalNoPK(c)
        PROVE NoFault' /\ [Store!Next]_(Store!vars)
    BY <1>23 DEF FinalNoPK, Leave
  <1>24. ASSUME NEW c \in Conns, FinalWrite(c)
        PROVE NoFault' /\ [Store!Next]_(Store!vars)
    <2>1. CASE rc[c] = "DONE" /\ transaction_num[c] = 0
      <3>1. tok[c] \in db /\ tok[c] \in Tokens
        BY <1>24, <2>1 DEF FinalWrite, StoredInv
      <3>2. Store!Promise({tok[c]})
        BY <1>24, <2>1, <3>1 DEF FinalWrite, TellStored, Leave, Store!Promise
      <3> QED
        BY <1>24, <3>1, <3>2 DEF FinalWrite, Store!Next
    <2>2. CASE ~(rc[c] = "DONE" /\ transaction_num[c] = 0)
      BY <1>24, <2>2 DEF FinalWrite, TellStored, Leave
    <2> QED
      BY <2>1, <2>2
  <1>25. ASSUME NEW c \in Conns, FinalSelect(c)
        PROVE NoFault' /\ [Store!Next]_(Store!vars)
    BY <1>25 DEF FinalSelect, Leave
  <1>26. ASSUME NEW c \in Conns, FinalIterate(c)
        PROVE NoFault' /\ [Store!Next]_(Store!vars)
    BY <1>26 DEF FinalIterate, Leave
  <1>27. ASSUME NEW c \in Conns, FinalizeBusy(c)
        PROVE NoFault' /\ [Store!Next]_(Store!vars)
    BY <1>27 DEF FinalizeBusy
  <1>28. ASSUME NEW c \in Conns, RefinalizeMisuse(c)
        PROVE NoFault' /\ [Store!Next]_(Store!vars)
    BY <1>28 DEF RefinalizeMisuse, Leave
  <1>29. ASSUME NEW c \in Conns, RefinalizeCrash(c)
        PROVE NoFault' /\ [Store!Next]_(Store!vars)
    <2>1. Victims(c) \in SUBSET Conns
      BY DEF Victims
    <2>2. Store!Abort(Victims(c))
      BY <1>29, <2>1 DEF RefinalizeCrash, Ended, Store!Abort
    <2> QED
      BY <1>29, <2>1, <2>2 DEF RefinalizeCrash, Store!Next
  <1>30. ASSUME NEW c \in Conns, TStepBegin(c)
        PROVE NoFault' /\ [Store!Next]_(Store!vars)
    BY <1>30 DEF TStepBegin, TStepped
  <1>31. ASSUME NEW c \in Conns, TStepRefused(c)
        PROVE NoFault' /\ [Store!Next]_(Store!vars)
    BY <1>31 DEF TStepRefused, TStepped
  <1>32. ASSUME NEW c \in Conns, TStepCommit(c)
        PROVE NoFault' /\ [Store!Next]_(Store!vars)
    <2>1. CASE flk[c] < RESERVED
      <3>4. buf[c] = {}
        BY <1>32, <2>1 DEF TStepCommit, ReservedInv, RESERVED, NONE, EXCLUSIVE
      <3>1. transaction_num[c] = 1 /\ ~SqliteEnded(c) /\ SqliteEnded(c)'
        <4>1. flk[c] \in Int /\ TStepped(c, "DONE")
          BY <1>32, <2>1 DEF TStepCommit, NONE, RESERVED, EXCLUSIVE
        <4> QED
          BY <1>32, <4>1 DEF TStepCommit, TStepped, TxInv, InTransactionCall
      <3>2. /\ UNCHANGED <<transaction_num, db, buf, acked>>
            /\ \A d \in Conns \ {c} : SqliteEnded(d)' <=> SqliteEnded(d)
        BY <1>32 DEF TStepCommit, TStepped
      <3>3. Store!Commit(c)
        BY <3>1, <3>2, <3>4 DEF Store!Commit
      <3> QED
        BY <1>32, <3>3 DEF TStepCommit, Store!Next
    <2>2. CASE ~(flk[c] < RESERVED)
      BY <1>32, <2>2 DEF TStepCommit, TStepped
    <2> QED
      BY <2>1, <2>2
  <1>33. ASSUME NEW c \in Conns, TStepSync(c)
        PROVE NoFault' /\ [Store!Next]_(Store!vars)
    <2>1. Store!Commit(c)
      BY <1>33 DEF TStepSync, TStepped, TxInv, InTransactionCall, Store!Commit
    <2> QED
      BY <1>33, <2>1 DEF TStepSync, Store!Next
  <1>34. ASSUME NEW c \in Conns, TStepRollback(c)
        PROVE NoFault' /\ [Store!Next]_(Store!vars)
    <2>1. Store!Abort({c})
      BY <1>34 DEF TStepRollback, TStepped, Store!Abort
    <2> QED
      BY <1>34, <2>1 DEF TStepRollback, Store!Next
  <1>35. ASSUME NEW c \in Conns, BeginDone(c)
        PROVE NoFault' /\ [Store!Next]_(Store!vars)
    <2>1. Store!Begin(c)
      BY <1>35 DEF BeginDone, Leave, Store!Begin
    <2> QED
      BY <1>35, <2>1 DEF BeginDone, Store!Next
  <1>36. ASSUME NEW c \in Conns, EndDone(c)
        PROVE NoFault' /\ [Store!Next]_(Store!vars)
    <2>1. transaction_num[c] = 1
      BY <1>36 DEF EndDone, TxInv, InTransactionCall
    <2>2. CASE op[c] = "commit"
      <3>1. told[c] \subseteq db
        BY <1>36, <2>2 DEF EndDone, StoredInv
      <3>2. Store!Promise(told[c])
        BY <1>36, <2>1, <2>2, <3>1 DEF EndDone, Leave, Store!Promise
      <3> QED
        BY <1>36, <3>2 DEF EndDone, Store!Next
    <2>3. CASE op[c] # "commit"
      BY <1>36, <2>1, <2>3 DEF EndDone, Leave
    <2> QED
      BY <2>2, <2>3
  <1>37. ASSUME NEW c \in Conns, EndFailed(c)
        PROVE NoFault' /\ [Store!Next]_(Store!vars)
    BY <1>37 DEF EndFailed, Leave
  <1>38. ASSUME NEW c \in Conns, CloseDone(c)
        PROVE NoFault' /\ [Store!Next]_(Store!vars)
    <2>1. Store!Abort({c})
      BY <1>38 DEF CloseDone, Store!Abort
    <2> QED
      BY <1>38, <2>1 DEF CloseDone, Store!Next
  <1>39. CASE UNCHANGED vars
    BY <1>39
  <1>40. ASSUME NEW c \in Conns, PrepareBusy(c)
        PROVE NoFault' /\ [Store!Next]_(Store!vars)
    BY <1>40 DEF PrepareBusy, Leave
  <1>41. ASSUME NEW c \in Conns, PrepareRead(c)
        PROVE NoFault' /\ [Store!Next]_(Store!vars)
    BY <1>41 DEF PrepareRead
  <1>42. ASSUME NEW c \in Conns, Prepared(c)
        PROVE NoFault' /\ [Store!Next]_(Store!vars)
    BY <1>42 DEF Prepared, ReadDone, AtStep, Leave
  <1>43. ASSUME NEW c \in Conns, PrepareFailed(c)
        PROVE NoFault' /\ [Store!Next]_(Store!vars)
    BY <1>43 DEF PrepareFailed, ReadDone, Leave
  <1>44. ASSUME NEW c \in Conns, PrepareAgain(c)
        PROVE NoFault' /\ [Store!Next]_(Store!vars)
    BY <1>44 DEF PrepareAgain, ReadDone
  <1>45. ASSUME NEW c \in Conns, StepUndo(c)
        PROVE NoFault' /\ [Store!Next]_(Store!vars)
    BY <1>45 DEF StepUndo, Stepped, Resume
  <1> QED
    BY StepCases, <1>1, <1>2, <1>3, <1>4, <1>5, <1>6, <1>7, <1>8, <1>9, <1>10,
        <1>11, <1>12, <1>13, <1>14, <1>15, <1>16, <1>17, <1>18, <1>19, <1>20,
        <1>21, <1>22, <1>23, <1>24, <1>25, <1>26, <1>27, <1>28, <1>29, <1>30,
        <1>31, <1>32, <1>33, <1>34, <1>35, <1>36, <1>37, <1>38, <1>39, <1>40,
        <1>41, <1>42, <1>43, <1>44, <1>45
-----------------------------------------------------------------------------
\* The tokens stay apart and hidden in every behaviour.
LEMMA DataInvariant == Spec => []DataInv
  <1>1. Init => DataInv
    BY ConstantsAssumption DEF Init, DataInv, TokensApart, Hidden, RolledBack,
        SqliteEnded
  <1>2. TypeOK /\ CallInv /\ TxInv /\ DataInv /\ [Next]_vars => DataInv'
    BY DataStep
  <1> QED
    BY <1>1, <1>2, CoreInvariant, PTL DEF Spec

\* What was rolled back by an outermost rollback stays out of the database, in
\* every lock mode, after any interleaving, fault, lost statement and crash.
THEOREM RollbackKept == Spec => []RolledBack
  <1>1. DataInv => RolledBack
    BY DEF DataInv
  <1> QED
    BY <1>1, DataInvariant, PTL

\* The writes of an open transaction are invisible to the other connections,
\* through every inner commit: nothing the caller was told in it is in the
\* database before the outermost commit.
THEOREM TransactionsHidden == Spec => []Isolated
  <1>1. DataInv => Isolated
    BY DEF DataInv, Hidden, Isolated, CommitEnded, SqliteEnded
  <1> QED
    BY <1>1, DataInvariant, PTL

\* Between calls a connection outside a transaction has released the database
\* file, whatever failed before: only an iterator that is reading, or an
\* unfinished statement that sorm_delete or sorm_update lost, keeps a lock.
THEOREM LocksReleased == Spec => []FileReleased
  <1>1. Init => FileInv
    BY DEF Init, FileInv, OnRow, Reading, NONE, SHARED
  <1>2. TypeOK /\ CallInv /\ TxInv /\ ReservedInv /\ FileInv /\ [Next]_vars
            => FileInv'
    BY FileStep
  <1>3. FileInv => FileReleased
    BY DEF FileInv, FileReleased
  <1> QED
    BY <1>1, <1>2, <1>3, CoreInvariant, ReservedInvariant, PTL DEF Spec

\* sorm implements the abstract store, where sorm_delete and sorm_update, which
\* lose unfinished statements, are not called and SQLite meets no fault: a
\* transaction of any depth is published at once by its outermost commit or not
\* at all, and only stored tokens are promised.
THEOREM StoreImplemented ==
    ASSUME "leaky" \notin Ops, MaxFaults = 0
    PROVE  Spec => ImplementsStore
  <1>1. Init => Store!Init
    BY DEF Init, Store!Init, SqliteEnded
  <1>2. Init => StoredInv /\ NoFault
    BY DEF Init, StoredInv, Stored, SqliteEnded, Writes, Ends, NoFault
  <1>3. TypeOK /\ CallInv /\ TxInv /\ ReservedInv /\ StoredInv /\ [Next]_vars
            => StoredInv'
    BY StoredStep
  <1>4. TypeOK /\ CallInv /\ TxInv /\ ReservedInv /\ StoredInv /\ NoFault
            /\ [Next]_vars => NoFault' /\ [Store!Next]_(Store!vars)
    BY StoreStep
  <1> QED
    BY <1>1, <1>2, <1>3, <1>4, CoreInvariant, ReservedInvariant, PTL
        DEF Spec, ImplementsStore, Store!Spec

-----------------------------------------------------------------------------
(* The lock of sorm.                                                       *)

(***************************************************************************)
(* SemaphoreKept alone is not inductive: a connection that is killed takes *)
(* back the units its unmatched unlocks added (extra).  So the units in    *)
(* the semaphore and in the hands of the holders must cover those, all of  *)
(* which may still be taken back, and one more.                            *)
(***************************************************************************)
UnitsKept ==
    /\ IsFiniteSet(wheld)
    /\ IsFiniteSet(Units(extra))
    /\ LockMode = "semaphore" =>
          avail + Cardinality(wheld) >= 1 + Cardinality(Units(extra))

(***************************************************************************)
(* Without transactions every statement is stepped by a holder of the lock *)
(* of sorm, a write by a holder of the write lock, and only a write that   *)
(* is committing has more than SHARED: whoever steps a statement finds no  *)
(* more than SHARED on the file.                                           *)
(***************************************************************************)
OneAtATime ==
    /\ ~unmatched
    /\ \A c \in Conns :
        /\ transaction_num[c] = 0 /\ ~inTx[c]
        /\ pc[c] \notin {"tstep", "tsync", "tfinal"}
        /\ pc[c] \in {"step", "excl", "sync", "undo", "unlock"} =>
              c \in IF op[c] = "select" THEN rheld \cup wheld ELSE wheld
        /\ flk[c] >= RESERVED => pc[c] \in {"excl", "sync", "undo"}
-----------------------------------------------------------------------------
\* _unlock gives back the unit of its caller, or adds one that its caller takes
\* back when it is killed.
LEMMA UnlockKeeps ==
    ASSUME LockTypeOK, UnitsKept, NEW c \in Conns, _unlock(c)
    PROVE  UnitsKept'
  <1> USE DEF LockTypeOK, UnitsKept
  <1>1. CASE LockMode = "none"
    BY <1>1 DEF _unlock, lock
  <1>2. CASE LockMode # "none"
    <2>1. IsFiniteSet(wheld') /\ wheld' = wheld \ {c}
      BY <1>2, FS_RemoveElement DEF _unlock
    <2>2. CASE c \in rheld \cup wheld /\ c \in wheld
      <3>1. Cardinality(wheld') = Cardinality(wheld) - 1
        BY <2>1, <2>2, FS_RemoveElement
      <3>2. extra' = extra /\ (LockMode = "semaphore" => avail' = avail + 1)
        BY <1>2, <2>2 DEF _unlock
      <3> QED
        BY <2>1, <3>1, <3>2, FS_CardinalityType
    <2>3. CASE c \in rheld /\ c \notin wheld
      <3>1. wheld' = wheld
        BY <2>1, <2>3
      <3>2. extra' = extra /\ (LockMode = "semaphore" => avail' = avail + 1)
        BY <1>2, <2>3 DEF _unlock
      <3> QED
        BY <3>1, <3>2, FS_CardinalityType
    <2>4. CASE c \notin rheld \cup wheld
      <3>1. wheld' = wheld
        BY <2>1, <2>4
      <3>2. /\ extra' \in [Conns -> Nat] /\ extra'[c] = extra[c] + 1
            /\ \A d \in Conns \ {c} : extra'[d] = extra[d]
            /\ LockMode = "semaphore" => avail' = avail + 1
        BY <1>2, <2>4 DEF _unlock
      <3>3. /\ IsFiniteSet(Units(extra'))
            /\ Cardinality(Units(extra')) = Cardinality(Units(extra)) + 1
        BY <3>2, UnitsAdd
      <3> QED
        BY <3>1, <3>2, <3>3, FS_CardinalityType
    <2> QED
      BY <2>2, <2>3, <2>4
  <1> QED
    BY <1>1, <1>2

\* No step loses a unit.
LEMMA UnitsStep ==
    ASSUME TypeOK, LockInv, UnitsKept, [Next]_vars
    PROVE  UnitsKept'
  <1> USE DEF UnitsKept, TypeOK, LockTypeOK, vars, lock
  <1>1. ASSUME NEW c \in Conns, NEW o \in Writes, NEW t \in Tokens, StartWrite(c, o, t)
        PROVE UnitsKept'
    BY <1>1 DEF StartWrite
  <1>2. ASSUME NEW c \in Conns, _select(c) PROVE UnitsKept'
    BY <1>2 DEF _select
  <1>3. ASSUME NEW c \in Conns, _select_iterate_open(c) PROVE UnitsKept'
    BY <1>3 DEF _select_iterate_open, Enter
  <1>4. ASSUME NEW c \in Conns, _select_iterate(c) PROVE UnitsKept'
    BY <1>4 DEF _select_iterate
  <1>5. ASSUME NEW c \in Conns, sorm_select_iterate_close(c) PROVE UnitsKept'
    BY <1>5 DEF sorm_select_iterate_close
  <1>6. ASSUME NEW c \in Conns, NEW kind \in Begins, sorm_begin_transaction(c, kind)
        PROVE UnitsKept'
    BY <1>6 DEF sorm_begin_transaction
  <1>7. ASSUME NEW c \in Conns, NEW kind \in Ends, EndTransaction(c, kind)
        PROVE UnitsKept'
    BY <1>7 DEF EndTransaction
  <1>8. ASSUME NEW c \in Conns, sorm_open(c) PROVE UnitsKept'
    BY <1>8 DEF sorm_open
  <1>9. ASSUME NEW c \in Conns, sorm_close(c) PROVE UnitsKept'
    BY <1>9 DEF sorm_close
  <1>10. ASSUME NEW c \in Conns, StepLock(c) PROVE UnitsKept'
    <2>1. CASE LockMode = "semaphore"
      <3>1. wheld' = wheld \cup {c} /\ avail' = avail - 1 /\ extra' = extra
        BY <1>10, <2>1 DEF StepLock, _lock
      <3>2. c \notin wheld
        BY <1>10 DEF StepLock, LockInv
      <3>3. /\ IsFiniteSet(wheld')
            /\ Cardinality(wheld') = Cardinality(wheld) + 1
        BY <3>1, <3>2, FS_AddElement
      <3> QED
        BY <2>1, <3>1, <3>3, FS_CardinalityType
    <2>2. CASE LockMode # "semaphore"
      <3>1. IsFiniteSet(wheld') /\ extra' = extra
        BY <1>10, <2>2, FS_AddElement DEF StepLock, _lock
      <3> QED
        BY <2>2, <3>1
    <2> QED
      BY <2>1, <2>2
  <1>11. ASSUME NEW c \in Conns, StepUnlock(c) PROVE UnitsKept'
    BY <1>11, UnlockKeeps DEF StepUnlock
  <1>12. ASSUME NEW c \in Conns, StepBusy(c) PROVE UnitsKept'
    BY <1>12 DEF StepBusy
  <1>13. ASSUME NEW c \in Conns, StepRow(c) PROVE UnitsKept'
    BY <1>13 DEF StepRow
  <1>14. ASSUME NEW c \in Conns, StepEnd(c) PROVE UnitsKept'
    BY <1>14 DEF StepEnd
  <1>15. ASSUME NEW c \in Conns, StepConstraint(c) PROVE UnitsKept'
    BY <1>15 DEF StepConstraint
  <1>16. ASSUME NEW c \in Conns, StepWrite(c) PROVE UnitsKept'
    BY <1>16 DEF StepWrite
  <1>17. ASSUME NEW c \in Conns, StepFault(c) PROVE UnitsKept'
    BY <1>17 DEF StepFault
  <1>18. ASSUME NEW c \in Conns, StepExclusive(c) PROVE UnitsKept'
    BY <1>18 DEF StepExclusive
  <1>19. ASSUME NEW c \in Conns, StepSync(c) PROVE UnitsKept'
    BY <1>19 DEF StepSync
  <1>20. ASSUME NEW c \in Conns, SelectNext(c) PROVE UnitsKept'
    BY <1>20 DEF SelectNext
  <1>21. ASSUME NEW c \in Conns, SelectStop(c) PROVE UnitsKept'
    BY <1>21 DEF SelectStop
  <1>22. ASSUME NEW c \in Conns, FinalLeak(c) PROVE UnitsKept'
    BY <1>22 DEF FinalLeak
  <1>23. ASSUME NEW c \in Conns, FinalNoPK(c) PROVE UnitsKept'
    BY <1>23 DEF FinalNoPK
  <1>24. ASSUME NEW c \in Conns, FinalWrite(c) PROVE UnitsKept'
    BY <1>24 DEF FinalWrite
  <1>25. ASSUME NEW c \in Conns, FinalSelect(c) PROVE UnitsKept'
    BY <1>25 DEF FinalSelect
  <1>26. ASSUME NEW c \in Conns, FinalIterate(c) PROVE UnitsKept'
    BY <1>26 DEF FinalIterate
  <1>27. ASSUME NEW c \in Conns, FinalizeBusy(c) PROVE UnitsKept'
    BY <1>27 DEF FinalizeBusy
  <1>28. ASSUME NEW c \in Conns, RefinalizeMisuse(c) PROVE UnitsKept'
    BY <1>28 DEF RefinalizeMisuse
  <1>29. ASSUME NEW c \in Conns, RefinalizeCrash(c) PROVE UnitsKept'
    <2>1. c \notin wheld /\ Victims(c) \subseteq Conns
      BY <1>29 DEF RefinalizeCrash, LockInv, Victims
    <2>2. IsFiniteSet(wheld')
      BY <1>29, FS_Difference DEF RefinalizeCrash
    <2>3. CASE LockMode = "rwlock"
      <3>1. \A d \in Conns : extra'[d] = 0
        BY <1>29, <2>3 DEF RefinalizeCrash, Victims, Ended
      <3>2. extra' \in [Conns -> Nat]
        BY <1>29 DEF RefinalizeCrash, Ended
      <3>3. IsFiniteSet(Units(extra'))
        BY <3>1, <3>2, UnitsNone
      <3> QED
        BY <2>2, <2>3, <3>3
    <2>4. CASE LockMode # "rwlock"
      <3>1. /\ extra' \in [Conns -> Nat]
            /\ extra'[c] = 0 /\ \A d \in Conns \ {c} : extra'[d] = extra[d]
        BY <1>29, <2>4 DEF RefinalizeCrash, Victims, Ended
      <3>2. /\ IsFiniteSet(Units(extra'))
            /\ Cardinality(Units(extra')) = Cardinality(Units(extra)) - extra[c]
        BY <3>1, UnitsClear
      <3>3. wheld' = wheld
        BY <1>29, <2>1, <2>4 DEF RefinalizeCrash, Victims
      <3>4. avail' \in Nat /\ avail' >= avail - extra[c]
        BY <1>29 DEF RefinalizeCrash
      <3> QED
        BY <2>2, <3>2, <3>3, <3>4, FS_CardinalityType
    <2> QED
      BY <2>3, <2>4
  <1>30. ASSUME NEW c \in Conns, TStepBegin(c) PROVE UnitsKept'
    BY <1>30 DEF TStepBegin
  <1>31. ASSUME NEW c \in Conns, TStepRefused(c) PROVE UnitsKept'
    BY <1>31 DEF TStepRefused
  <1>32. ASSUME NEW c \in Conns, TStepCommit(c) PROVE UnitsKept'
    BY <1>32 DEF TStepCommit
  <1>33. ASSUME NEW c \in Conns, TStepSync(c) PROVE UnitsKept'
    BY <1>33 DEF TStepSync
  <1>34. ASSUME NEW c \in Conns, TStepRollback(c) PROVE UnitsKept'
    BY <1>34 DEF TStepRollback
  <1>35. ASSUME NEW c \in Conns, BeginDone(c) PROVE UnitsKept'
    BY <1>35 DEF BeginDone
  <1>36. ASSUME NEW c \in Conns, EndDone(c) PROVE UnitsKept'
    BY <1>36, UnlockKeeps DEF EndDone
  <1>37. ASSUME NEW c \in Conns, EndFailed(c) PROVE UnitsKept'
    BY <1>37 DEF EndFailed
  <1>38. ASSUME NEW c \in Conns, CloseDone(c) PROVE UnitsKept'
    BY <1>38 DEF CloseDone
  <1>39. CASE UNCHANGED vars
    BY <1>39
  <1>40. ASSUME NEW c \in Conns, PrepareBusy(c) PROVE UnitsKept'
    BY <1>40 DEF PrepareBusy
  <1>41. ASSUME NEW c \in Conns, PrepareRead(c) PROVE UnitsKept'
    BY <1>41 DEF PrepareRead
  <1>42. ASSUME NEW c \in Conns, Prepared(c) PROVE UnitsKept'
    BY <1>42 DEF Prepared
  <1>43. ASSUME NEW c \in Conns, PrepareFailed(c) PROVE UnitsKept'
    BY <1>43 DEF PrepareFailed
  <1>44. ASSUME NEW c \in Conns, PrepareAgain(c) PROVE UnitsKept'
    BY <1>44 DEF PrepareAgain
  <1>45. ASSUME NEW c \in Conns, StepUndo(c) PROVE UnitsKept'
    BY <1>45 DEF StepUndo
  <1> QED
    BY StepCases, <1>1, <1>2, <1>3, <1>4, <1>5, <1>6, <1>7, <1>8, <1>9, <1>10,
        <1>11, <1>12, <1>13, <1>14, <1>15, <1>16, <1>17, <1>18, <1>19, <1>20,
        <1>21, <1>22, <1>23, <1>24, <1>25, <1>26, <1>27, <1>28, <1>29, <1>30,
        <1>31, <1>32, <1>33, <1>34, <1>35, <1>36, <1>37, <1>38, <1>39, <1>40,
        <1>41, <1>42, <1>43, <1>44, <1>45

\* No statement finds the file locked at its first instruction.
LEMMA OneAtATimeStep ==
    ASSUME LockMode # "none", "transaction" \notin Ops, TypeOK, CallInv, LockInv,
           OneAtATime, NoneUnfinished, [Next]_vars
    PROVE  OneAtATime' /\ NoneUnfinished'
  <1> USE DEF OneAtATime, NoneUnfinished, TypeOK, CallTypeOK, ConnTypeOK,
        LiteTypeOK, LockTypeOK, vars, call, conn, lite, lock, Writes, Begins,
        Ends, NONE, SHARED, RESERVED, PENDING, EXCLUSIVE
  <1>1. ASSUME NEW c \in Conns, NEW o \in Writes, NEW t \in Tokens, StartWrite(c, o, t)
        PROVE OneAtATime' /\ NoneUnfinished'
    BY <1>1 DEF StartWrite, Prepare, Enter, AtStep
  <1>2. ASSUME NEW c \in Conns, _select(c) PROVE OneAtATime' /\ NoneUnfinished'
    BY <1>2 DEF _select, Prepare, Enter, AtStep
  <1>3. ASSUME NEW c \in Conns, _select_iterate_open(c)
        PROVE OneAtATime' /\ NoneUnfinished'
    BY <1>3 DEF _select_iterate_open, Enter
  <1>4. ASSUME NEW c \in Conns, _select_iterate(c)
        PROVE OneAtATime' /\ NoneUnfinished'
    BY <1>4 DEF _select_iterate, Enter, AtStep
  <1>5. ASSUME NEW c \in Conns, sorm_select_iterate_close(c)
        PROVE OneAtATime' /\ NoneUnfinished'
    BY <1>5 DEF sorm_select_iterate_close, AfterHalt, Downgrade
  <1>6. ASSUME NEW c \in Conns, NEW kind \in Begins, sorm_begin_transaction(c, kind)
        PROVE OneAtATime' /\ NoneUnfinished'
    BY <1>6 DEF sorm_begin_transaction
  <1>7. ASSUME NEW c \in Conns, NEW kind \in Ends, EndTransaction(c, kind)
        PROVE OneAtATime' /\ NoneUnfinished'
    BY <1>7 DEF EndTransaction
  <1>8. ASSUME NEW c \in Conns, sorm_open(c) PROVE OneAtATime' /\ NoneUnfinished'
    BY <1>8 DEF sorm_open
  <1>9. ASSUME NEW c \in Conns, sorm_close(c) PROVE OneAtATime' /\ NoneUnfinished'
    BY <1>9 DEF sorm_close
  <1>10. ASSUME NEW c \in Conns, StepLock(c) PROVE OneAtATime' /\ NoneUnfinished'
    BY <1>10 DEF StepLock, _lock, Mode, LockInv
  <1>11. ASSUME NEW c \in Conns, StepUnlock(c) PROVE OneAtATime' /\ NoneUnfinished'
    BY <1>11 DEF StepUnlock, Resume, _unlock
  <1>12. ASSUME NEW c \in Conns, StepBusy(c) PROVE OneAtATime' /\ NoneUnfinished'
    BY <1>12 DEF StepBusy, CanReserve, CanShare, CallInv, LockInv, LockExcludes
  <1>13. ASSUME NEW c \in Conns, StepRow(c) PROVE OneAtATime' /\ NoneUnfinished'
    BY <1>13 DEF StepRow, Stepped, Resume, AtLeast
  <1>14. ASSUME NEW c \in Conns, StepEnd(c) PROVE OneAtATime' /\ NoneUnfinished'
    BY <1>14 DEF StepEnd, Stepped, Resume, AtLeast, Downgrade, AfterHalt
  <1>15. ASSUME NEW c \in Conns, StepConstraint(c)
        PROVE OneAtATime' /\ NoneUnfinished'
    BY <1>15 DEF StepConstraint, Stepped, Resume, AtLeast, Downgrade, AfterHalt
  <1>16. ASSUME NEW c \in Conns, StepWrite(c) PROVE OneAtATime' /\ NoneUnfinished'
    BY <1>16 DEF StepWrite, Stepped, Resume, AtLeast
  <1>17. ASSUME NEW c \in Conns, StepFault(c) PROVE OneAtATime' /\ NoneUnfinished'
    BY <1>17 DEF StepFault, Stepped, Resume, Downgrade
  <1>18. ASSUME NEW c \in Conns, StepExclusive(c)
        PROVE OneAtATime' /\ NoneUnfinished'
    BY <1>18 DEF StepExclusive, CallInv
  <1>19. ASSUME NEW c \in Conns, StepSync(c) PROVE OneAtATime' /\ NoneUnfinished'
    BY <1>19 DEF StepSync, Stepped, Resume, Downgrade, AfterHalt, CallInv
  <1>20. ASSUME NEW c \in Conns, SelectNext(c) PROVE OneAtATime' /\ NoneUnfinished'
    BY <1>20 DEF SelectNext, AtStep, CallInv
  <1>21. ASSUME NEW c \in Conns, SelectStop(c) PROVE OneAtATime' /\ NoneUnfinished'
    BY <1>21 DEF SelectStop
  <1>22. ASSUME NEW c \in Conns, FinalLeak(c) PROVE OneAtATime' /\ NoneUnfinished'
    BY <1>22 DEF FinalLeak, Leave
  <1>23. ASSUME NEW c \in Conns, FinalNoPK(c) PROVE OneAtATime' /\ NoneUnfinished'
    BY <1>23 DEF FinalNoPK, Leave
  <1>24. ASSUME NEW c \in Conns, FinalWrite(c) PROVE OneAtATime' /\ NoneUnfinished'
    BY <1>24 DEF FinalWrite, Leave
  <1>25. ASSUME NEW c \in Conns, FinalSelect(c) PROVE OneAtATime' /\ NoneUnfinished'
    BY <1>25 DEF FinalSelect, Leave, Downgrade, AfterHalt
  <1>26. ASSUME NEW c \in Conns, FinalIterate(c) PROVE OneAtATime' /\ NoneUnfinished'
    BY <1>26 DEF FinalIterate, Leave
  <1>27. ASSUME NEW c \in Conns, FinalizeBusy(c) PROVE OneAtATime' /\ NoneUnfinished'
    BY <1>27 DEF FinalizeBusy
  <1>28. ASSUME NEW c \in Conns, RefinalizeMisuse(c)
        PROVE OneAtATime' /\ NoneUnfinished'
    BY <1>28 DEF RefinalizeMisuse, Leave
  <1>29. ASSUME NEW c \in Conns, RefinalizeCrash(c)
        PROVE OneAtATime' /\ NoneUnfinished'
    BY <1>29 DEF RefinalizeCrash, Ended, Victims
  <1>30. ASSUME NEW c \in Conns, TStepBegin(c) PROVE OneAtATime' /\ NoneUnfinished'
    BY <1>30 DEF TStepBegin, TStepped, AtLeast
  <1>31. ASSUME NEW c \in Conns, TStepRefused(c) PROVE OneAtATime' /\ NoneUnfinished'
    BY <1>31 DEF TStepRefused, TStepped
  <1>32. ASSUME NEW c \in Conns, TStepCommit(c) PROVE OneAtATime' /\ NoneUnfinished'
    BY <1>32 DEF TStepCommit, TStepped, AtLeast
  <1>33. ASSUME NEW c \in Conns, TStepSync(c) PROVE OneAtATime' /\ NoneUnfinished'
    BY <1>33 DEF TStepSync, TStepped
  <1>34. ASSUME NEW c \in Conns, TStepRollback(c)
        PROVE OneAtATime' /\ NoneUnfinished'
    BY <1>34 DEF TStepRollback, TStepped
  <1>35. ASSUME NEW c \in Conns, BeginDone(c) PROVE OneAtATime' /\ NoneUnfinished'
    BY <1>35 DEF BeginDone, Leave
  <1>36. ASSUME NEW c \in Conns, EndDone(c) PROVE OneAtATime' /\ NoneUnfinished'
    BY <1>36 DEF EndDone, Leave
  <1>37. ASSUME NEW c \in Conns, EndFailed(c) PROVE OneAtATime' /\ NoneUnfinished'
    BY <1>37 DEF EndFailed, Leave
  <1>38. ASSUME NEW c \in Conns, CloseDone(c) PROVE OneAtATime' /\ NoneUnfinished'
    BY <1>38 DEF CloseDone
  <1>39. CASE UNCHANGED vars
    BY <1>39
  <1>40. ASSUME NEW c \in Conns, PrepareBusy(c) PROVE OneAtATime' /\ NoneUnfinished'
    BY <1>40 DEF PrepareBusy, Leave
  <1>41. ASSUME NEW c \in Conns, PrepareRead(c) PROVE OneAtATime' /\ NoneUnfinished'
    BY <1>41 DEF PrepareRead
  <1>42. ASSUME NEW c \in Conns, Prepared(c) PROVE OneAtATime' /\ NoneUnfinished'
    BY <1>42 DEF Prepared, ReadDone, AtStep, Leave
  <1>43. ASSUME NEW c \in Conns, PrepareFailed(c)
        PROVE OneAtATime' /\ NoneUnfinished'
    BY <1>43 DEF PrepareFailed, ReadDone, Leave
  <1>44. ASSUME NEW c \in Conns, PrepareAgain(c) PROVE OneAtATime' /\ NoneUnfinished'
    BY <1>44 DEF PrepareAgain, ReadDone
  <1>45. ASSUME NEW c \in Conns, StepUndo(c) PROVE OneAtATime' /\ NoneUnfinished'
    BY <1>45 DEF StepUndo, Stepped, Resume, Downgrade, AfterHalt, CallInv
  <1> QED
    BY ZenonT(120), StepCases, <1>1, <1>2, <1>3, <1>4, <1>5, <1>6, <1>7, <1>8, <1>9, <1>10,
        <1>11, <1>12, <1>13, <1>14, <1>15, <1>16, <1>17, <1>18, <1>19, <1>20,
        <1>21, <1>22, <1>23, <1>24, <1>25, <1>26, <1>27, <1>28, <1>29, <1>30,
        <1>31, <1>32, <1>33, <1>34, <1>35, <1>36, <1>37, <1>38, <1>39, <1>40,
        <1>41, <1>42, <1>43, <1>44, <1>45
-----------------------------------------------------------------------------
\* The semaphore never loses its unit: whatever transactions end (each with an
\* unlock of a lock it never took) and whatever processes are killed (each with
\* its SEM_UNDO adjustment), it is available or someone will give it back.
THEOREM SemaphoreNeverLost == Spec => []SemaphoreKept
  <1>1. Init => UnitsKept
    <2> SUFFICES ASSUME Init PROVE UnitsKept
      OBVIOUS
    <2>1. extra \in [Conns -> Nat] /\ \A c \in Conns : extra[c] = 0
      BY DEF Init
    <2>2. IsFiniteSet(Units(extra)) /\ Cardinality(Units(extra)) = 0
      BY <2>1, UnitsNone
    <2> QED
      BY <2>2, FS_EmptySet DEF Init, UnitsKept
  <1>2. Init => LockInv
    BY DEF Init, LockInv, LockExcludes
  <1>3. TypeOK /\ TxInv /\ LockInv /\ [Next]_vars => LockInv'
    BY LockStep
  <1>4. TypeOK /\ LockInv /\ UnitsKept /\ [Next]_vars => UnitsKept'
    BY UnitsStep
  <1>5. UnitsKept /\ TypeOK => SemaphoreKept
    BY FS_CardinalityType DEF UnitsKept, SemaphoreKept, TypeOK, LockTypeOK
  <1> QED
    BY <1>1, <1>2, <1>3, <1>4, <1>5, CoreInvariant, PTL DEF Spec

\* Without transactions, in the semaphore mode and in the rwlock mode, no
\* statement of any number of connections is stopped at its first instruction by
\* a lock on the file, so none is lost unfinished; what can still be busy is the
\* commit of a write, beside a reader, and a prepare.
THEOREM NoStatementUnfinished ==
    ASSUME LockMode # "none", "transaction" \notin Ops
    PROVE  Spec => []NoneUnfinished
  <1>1. Init => OneAtATime /\ NoneUnfinished
    BY DEF Init, OneAtATime, NoneUnfinished, NONE, RESERVED
  <1>2. Init => LockInv
    BY DEF Init, LockInv, LockExcludes
  <1>3. TypeOK /\ TxInv /\ LockInv /\ [Next]_vars => LockInv'
    BY LockStep
  <1>4. TypeOK /\ CallInv /\ LockInv /\ OneAtATime /\ NoneUnfinished
            /\ [Next]_vars => OneAtATime' /\ NoneUnfinished'
    BY OneAtATimeStep
  <1> QED
    BY <1>1, <1>2, <1>3, <1>4, CoreInvariant, PTL DEF Spec
=============================================================================
