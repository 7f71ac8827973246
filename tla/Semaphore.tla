----------------------------- MODULE Semaphore ------------------------------
(***************************************************************************)
(* src/semaphore.c: a System V semaphore that every function creates when  *)
(* it is missing, and src/sorm.c's use of it: _lock ignores what sem_p     *)
(* returns, and the end of a transaction calls _unlock without a _lock.    *)
(* The kernel (semget, semctl, semop with SEM_UNDO, exit) is external.     *)
(***************************************************************************)
EXTENDS Integers, FiniteSets

CONSTANTS
    Procs,          \* the processes, one connection each
    Created,        \* TRUE iff the semaphore exists, with value 1, at the start
    MaxCrashes,     \* bound: processes killed
    MaxInterrupts,  \* bound: semop calls a signal interrupts
    MaxLoneV        \* bound: calls of sem_v without sem_p (ended transactions)

ASSUME SemaphoreAssumption ==
    /\ IsFiniteSet(Procs)
    /\ Created \in BOOLEAN
    /\ MaxCrashes \in Nat /\ MaxInterrupts \in Nat /\ MaxLoneV \in Nat

VARIABLES
    exists,     \* semget finds the semaphore
    val,        \* its value
    adj,        \* the SEM_UNDO adjustment of each process
    pc,         \* where a process is
    fn,         \* the function it runs: "init", "p" or "v"
    owns,       \* its sem_p took a unit that its sem_v has not given back
    sets,       \* how often the value was set (history)
    crashes, interrupts, loneV  \* history

vars == <<exists, val, adj, pc, fn, owns, sets, crashes, interrupts, loneV>>

\* in: between _lock and _unlock, in sqlite3_step.
PCs == {"out", "get", "create", "set", "op", "in"}

TypeOK ==
    /\ exists \in BOOLEAN
    /\ val \in Nat
    /\ adj \in [Procs -> Int]
    /\ pc \in [Procs -> PCs]
    /\ fn \in [Procs -> {"init", "p", "v"}]
    /\ owns \in [Procs -> BOOLEAN]
    /\ sets \in Nat /\ crashes \in Nat /\ interrupts \in Nat /\ loneV \in Nat

Init ==
    /\ exists = Created
    /\ val = IF Created THEN 1 ELSE 0
    /\ adj = [p \in Procs |-> 0]
    /\ pc = [p \in Procs |-> "out"]
    /\ fn = [p \in Procs |-> "init"]
    /\ owns = [p \in Procs |-> FALSE]
    /\ sets = IF Created THEN 1 ELSE 0
    /\ crashes = 0 /\ interrupts = 0 /\ loneV = 0
-----------------------------------------------------------------------------
Start(p, f, from) ==
    /\ pc[p] = from
    /\ pc' = [pc EXCEPT ![p] = "get"]
    /\ fn' = [fn EXCEPT ![p] = f]

sem_init(p) ==
    /\ Start(p, "init", "out")
    /\ UNCHANGED <<exists, val, adj, owns, sets, crashes, interrupts, loneV>>

sem_p(p) ==
    /\ Start(p, "p", "out")
    /\ UNCHANGED <<exists, val, adj, owns, sets, crashes, interrupts, loneV>>

\* _unlock at the end of _sqlite3_step ...
sem_v(p) ==
    /\ Start(p, "v", "in")
    /\ UNCHANGED <<exists, val, adj, owns, sets, crashes, interrupts, loneV>>

\* ... and _unlock at the end of a transaction, which held no unit.
LoneUnlock(p) ==
    /\ loneV < MaxLoneV
    /\ loneV' = loneV + 1
    /\ Start(p, "v", "out")
    /\ UNCHANGED <<exists, val, adj, owns, sets, crashes, interrupts>>

\* What a function does once it has the identifier of the semaphore.
Ready(p) == IF fn[p] = "init" THEN "out" ELSE "op"

semget(p) ==
    /\ pc[p] = "get"
    /\ pc' = [pc EXCEPT ![p] = IF exists THEN Ready(p) ELSE "create"]
    /\ UNCHANGED <<exists, val, adj, fn, owns, sets, crashes, interrupts, loneV>>

\* Without IPC_EXCL the second semget succeeds even if another process has
\* created the semaphore meanwhile.  A new semaphore has the value 0.
semget_create(p) ==
    /\ pc[p] = "create"
    /\ exists' = TRUE
    /\ pc' = [pc EXCEPT ![p] = "set"]
    /\ UNCHANGED <<val, adj, fn, owns, sets, crashes, interrupts, loneV>>

\* Mutant: the new semaphore is left at 0.
semctl_setzero(p) ==
    /\ pc[p] = "set"
    /\ val' = 0
    /\ adj' = [q \in Procs |-> 0]
    /\ sets' = sets + 1
    /\ pc' = [pc EXCEPT ![p] = Ready(p)]
    /\ UNCHANGED <<exists, fn, owns, crashes, interrupts, loneV>>

\* SETVAL also forgets the adjustments of all processes.
semctl_setval(p) ==
    /\ pc[p] = "set"
    /\ val' = 1
    /\ adj' = [q \in Procs |-> 0]
    /\ sets' = sets + 1
    /\ pc' = [pc EXCEPT ![p] = Ready(p)]
    /\ UNCHANGED <<exists, fn, owns, crashes, interrupts, loneV>>

\* Mutant: the operation is 0 instead of -1.
semop_p_zero(p) ==
    /\ pc[p] = "op" /\ fn[p] = "p"
    /\ pc' = [pc EXCEPT ![p] = "in"]
    /\ UNCHANGED <<exists, val, adj, fn, owns, sets, crashes, interrupts, loneV>>

\* Mutant: the operation does not wait.
semop_p_nowait(p) ==
    /\ pc[p] = "op" /\ fn[p] = "p"
    /\ val' = val - 1
    /\ adj' = [adj EXCEPT ![p] = @ + 1]
    /\ owns' = [owns EXCEPT ![p] = TRUE]
    /\ pc' = [pc EXCEPT ![p] = "in"]
    /\ UNCHANGED <<exists, fn, sets, crashes, interrupts, loneV>>

semop_p(p) ==
    /\ pc[p] = "op" /\ fn[p] = "p"
    /\ val > 0
    /\ val' = val - 1
    /\ adj' = [adj EXCEPT ![p] = @ + 1]
    /\ owns' = [owns EXCEPT ![p] = TRUE]
    /\ pc' = [pc EXCEPT ![p] = "in"]
    /\ UNCHANGED <<exists, fn, sets, crashes, interrupts, loneV>>

\* A signal ends the wait; sem_p reports SEM_OP_FAIL and _lock goes on.
semop_interrupted(p) ==
    /\ pc[p] = "op" /\ fn[p] = "p"
    /\ val = 0
    /\ interrupts < MaxInterrupts
    /\ interrupts' = interrupts + 1
    /\ pc' = [pc EXCEPT ![p] = "in"]
    /\ UNCHANGED <<exists, val, adj, fn, owns, sets, crashes, loneV>>

\* Mutant: the operation of sem_v is 0.
semop_v_zero(p) ==
    /\ pc[p] = "op" /\ fn[p] = "v"
    /\ owns' = [owns EXCEPT ![p] = FALSE]
    /\ pc' = [pc EXCEPT ![p] = "out"]
    /\ UNCHANGED <<exists, val, adj, fn, sets, crashes, interrupts, loneV>>

semop_v(p) ==
    /\ pc[p] = "op" /\ fn[p] = "v"
    /\ val' = val + 1
    /\ adj' = [adj EXCEPT ![p] = @ - 1]
    /\ owns' = [owns EXCEPT ![p] = FALSE]
    /\ pc' = [pc EXCEPT ![p] = "out"]
    /\ UNCHANGED <<exists, fn, sets, crashes, interrupts, loneV>>

\* Mutant: without SEM_UNDO.
CrashNoUndo(p) ==
    /\ crashes < MaxCrashes
    /\ crashes' = crashes + 1
    /\ adj' = [adj EXCEPT ![p] = 0]
    /\ owns' = [owns EXCEPT ![p] = FALSE]
    /\ pc' = [pc EXCEPT ![p] = "out"]
    /\ UNCHANGED <<exists, val, fn, sets, interrupts, loneV>>

\* The process is killed and another one takes its place.  The kernel undoes
\* its operations, but the value stops at 0.
Crash(p) ==
    /\ crashes < MaxCrashes
    /\ crashes' = crashes + 1
    /\ val' = IF val + adj[p] < 0 THEN 0 ELSE val + adj[p]
    /\ adj' = [adj EXCEPT ![p] = 0]
    /\ owns' = [owns EXCEPT ![p] = FALSE]
    /\ pc' = [pc EXCEPT ![p] = "out"]
    /\ UNCHANGED <<exists, fn, sets, interrupts, loneV>>

Work(p) ==
    \/ sem_v(p) \/ semget(p) \/ semget_create(p) \/ semctl_setval(p)
    \/ semop_interrupted(p) \/ semop_v(p)

Next ==
    \E p \in Procs :
        \/ sem_init(p) \/ sem_p(p) \/ LoneUnlock(p)
        \/ Work(p) \/ semop_p(p) \/ Crash(p)

Spec == Init /\ [][Next]_vars

\* A process in a function, or in sqlite3_step, goes on; the kernel serves the
\* waiters of a semaphore in order.
Fairness == \A p \in Procs : WF_vars(Work(p)) /\ SF_vars(semop_p(p))

FairSpec == Spec /\ Fairness
-----------------------------------------------------------------------------
Holders == {p \in Procs : owns[p]}

\* The value was set once, no wait was interrupted and every sem_v followed a
\* sem_p.
Undisturbed == sets = 1 /\ interrupts = 0 /\ loneV = 0

\* Then exactly one unit exists, in the semaphore or in the hands of a process,
\* even when processes are killed anywhere: SEM_UNDO returns theirs.
OneUnit == Undisturbed => val + Cardinality(Holders) = 1

\* What comment and use in src/sorm.c expect of the semaphore: at most one
\* process is between _lock and _unlock.
Mutex == \A p, q \in Procs : pc[p] = "in" /\ pc[q] = "in" => p = q

\* Then the semaphore excludes.
MutexUndisturbed == Undisturbed => Mutex

\* Once the value has been set the semaphore can always be entered again, even
\* after races, lone unlocks, interrupts and crashes with their undo.
NeverLockedOut == sets > 0 => val + Cardinality(Holders) >= 1

\* A process waiting in sem_p does not wait for ever, even after races, lone
\* unlocks, interrupts and crashes, if the value has been set: it enters, or it
\* is killed itself.
WaiterServed ==
    \A p \in Procs :
        sets > 0 /\ pc[p] = "op" /\ fn[p] = "p" ~> pc[p] # "op"
=============================================================================
