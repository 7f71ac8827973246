-------------------------- MODULE SemaphoreProofs ---------------------------
(***************************************************************************)
(* Proofs about src/semaphore.c for any finite set of processes and any    *)
(* number of crashes, interrupted waits, lone unlocks and SETVAL races:    *)
(*   SemaphoreTypes  the types                                             *)
(*   UnitUnique      one unit exists, while nothing disturbed the          *)
(*                   semaphore                                             *)
(*   SemaphoreMutex  then it excludes                                      *)
(*   EntryPossible   once its value was set it can be entered again        *)
(***************************************************************************)
EXTENDS Semaphore, CountingTheorems

\* A process owns a unit only from the semop of sem_p to that of sem_v, and one
\* that waits in sem_p or waits to create the semaphore has none.
OwnerInv ==
    \A p \in Procs :
        owns[p] => pc[p] = "in" \/ (fn[p] = "v" /\ pc[p] # "out")

(***************************************************************************)
(* OneUnit and MutexUndisturbed before and after the only SETVAL.  Before  *)
(* it the value is 0, so nobody is in, and who runs sem_v has never come   *)
(* through sem_p; after it the unit is in the semaphore or with the one    *)
(* process that is in, whose adjustment is what a crash must give back.    *)
(***************************************************************************)
UnitInv ==
    sets <= 1 /\ interrupts = 0 /\ loneV = 0 =>
        /\ \A p \in Procs :
              /\ adj[p] = IF owns[p] THEN 1 ELSE 0
              /\ pc[p] = "in" \/ (fn[p] = "v" /\ pc[p] # "out") => owns[p]
        /\ \A p, q \in Procs : owns[p] /\ owns[q] => p = q
        /\ val = IF sets = 1 /\ (\A p \in Procs : ~owns[p]) THEN 1 ELSE 0
        /\ sets = 0 => \A p \in Procs : ~owns[p]

\* What a process could take from the semaphore by being killed and by never
\* giving back what it owns.
Owed == [p \in Procs |-> (IF owns[p] THEN 1 ELSE 0) - adj[p]]

(***************************************************************************)
(* NeverLockedOut is not inductive: a killed process takes back what it    *)
(* added (adj < 0), and SETVAL forgets what the owners' operations were,   *)
(* so that they give back more than they took.  The units must cover all   *)
(* that processes owe, and one more.                                       *)
(***************************************************************************)
OwedInv ==
    /\ Owed \in [Procs -> Nat]
    /\ IsFiniteSet(Units(Owed))
    /\ sets > 0 => val + Cardinality(Holders) >= 1 + Cardinality(Units(Owed))
-----------------------------------------------------------------------------
\* No step leaves the types.
LEMMA TypeStep ==
    ASSUME TypeOK, [Next]_vars
    PROVE  TypeOK'
  <1> USE DEF TypeOK, vars, PCs
  <1>1. ASSUME NEW p \in Procs, sem_init(p) PROVE TypeOK'
    BY <1>1 DEF sem_init, Start
  <1>2. ASSUME NEW p \in Procs, sem_p(p) PROVE TypeOK'
    BY <1>2 DEF sem_p, Start
  <1>3. ASSUME NEW p \in Procs, LoneUnlock(p) PROVE TypeOK'
    BY <1>3 DEF LoneUnlock, Start
  <1>4. ASSUME NEW p \in Procs, sem_v(p) PROVE TypeOK'
    BY <1>4 DEF sem_v, Start
  <1>5. ASSUME NEW p \in Procs, semget(p) PROVE TypeOK'
    BY <1>5 DEF semget, Ready
  <1>6. ASSUME NEW p \in Procs, semget_create(p) PROVE TypeOK'
    BY <1>6 DEF semget_create
  <1>7. ASSUME NEW p \in Procs, semctl_setval(p) PROVE TypeOK'
    BY <1>7 DEF semctl_setval, Ready
  <1>8. ASSUME NEW p \in Procs, semop_interrupted(p) PROVE TypeOK'
    BY <1>8 DEF semop_interrupted
  <1>9. ASSUME NEW p \in Procs, semop_v(p) PROVE TypeOK'
    <2>1. val' \in Nat /\ adj' \in [Procs -> Int]
      BY <1>9 DEF semop_v
    <2>2. pc' \in [Procs -> PCs] /\ owns' \in [Procs -> BOOLEAN]
      BY <1>9 DEF semop_v
    <2> QED
      BY <1>9, <2>1, <2>2 DEF semop_v
  <1>10. ASSUME NEW p \in Procs, semop_p(p) PROVE TypeOK'
    <2>1. val' \in Nat /\ adj' \in [Procs -> Int]
      BY <1>10 DEF semop_p
    <2>2. pc' \in [Procs -> PCs] /\ owns' \in [Procs -> BOOLEAN]
      BY <1>10 DEF semop_p
    <2> QED
      BY <1>10, <2>1, <2>2 DEF semop_p
  <1>11. ASSUME NEW p \in Procs, Crash(p) PROVE TypeOK'
    <2>1. val' \in Nat /\ adj' \in [Procs -> Int]
      BY <1>11 DEF Crash
    <2>2. pc' \in [Procs -> PCs] /\ owns' \in [Procs -> BOOLEAN]
      BY <1>11 DEF Crash
    <2> QED
      BY <1>11, <2>1, <2>2 DEF Crash
  <1>12. CASE UNCHANGED vars
    BY <1>12
  <1> QED
    BY <1>1, <1>2, <1>3, <1>4, <1>5, <1>6, <1>7, <1>8, <1>9, <1>10, <1>11, <1>12
        DEF Next, Work

\* No step breaks OwnerInv.
LEMMA OwnerStep ==
    ASSUME TypeOK, OwnerInv, [Next]_vars
    PROVE  OwnerInv'
  <1> USE DEF OwnerInv, TypeOK, vars, PCs
  <1>1. ASSUME NEW p \in Procs, sem_init(p) PROVE OwnerInv'
    BY <1>1 DEF sem_init, Start
  <1>2. ASSUME NEW p \in Procs, sem_p(p) PROVE OwnerInv'
    BY <1>2 DEF sem_p, Start
  <1>3. ASSUME NEW p \in Procs, LoneUnlock(p) PROVE OwnerInv'
    BY <1>3 DEF LoneUnlock, Start
  <1>4. ASSUME NEW p \in Procs, sem_v(p) PROVE OwnerInv'
    BY <1>4 DEF sem_v, Start
  <1>5. ASSUME NEW p \in Procs, semget(p) PROVE OwnerInv'
    BY <1>5 DEF semget, Ready
  <1>6. ASSUME NEW p \in Procs, semget_create(p) PROVE OwnerInv'
    BY <1>6 DEF semget_create
  <1>7. ASSUME NEW p \in Procs, semctl_setval(p) PROVE OwnerInv'
    BY <1>7 DEF semctl_setval, Ready
  <1>8. ASSUME NEW p \in Procs, semop_interrupted(p) PROVE OwnerInv'
    BY <1>8 DEF semop_interrupted
  <1>9. ASSUME NEW p \in Procs, semop_v(p) PROVE OwnerInv'
    BY <1>9 DEF semop_v
  <1>10. ASSUME NEW p \in Procs, semop_p(p) PROVE OwnerInv'
    BY <1>10 DEF semop_p
  <1>11. ASSUME NEW p \in Procs, Crash(p) PROVE OwnerInv'
    BY <1>11 DEF Crash
  <1>12. CASE UNCHANGED vars
    BY <1>12
  <1> QED
    BY <1>1, <1>2, <1>3, <1>4, <1>5, <1>6, <1>7, <1>8, <1>9, <1>10, <1>11, <1>12
        DEF Next, Work

\* No step breaks UnitInv.
LEMMA UnitStep ==
    ASSUME TypeOK, OwnerInv, UnitInv, [Next]_vars
    PROVE  UnitInv'
  <1> USE DEF UnitInv, OwnerInv, TypeOK, vars, PCs
  <1>1. ASSUME NEW p \in Procs, sem_init(p) PROVE UnitInv'
    BY <1>1 DEF sem_init, Start
  <1>2. ASSUME NEW p \in Procs, sem_p(p) PROVE UnitInv'
    BY <1>2 DEF sem_p, Start
  <1>3. ASSUME NEW p \in Procs, LoneUnlock(p) PROVE UnitInv'
    BY <1>3 DEF LoneUnlock, Start
  <1>4. ASSUME NEW p \in Procs, sem_v(p) PROVE UnitInv'
    BY <1>4 DEF sem_v, Start
  <1>5. ASSUME NEW p \in Procs, semget(p) PROVE UnitInv'
    BY <1>5 DEF semget, Ready
  <1>6. ASSUME NEW p \in Procs, semget_create(p) PROVE UnitInv'
    BY <1>6 DEF semget_create
  <1>7. ASSUME NEW p \in Procs, semctl_setval(p) PROVE UnitInv'
    BY <1>7 DEF semctl_setval, Ready
  <1>8. ASSUME NEW p \in Procs, semop_interrupted(p) PROVE UnitInv'
    BY <1>8 DEF semop_interrupted
  <1>9. ASSUME NEW p \in Procs, semop_v(p) PROVE UnitInv'
    BY <1>9 DEF semop_v
  <1>10. ASSUME NEW p \in Procs, semop_p(p) PROVE UnitInv'
    BY <1>10 DEF semop_p
  <1>11. ASSUME NEW p \in Procs, Crash(p) PROVE UnitInv'
    BY <1>11 DEF Crash
  <1>12. CASE UNCHANGED vars
    BY <1>12
  <1> QED
    BY <1>1, <1>2, <1>3, <1>4, <1>5, <1>6, <1>7, <1>8, <1>9, <1>10, <1>11, <1>12
        DEF Next, Work

\* Only finitely many processes hold a unit.
LEMMA HoldersFinite ==
    /\ IsFiniteSet(Holders) /\ Cardinality(Holders) \in Nat
    /\ IsFiniteSet(Holders)' /\ (Cardinality(Holders) \in Nat)'
  <1>1. Holders \in SUBSET Procs /\ Holders' \in SUBSET Procs
    BY DEF Holders
  <1> QED
    BY <1>1, SemaphoreAssumption, FS_Subset, FS_CardinalityType

\* A step that touches neither units nor adjustments changes nothing owed.
LEMMA OwedSame ==
    ASSUME OwedInv, UNCHANGED <<val, adj, owns, sets>>
    PROVE  OwedInv'
  <1>1. Owed' = Owed /\ Holders' = Holders
    BY DEF Owed, Holders
  <1> QED
    BY <1>1 DEF OwedInv

\* No step breaks OwedInv.
LEMMA OwedStep ==
    ASSUME TypeOK, OwnerInv, OwedInv, [Next]_vars
    PROVE  OwedInv'
  <1> USE DEF OwedInv, TypeOK, vars, PCs
  <1>1. ASSUME NEW p \in Procs, sem_init(p) PROVE OwedInv'
    <2>1. UNCHANGED <<val, adj, owns, sets>>
      BY <1>1 DEF sem_init, Start
    <2> QED
      BY <2>1, OwedSame
  <1>2. ASSUME NEW p \in Procs, sem_p(p) PROVE OwedInv'
    <2>1. UNCHANGED <<val, adj, owns, sets>>
      BY <1>2 DEF sem_p, Start
    <2> QED
      BY <2>1, OwedSame
  <1>3. ASSUME NEW p \in Procs, LoneUnlock(p) PROVE OwedInv'
    <2>1. UNCHANGED <<val, adj, owns, sets>>
      BY <1>3 DEF LoneUnlock, Start
    <2> QED
      BY <2>1, OwedSame
  <1>4. ASSUME NEW p \in Procs, sem_v(p) PROVE OwedInv'
    <2>1. UNCHANGED <<val, adj, owns, sets>>
      BY <1>4 DEF sem_v, Start
    <2> QED
      BY <2>1, OwedSame
  <1>5. ASSUME NEW p \in Procs, semget(p) PROVE OwedInv'
    <2>1. UNCHANGED <<val, adj, owns, sets>>
      BY <1>5 DEF semget
    <2> QED
      BY <2>1, OwedSame
  <1>6. ASSUME NEW p \in Procs, semget_create(p) PROVE OwedInv'
    <2>1. UNCHANGED <<val, adj, owns, sets>>
      BY <1>6 DEF semget_create
    <2> QED
      BY <2>1, OwedSame
  <1>7. ASSUME NEW p \in Procs, semctl_setval(p) PROVE OwedInv'
    <2>1. val' = 1 /\ owns' = owns /\ \A q \in Procs : adj'[q] = 0
      BY <1>7 DEF semctl_setval
    <2>2. /\ Owed' \in [Procs -> Nat]
          /\ \A q \in Procs : Owed'[q] = IF q \in Holders THEN 1 ELSE 0
      BY <2>1 DEF Owed, Holders
    <2>3. Holders' = Holders /\ Holders \in SUBSET Procs
      BY <2>1 DEF Holders
    <2>4. /\ IsFiniteSet(Units(Owed'))
          /\ Cardinality(Units(Owed')) = Cardinality(Holders)
      BY <2>2, <2>3, HoldersFinite, UnitsOfOwners
    <2> QED
      BY <2>1, <2>2, <2>3, <2>4, HoldersFinite
  <1>8. ASSUME NEW p \in Procs, semop_interrupted(p) PROVE OwedInv'
    <2>1. UNCHANGED <<val, adj, owns, sets>>
      BY <1>8 DEF semop_interrupted
    <2> QED
      BY <2>1, OwedSame
  <1>9. ASSUME NEW p \in Procs, semop_v(p) PROVE OwedInv'
    <2>1. /\ val' = val + 1 /\ sets' = sets
          /\ adj' = [adj EXCEPT ![p] = adj[p] - 1]
          /\ owns' = [owns EXCEPT ![p] = FALSE]
      BY <1>9 DEF semop_v
    <2>2. Holders' = Holders \ {p}
      BY <2>1 DEF Holders
    <2>3. CASE owns[p]
      <3>1. \A q \in Procs : (IF owns'[q] THEN 1 ELSE 0) - adj'[q]
                                = (IF owns[q] THEN 1 ELSE 0) - adj[q]
        BY <2>1, <2>3
      <3>2. Owed' = Owed
        BY <3>1 DEF Owed
      <3>3. Cardinality(Holders') = Cardinality(Holders) - 1
        BY <2>2, <2>3, HoldersFinite, FS_RemoveElement DEF Holders
      <3> QED
        BY <2>1, <3>2, <3>3, HoldersFinite, FS_CardinalityType
    <2>4. CASE ~owns[p]
      <3>1. /\ Owed' \in [Procs -> Nat] /\ Owed'[p] = Owed[p] + 1
            /\ \A q \in Procs \ {p} : Owed'[q] = Owed[q]
        BY <2>1, <2>4 DEF Owed
      <3>2. /\ IsFiniteSet(Units(Owed'))
            /\ Cardinality(Units(Owed')) = Cardinality(Units(Owed)) + 1
        BY <3>1, UnitsAdd
      <3>3. Holders' = Holders
        BY <2>2, <2>4 DEF Holders
      <3>4. Cardinality(Units(Owed)) \in Nat
        BY FS_CardinalityType
      <3>5. sets > 0 => val' + Cardinality(Holders') >= 1 + Cardinality(Units(Owed'))
        BY <2>1, <3>2, <3>3, <3>4, HoldersFinite
      <3> QED
        BY <2>1, <3>1, <3>2, <3>5
    <2> QED
      BY <2>3, <2>4
  <1>10. ASSUME NEW p \in Procs, semop_p(p) PROVE OwedInv'
    <2>1. ~owns[p]
      BY <1>10 DEF semop_p, OwnerInv
    <2>2. /\ val' = val - 1 /\ sets' = sets
          /\ adj' = [adj EXCEPT ![p] = adj[p] + 1]
          /\ owns' = [owns EXCEPT ![p] = TRUE]
      BY <1>10 DEF semop_p
    <2>3. Owed' = Owed
      <3>1. \A q \in Procs : (IF owns'[q] THEN 1 ELSE 0) - adj'[q]
                                = (IF owns[q] THEN 1 ELSE 0) - adj[q]
        BY <2>1, <2>2
      <3> QED
        BY <3>1 DEF Owed
    <2>4. Holders' = Holders \cup {p} /\ p \notin Holders
      BY <2>1, <2>2 DEF Holders
    <2>5. Cardinality(Holders') = Cardinality(Holders) + 1
      BY <2>4, HoldersFinite, FS_AddElement
    <2> QED
      BY <2>2, <2>3, <2>5, HoldersFinite, FS_CardinalityType
  <1>11. ASSUME NEW p \in Procs, Crash(p) PROVE OwedInv'
    <2>1. /\ val' \in Nat /\ val' >= val + adj[p] /\ sets' = sets
          /\ adj' = [adj EXCEPT ![p] = 0]
          /\ owns' = [owns EXCEPT ![p] = FALSE]
      BY <1>11 DEF Crash
    <2>2. Holders' = Holders \ {p}
      BY <2>1 DEF Holders
    <2>3. Cardinality(Holders') = Cardinality(Holders) - (IF owns[p] THEN 1 ELSE 0)
      <3>1. p \in Holders <=> owns[p]
        BY DEF Holders
      <3>2. Cardinality(Holders \ {p}) = IF p \in Holders THEN Cardinality(Holders) - 1
                                                         ELSE Cardinality(Holders)
        BY HoldersFinite, FS_RemoveElement
      <3> QED
        BY <2>2, <3>1, <3>2, HoldersFinite
    <2>4. /\ Owed' \in [Procs -> Nat] /\ Owed'[p] = 0
          /\ \A q \in Procs \ {p} : Owed'[q] = Owed[q]
      BY <2>1 DEF Owed
    <2>5. /\ IsFiniteSet(Units(Owed'))
          /\ Cardinality(Units(Owed')) = Cardinality(Units(Owed)) - Owed[p]
      BY <2>4, UnitsClear
    <2>6. Owed[p] = (IF owns[p] THEN 1 ELSE 0) - adj[p]
      BY DEF Owed
    <2> QED
      <3>1. Cardinality(Units(Owed)) \in Nat
        BY FS_CardinalityType
      <3>2. sets > 0 => val' + Cardinality(Holders') >= 1 + Cardinality(Units(Owed'))
        BY <2>1, <2>3, <2>5, <2>6, <3>1, HoldersFinite
      <3> QED
        BY <2>1, <2>4, <2>5, <3>2
  <1>12. CASE UNCHANGED vars
    BY <1>12, OwedSame
  <1> QED
    BY <1>1, <1>2, <1>3, <1>4, <1>5, <1>6, <1>7, <1>8, <1>9, <1>10, <1>11, <1>12
        DEF Next, Work
-----------------------------------------------------------------------------
\* The value of the semaphore never gets below zero and the types hold, for any
\* number of processes, crashes and SETVAL races.
THEOREM SemaphoreTypes == Spec => []TypeOK
  <1>1. Init => TypeOK
    BY SemaphoreAssumption DEF Init, TypeOK, PCs
  <1>2. TypeOK /\ [Next]_vars => TypeOK'
    BY TypeStep
  <1> QED
    BY <1>1, <1>2, PTL DEF Spec

\* Who owns a unit is between its sem_p and the end of its sem_v.
LEMMA OwnerInvariant == Spec => [](TypeOK /\ OwnerInv)
  <1>1. Init => OwnerInv
    BY DEF Init, OwnerInv
  <1>2. TypeOK /\ OwnerInv /\ [Next]_vars => OwnerInv'
    BY OwnerStep
  <1> QED
    BY <1>1, <1>2, SemaphoreTypes, PTL DEF Spec

\* Until the second SETVAL, the first interrupted wait or the first lone unlock.
LEMMA UnitInvariant == Spec => []UnitInv
  <1>1. Init => UnitInv
    BY SemaphoreAssumption DEF Init, UnitInv
  <1>2. TypeOK /\ OwnerInv /\ UnitInv /\ [Next]_vars => UnitInv'
    BY UnitStep
  <1> QED
    BY <1>1, <1>2, OwnerInvariant, PTL DEF Spec

\* While nothing disturbed the semaphore exactly one unit exists, in it or in
\* the hands of one process, whatever processes are killed: the adjustment of
\* SEM_UNDO returns what they took.
THEOREM UnitUnique == Spec => []OneUnit
  <1>1. TypeOK /\ UnitInv => OneUnit
    <2> SUFFICES ASSUME TypeOK, UnitInv, Undisturbed
                 PROVE  val + Cardinality(Holders) = 1
      BY DEF OneUnit
    <2>1. CASE \E p \in Procs : owns[p]
      <3>1. PICK p \in Procs : owns[p]
        BY <2>1
      <3>2. Holders = {p} /\ val = 0
        BY <3>1 DEF UnitInv, Undisturbed, Holders
      <3>3. Cardinality({p}) = 1
        BY FS_Singleton
      <3> QED
        BY <3>2, <3>3
    <2>2. CASE \A p \in Procs : ~owns[p]
      <3>1. Holders = {} /\ val = 1
        BY <2>2 DEF UnitInv, Undisturbed, Holders
      <3> QED
        BY <3>1, FS_EmptySet
    <2> QED
      BY <2>1, <2>2
  <1> QED
    BY <1>1, UnitInvariant, SemaphoreTypes, PTL

\* While nothing disturbed the semaphore at most one process is between _lock
\* and _unlock, for any number of processes and crashes.
THEOREM SemaphoreMutex == Spec => []MutexUndisturbed
  <1>1. UnitInv => MutexUndisturbed
    BY DEF UnitInv, MutexUndisturbed, Undisturbed, Mutex
  <1> QED
    BY <1>1, UnitInvariant, PTL

\* Once its value has been set the semaphore can be entered again after any
\* races, lone unlocks, interrupted waits and crashes: no sequence of them leaves
\* it at 0 with nobody who will give a unit back.
THEOREM EntryPossible == Spec => []NeverLockedOut
  <1>1. Init => OwedInv
    <2> SUFFICES ASSUME Init PROVE OwedInv
      OBVIOUS
    <2>1. Owed \in [Procs -> Nat] /\ \A p \in Procs : Owed[p] = 0
      BY DEF Init, Owed
    <2>2. IsFiniteSet(Units(Owed)) /\ Cardinality(Units(Owed)) = 0
      BY <2>1, UnitsNone
    <2> QED
      BY <2>1, <2>2, HoldersFinite, SemaphoreAssumption DEF Init, OwedInv
  <1>2. TypeOK /\ OwnerInv /\ OwedInv /\ [Next]_vars => OwedInv'
    BY OwedStep
  <1>3. TypeOK /\ OwedInv => NeverLockedOut
    BY HoldersFinite, FS_CardinalityType DEF OwedInv, NeverLockedOut, TypeOK
  <1> QED
    BY <1>1, <1>2, <1>3, OwnerInvariant, PTL DEF Spec
=============================================================================
