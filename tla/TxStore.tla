------------------------------ MODULE TxStore -------------------------------
(***************************************************************************)
(* What the calls of sorm promise about the data, without statements,      *)
(* locks or failures: one store, and for every connection a nesting depth  *)
(* and the writes that wait for the outermost commit.  A call that fails   *)
(* is a stuttering step.                                                   *)
(***************************************************************************)
EXTENDS Naturals

CONSTANTS Conns, Tokens

VARIABLES
    store,   \* the tokens every connection can see
    depth,   \* transactions the connection has begun and not ended
    pend,    \* tokens written inside them
    promised \* tokens the caller was told are stored

vars == <<store, depth, pend, promised>>

Init ==
    /\ store = {}
    /\ depth = [c \in Conns |-> 0]
    /\ pend = [c \in Conns |-> {}]
    /\ promised = {}

Write(c, t) ==
    /\ depth[c] = 0
    /\ store' = store \cup {t}
    /\ UNCHANGED <<depth, pend, promised>>

WriteInTransaction(c, t) ==
    /\ depth[c] > 0
    /\ pend' = [pend EXCEPT ![c] = @ \cup {t}]
    /\ UNCHANGED <<store, depth, promised>>

Begin(c) ==
    /\ depth' = [depth EXCEPT ![c] = @ + 1]
    /\ UNCHANGED <<store, pend, promised>>

\* An inner commit and an inner rollback are the same: they only count down.
EndInner(c) ==
    /\ depth[c] > 1
    /\ depth' = [depth EXCEPT ![c] = @ - 1]
    /\ UNCHANGED <<store, pend, promised>>

\* The outermost commit publishes everything at once.
Commit(c) ==
    /\ depth[c] = 1
    /\ store' = store \cup pend[c]
    /\ pend' = [pend EXCEPT ![c] = {}]
    /\ depth' = [depth EXCEPT ![c] = 0]
    /\ UNCHANGED promised

\* The outermost rollback, a close or a crash drops the transactions of D.
Abort(D) ==
    /\ pend' = [c \in Conns |-> IF c \in D THEN {} ELSE pend[c]]
    /\ depth' = [c \in Conns |-> IF c \in D THEN 0 ELSE depth[c]]
    /\ UNCHANGED <<store, promised>>

\* Only what is stored may be promised.
Promise(S) ==
    /\ S \subseteq store
    /\ promised' = promised \cup S
    /\ UNCHANGED <<store, depth, pend>>

Next ==
    \/ \E c \in Conns :
          \/ \E t \in Tokens : Write(c, t) \/ WriteInTransaction(c, t)
          \/ Begin(c) \/ EndInner(c) \/ Commit(c)
    \/ \E D \in SUBSET Conns : Abort(D)
    \/ \E S \in SUBSET Tokens : Promise(S)

Spec == Init /\ [][Next]_vars
=============================================================================
