----------------------------- MODULE MCSormConn -----------------------------
(* Small instances of SormConn for TLC. *)
EXTENDS SormConn, TLC

\* Connections and tokens are interchangeable.
Symmetry == Permutations(Conns) \cup Permutations(Tokens)
=============================================================================
