----------------------------- MODULE MCNconnPool -----------------------------
(* Model values and symmetry for checking NconnPool with TLC. *)
EXTENDS NconnPool, TLC

CONSTANTS c1, c2, c3, c4, a, b

MCConn == {c1, c2, c3, c4}
MCLabel == {a, b}

Symmetry == Permutations(MCConn) \cup Permutations(MCLabel)
==============================================================================
