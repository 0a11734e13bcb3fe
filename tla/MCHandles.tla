----------------------------- MODULE MCHandles -----------------------------
(* Handles for TLC: the connections, statements and descriptors are        *)
(* interchangeable model values.                                           *)
EXTENDS Handles, TLC

Symmetry == Permutations(Dbc) \cup Permutations(Stmt) \cup Permutations(Desc)
=============================================================================
