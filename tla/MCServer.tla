------------------------------ MODULE MCServer ------------------------------
(* Small instances of Server for TLC. *)
EXTENDS Server, TLC

CONSTANTS c1, c2, t1, t2

Symmetry == Permutations(Conn) \cup Permutations(Task)

=============================================================================
