------------------------------ MODULE MCServer ------------------------------
(***************************************************************************)
(* Server for TLC: the symmetry of process ids and connections.              *)
(***************************************************************************)
EXTENDS Server

Symmetry == Permutations(Pid) \cup Permutations(Conn)

=============================================================================
