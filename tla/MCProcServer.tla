--------------------------- MODULE MCProcServer ---------------------------
(* Small instances of ProcServer for TLC. *)
EXTENDS ProcServer, TLC

Symmetry == Permutations(Thread) \cup Permutations(Pid)
===========================================================================
