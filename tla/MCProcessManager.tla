-------------------------- MODULE MCProcessManager --------------------------
(* A small instance of ProcessManager for TLC. *)
EXTENDS ProcessManager, TLC

(* Neither tasks nor process objects are ever compared or ordered. *)
Symmetry == Permutations(Task) \cup Permutations(Proc)
=============================================================================
