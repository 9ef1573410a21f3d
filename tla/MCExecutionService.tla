------------------------- MODULE MCExecutionService -------------------------
(* Small phases for the model checker. *)
EXTENDS ExecutionService, TLC

CONSTANTS t1, t2, t3

(* t1 and t2 in wave 1, t3 in wave 2. *)
TwoWaves == (t1 :> 1) @@ (t2 :> 1) @@ (t3 :> 2)

(* One task in each of two waves. *)
OneEach == (t1 :> 1) @@ (t2 :> 2)

(* Neither process objects nor coroutines are ever compared or ordered. *)
Symmetry == Permutations(Proc) \cup Permutations(Runner)
=============================================================================
