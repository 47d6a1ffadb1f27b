----------------------------- MODULE MCSharedValue -----------------------------
(***************************************************************************)
(* Model-checking instance of SharedValue: three tasks, enough for two     *)
(* Refs held together while a third task tries lock_mut or try_lock_mut.   *)
(***************************************************************************)
EXTENDS SharedValue, TLC

CONSTANTS k1, k2, k3

MCTasks == {k1, k2, k3}

(* The tasks are interchangeable.                                         *)
MCSymmetry == Permutations(MCTasks)

=============================================================================
