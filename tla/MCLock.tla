------------------------------- MODULE MCLock -------------------------------
(* Small instances of Lock for TLC. *)
EXTENDS Lock, TLC

(* Nothing orders contexts, or process ids of the same size. *)
Symmetry == Permutations(Ctx) \cup Permutations(Pid)
=============================================================================
