------------------------------ MODULE MCStateDb ------------------------------
(* Model checking of StateDb: the paths are interchangeable.               *)
EXTENDS StateDb, TLC

PathSymmetry == Permutations(Path)
=============================================================================
