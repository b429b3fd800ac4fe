------------------------------ MODULE MCProbes ------------------------------
(* A small instance of Probes for TLC. *)
EXTENDS Probes, TLC

CONSTANTS c1, c2

(* A clock that is right, one ahead beyond the limit, one at the limit     *)
(* behind, and one so far behind that an old probe suits it.               *)
SmallSkews == {0, 3, 0 - 1, 0 - 3}

ClientSymmetry == Permutations(Client)
=============================================================================
