------------------------------ MODULE Reconcile ------------------------------
(***************************************************************************)
(* The decision table of csync: what the reconciler                        *)
(* (_csync_merge_algorithm_visitor in csync_reconcile.c) does with one     *)
(* node of the tree it walks, given the node for the same path in the      *)
(* other replica's tree.  Pure operators; SyncRun walks the trees.         *)
(*                                                                         *)
(* A node is a record with an instruction and the modification time the    *)
(* update phase read from disk.  A path without a node (c_rbtree_find      *)
(* returns NULL) has the instruction "ABSENT", which the code does not     *)
(* have.                                                                   *)
(***************************************************************************)
EXTENDS Naturals

Replica == {"local", "remote"}
Other(r) == IF r = "local" THEN "remote" ELSE "local"

Instruction ==
    {"NONE", "EVAL", "REMOVE", "RENAME", "NEW", "CONFLICT", "IGNORE", "SYNC",
     "ERROR", "DELETED", "UPDATED"}

(* What the propagator acts upon; it passes over every other instruction.  *)
Pushing == {"NEW", "SYNC", "CONFLICT"}
Acting  == Pushing \cup {"REMOVE"}

(* Mutants: a new name that the other side does not have is not pushed; a  *)
(* deletion of the other side is undone.                                   *)
AloneForgetsRename(i) == CASE i = "EVAL" -> "NEW"
                           [] i = "NONE" -> "REMOVE"
                           [] OTHER      -> i
AloneRestores(i)      == IF i \in {"EVAL", "RENAME", "NONE"} THEN "NEW" ELSE i

(* The path has a node in the walked tree only.                            *)
Alone(i) ==
    CASE i \in {"EVAL", "RENAME"} -> "NEW"
      [] i = "NONE"               -> "REMOVE"
      [] OTHER                    -> i

(* The instruction that lets a side overwrite a file that changed too.     *)
Win(copies) == IF copies THEN "CONFLICT" ELSE "SYNC"

(* Mutant: the loser's instruction is not reset. *)
BothNewNoReset(cur, other, copies) ==
    IF cur.mtime > other.mtime THEN <<Win(copies), other.instr>>
                               ELSE <<"NONE", other.instr>>

(* Both sides are new: the newer one wins and the other stays put; equal   *)
(* times are taken for equal files.                                        *)
BothNew(cur, other, copies) ==
    CASE cur.mtime > other.mtime -> <<Win(copies), "NONE">>
      [] cur.mtime < other.mtime -> <<"NONE", Win(copies)>>
      [] OTHER                   -> <<"NONE", "NONE">>

(* Mutant: the comparison is the wrong way round. *)
BothModifiedSwapped(cur, other, copies) ==
    IF cur.mtime < other.mtime
    THEN <<Win(copies), IF copies THEN "NONE" ELSE other.instr>>
    ELSE <<"NONE", IF copies THEN "CONFLICT" ELSE other.instr>>

(* Both sides have a record in the journal and changed since.  Without     *)
(* conflict copies the loser's EVAL is left for its own walk to settle.    *)
BothModified(cur, other, copies) ==
    LET newer == cur.mtime > other.mtime
    IN  CASE newer /\ copies   -> <<"CONFLICT", "NONE">>
          [] newer /\ ~copies  -> <<"SYNC", other.instr>>
          [] ~newer /\ copies  -> <<"NONE", "CONFLICT">>
          [] ~newer /\ ~copies -> <<"NONE", other.instr>>

(* One side is new, the other modified.                                    *)
NewAgainstModified(cur, other, copies) ==
    <<IF cur.mtime > other.mtime THEN Win(copies) ELSE "NONE", other.instr>>

(* Mutant: a node the detector ignores is taken for a missing one. *)
VisitIgnoringIgnored(cur, other, copies) ==
    CASE other.instr \in {"ABSENT", "IGNORE"} ->
            <<Alone(cur.instr), other.instr>>
      [] cur.instr = "NEW" /\ other.instr = "NEW" ->
            BothNew(cur, other, copies)
      [] cur.instr = "EVAL" /\ other.instr = "EVAL" ->
            BothModified(cur, other, copies)
      [] cur.instr \in {"NEW", "EVAL"} /\ other.instr = "NONE" ->
            <<"SYNC", "NONE">>
      [] OTHER -> <<cur.instr, other.instr>>

(* The whole visitor: the instructions of the walked node and of its       *)
(* counterpart once the walked node has been visited.                      *)
Visit(cur, other, copies) ==
    LET changed == {"NEW", "EVAL"}
    IN  CASE other.instr = "ABSENT" -> <<Alone(cur.instr), "ABSENT">>
          [] cur.instr = "NEW" /\ other.instr = "NEW" ->
                BothNew(cur, other, copies)
          [] cur.instr = "EVAL" /\ other.instr = "EVAL" ->
                BothModified(cur, other, copies)
          [] cur.instr \in changed /\ other.instr \in changed \ {cur.instr} ->
                NewAgainstModified(cur, other, copies)
          [] cur.instr \in changed /\ other.instr = "NONE" ->
                <<"SYNC", "NONE">>
          [] OTHER -> <<cur.instr, other.instr>>
=============================================================================
