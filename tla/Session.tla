------------------------------- MODULE Session -------------------------------
(***************************************************************************)
(* The life of one context through the public functions of csync.c: what a *)
(* client holds between csync_create and csync_destroy (the lock, the data *)
(* base handle, the two trees), what the calls that fail in between leave  *)
(* of it, and when the journal is written.  A client may call the phases   *)
(* in any order, repeat them after a failure, and commit as often as it    *)
(* likes.                                                                  *)
(***************************************************************************)
EXTENDS Integers

CONSTANTS
    Features,   \* what a client does, a subset of AllFeatures
    Faults,     \* what may fail, a subset of AllFaults
    MaxFaults   \* bound: faults that happen

(* early: csync_commit is called on a context that is not initialized.     *)
AllFeatures == {"early"}

(* lock: another process has it; load: csync_statedb_load; late: what      *)
(* csync_init does after that; phase: update, reconcile or propagate;      *)
(* merge, write, copy: the commit; vio: csync_vio_commit; reload:          *)
(* csync_statedb_load in csync_commit.                                     *)
AllFaults == {"lock", "load", "late", "phase", "merge", "write", "copy",
              "vio", "reload"}

ASSUME ConstantsAssumption ==
    /\ Features \subseteq AllFeatures
    /\ Faults \subseteq AllFaults
    /\ MaxFaults \in Nat

Replica == {"local", "remote"}
Phases  == {"UPDATE", "RECONCILE", "PROPAGATE"}

VARIABLES
    live,      \* there is a context
    status,    \* ctx->status
    locked,    \* the context has the lock
    db,        \* ctx->statedb.db: no handle, an open or a closed one
    disabled,  \* ctx->statedb.disabled
    tree,      \* ctx->local.tree and ctx->remote.tree: no tree, an empty or
               \*   a filled one, or one that has been freed
    step,      \* what the last call still has to do
    ret,       \* what it returned
    journal,   \* what it made of the journal
    done,      \* history: phases that succeeded since there are trees
    misuse,    \* history: what was used after it was closed or freed
    torn,      \* history: a csync_commit of this context returned an error
    faults     \* faults so far

vars == <<live, status, locked, db, disabled, tree, step, ret, journal, done,
          misuse, torn, faults>>

TypeOK ==
    /\ live \in BOOLEAN
    /\ status \subseteq Phases \cup {"INIT"}
    /\ locked \in BOOLEAN
    /\ db \in {"none", "open", "closed"}
    /\ disabled \in BOOLEAN
    /\ tree \in [Replica -> {"none", "empty", "filled", "freed"}]
    /\ step \in {"idle", "commit", "destroy"}
    /\ ret \in {0 - 1, 0, 1}
    /\ journal \in {"kept", "written", "failed", "lost"}
    /\ done \subseteq Phases
    /\ misuse \subseteq {"db", "tree"}
    /\ torn \in BOOLEAN
    /\ faults \in Nat

NoTrees    == [r \in Replica |-> "none"]
EmptyTrees == [r \in Replica |-> "empty"]

Init ==
    /\ live = FALSE
    /\ status = {} /\ locked = FALSE /\ db = "none" /\ disabled = FALSE
    /\ tree = NoTrees
    /\ step = "idle" /\ ret = 0 /\ journal = "kept"
    /\ done = {} /\ misuse = {} /\ torn = FALSE /\ faults = 0

Fault(f) ==
    /\ f \in Faults
    /\ faults < MaxFaults
    /\ faults' = faults + 1

NoFault     == UNCHANGED faults
Initialized == "INIT" \in status
Returns(r)  == ret' = r

(* A call of the client on a context, when no other call is on.            *)
Call == live /\ step = "idle"

Used(what, condition) == IF condition THEN {what} ELSE {}

-----------------------------------------------------------------------------
Create ==
    /\ ~live
    /\ live' = TRUE
    /\ status' = {} /\ locked' = FALSE /\ db' = "none" /\ disabled' = FALSE
    /\ tree' = NoTrees /\ done' = {} /\ misuse' = {} /\ torn' = FALSE
    /\ journal' = "kept" /\ Returns(0)
    /\ UNCHANGED <<step, faults>>

(* csync_disable_statedb and csync_enable_statedb *)
SetDisabled ==
    /\ Call
    /\ IF Initialized THEN Returns(0 - 1) /\ UNCHANGED disabled
                      ELSE Returns(0) /\ disabled' \in BOOLEAN
    /\ journal' = "kept"
    /\ UNCHANGED <<live, status, locked, db, tree, step, done, misuse, torn,
                   faults>>

(* What a csync_init that fails leaves in the status.                      *)
StatusOfFailure == status

(* csync_lock, refused by another process or, after a csync_init that      *)
(* failed late, by the lock of this one.                                   *)
InitRefused ==
    /\ Call /\ ~Initialized
    /\ IF locked THEN NoFault ELSE Fault("lock")
    /\ status' = StatusOfFailure
    /\ Returns(0 - 1) /\ journal' = "kept"
    /\ UNCHANGED <<live, locked, db, disabled, tree, step, done, misuse, torn>>

(* sqlite3_open leaves a handle even if it fails.                          *)
InitContext ==
    /\ Call /\ ~Initialized /\ ~locked
    /\ locked' = TRUE
    /\ journal' = "kept"
    /\ UNCHANGED <<live, disabled, step, misuse, torn>>
    /\ \/ /\ NoFault
          /\ db' = IF disabled THEN db ELSE "open"
          /\ tree' = EmptyTrees
          /\ status' = {"INIT"} /\ done' = {}
          /\ Returns(0)
       \/ /\ \/ ~disabled /\ Fault("load") /\ db' \in {db, "open"}
             \/ Fault("late") /\ db' = IF disabled THEN db ELSE "open"
          /\ Returns(0 - 1)
          /\ UNCHANGED <<status, tree, done>>

InitTwice ==
    /\ Call /\ Initialized
    /\ Returns(1) /\ journal' = "kept"
    /\ UNCHANGED <<live, status, locked, db, disabled, tree, step, done,
                   misuse, torn, faults>>

-----------------------------------------------------------------------------
(* A phase succeeds on the trees of a context; a walk of no tree fails.    *)
PhaseSucceeds(phase) ==
    /\ Call /\ Initialized
    /\ \A r \in Replica : tree[r] \in {"empty", "filled"}
    /\ status' = status \cup {phase} /\ done' = done \cup {phase}
    /\ Returns(0)
    /\ NoFault

PhaseFails ==
    /\ Call /\ Initialized
    /\ IF \E r \in Replica : tree[r] \in {"none", "freed"} THEN NoFault
                                                          ELSE Fault("phase")
    /\ Returns(0 - 1)
    /\ UNCHANGED <<status, done>>

(* csync_update looks paths up in the journal and inserts nodes.           *)
Update ==
    /\ PhaseSucceeds("UPDATE") \/ PhaseFails
    /\ \E R \in SUBSET Replica :
          tree' = [r \in Replica |-> IF r \in R /\ tree[r] = "empty"
                                     THEN "filled" ELSE tree[r]]
    /\ misuse' = misuse \cup Used("db", db = "closed")
                        \cup Used("tree", \E r \in Replica : tree[r] = "freed")
    /\ journal' = "kept"
    /\ UNCHANGED <<live, locked, db, disabled, step, torn>>

(* csync_reconcile and csync_propagate walk the trees.                     *)
WalkTrees(phase) ==
    /\ PhaseSucceeds(phase) \/ PhaseFails
    /\ misuse' = misuse
                 \cup Used("tree", \E r \in Replica : tree[r] = "freed")
    /\ journal' = "kept"
    /\ UNCHANGED <<live, locked, db, disabled, tree, step, torn>>

-----------------------------------------------------------------------------
Synchronized == status = Phases \cup {"INIT"}

(* _merge_and_write_statedb walks both trees and closes the handle.        *)
MergeAndWrite ==
    \/ /\ db = "none"
       /\ journal' = "kept"
       /\ NoFault /\ UNCHANGED <<db, misuse>>
    \/ /\ db # "none"
       /\ db' = "closed"
       /\ misuse' = misuse \cup Used("db", db = "closed")
             \cup Used("tree", Synchronized
                               /\ \E r \in Replica : tree[r] = "freed")
       /\ \/ /\ ~Synchronized
             /\ journal' = "kept" /\ NoFault
          \/ /\ Synchronized /\ db = "open"
             /\ \A r \in Replica : tree[r] \in {"empty", "filled"}
             /\ \/ journal' = "written" /\ NoFault
                \/ journal' = "failed" /\ (Fault("merge") \/ Fault("write"))
                \/ journal' = "lost" /\ Fault("copy")
          \/ /\ Synchronized
             /\ db = "closed" \/ \E r \in Replica :
                                    tree[r] \in {"none", "freed"}
             /\ journal' \in IF misuse' = {} THEN {"failed"}
                             ELSE {"written", "failed", "lost"}
             /\ NoFault

(* c_rbtree_destroy, for a tree with nodes, clears the pointer that it is  *)
(* given; c_rbtree_free, for one without, cannot.                          *)
TreesFreed == [r \in Replica |-> IF tree[r] = "filled" THEN "none"
                                 ELSE IF tree[r] = "empty" THEN "freed"
                                 ELSE tree[r]]
FreesTrees == misuse' = misuse
                 \cup Used("tree", \E r \in Replica : tree[r] = "freed")

Commit ==
    /\ Call
    /\ Initialized \/ "early" \in Features
    /\ MergeAndWrite
    /\ step' = "commit"
    /\ UNCHANGED <<live, status, locked, disabled, tree, ret, done, torn>>

(* Mutants: the status or the handle of the last round is kept. *)
StatusKept == status
NotReopened == db

StatusAfterCommit == {"INIT"}
Reopened == "open"

(* The result of _merge_and_write_statedb is forgotten.                    *)
CommitSucceeds ==
    /\ step = "commit"
    /\ NoFault
    /\ FreesTrees
    /\ db' = IF disabled THEN db ELSE Reopened
    /\ tree' = EmptyTrees
    /\ status' = StatusAfterCommit /\ done' = {}
    /\ Returns(0)
    /\ step' = "idle"
    /\ UNCHANGED <<live, locked, disabled, journal, torn>>

CommitFails ==
    /\ step = "commit"
    /\ \/ /\ Fault("vio")
          /\ UNCHANGED <<tree, db, misuse>>
       \/ /\ ~disabled /\ Fault("reload")
          /\ FreesTrees /\ tree' = TreesFreed
          /\ db' \in {db, "open"}
    /\ Returns(0 - 1) /\ torn' = TRUE
    /\ step' = "idle"
    /\ UNCHANGED <<live, status, locked, disabled, journal, done>>

(* csync_destroy is legal at any time, and always returns 0.               *)
Destroy ==
    /\ Call
    /\ MergeAndWrite
    /\ step' = "destroy"
    /\ UNCHANGED <<live, status, locked, disabled, tree, ret, done, torn>>

DestroyRest ==
    /\ step = "destroy"
    /\ FreesTrees /\ tree' = NoTrees
    /\ live' = FALSE /\ status' = {} /\ locked' = FALSE /\ db' = "none"
    /\ disabled' = FALSE /\ done' = {}
    /\ Returns(0)
    /\ step' = "idle"
    /\ UNCHANGED <<journal, torn, faults>>

-----------------------------------------------------------------------------
Next ==
    \/ Create \/ SetDisabled
    \/ InitRefused \/ InitContext \/ InitTwice
    \/ Update \/ WalkTrees("RECONCILE") \/ WalkTrees("PROPAGATE")
    \/ Commit \/ CommitSucceeds \/ CommitFails
    \/ Destroy \/ DestroyRest

Spec == Init /\ [][Next]_vars

-----------------------------------------------------------------------------
(***************************************************************************)
(* Properties.                                                             *)
(***************************************************************************)

(* "and we have successfully synchronized" (_merge_and_write_statedb): the *)
(* journal is written only when all phases have succeeded on the trees it  *)
(* is written from, whatever failed, was repeated or committed before.     *)
HonestJournal ==
    [][journal # "written" /\ journal' = "written" => done = Phases]_vars

(* A client may go on with a context after any call has failed, except     *)
(* csync_commit: no closed handle and no freed tree is used until one has  *)
(* returned an error.                                                      *)
NoDeadHandle == misuse # {} => torn

(* A context that may run the phases has the lock.                         *)
InitMeansLocked == Initialized => locked

(* "Commit the sync results to journal. return 0 on success" (csync.h):    *)
(* csync_commit returns 0 only if the journal was written where it was to  *)
(* be.                                                                     *)
CommitReports ==
    [][CommitSucceeds => journal \notin {"failed", "lost"}]_vars
=============================================================================
