-------------------------------- MODULE Lock --------------------------------
(***************************************************************************)
(* The lock file that keeps two csync processes of a user apart            *)
(* (csync_lock.c), as csync_init takes and csync_destroy releases it, one  *)
(* system call on the file per step: processes come and go between the     *)
(* call that reads the file, the one that asks whether the process named   *)
(* in it lives, and the one that unlinks it.                               *)
(*                                                                         *)
(* What Probes, the other check of csync_init, has too has another name    *)
(* here: Admission_proofs is about both.                                   *)
(***************************************************************************)
EXTENDS Naturals, FiniteSets

CONSTANTS
    Ctx,        \* contexts, each the CSYNC of one csync_create at a time
    Pid,        \* process ids
    LargePid,   \* those above 0xFFFF
    NoPid,      \* no lock file; the process of a context that is not there
    Features,   \* what may happen, a subset of AllFeatures
    MaxFailures \* bound: crashes and failing calls

(* shared: several contexts in one process; crash: a process dies; tmpfile:*)
(* the temporary file cannot be made; late: csync_init fails after it took *)
(* the lock.                                                               *)
AllFeatures == {"shared", "crash", "tmpfile", "late"}

ASSUME LockAssumption ==
    /\ NoPid \notin Pid
    /\ LargePid \subseteq Pid
    /\ Features \subseteq AllFeatures
    /\ MaxFailures \in Nat

VARIABLES
    lock,     \* the process id in the lock file, or NoPid
    pid,      \* the process of each context
    call,     \* the next call of each context
    seen,     \* the process id it read from the file
    failures, \* crashes and failing calls so far
    robbed    \* history: a lock file was removed under a context that holds

lockVars == <<lock, pid, call, seen, failures, robbed>>

(* csync_lock and csync_lock_remove both begin with _csync_lock_read; the  *)
(* calls of the latter have the prefix "d_".                               *)
Locking   == {"read", "judge", "unlink", "create"}
Unlocking == {"d_read", "d_judge", "d_unlink", "d_remove"}

LockTypeOK ==
    /\ lock \in Pid \cup {NoPid}
    /\ pid \in [Ctx -> Pid \cup {NoPid}]
    /\ call \in [Ctx -> {"off", "held", "failed"} \cup Locking \cup Unlocking]
    /\ seen \in [Ctx -> Pid \cup {NoPid}]
    /\ failures \in Nat
    /\ robbed \in BOOLEAN

LockInit ==
    /\ lock = NoPid
    /\ pid = [c \in Ctx |-> NoPid]
    /\ call = [c \in Ctx |-> "off"]
    /\ seen = [c \in Ctx |-> NoPid]
    /\ failures = 0
    /\ robbed = FALSE

Alive(q)   == \E c \in Ctx : pid[c] = q
Holders    == {c \in Ctx : call[c] = "held"}
GoesTo(c, s) == call' = [call EXCEPT ![c] = s]

Fails(f) ==
    /\ f \in Features
    /\ failures < MaxFailures
    /\ failures' = failures + 1

(* The file is unlinked, whatever it holds by now.                         *)
RemoveLock(c) ==
    /\ lock' = NoPid
    /\ robbed' = \/ robbed
                 \/ lock # NoPid
                    /\ \E d \in Holders \ {c} : pid[d] = lock

(* The context is freed and, at the latest now, its process exits.         *)
Exit(c) ==
    /\ GoesTo(c, "off")
    /\ pid' = [pid EXCEPT ![c] = NoPid]
    /\ seen' = [seen EXCEPT ![c] = NoPid]

-----------------------------------------------------------------------------
(* A process creates a context and calls csync_init.                       *)
CallInit(c) ==
    /\ call[c] = "off"
    /\ \E q \in Pid :
          /\ ~Alive(q) \/ "shared" \in Features
          /\ pid' = [pid EXCEPT ![c] = q]
    /\ GoesTo(c, "read")
    /\ UNCHANGED <<lock, seen, failures, robbed>>

(* The file is opened and read; it is written before it gets its name.     *)
Read(c) ==
    /\ call[c] \in {"read", "d_read"}
    /\ UNCHANGED <<lock, failures, robbed>>
    /\ \/ /\ lock # NoPid
          /\ seen' = [seen EXCEPT ![c] = lock]
          /\ GoesTo(c, IF call[c] = "read" THEN "judge" ELSE "d_judge")
          /\ UNCHANGED pid
       \/ /\ lock = NoPid /\ call[c] = "read"
          /\ GoesTo(c, "create")
          /\ UNCHANGED <<pid, seen>>
       \/ /\ lock = NoPid /\ call[c] = "d_read"
          /\ Exit(c)

(* Mutant: the lock of a dead process is respected. *)
StaleNever(q) == FALSE

(* A large process id is taken for a broken file; kill says ESRCH for a    *)
(* process that is gone.                                                   *)
Stale(q) == q \in LargePid \/ ~Alive(q)

Judge(c) ==
    /\ call[c] \in {"judge", "d_judge"}
    /\ UNCHANGED <<lock, failures, robbed>>
    /\ \/ /\ Stale(seen[c])
          /\ GoesTo(c, IF call[c] = "judge" THEN "unlink" ELSE "d_unlink")
          /\ UNCHANGED <<pid, seen>>
       \/ /\ ~Stale(seen[c]) /\ call[c] = "judge"
          /\ GoesTo(c, "failed")
          /\ UNCHANGED <<pid, seen>>
       \/ /\ ~Stale(seen[c]) /\ call[c] = "d_judge"
          /\ IF seen[c] = pid[c]
             THEN GoesTo(c, "d_remove") /\ UNCHANGED <<pid, seen>>
             ELSE Exit(c)

UnlinkStale(c) ==
    /\ call[c] \in {"unlink", "d_unlink"}
    /\ RemoveLock(c)
    /\ IF call[c] = "unlink" THEN GoesTo(c, "create") /\ UNCHANGED <<pid, seen>>
                           ELSE Exit(c)
    /\ UNCHANGED failures

(* Mutant: rename(2), which replaces, instead of link(2), which does not. *)
MayLinkAlways == TRUE
MayLink == lock = NoPid

(* The temporary file with the process id is linked to the name of the     *)
(* lock file.                                                              *)
Create(c) ==
    /\ call[c] = "create"
    /\ \/ /\ MayLink
          /\ lock' = pid[c]
          /\ GoesTo(c, "held")
          /\ UNCHANGED failures
       \/ /\ IF MayLink THEN Fails("tmpfile") ELSE UNCHANGED failures
          /\ GoesTo(c, "failed")
          /\ UNCHANGED lock
    /\ UNCHANGED <<pid, seen, robbed>>

(* The exclude list, the module or the clock makes csync_init fail.        *)
FailLate(c) ==
    /\ call[c] = "held"
    /\ Fails("late")
    /\ GoesTo(c, "failed")
    /\ UNCHANGED <<lock, pid, seen, robbed>>

(* csync_init is called again.                                             *)
Retry(c) ==
    /\ call[c] = "failed"
    /\ GoesTo(c, "read")
    /\ UNCHANGED <<lock, pid, seen, failures, robbed>>

(* csync_destroy has written the journal and comes to the lock, after a    *)
(* csync_init that failed too.                                             *)
Destroy(c) ==
    /\ call[c] \in {"held", "failed"}
    /\ GoesTo(c, "d_read")
    /\ UNCHANGED <<lock, pid, seen, failures, robbed>>

RemoveOwn(c) ==
    /\ call[c] = "d_remove"
    /\ RemoveLock(c)
    /\ Exit(c)
    /\ UNCHANGED failures

(* The process dies with all its contexts; the lock file stays.            *)
Dies(q) ==
    /\ Alive(q)
    /\ Fails("crash")
    /\ call' = [c \in Ctx |-> IF pid[c] = q THEN "off" ELSE call[c]]
    /\ seen' = [c \in Ctx |-> IF pid[c] = q THEN NoPid ELSE seen[c]]
    /\ pid' = [c \in Ctx |-> IF pid[c] = q THEN NoPid ELSE pid[c]]
    /\ UNCHANGED <<lock, robbed>>

-----------------------------------------------------------------------------
Run(c) ==
    \/ CallInit(c) \/ Read(c) \/ Judge(c) \/ UnlinkStale(c) \/ Create(c)
    \/ FailLate(c) \/ Destroy(c) \/ RemoveOwn(c)

LockNext ==
    \/ \E c \in Ctx : Run(c) \/ Retry(c)
    \/ \E q \in Pid : Dies(q)

LockSpec == LockInit /\ [][LockNext]_lockVars

(* csync is run again and again, a process that runs goes on, and one that *)
(* tries csync_init once more gives up in the end.                         *)
FairLockSpec ==
    LockSpec /\ \A c \in Ctx : WF_lockVars(Run(c)) /\ SF_lockVars(Destroy(c))

-----------------------------------------------------------------------------
(***************************************************************************)
(* Properties.                                                             *)
(***************************************************************************)

(* "another synchronization process is running" (csync_lock.c): two        *)
(* contexts never both have the lock.                                      *)
MutualExclusion == \A c, d \in Holders : c = d

(* Two contexts both have the lock only if a lock file was removed under   *)
(* the one that held it.                                                   *)
ExclusiveUnlessRobbed == robbed \/ MutualExclusion

(* However processes die, come back and fail, some context gets the lock   *)
(* again and again: a lock file that nobody will remove does not stay.     *)
SomebodyGetsIn == []<>(Holders # {})
=============================================================================
