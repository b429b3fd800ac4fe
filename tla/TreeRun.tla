------------------------------- MODULE TreeRun -------------------------------
(***************************************************************************)
(* Runs of the synchronizer over replicas with directories: the walk that  *)
(* lists them, the second and third pass of the propagation, which make,   *)
(* synchronize and remove them, and the modification times that every file *)
(* system call leaves on the directory it changes.                         *)
(*                                                                         *)
(* Every version of a file has a second of its own, so a modification time *)
(* stands for the file.  A push of a file is one step, and no run makes    *)
(* conflict copies; PushFile and SyncRun have the details.                 *)
(***************************************************************************)
EXTENDS Reconcile, FiniteSets

CONSTANTS
    Path,       \* relative paths of the two replicas
    Dir,        \* those that are directories, on both replicas
    HighHash,   \* those whose hash is 2^63 or more, of either kind
    Top,        \* the directory that a replica is
    Parent,     \* the directory that a path is in
    Excluded,   \* paths that match the exclude list (csync_excluded)
    MaxDepth,   \* MAX_DEPTH, the directories that csync_ftw goes down
    Rest,       \* what two synchronized replicas may hold to begin with
    Collections,  \* rmdir on the remote replica removes what is inside too
    UserMoves,  \* a subset of AllMoves
    Faults,     \* a subset of AllFaults
    MaxWrites,  \* bound: what the users do
    MaxFaults   \* bound: faults, and what the users do during runs

AllMoves  == {"dirsDuringRun", "filesDuringRun"}
AllFaults == {"list", "push", "mkdir", "chmod", "rmdir", "unlink", "crash"}

ASSUME ConstantsAssumption ==
    /\ IsFiniteSet(Path) /\ Dir \subseteq Path /\ Top \notin Path
    /\ HighHash \subseteq Path
    /\ Parent \in [Path -> Dir \cup {Top}]
    /\ \A D \in SUBSET Dir : D # {} => \E d \in D : Parent[d] \notin D
    /\ Excluded \subseteq Path /\ MaxDepth \in Nat /\ Rest \subseteq SUBSET Path
    /\ \A P \in Rest, p \in Path : p \in P => Parent[p] \in P \cup {Top}
    /\ Collections \in BOOLEAN
    /\ UserMoves \subseteq AllMoves /\ Faults \subseteq AllFaults
    /\ MaxWrites \in Nat /\ MaxFaults \in Nat

VARIABLES
    disk,     \* the replicas: the time of what is at a path, 0 for nothing
    journal,  \* the times of the journal, 0 for no row
    tree,     \* the two file trees
    step,     \* the phase of the run
    current,  \* ctx->current, the replica whose tree is walked
    replica,  \* ctx->replica, the one that the next call reaches
    opening,  \* update: directories to be opened
    todo,     \* entries of the walk still to be visited
    list,     \* ctx->local.list or ctx->remote.list: directories put off
    now,      \* the clock of both machines, in seconds
    writes,   \* what the users did so far
    faults,   \* faults, and what the users did during runs, so far
    calm,     \* history: runs, up to 3, since a user or a fault interfered
    dead,     \* history: the calm runs, up to 2, before a user deleted a path,
              \*   until it is changed again or a fault happens
    unseen    \* history: what the walks of the run may have missed: a user
              \*   acted there since, or a directory could not be opened

ctxVars == <<tree, step, current, replica, opening, todo, list>>
bounds  == <<now, writes, faults>>
history == <<calm, dead, unseen>>
vars    == <<disk, journal, tree, step, current, replica, opening, todo, list,
             now, writes, faults, calm, dead, unseen>>

Steps  == {"idle", "update", "reconcile", "files", "dirs", "cleanup", "commit"}
Node   == [instr : Instruction \cup {"ABSENT"}, mtime : Nat]
Absent == [instr |-> "ABSENT", mtime |-> 0]

TypeOK ==
    /\ disk \in [Replica -> [Path -> Nat]]
    /\ journal \in [Path -> Nat]
    /\ tree \in [Replica -> [Path -> Node]]
    /\ step \in Steps
    /\ current \in Replica /\ replica \in Replica
    /\ opening \subseteq Dir \cup {Top}
    /\ todo \subseteq Path /\ list \subseteq Dir
    /\ now \in Nat /\ writes \in Nat /\ faults \in Nat
    /\ calm \in 0 .. 3
    /\ dead \in [Path -> 0 .. 2]
    /\ unseen \subseteq Path

EmptyTrees == [r \in Replica |-> [p \in Path |-> Absent]]

(* A path and the directories above it: the smallest set that goes up.     *)
Upward(P) == \A p \in P : Parent[p] \in P \cup {Top}

UpTo == [p \in Path |->
    {d \in Path : \A P \in SUBSET Path : p \in P /\ Upward(P) => d \in P}]

(* What no walk comes to. *)
Unwalked == {p \in Path : \/ UpTo[p] \cap Excluded # {}
                          \/ Cardinality(UpTo[p]) > MaxDepth + 1}

(* Two replicas that are at rest, each with the same unwalked paths.       *)
Init ==
    /\ \E P \in Rest :
          /\ journal = [p \in Path |-> IF p \in P \ Unwalked THEN 1 ELSE 0]
          /\ disk = [r \in Replica |-> [p \in Path |-> IF p \in P THEN 1 ELSE 0]]
    /\ tree = EmptyTrees
    /\ step = "idle" /\ current = "local" /\ replica = "local"
    /\ opening = {} /\ todo = {} /\ list = {}
    /\ now = 1 /\ writes = 0 /\ faults = 0 /\ calm = 2
    /\ dead = [p \in Path |-> 0]
    /\ unseen = {}

-----------------------------------------------------------------------------
(* The file systems.  There is what a path d, or the replica, has inside.  *)
There(r, p)   == IF p = Top THEN TRUE ELSE disk[r][p] # 0
Children(d)   == {p \in Path : Parent[p] = d}
Inside(r, d)  == {p \in Children(d) : disk[r][p] # 0}

Below(d) == IF d = Top THEN Path ELSE {p \in Path \ {d} : d \in UpTo[p]}

(* Making, replacing or removing an entry changes the time of its          *)
(* directory; Now is that time.                                            *)
Touched(m, P, t) ==
    [p \in Path |-> IF p \in {Parent[q] : q \in P} /\ m[p] # 0 THEN t ELSE m[p]]

(* csync_vio_mkdirs: p and what is missing above it. *)
MkDirs(m, p, t) ==
    LET new == {d \in UpTo[p] : m[d] = 0}
    IN  Touched([d \in Path |-> IF d \in new THEN t ELSE m[d]], new, t)

(* An entry of the directory of p is replaced, with its path made before.  *)
Put(m, p, mtime, t) ==
    LET m1 == IF Parent[p] = Top THEN m ELSE MkDirs(m, Parent[p], t)
    IN  Touched([m1 EXCEPT ![p] = mtime], {p}, t)

Without(m, P, t) == Touched([p \in Path |-> IF p \in P THEN 0 ELSE m[p]], P, t)

-----------------------------------------------------------------------------
(* The users.                                                              *)
UserActs(p) ==
    /\ \/ step = "idle" /\ UNCHANGED faults
       \/ /\ \/ p \in Dir /\ "dirsDuringRun" \in UserMoves
             \/ p \notin Dir /\ "filesDuringRun" \in UserMoves
          /\ step # "idle" /\ faults < MaxFaults
          /\ faults' = faults + 1
    /\ writes < MaxWrites
    /\ writes' = writes + 1
    /\ now' = now + 1
    /\ calm' = 0
    /\ UNCHANGED <<journal, ctxVars>>

CalmRuns     == IF step # "idle" THEN 0 ELSE IF calm < 2 THEN calm ELSE 2
Meanwhile(p) == unseen' = IF step = "idle" THEN {} ELSE unseen \cup UpTo[p]

(* A file is written, in its place or as a new one, or a directory made,   *)
(* where there is a directory.                                             *)
UserWrites(r, p) ==
    /\ UserActs(p)
    /\ There(r, Parent[p])
    /\ p \in Dir => ~There(r, p)
    /\ \/ disk' = [disk EXCEPT ![r] = Put(@, p, now + 1, now + 1)]
       \/ There(r, p) /\ disk' = [disk EXCEPT ![r][p] = now + 1]
    /\ dead' = [q \in Path |-> IF q \in UpTo[p] THEN 0 ELSE dead[q]]
    /\ Meanwhile(p)

(* What is at p is deleted, with everything below. *)
UserDeletes(r, p) ==
    /\ UserActs(p)
    /\ There(r, p)
    /\ LET gone == {q \in Below(p) \cup {p} : There(r, q)}
       IN  /\ disk' = [disk EXCEPT ![r] = Without(@, gone, now + 1)]
           /\ dead' = [q \in Path |-> IF q \in gone THEN CalmRuns
                                      ELSE IF q \in UpTo[p] THEN 0 ELSE dead[q]]
           /\ Meanwhile(p)

-----------------------------------------------------------------------------
Fault(k) ==
    /\ k \in Faults
    /\ faults < MaxFaults
    /\ faults' = faults + 1
    /\ calm' = 0
    /\ dead' = [p \in Path |-> 0]

NoFault == UNCHANGED <<faults, calm, dead>>

EndRun ==
    /\ step' = "idle"
    /\ tree' = EmptyTrees
    /\ opening' = {} /\ todo' = {} /\ list' = {} /\ unseen' = {}
    /\ current' = "local" /\ replica' = "local"

(* A later second than that of anything on disk, but for runs that follow  *)
(* many undisturbed ones.                                                  *)
StartRun ==
    /\ step = "idle"
    /\ step' = "update" /\ opening' = {Top}
    /\ calm' = IF calm < 3 THEN calm + 1 ELSE 3
    /\ now' = IF calm < 3 THEN now + 1 ELSE now
    /\ UNCHANGED <<disk, journal, tree, current, replica, todo, list, writes,
                   faults, dead, unseen>>

-----------------------------------------------------------------------------
(* Update detection: csync_ftw opens one directory after the other.        *)

OpenDir(d) ==
    /\ step = "update" /\ d \in opening
    /\ There(current, d)
    /\ opening' = opening \ {d}
    /\ todo' = todo \cup (Inside(current, d) \ Excluded)
    /\ NoFault
    /\ UNCHANGED <<disk, journal, tree, step, current, replica, list, now,
                   writes, unseen>>

(* EACCES: the directory is passed over. *)
OpenDenied(d) ==
    /\ step = "update" /\ d \in opening
    /\ There(current, d)
    /\ Fault("list")
    /\ opening' = opening \ {d}
    /\ unseen' = unseen \cup Below(d)
    /\ UNCHANGED <<disk, journal, tree, step, current, replica, todo, list, now,
                   writes>>

(* Any other error ends the run: a user has removed the directory.         *)
OpenFails(d) ==
    /\ step = "update" /\ d \in opening
    /\ ~There(current, d)
    /\ EndRun
    /\ NoFault
    /\ UNCHANGED <<disk, journal, now, writes>>

(* Mutant: the branch for a path without a row is left out. *)
DetectKnown(r, p) == IF journal[p] # 0 /\ disk[r][p] > journal[p]
                     THEN {"EVAL"} ELSE {"NONE"}

(* A row of a high hash is not found by it.  On the local replica the      *)
(* look-up by inode finds it, unless the inode is another one by now or a  *)
(* large one.                                                              *)
Detect(r, p) ==
    CASE journal[p] = 0 -> {"NEW"}
      [] journal[p] # 0 /\ p \in HighHash ->
            IF r = "local" THEN {"NEW", "RENAME"} ELSE {"NEW"}
      [] journal[p] # 0 /\ p \notin HighHash ->
            IF disk[r][p] > journal[p] THEN {"EVAL"} ELSE {"NONE"}

(* An entry that has gone since it was listed is passed over.              *)
DetectUpdate(p) ==
    /\ step = "update" /\ opening = {} /\ p \in todo
    /\ todo' = todo \ {p}
    /\ IF There(current, p)
       THEN /\ \E instr \in Detect(current, p) :
                  tree' = [tree EXCEPT ![current][p] =
                             [instr |-> instr, mtime |-> disk[current][p]]]
            /\ opening' = IF p \in Dir /\ Cardinality(UpTo[p]) <= MaxDepth
                          THEN {p} ELSE {}
       ELSE UNCHANGED <<tree, opening>>
    /\ UNCHANGED <<disk, journal, step, current, replica, list, bounds, history>>

WalkDone == todo = {} /\ opening = {} /\ list = {}

NextReplica ==
    /\ step = "update" /\ current = "local" /\ WalkDone
    /\ current' = "remote" /\ replica' = "remote" /\ opening' = {Top}
    /\ UNCHANGED <<disk, journal, tree, step, todo, list, bounds, history>>

-----------------------------------------------------------------------------
(* Both walks of the reconciler: paths do not depend on each other, and    *)
(* nothing outside the trees is looked at.                                 *)
Reconciled(t, r) ==
    [s \in Replica |-> [p \in Path |->
        LET v == Visit(t[r][p], t[Other(r)][p], FALSE)
        IN  IF t[r][p].instr = "ABSENT" THEN t[s][p]
            ELSE [t[s][p] EXCEPT !.instr = v[IF s = r THEN 1 ELSE 2]]]]

(* What a pass of the propagation of replica r acts upon. *)
Due(t, r, kind) == {p \in kind : t[r][p].instr \in Acting}

Reconcile ==
    /\ step = "update" /\ current = "remote" /\ WalkDone
    /\ tree' = Reconciled(Reconciled(tree, "local"), "remote")
    /\ step' = "files" /\ current' = "local" /\ replica' = "local"
    /\ todo' = Due(tree', "local", Path \ Dir)
    /\ UNCHANGED <<disk, journal, opening, list, bounds, history>>

-----------------------------------------------------------------------------
(* Propagation: files first, then directories, then those put off.         *)
Dest == Other(current)

Ends(p, instr) == tree' = [tree EXCEPT ![current][p].instr = instr]

NextPass ==
    /\ todo = {}
    /\ \/ /\ step = "files"
          /\ step' = "dirs" /\ todo' = Due(tree, current, Dir)
          /\ UNCHANGED <<current, replica>>
       \/ /\ step = "dirs"
          /\ step' = "cleanup"
          /\ UNCHANGED <<current, replica, todo>>
       \/ /\ step = "cleanup" /\ list = {} /\ current = "local"
          /\ step' = "files" /\ current' = "remote" /\ replica' = "remote"
          /\ todo' = Due(tree, "remote", Path \ Dir)
       \/ /\ step = "cleanup" /\ list = {} /\ current = "remote"
          /\ step' = "commit" /\ current' = "local" /\ replica' = "local"
          /\ UNCHANGED todo
    /\ UNCHANGED <<disk, journal, tree, opening, list, bounds, history>>

Visits(s, p, instrs) ==
    /\ step = s /\ p \in todo
    /\ tree[current][p].instr \in instrs
    /\ todo' = todo \ {p}
    /\ UNCHANGED <<journal, step, current, opening, now, writes, unseen>>

PushFile(p) ==
    /\ Visits("files", p, {"NEW", "SYNC"})
    /\ disk[current][p] = tree[current][p].mtime
    /\ NoFault
    /\ disk' = [disk EXCEPT ![Dest] = Put(@, p, tree[current][p].mtime, now)]
    /\ Ends(p, "UPDATED")
    /\ UNCHANGED <<replica, list>>

(* The source has gone or has another size by now, or a call fails, before *)
(* or after the temporary file has come and gone.                          *)
PushFails(p) ==
    /\ Visits("files", p, {"NEW", "SYNC"})
    /\ IF disk[current][p] # tree[current][p].mtime THEN NoFault
                                                    ELSE Fault("push")
    /\ \/ UNCHANGED disk
       \/ disk' = [disk EXCEPT ![Dest] = Put(@, p, @[p], now)]
    /\ Ends(p, "ERROR")
    /\ UNCHANGED <<replica, list>>

RemoveFile(p) ==
    /\ Visits("files", p, {"REMOVE"})
    /\ IF There(current, p)
       THEN \/ /\ NoFault
               /\ disk' = [disk EXCEPT ![current] = Without(@, {p}, now)]
               /\ Ends(p, "DELETED")
            \/ Fault("unlink") /\ Ends(p, "NONE") /\ UNCHANGED disk
       ELSE NoFault /\ Ends(p, "NONE") /\ UNCHANGED disk
    /\ UNCHANGED <<replica, list>>

(* Mutant: the time of the directory is left to the file system. *)
TimeKept(m, p, t) == m
TimeSet(m, p, t)  == IF m[p] = 0 THEN m ELSE [m EXCEPT ![p] = t]

(* _csync_new_dir: its error paths leave the replica of the calls switched.*)
NewDir(p) ==
    /\ Visits("dirs", p, {"NEW"})
    /\ UNCHANGED list
    /\ LET made == MkDirs(disk[Dest], p, now)
       IN  \/ /\ NoFault
              /\ disk' = [disk EXCEPT
                            ![Dest] = TimeSet(made, p, tree[current][p].mtime)]
              /\ Ends(p, "UPDATED")
              /\ UNCHANGED replica
           \/ /\ Fault("mkdir")
              /\ Ends(p, "ERROR") /\ replica' = Dest
              /\ UNCHANGED disk
           \/ /\ Fault("chmod")
              /\ Ends(p, "ERROR") /\ replica' = Dest
              /\ disk' = [disk EXCEPT ![Dest] = made]

(* _csync_sync_dir: mode and times; whether the times were set is not      *)
(* asked.                                                                  *)
SyncDir(p) ==
    /\ Visits("dirs", p, {"SYNC"})
    /\ UNCHANGED list
    /\ \/ /\ NoFault
          /\ disk' = [disk EXCEPT
                        ![Dest] = TimeSet(@, p, tree[current][p].mtime)]
          /\ Ends(p, "UPDATED")
          /\ UNCHANGED replica
       \/ /\ Fault("chmod")
          /\ Ends(p, "ERROR") /\ replica' = Dest
          /\ UNCHANGED disk

(* The call reaches the replica that is walked: the path of one is not a   *)
(* path of the other.                                                      *)
Reaches(p) == replica = current /\ There(current, p)

(* ENOTEMPTY; owncloud_rmdir deletes a collection whatever is in it.       *)
Removable(p) == \/ Inside(current, p) = {}
                \/ Collections /\ current = "remote"

Removed(p) == [disk EXCEPT ![current] = Without(@, {p} \cup Below(p), now)]

(* _csync_remove_dir: one that is not empty is put off. *)
RemoveDir(p) ==
    /\ Visits("dirs", p, {"REMOVE"})
    /\ UNCHANGED replica
    /\ \/ /\ Reaches(p) /\ Removable(p)
          /\ NoFault
          /\ disk' = Removed(p)
          /\ Ends(p, "DELETED")
          /\ UNCHANGED list
       \/ /\ Reaches(p) /\ ~Removable(p)
          /\ NoFault
          /\ list' = list \cup {p}
          /\ UNCHANGED <<disk, tree>>
       \/ /\ IF Reaches(p) THEN Fault("rmdir") ELSE NoFault
          /\ Ends(p, "NONE")
          /\ UNCHANGED <<disk, list>>

(* Mutant: the list is not sorted. *)
NextInAnyOrder(p) == p \in list

(* The list is gone through from its end, and a path sorts behind those    *)
(* above it.                                                               *)
NextInList(p) == p \in list /\ list \cap Below(p) = {}

(* _csync_propagation_cleanup *)
Cleanup(p) ==
    /\ step = "cleanup" /\ NextInList(p)
    /\ list' = list \ {p}
    /\ \/ /\ Reaches(p) /\ Removable(p)
          /\ NoFault
          /\ disk' = Removed(p)
          /\ Ends(p, "DELETED")
       \/ /\ IF Reaches(p) /\ Removable(p) THEN Fault("rmdir") ELSE NoFault
          /\ Ends(p, "NONE")
          /\ UNCHANGED disk
    /\ UNCHANGED <<journal, step, current, replica, opening, todo, now, writes,
                   unseen>>

-----------------------------------------------------------------------------
(* What was pushed to the local replica, as it is there now. *)
Merged(p) ==
    IF tree["remote"][p].instr = "UPDATED"
    THEN [instr |-> "NONE", mtime |-> disk["local"][p]]
    ELSE tree["local"][p]

Written(n) == n.instr \in {"NONE", "UPDATED", "CONFLICT"}

(* The merge fails, and the journal stays, when a path it needs has gone.  *)
Commit ==
    /\ step = "commit"
    /\ journal' = IF \E p \in Path : /\ tree["remote"][p].instr = "UPDATED"
                                     /\ ~There("local", p)
                  THEN journal
                  ELSE [p \in Path |-> IF Written(Merged(p))
                                       THEN Merged(p).mtime ELSE 0]
    /\ EndRun
    /\ NoFault
    /\ UNCHANGED <<disk, now, writes>>

(* The process dies, or a call fails for lack of memory, which ends the    *)
(* run.                                                                    *)
Crash ==
    /\ step # "idle"
    /\ Fault("crash")
    /\ EndRun
    /\ UNCHANGED <<disk, journal, now, writes>>

-----------------------------------------------------------------------------
User == \E r \in Replica, p \in Path : UserWrites(r, p) \/ UserDeletes(r, p)

Program ==
    \/ StartRun \/ NextReplica \/ Reconcile \/ NextPass \/ Commit \/ Crash
    \/ \E d \in Dir \cup {Top} : OpenDir(d) \/ OpenDenied(d) \/ OpenFails(d)
    \/ \E p \in Path :
          DetectUpdate(p) \/ PushFile(p) \/ PushFails(p) \/ RemoveFile(p)
    \/ \E d \in Dir : NewDir(d) \/ SyncDir(d) \/ RemoveDir(d) \/ Cleanup(d)

Next == User \/ Program
Spec == Init /\ [][Next]_vars

-----------------------------------------------------------------------------
(***************************************************************************)
(* Properties.                                                             *)
(***************************************************************************)
ByProgram == ctxVars' # ctxVars

Equal(p) ==
    IF p \in Dir THEN There("local", p) <=> There("remote", p)
                 ELSE disk["local"][p] = disk["remote"][p]

(* After an undisturbed run both replicas have the same files and          *)
(* directories: no directory is left behind because another was in it when *)
(* its turn came, and none is missing for a file.                          *)
CalmRunConverges ==
    step = "idle" /\ calm > 0 => \A p \in Path \ Unwalked : Equal(p)

(* The rows of p and of what may be in it are found by their hashes.       *)
Findable == {p \in Path : \A q \in HighHash : p \notin UpTo[q]}

(* Two undisturbed runs are enough to bring the times of directories to    *)
(* rest, whatever the propagation of one replica did to those that the     *)
(* other had just set, and whatever it does above them, where rows are not *)
(* found: a third run has nothing to do.                                   *)
ThirdRunIsQuiet ==
    calm = 3 /\ step \in {"files", "dirs", "cleanup"} =>
        \A r \in Replica, p \in Findable :
            tree[r][p].instr \in {"NONE", "ABSENT"}

(* What is removed from a replica is in the journal, and on the other one  *)
(* at that moment only if a walk of this run has missed it there.          *)
RemoveOnlyRemoved ==
    [][ByProgram =>
        \A r \in Replica, p \in Path :
            There(r, p) /\ disk'[r][p] = 0 =>
                journal[p] # 0 /\ (There(Other(r), p) => p \in unseen)]_vars

Comes(r, p) == ~There(r, p) /\ disk'[r][p] # 0

(* What a user deleted after n undisturbed runs, and not during one, does  *)
(* not come back as long as nobody changes anything there, if its row and  *)
(* those of what was in it can be found.                                   *)
StaysDeleted(n) ==
    ByProgram => \A r \in Replica, p \in Findable : Comes(r, p) => dead[p] < n

(* That holds after the two runs that bring the times to rest.             *)
SettledStaysDeleted == [][StaysDeleted(2)]_vars

(* "removed on the opposite replica" (csync_reconcile.c): after one run    *)
(* that nothing disturbed the replicas are synchronized.                   *)
SyncedStaysDeleted == [][StaysDeleted(1)]_vars

(* What matches the exclude list, or is too deep for a walk, is no concern *)
(* of the program.                                                         *)
UnwalkedUntouched ==
    [][ByProgram =>
        \A r \in Replica, p \in Unwalked : disk'[r][p] = disk[r][p]]_vars

(* "Write it back to statedb, that we try to delete it next time"          *)
(* (csync_propagate.c): what is left of a removal is in the journal when a *)
(* run has written it.                                                     *)
WrittenBack ==
    [][journal' # journal =>
        \A r \in Replica, p \in Path :
            /\ There(r, p) /\ ~There(Other(r), p)
            /\ tree[r][p].instr = "NONE"
            => journal'[p] # 0]_vars
=============================================================================
