------------------------------- MODULE SyncRun -------------------------------
(***************************************************************************)
(* Runs of the synchronizer over two replicas and the journal, path by     *)
(* path: update detection, reconciliation, propagation, the merge of the   *)
(* remote tree into the local one and the journal write, as csync.c calls  *)
(* them, with the users of both replicas acting between the runs (and, if  *)
(* UserMoves says so, during one), with the calls of the file systems      *)
(* failing and the process dying.                                          *)
(*                                                                         *)
(* Paths name regular files; directories are the subject of other modules. *)
(* A push is one step here.  Files kept under a conflict name are new      *)
(* paths for the next run and are only remembered, in kept.                *)
(***************************************************************************)
EXTENDS Reconcile, FiniteSets

CONSTANTS
    Path,           \* the relative paths of the two replicas
    HighHash,       \* the paths whose hash is 2^63 or more
    Inode,          \* inode numbers of the local file system; they are only
                    \*   compared
    LargeInode,     \* those of them above INT_MAX
    NoFile,         \* nothing at a path
    NoRecord,       \* a path without a row in the journal
    ConflictCopies, \* the values a run gives options.with_conflict_copys
    AtomicCopy,     \* the values of the remote module's capability
                    \*   atomar_copy_support
    UserMoves,      \* what the users do, a subset of AllMoves
    Faults,         \* what may fail, a subset of AllFaults
    MaxWrites,      \* bound: versions the users write
    MaxFaults       \* bound: faults that happen

AllMoves  == {"rename", "renameOver", "link", "reuseInode", "sameSecond",
              "duringRun", "localOnly"}
AllFaults == {"walk", "open", "copy", "chmod", "utimes", "space", "backup",
              "unlink", "merge", "write", "lost", "crash"}

(* The only inode number the model gives to files of the remote replica:   *)
(* the code looks inodes up for the local replica alone.                   *)
RemoteInode == 0

File   == [data : Nat \ {0}, mtime : Nat, inode : Inode \cup {RemoteInode},
           linked : BOOLEAN]
Record == [mtime : Nat, inode : Inode \cup {RemoteInode}]
Node   == [instr : Instruction \cup {"ABSENT"}, mtime : Nat,
           inode : Inode \cup {RemoteInode}]
Absent == [instr |-> "ABSENT", mtime |-> 0, inode |-> RemoteInode]

ASSUME ConstantsAssumption ==
    /\ IsFiniteSet(Path) /\ Path # {}
    /\ HighHash \subseteq Path
    /\ RemoteInode \notin Inode /\ IsFiniteSet(Inode)
    /\ LargeInode \subseteq Inode
    /\ NoFile \notin File
    /\ NoRecord \notin Record
    /\ ConflictCopies \subseteq BOOLEAN /\ ConflictCopies # {}
    /\ AtomicCopy \subseteq BOOLEAN /\ AtomicCopy # {}
    /\ UserMoves \subseteq AllMoves /\ Faults \subseteq AllFaults
    /\ MaxWrites \in Nat /\ MaxFaults \in Nat

VARIABLES
    disk,     \* the replicas: [Replica -> [Path -> File or NoFile]]
    kept,     \* versions kept under a conflict name, per replica
    journal,  \* the rows of the state database
    exists,   \* statedb.exists: the state database has its table
    tree,     \* the two file trees: [Replica -> [Path -> Node]]
    step,     \* the phase of the run, "idle" when no run is on
    current,  \* ctx->current, the replica whose tree is walked
    todo,     \* paths of the walk still to be visited
    pushing,  \* the conflicting path whose push is due, at most one
    copies,   \* options.with_conflict_copys of this run
    atomic,   \* the remote module's capability atomar_copy_support
    now,      \* the clock of both machines, in seconds
    writes,   \* versions written so far; the last one is version writes
    faults,   \* faults so far
    synced,   \* history: the version both replicas agreed on last, or 0
    dead,     \* history: versions that were in sync, and unchanged for the
              \*   journal, when a user deleted them, per path; nothing once
              \*   the journal is lost
    calm      \* history: runs, up to 2, since a user or a fault interfered

options  == <<copies, atomic>>
ctxVars  == <<tree, step, current, todo, pushing, options>>
dbVars   == <<journal, exists>>
history  == <<synced, dead, calm>>
vars     == <<disk, kept, journal, exists, tree, step, current, todo, pushing,
              copies, atomic, now, writes, faults, synced, dead, calm>>

Steps == {"idle", "update", "reconcile", "propagate", "merge"}

TypeOK ==
    /\ disk \in [Replica -> [Path -> File \cup {NoFile}]]
    /\ kept \in [Replica -> SUBSET Nat]
    /\ journal \in [Path -> Record \cup {NoRecord}]
    /\ exists \in BOOLEAN
    /\ tree \in [Replica -> [Path -> Node]]
    /\ step \in Steps
    /\ current \in Replica
    /\ todo \subseteq Path
    /\ pushing \subseteq Path
    /\ copies \in BOOLEAN /\ atomic \in BOOLEAN
    /\ now \in Nat /\ writes \in Nat /\ faults \in Nat
    /\ synced \in [Path -> Nat]
    /\ dead \in [Path -> SUBSET Nat]
    /\ calm \in 0 .. 2

-----------------------------------------------------------------------------
EmptyTrees == [r \in Replica |-> [p \in Path |-> Absent]]

Init ==
    /\ disk = [r \in Replica |-> [p \in Path |-> NoFile]]
    /\ kept = [r \in Replica |-> {}]
    /\ journal = [p \in Path |-> NoRecord]
    /\ exists = FALSE
    /\ tree = EmptyTrees
    /\ step = "idle" /\ current = "local" /\ todo = {} /\ pushing = {}
    /\ copies = FALSE /\ atomic \in AtomicCopy
    /\ now = 0 /\ writes = 0 /\ faults = 0
    /\ synced = [p \in Path |-> 0]
    /\ dead = [p \in Path |-> {}]
    /\ calm = 0

There(r, p)    == disk[r][p] # NoFile
Recorded(p)    == journal[p] # NoRecord
InSync(d, p)   == /\ d["local"][p] # NoFile /\ d["remote"][p] # NoFile
                  /\ d["local"][p].data = d["remote"][p].data
RememberSync   == synced' = [p \in Path |-> IF InSync(disk', p)
                                            THEN disk'["local"][p].data
                                            ELSE synced[p]]

(* Inode numbers a new local file may get: no live file has them, and      *)
(* numbers the journal still remembers come back only with "reuseInode".   *)
FreeInodes(r) ==
    IF r = "remote" THEN {RemoteInode}
    ELSE {i \in Inode :
            /\ \A p \in Path : There("local", p) => disk["local"][p].inode # i
            /\ "reuseInode" \in UserMoves
               \/ \A p \in Path : Recorded(p) => journal[p].inode # i}

(* csync_statedb_get_stat_by_hash has a row to return.  The hash is stored  *)
(* as a signed number and looked up as an unsigned one, so a row of a high *)
(* hash is in the journal and never found.                                 *)
FoundByHash(p) == Recorded(p) /\ p \notin HighHash
Findable == Path \ HighHash

(* The next update detection would take the file for unchanged.            *)
LooksUnchanged(r, p) ==
    /\ exists /\ FoundByHash(p)
    /\ There(r, p)
    /\ ~disk[r][p].linked
    /\ disk[r][p].mtime <= journal[p].mtime

Put(r, p, f) == disk' = [disk EXCEPT ![r][p] = f]

-----------------------------------------------------------------------------
(* The users of the two replicas.                                          *)

UserMayAct == step = "idle" \/ "duringRun" \in UserMoves

(* Every version is written in a second of its own unless "sameSecond".    *)
WriteTimes == {now + 1} \cup IF "sameSecond" \in UserMoves THEN {now} ELSE {}

UserWrites(r, p) ==
    /\ UserMayAct
    /\ writes < MaxWrites
    /\ \E t \in WriteTimes :
          /\ now' = t
          /\ IF There(r, p)
             THEN Put(r, p, [disk[r][p] EXCEPT !.data = writes + 1,
                                               !.mtime = t])
             ELSE \E i \in FreeInodes(r) :
                    Put(r, p, [data |-> writes + 1, mtime |-> t, inode |-> i,
                               linked |-> FALSE])
    /\ writes' = writes + 1
    /\ calm' = 0
    /\ RememberSync
    /\ UNCHANGED <<kept, dbVars, ctxVars, faults, dead>>

UserDeletes(r, p) ==
    /\ UserMayAct
    /\ There(r, p)
    /\ Put(r, p, NoFile)
    /\ dead' = IF InSync(disk, p) /\ \A s \in Replica : LooksUnchanged(s, p)
               THEN [dead EXCEPT ![p] = @ \cup {disk[r][p].data}] ELSE dead
    /\ calm' = 0
    /\ RememberSync
    /\ UNCHANGED <<kept, dbVars, ctxVars, now, writes, faults>>

(* rename(2): the time and the inode move along.  Onto a path the journal  *)
(* knows, or onto a file, only with "renameOver".                          *)
UserRenames(p, q) ==
    /\ UserMayAct
    /\ "rename" \in UserMoves
    /\ There("local", p) /\ p # q
    /\ "renameOver" \in UserMoves \/ (~There("local", q) /\ ~Recorded(q))
    /\ disk' = [disk EXCEPT !["local"] =
                    [@ EXCEPT ![q] = disk["local"][p], ![p] = NoFile]]
    /\ calm' = 0
    /\ RememberSync
    /\ UNCHANGED <<kept, dbVars, ctxVars, now, writes, faults, dead>>

(* A user gives a local file a second name outside the replica, or removes *)
(* that name again.                                                        *)
UserLinks(p) ==
    /\ UserMayAct
    /\ "link" \in UserMoves
    /\ There("local", p)
    /\ disk' = [disk EXCEPT !["local"][p].linked = ~@]
    /\ calm' = 0
    /\ UNCHANGED <<kept, dbVars, ctxVars, now, writes, faults, synced, dead>>

-----------------------------------------------------------------------------
(* A fault of kind k happens in this step.                                 *)
Fault(k) ==
    /\ k \in Faults
    /\ faults < MaxFaults
    /\ faults' = faults + 1
    /\ calm' = 0

NoFault == UNCHANGED <<faults, calm>>

(* The run is over: csync_destroy frees the trees.                         *)
EndRun ==
    /\ step' = "idle"
    /\ tree' = EmptyTrees
    /\ todo' = {} /\ pushing' = {} /\ copies' = FALSE
    /\ UNCHANGED <<current, atomic>>

StartRun ==
    /\ step = "idle"
    /\ step' = "update" /\ current' = "local" /\ todo' = Path
    /\ tree' = EmptyTrees
    /\ copies' \in ConflictCopies
    /\ calm' = IF calm < 2 THEN calm + 1 ELSE 2
    /\ UNCHANGED <<disk, kept, dbVars, pushing, atomic, now, writes, faults,
                   synced, dead>>

(* A walk starts over the paths that the walk's visitor does something     *)
(* for; for the others it returns at once.                                 *)
StartWalk(s, r, paths) ==
    /\ step' = s /\ current' = r /\ todo' = paths

(* With local_only_mode, which a user may ask for in any run, the remote   *)
(* replica is not walked; the other phases do not ask for the mode.        *)
RemoteWalks == {Path} \cup IF "localOnly" \in UserMoves THEN {{}} ELSE {}

NextWalk ==
    /\ todo = {} /\ pushing = {}
    /\ \/ /\ step = "update" /\ current = "local"
          /\ \E paths \in RemoteWalks : StartWalk("update", "remote", paths)
       \/ /\ step = "update" /\ current = "remote"
          /\ StartWalk("reconcile", "local",
                {p \in Path : tree["local"][p].instr # "ABSENT"})
       \/ /\ step = "reconcile" /\ current = "local"
          /\ StartWalk("reconcile", "remote",
                {p \in Path : tree["remote"][p].instr # "ABSENT"})
       \/ /\ step = "reconcile" /\ current = "remote"
          /\ StartWalk("propagate", "local",
                {p \in Path : tree["local"][p].instr \in Acting})
       \/ /\ step = "propagate" /\ current = "local"
          /\ StartWalk("propagate", "remote",
                {p \in Path : tree["remote"][p].instr \in Acting})
       \/ /\ step = "propagate" /\ current = "remote"
          /\ StartWalk("merge", "local",
                {p \in Path : tree["remote"][p].instr = "UPDATED"})
    /\ UNCHANGED <<disk, kept, dbVars, tree, pushing, options, now, writes,
                   faults, history>>

-----------------------------------------------------------------------------
(* Update detection.                                                       *)

(* csync_statedb_get_stat_by_inode finds a row, the file's own included,   *)
(* and returns its inode number, which atoi spoils when it is large.       *)
Renamed(f) == /\ \E q \in Path : Recorded(q) /\ journal[q].inode = f.inode
              /\ f.inode \notin LargeInode

(* Mutant: the else branch for a missing journal is left out. *)
DetectWithoutElse(r, p, f) ==
    CASE f.linked                           -> "IGNORE"
      [] ~f.linked /\ ~exists               -> "NONE"
      [] ~f.linked /\ exists /\ FoundByHash(p) ->
            IF f.mtime > journal[p].mtime THEN "EVAL" ELSE "NONE"
      [] OTHER -> "NEW"

Detect(r, p, f) ==
    CASE f.linked                         -> "IGNORE"
      [] ~f.linked /\ ~exists             -> "NEW"
      [] ~f.linked /\ exists /\ FoundByHash(p) ->
            IF f.mtime > journal[p].mtime THEN "EVAL" ELSE "NONE"
      [] OTHER -> IF r = "local" /\ Renamed(f) THEN "RENAME" ELSE "NEW"

(* csync_ftw hands a path to the walker, which adds a node to the tree.    *)
DetectUpdate(p) ==
    /\ step = "update" /\ p \in todo
    /\ todo' = todo \ {p}
    /\ tree' = IF There(current, p)
               THEN LET f == disk[current][p] IN
                    [tree EXCEPT ![current][p] =
                       [instr |-> Detect(current, p, f), mtime |-> f.mtime,
                        inode |-> f.inode]]
               ELSE tree
    /\ UNCHANGED <<disk, kept, dbVars, step, current, pushing, options, now,
                   writes, faults, history>>

(* The entry is dropped without an error: its stat fails, its directory    *)
(* may not be opened (EACCES), or readdir fails before it is reached.      *)
SkipUnreadable(p) ==
    /\ step = "update" /\ p \in todo
    /\ There(current, p)
    /\ Fault("walk")
    /\ todo' = todo \ {p}
    /\ UNCHANGED <<disk, kept, dbVars, tree, step, current, pushing, options,
                   now, writes, synced, dead>>

-----------------------------------------------------------------------------
(* Reconciliation.                                                         *)

ReconcilePath(p) ==
    /\ step = "reconcile" /\ p \in todo
    /\ todo' = todo \ {p}
    /\ LET o == Other(current)
           v == Visit(tree[current][p], tree[o][p], copies)
       IN  tree' = [tree EXCEPT ![current][p].instr = v[1],
                                ![o][p].instr = v[2]]
    /\ UNCHANGED <<disk, kept, dbVars, step, current, pushing, options, now,
                   writes, faults, history>>

-----------------------------------------------------------------------------
(* Propagation.  Walking a replica's tree, the code pushes to the other    *)
(* replica and deletes on the walked one.                                  *)

Dest == Other(current)

(* Mutant: the capability of the module is not asked for. *)
InPlaceAlways == Dest = "remote"

(* The remote module takes whole files: no temporary file is used.         *)
InPlace == Dest = "remote" /\ atomic

MayPush(p) ==
    /\ step = "propagate"
    /\ \/ pushing = {p}
       \/ /\ pushing = {} /\ p \in todo
          /\ tree[current][p].instr \in {"NEW", "SYNC"}

PushEnds(p, instr) ==
    /\ todo' = todo \ {p} /\ pushing' = {}
    /\ tree' = [tree EXCEPT ![current][p].instr = instr]
    /\ UNCHANGED <<step, current, options>>

(* Mutant: the times of the copy are not set. *)
DeliverUntimed(p, t) ==
    \E i \in FreeInodes(Dest) :
        Put(Dest, p, [data |-> disk[current][p].data, mtime |-> now + 1,
                      inode |-> i, linked |-> FALSE])

(* What the destination path holds once the copy has arrived.              *)
Deliver(p, t) ==
    \E i \in FreeInodes(Dest) :
        Put(Dest, p, [data |-> disk[current][p].data, mtime |-> t,
                      inode |-> i, linked |-> FALSE])

(* What a failed push leaves at the destination: unlink(turi) removes the  *)
(* temporary file, or the destination itself when there is none.           *)
LeaveDestination(p) ==
    IF InPlace THEN Put(Dest, p, NoFile) ELSE UNCHANGED disk

(* The comparison after the push: the copy that was just made is deleted   *)
(* again when the file in its place is equal.  A soft error of the push    *)
(* does not keep the code from comparing.                                  *)
ForgetEqualCopy(p) ==
    kept' = IF /\ pushing = {p} /\ current = "remote"
               /\ tree[current][p].instr = "NONE"
            THEN [kept EXCEPT !["local"] = @ \ {disk["remote"][p].data}]
            ELSE kept

PushSucceeds(p) ==
    /\ MayPush(p)
    /\ There(current, p)
    /\ \/ /\ NoFault
          /\ Deliver(p, tree[current][p].mtime)
          /\ UNCHANGED now
       \/ /\ Fault("utimes")
          /\ Deliver(p, now + 1)
          /\ now' = now + 1
    /\ ForgetEqualCopy(p)
    /\ PushEnds(p, "UPDATED")
    /\ RememberSync
    /\ UNCHANGED <<dbVars, writes, dead>>

(* The source cannot be opened; nothing was written yet.                   *)
PushFailsToOpen(p) ==
    /\ MayPush(p)
    /\ IF There(current, p) THEN Fault("open") ELSE NoFault
    /\ PushEnds(p, "ERROR")
    /\ UNCHANGED <<disk, kept, dbVars, now, writes, synced, dead>>

(* Reading, writing, the comparison of the sizes or the rename fails; the  *)
(* sizes also differ when the source has been rewritten meanwhile.         *)
PushFails(p) ==
    /\ MayPush(p)
    /\ There(current, p)
    /\ IF disk[current][p].mtime # tree[current][p].mtime
       THEN NoFault ELSE Fault("copy")
    /\ LeaveDestination(p)
    /\ PushEnds(p, "ERROR")
    /\ RememberSync
    /\ UNCHANGED <<kept, dbVars, now, writes, dead>>

(* chmod fails once the destination has been overwritten.                  *)
PushFailsLate(p) ==
    /\ MayPush(p)
    /\ There(current, p)
    /\ Fault("chmod")
    /\ IF InPlace THEN Put(Dest, p, NoFile) /\ UNCHANGED now
                  ELSE Deliver(p, now + 1) /\ now' = now + 1
    /\ ForgetEqualCopy(p)
    /\ PushEnds(p, "ERROR")
    /\ RememberSync
    /\ UNCHANGED <<dbVars, writes, dead>>

(* The destination is full: the one failure that ends the run.             *)
PushEndsRun(p) ==
    /\ MayPush(p)
    /\ There(current, p)
    /\ Fault("space")
    /\ LeaveDestination(p)
    /\ EndRun
    /\ RememberSync
    /\ UNCHANGED <<kept, dbVars, now, writes, dead>>

(* _csync_conflict_file moves the losing file away.  It pushes also when   *)
(* that failed: a soft error is not less than zero.                        *)
BackUp(p) ==
    /\ step = "propagate" /\ pushing = {} /\ p \in todo
    /\ tree[current][p].instr = "CONFLICT"
    /\ pushing' = {p}
    /\ \/ /\ There(Dest, p)
          /\ NoFault
          /\ kept' = [kept EXCEPT ![Dest] = @ \cup {disk[Dest][p].data}]
          /\ Put(Dest, p, NoFile)
          /\ tree' = [tree EXCEPT ![current][p].instr = "NONE"]
       \/ /\ IF There(Dest, p) THEN Fault("backup") ELSE NoFault
          /\ tree' = [tree EXCEPT ![current][p].instr = "ERROR"]
          /\ UNCHANGED <<disk, kept>>
    /\ RememberSync
    /\ UNCHANGED <<dbVars, step, current, todo, options, now, writes, dead>>

RemoveFile(p) ==
    /\ step = "propagate" /\ pushing = {} /\ p \in todo
    /\ tree[current][p].instr = "REMOVE"
    /\ todo' = todo \ {p}
    /\ \/ /\ There(current, p)
          /\ NoFault
          /\ Put(current, p, NoFile)
          /\ tree' = [tree EXCEPT ![current][p].instr = "DELETED"]
       \/ /\ IF There(current, p) THEN Fault("unlink") ELSE NoFault
          /\ tree' = [tree EXCEPT ![current][p].instr = "NONE"]
          /\ UNCHANGED disk
    /\ RememberSync
    /\ UNCHANGED <<kept, dbVars, step, current, pushing, options, now, writes,
                   dead>>

-----------------------------------------------------------------------------
(* Commit: the merge of the remote tree and the journal.                   *)

(* A file pushed to the local replica is entered in the local tree with    *)
(* the time it has on disk at this moment.  If it cannot be read the       *)
(* journal is left as it was.                                              *)
MergePath(p) ==
    /\ step = "merge" /\ p \in todo
    /\ \/ /\ There("local", p)
          /\ NoFault
          /\ tree' = [tree EXCEPT !["local"][p] =
                        [instr |-> "NONE", mtime |-> disk["local"][p].mtime,
                         inode |-> disk["local"][p].inode]]
          /\ todo' = todo \ {p}
          /\ UNCHANGED <<step, current, pushing, options>>
       \/ /\ IF There("local", p) THEN Fault("merge") ELSE NoFault
          /\ EndRun
    /\ UNCHANGED <<disk, kept, dbVars, now, writes, synced, dead>>

(* Mutant: files with an error are written too. *)
WrittenAlways(n) == n.instr \in {"NONE", "UPDATED", "CONFLICT", "ERROR"}

Written(n) == n.instr \in {"NONE", "UPDATED", "CONFLICT"}

(* The journal is rewritten from the local tree.  An insertion that fails  *)
(* leaves the old one; a failing copy of the new one over the old one      *)
(* leaves none.                                                            *)
WriteJournal ==
    /\ step = "merge" /\ todo = {}
    /\ \/ /\ NoFault
          /\ journal' = [p \in Path |->
                LET n == tree["local"][p]
                IN  IF Written(n) THEN [mtime |-> n.mtime, inode |-> n.inode]
                                  ELSE NoRecord]
          /\ exists' = TRUE
          /\ UNCHANGED dead
       \/ Fault("write") /\ UNCHANGED <<dbVars, dead>>
       \/ /\ Fault("lost")
          /\ journal' = [p \in Path |-> NoRecord]
          /\ exists' = FALSE
          /\ dead' = [p \in Path |-> {}]
    /\ EndRun
    /\ UNCHANGED <<disk, kept, now, writes, synced>>

Crash ==
    /\ step # "idle"
    /\ Fault("crash")
    /\ EndRun
    /\ UNCHANGED <<disk, kept, dbVars, now, writes, synced, dead>>

-----------------------------------------------------------------------------
User ==
    \/ \E r \in Replica, p \in Path : UserWrites(r, p) \/ UserDeletes(r, p)
    \/ \E p, q \in Path : UserRenames(p, q)
    \/ \E p \in Path : UserLinks(p)

VisitPath(p) ==
    \/ DetectUpdate(p) \/ SkipUnreadable(p)
    \/ ReconcilePath(p)
    \/ PushSucceeds(p) \/ PushFailsToOpen(p) \/ PushFails(p)
    \/ PushFailsLate(p) \/ PushEndsRun(p)
    \/ BackUp(p) \/ RemoveFile(p)
    \/ MergePath(p)

Program ==
    \/ StartRun \/ NextWalk
    \/ \E p \in Path : VisitPath(p)
    \/ WriteJournal \/ Crash

Next == User \/ Program
Spec == Init /\ [][Next]_vars

(* The user runs csync again and again, and a run goes on.                 *)
FairSpec == Spec /\ WF_vars(Program)

-----------------------------------------------------------------------------
(***************************************************************************)
(* Properties.                                                             *)
(***************************************************************************)

(* The two reconciliation walks, the second of which sees what the first   *)
(* wrote into both trees, never send one path both ways: once propagation  *)
(* is on, at most one replica's node for a path is acted upon.             *)
AtMostOneSideActs ==
    step = "propagate" =>
        \A p \in Path : \/ tree["local"][p].instr \notin Acting
                        \/ tree["remote"][p].instr \notin Acting

(* Without a journal ("Database loss" in doc/csync.txt) every file is new, *)
(* and no walk of the reconciler turns that into a deletion.               *)
NoJournalNoRemove ==
    ~exists => \A r \in Replica, p \in Path :
                  tree[r][p].instr \notin {"REMOVE", "DELETED"}

(* The journal never hides a difference: whatever the users and the        *)
(* earlier runs did, two files that the next update detection would both   *)
(* take for unchanged hold the same version.                               *)
NoSilentDivergence ==
    step = "idle" =>
        \A p \in Path :
            (\A r \in Replica : LooksUnchanged(r, p)) => InSync(disk, p)

(* A step of the program, as every one changes where the run is.           *)
ByProgram == ctxVars' # ctxVars

Gone(r, p) == There(r, p) /\ \/ disk'[r][p] = NoFile
                             \/ disk'[r][p].data # disk[r][p].data

(* What a user wrote disappears from a path whose row can be found by the  *)
(* program only when the replicas agreed on it and the other replica has   *)
(* moved on since, when it is kept under a conflict name, or, in a run     *)
(* without conflict copies, when a newer file takes its place.             *)
NoLostUpdate ==
    [][ByProgram =>
        \A r \in Replica, p \in Findable :
            Gone(r, p) =>
                \/ disk[r][p].data = synced[p]
                \/ disk[r][p].data \in kept'[r]
                \/ /\ ~copies
                   /\ disk'[r][p] # NoFile
                   /\ disk'[r][p].mtime > disk[r][p].mtime]_vars

(* csync_reconcile.c: "If the destination file is newer (timestamp is      *)
(* newer), it is not overwritten", whatever its path hashes to.            *)
NewerIsNotOverwritten ==
    [][ByProgram =>
        \A r \in Replica, p \in Path :
            There(r, p) /\ disk'[r][p] # NoFile
                => disk'[r][p].mtime >= disk[r][p].mtime]_vars

(* A file is deleted on one replica only while the other one does not      *)
(* have it.                                                                *)
RemoveOnlyRemoved ==
    [][ByProgram =>
        \A r \in Replica, p \in Path :
            There(r, p) /\ disk'[r][p] = NoFile =>
                \/ ~There(Other(r), p)
                \/ disk[r][p].data \in kept'[r]]_vars

(* A version that was in sync, and whose row the update detection found,   *)
(* when a user deleted it does not come back at its path.                  *)
NoResurrect ==
    [][ByProgram =>
        \A r \in Replica, p \in Findable :
            disk'[r][p] # NoFile /\ disk'[r][p] # disk[r][p]
                => disk'[r][p].data \notin dead[p]]_vars

(* The invariant of "Crash resistance" in doc/csync.txt: a step of a run   *)
(* without conflict copies leaves a path alone, removes a file the other   *)
(* replica does not have, or puts the other replica's file in its place.   *)
OriginalOrFinal ==
    [][ByProgram /\ ~copies =>
        \A r \in Replica, p \in Path :
            Gone(r, p) =>
                IF disk'[r][p] = NoFile
                THEN ~There(Other(r), p)
                ELSE disk'[r][p].data = disk[Other(r)][p].data]_vars

Equal(p) ==
    \/ ~There("local", p) /\ ~There("remote", p)
    \/ InSync(disk, p)

(* After a run in which no user and no fault interfered the replicas are   *)
(* identical, files the detector ignores aside.                            *)
CalmRunConverges ==
    step = "idle" /\ calm > 0 =>
        \A p \in Path : Equal(p) \/ (There("local", p)
                                      /\ disk["local"][p].linked)

(* A second run right after it finds nothing to do where it can find the   *)
(* rows: what a run writes to disk and to the journal is not taken for a   *)
(* change by the next one.                                                 *)
SecondRunIsQuiet ==
    calm = 2 => \A r \in Replica, p \in Findable :
                    step \in {"propagate", "merge"} =>
                        tree[r][p].instr \in {"NONE", "ABSENT"}

(* Once the users rest and the faults stop, running csync again makes the  *)
(* replicas identical for good ("Crash resistance": each interrupted       *)
(* synchronization can be completed by simply running csync again).        *)
EventuallyEqual ==
    <>[][ByProgram]_vars => <>[](\A p \in Path : Equal(p))
=============================================================================
