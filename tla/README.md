# csync in TLA+

csync synchronizes two file trees (replicas): a local directory and a remote one
reached through a module (sftp, smb, ownCloud). A user runs it again and again;
each run compares both replicas with a journal of the last run, decides path by
path, copies and deletes files, and writes the journal anew. There is no
daemon and no thread: what makes it hard is that the users of both replicas act
between (and during) runs, that any call to a file system may fail, that the
process may die anywhere, and that another run may be started meanwhile.

This directory models that: `tlc -config X.cfg M` checks a configuration,
`tlapm M_proofs.tla` a proof. `PROJECT.json` says which configuration belongs to
which module, which source lines each definition models, and which mutation of
the model breaks each property.

## 1. Inventory

Paths are relative to `src/src/` unless they start with `modules/` or `client/`.

| component | state | operations | interacts with | what is hard | what makes it correct |
|---|---|---|---|---|---|
| **Session** `csync.c` | status bits INIT/UPDATE/RECONCILE/PROPAGATE, `ctx->current`, `ctx->replica`, options | `csync_create`, `_init`, `_update`, `_reconcile`, `_propagate`, `_commit`, `_destroy`, tree walks | calls every phase; the client calls it | order of calls, destroy after a failed phase, commit's result codes | a run interrupted anywhere can be repeated; the journal is written only after a complete propagation |
| **Update detection** `csync_update.c` | two trees of nodes (instruction, mtime, inode) | `csync_ftw`, `csync_walker`, `_csync_detect_update` | reads disk and journal | inodes and times as identity, entries that cannot be read | what changed is never taken for unchanged; what could not be read is not taken for deleted |
| **Reconciler** `csync_reconcile.c` | none of its own: it rewrites both trees in two walks | `_csync_merge_algorithm_visitor` per path and replica | reads and writes the tree being walked *and* the other one | the second walk sees what the first wrote | at most one side acts on a path; conflicts keep the newer file or both |
| **Propagation** `csync_propagate.c` | both replicas, nodes' instructions, cleanup list of directories | push, backup, conflict, new, sync, remove; `new_dir`, `sync_dir`, `remove_dir`, cleanup | vio calls; results end up in the node | errors of two severities, partial effects, source changing while copied | each file is original or final at all times; a failure leaves the path to be seen again |
| **Tree merge and journal** `csync_util.c`, `csync_statedb.c` | the local tree, the data base file, `statedb.exists` | merge of the remote tree, create/insert/close, copy over the old file, look-ups | reads the nodes propagation left | two-phase commit of the file, failure of one stat or insert, torn files, rows that are stored with one sign and looked up with the other | the journal never claims that differing files are in sync |
| **Lock file** `csync_lock.c` | a file with a process id | `csync_lock`, `csync_lock_remove` | called by init and destroy | several processes between read, kill and unlink; recycled and large ids | two runs never hold the lock; a stale lock goes away |
| **VIO layer** `vio/` | the loaded module | load and unload, dispatch, `csync_vio_mkdirs`, local module | every file access | errno conventions between layers, the lifetime of a module's statics | the same errors mean the same everywhere; a call reaches the server of its context |
| **ownCloud module** `modules/csync_owncloud.c` | session, static stat cache, write buffer and temporary file, the last known directory | listings, stat, PUT in `close`, GET in `open`, MKCOL, DELETE, MOVE | used by update detection and propagation | a cache that compares names only, spooling in two places, statics that outlive a run, other users of the server | the walk is told the truth; a transfer is whole or fails |
| **SFTP module** `modules/csync_sftp.c` | session, channel and `_connected`, all static | connecting with host key and authentication, listing, rename that unlinks first | libssh; the client's prompt; update detection and propagation | questions in the middle of connecting, a connection that is lost, statics that outlive a context | connecting ends; a walk sees all it may see or fails |
| **SMB / dummy** `modules/` | library handles | delegation | used like sftp | - | as above |
| **Containers** `std/c_rbtree.c`, `std/c_list.c` | balanced tree, list | insert, find, delete, walk | hold the two trees | rebalancing on delete | a map with ordered walk |
| **Exclude list** `csync_exclude.c` | patterns | load, match | update detection; the names of probes and journal | what is excluded on one side is still in the way of a removal | excluded paths are never touched |
| **Clock difference and probes** `csync_time.c`, `csync_util.c` | probe files on both replicas | `csync_timediff`, `csync_unix_extensions` | init; other machines that synchronize with the same remote replica | two clients use one name at once; a probe that is not removed | only clients whose times are comparable go on; no probe stays |
| **Client** `client/` | arguments, exit code; the terminal during a prompt | `main`, `csync_getpass`, the callback for questions | the session; the module asks through it | every failure leads to destroy, which may write the journal; four ways out of a prompt | what the exit code says was done; the terminal is as before |
| **Paths and uris** `std/c_path.c` | - | `c_dirname`, `c_basename`, `c_split_path`, `c_parse_uri` | everywhere | slashes at the ends, missing parts | what was put together comes apart again |
| **Configuration, log, other helpers** | options | parsing, output | - | - | - |

## 2. Modules

```
Reconcile  <--EXTENDS-- SyncRun  <--EXTENDS-- MCSyncRun, SyncRun_proofs
           <--EXTENDS-- TreeRun  <--EXTENDS-- MCTreeRun, TreeRun_proofs
CList      <--INSTANCE- MCTreeRun
Replacement <-INSTANCE- PushFile <--EXTENDS-- MCPushFile, PushFile_proofs
Journal    <--INSTANCE- StateDb  <--EXTENDS-- MCStateDb, StateDb_proofs
SortedSet  <--INSTANCE- RbTree
                        Session  <--EXTENDS-- Client <--EXTENDS-- Client_proofs
                        Lock     <--EXTENDS-- MCLock, Admission_proofs
                        OwnCloud <--EXTENDS-- MCOwnCloud, OwnCloud_proofs
Console    <--EXTENDS-- Sftp     <--EXTENDS-- MCSftp, Sftp_proofs
                        Probes   <--EXTENDS-- MCProbes, Admission_proofs
Paths      <--EXTENDS-- Exclude  <-INSTANCE-- MCTreeRun
           <-INSTANCE-- MCSftp
```

`Replacement`, `Journal` and `SortedSet` are abstract specifications: what the
component next to them promises to the rest. SyncRun takes a local push, the
journal and the lock as single steps; PushFile, StateDb and Lock open these
steps up, and TreeRun opens up what SyncRun leaves out of the trees.

**Reconcile** is the decision table of the reconciler: `Visit` is the effect of
one visit of `_csync_merge_algorithm_visitor` on the pair of nodes of a path. Its
parts follow the branches of the C switch: `Alone` (no node on the other side),
`BothNew`, `BothModified`, `NewAgainstModified`.

**SyncRun** is the core: whole runs over two replicas of files and the journal.

| state | code |
|---|---|
| `disk` | the files of both replicas: version (`data`), mtime, inode, link count |
| `tree` | `ctx->local.tree`, `ctx->remote.tree`: instruction, mtime and inode per path |
| `journal`, `exists` | rows of table `metadata`; `ctx->statedb.exists` |
| `step`, `current`, `todo` | the phase, `ctx->current`, the paths the walk has yet to visit |
| `pushing` | a path between `_csync_conflict_file`'s backup and its push |
| `copies`, `atomic` | `options.with_conflict_copys`; the module's `atomar_copy_support` |

`csync_statedb.c` stores the hash of a path as a signed number (321) and asks for it
as an unsigned one (393). SQLite does not find the row of a hash of 2^63 or more,
that is of about every second path. `HighHash` are these paths: their rows are
in the journal (`Recorded`), are found by inode, and are not found by hash
(`FoundByHash`), so each run takes them for new or renamed. `Findable` are the others.
Inode numbers are model values that are only compared; `LargeInode` are those above
INT_MAX, which `atoi` spoils on the way out of the journal (482), so that a rename is
not seen.

One walk visits each path once, in any order, through one action per handler:
`DetectUpdate` and `SkipUnreadable` (update), `ReconcilePath`, the five outcomes
of `_csync_push_file` (`PushSucceeds`, `PushFailsToOpen`, `PushFails`,
`PushFailsLate`, `PushEndsRun`), `BackUp`, `RemoveFile`, `MergePath`; `StartRun`,
`NextWalk`, `WriteJournal` and `EndRun` are the calls of `csync_update` ...
`csync_destroy`. The users write, delete, rename and link (`User`), by default
between runs and with `duringRun` at any moment; `Crash` ends a run anywhere.
With `localOnly` a run may leave the remote tree unread, as `local_only_mode` does.
The comparison that deletes a conflict copy again when the file in its place is
equal is part of the push that ends well or with a soft error (`ForgetEqualCopy`).

**TreeRun** has the directories: the walk that opens one after the other (`OpenDir`,
`OpenDenied`, `OpenFails`, `DetectUpdate`), the passes of the propagation in their
order (`NextPass`: files, directories, cleanup; the local replica first), `NewDir`,
`SyncDir`, `RemoveDir` and `Cleanup`, the modification time that every call leaves
on the directory it changes (`Touched`), and `replica`, the module that the next
call reaches, which the error paths of `_csync_new_dir` and `_csync_sync_dir` leave
switched (`Reaches`). Every version of a file has a second of its own, so its time
stands for it. The order of a walk is that of path hashes in the code, any order in
the model. `HighHash` is as in SyncRun; whether the look-up by inode then makes the
path a rename or something new is left open for the local replica (`Detect`). A
directory may be in it as well as a file. `Findable` are the paths with nothing of
`HighHash` in them, nor in it themselves: what is brought again dates the
directories it is in. `Collections` says that rmdir on the remote replica removes
what is inside too, as the DELETE of `owncloud_rmdir` does. `Excluded` are paths
that the exclude list takes out of both walks and `MaxDepth` is the limit of the
descent; `Unwalked` is what no walk sees for one of the two reasons. The list of
directories that were not empty is a set here; **CList** is the doubly linked list
of `c_list.c` with its merge sort, pointer by pointer, and MCTreeRun evaluates on
all contents up to a length that sorting leaves both directions and the old pointer
intact, which the cleanup (it walks backwards) and the freeing rely on.

**PushFile** opens up what SyncRun takes as one step: `_csync_push_file` call by
call, for a destination on a local file system, over sftp and on an ownCloud
server. A file is a sequence of blocks, each marked with the version of the
source it was read from, so torn and mixed copies can be seen. Every call may
fail, the process may die between any two calls, and the source may be
rewritten. **Replacement** is the abstract specification of it, what a push
promises about the destination path: one step from original to complete on a
local file system, a gap in between over sftp, nothing for an upload. For sftp
the gap and for ownCloud the direct upload are visible: SyncRun has the latter
as `atomic = TRUE`.

**StateDb** is the journal run after run: the file, its temporary copy, the
header check, the probe for the table, every query of the rewriting, the copy
back in its three steps (truncate, fill, unlink), with each call failing and the
process dying anywhere. `file` and `tmp` are a set of tables with rows, or one of
`NoFile`, `Foreign`, `Torn`; rows of the run that writes are `new`, all others
`old`. **Journal** is its abstract specification and the contract of SyncRun's
`WriteJournal`: the rows stay, are replaced at once, or are lost.

**Session** is the life of a context through the functions of `csync.c`: status
bits, the lock, the data base handle and the trees, each with "closed" and
"freed" as values; a client calls `csync_init`, the phases, `csync_commit` and
`csync_destroy` in any order and after any failure. `csync_commit` and
`csync_destroy` take two steps, as the data base is written and closed before the
rest is looked at. `misuse` collects uses of what is closed or freed, `torn`
remembers that `csync_commit` returned an error.

**Lock** is the lock file with one system call per step, for any number of
contexts in any processes: the reading, the judging (kill), the unlinking of a
stale file and the linking of a new one are separate actions, and
`csync_lock_remove`, which goes through the same reading code, too.

**RbTree** is the red-black tree of `c_rbtree.c` with its pointers (`child`,
`parent`, `root`, colors and the shared sentinel), one round of a repair loop per
step; **SortedSet** is what its users see. Only nodes with at most one child
are deleted unless `inner` is among the features (finding 14).

**OwnCloud** is the module between the vio layer and a WebDAV server: the listing
that `opendir` fetches at once, the static cache `_fs` that `readdir` fills and
`stat` looks up by the last component of a path, the directory that is known to be
there (`lastDir`), uploads through the memory buffer and the temporary file
(`Write`, `ClosePut`), downloads that are spooled when they are opened
(`OpenGet`, `Read`), and the requests that change the tree. When csync has freed
an entry its name in the cache is freed memory; whether it then compares
equal is a nondeterministic choice (`MayHit`, `MayMiss`). Other users of the
server act between any two calls.

**Client** adds to Session who calls it: `main` of the csync program, call by call,
for all arguments that choose phases (`args`, `at`, `exit`), or another client of
the library, which calls whatever it wants (`Library`, the whole of Session). A
process makes one context; processes follow one another.

**Console** is the prompt of the client (`csync_getpass` and the callback around
it): one call per step, with the echo of the terminal and the blocking of stdin
(`echo`, `nonblock`) as the state it changes and has to restore, an input that may
end, be empty, too long or killed, and the newline that stays behind. **Sftp** is the
module from `dlopen` to `dlclose`, of several contexts of one process: the set-up of
the session, the question about the host key, the loop over the methods of
authentication (`AuthPublicKey`, `AuthInteractive`, `AuthPassword`), the statics
(`session`, `channel`, `connected`) with "null" and "freed" as values, and then
the walk of `csync_ftw` through it, request by request, while the connection may be
lost: `OpenDirectory`, `ReadEntry`, `ReadEnd`, `StatEntry`. Whether a server
accepts an answer is a choice; that it counts attempts is assumed (`MaxTries`), but
it can only count what is sent: a context without an agent and key files (`Keys`
are those that have some) goes on from `AuthPublicKey` without a request. What a
server offers depends on the context (`Offers`).

**Probes** has any number of clients, each on a machine with a clock of its own
(`Skews`), that run `csync_timediff` and `csync_unix_extensions` on one remote
replica at the same time, system call by system call: creating, looking at and
removing the probe of either side, with what each has measured, and time going on
between any two calls. The close that ends the making of the remote probe is not looked
at, and the ownCloud module makes the file there: with the fault `put` nothing is made
and whatever is at the path is stat'ed. `misled` remembers who met an old probe so.

**Paths** and **Exclude** are algorithms without state: strings are sequences of
characters, of which only those occur that the functions tell apart. The
assumptions of MCTreeRun and MCSftp check them on all strings up to a length:
a path comes apart into directory and name (`PathsComeApart`), conflict copies of
different paths have different names (`BackupsAreApart`), every pattern of every
file gets to the list and finds room (`ListHoldsAll`, `ListGrows`), the journal is
always excluded (`JournalIsExcluded`), a plain pattern excludes what it names and
nothing else (`PatternsNamePaths`), a probe's star excludes it only where the probe
is not made (`StarsAreExcludedWithout`), and a uri comes apart into what it was
made of (`UrisComeApart`), octal ports and the root of a server aside
(`OctalPorts`, `RootHasNoPath`).

## 3. Runs

Every run is expected to pass.

| run | question | instance |
|---|---|---|
| `sync_interrupted` | Does an interruption lose a version, leave a wrong file, undo a deletion, make later runs busy, or send a path both ways? `NoLostUpdate`, `OriginalOrFinal`, `NoResurrect`, `SecondRunIsQuiet`, `AtMostOneSideActs` | 2 paths, one in `HighHash`, 3 versions, a large inode number, with/without conflict copies, 1 fault of crash, full disk, failed chmod or utimes, failed merge, failed or lost journal |
| `sync_moves` | Renames, hard links and recycled inodes: does one calm run converge, and is nothing deleted that the other side has? `CalmRunConverges`, `RemoveOnlyRemoved` | 2 paths, one in `HighHash`, a large inode number, 2 versions |
| `sync_rerun` | Is nothing deleted without a journal, does it stay truthful, and does running csync again and again make the replicas equal, whatever fails? `NoJournalNoRemove`, `NoSilentDivergence`, `EventuallyEqual` | 1 path whose row is found, 3 versions, 1 fault of all twelve kinds, both options, both capabilities |
| `tree_run` | Do directories converge and come to rest, is nothing removed that the other side has, does a deletion stay? `CalmRunConverges`, `ThirdRunIsQuiet`, `RemoveOnlyRemoved`, `SettledStaysDeleted` | directories d, d/e, d/e/g and a file d/f, 2 acts of the users, 1 fault or act during a run; d, the outermost, in `HighHash`; nothing excluded and no limit of the depth |
| `push_file` | Does a push keep its promise, deliver what was detected, stamp only complete files, and end? `Promise`, `DeliversDetected`, `StampVouches`, `PushEnds` | 3 file systems, 2 faults, 2 versions, at most 2 blocks |
| `state_db` | Does the rewriting keep its promise, does a run query the rows of the journal, and is it written again after failures? `Promise`, `ReadsJournal`, `JournalAgain` | 2 paths, 2 faults, a file longer than one buffer of `c_copy` |
| `session` | Is the journal only written when it is complete, is nothing dead used, does the program say 0 only when it is done? `HonestJournal`, `NoDeadHandle`, `ExitMeansDone` | `ClientSpec`: another client of the library, and the program with all arguments but `--test-statedb`; one context at a time, 3 faults |
| `lock` | Are two holders only possible after a lock file was removed under one; does somebody always get in? `ExclusiveUnlessRobbed`, `SomebodyGetsIn` | 2 contexts, 3 process ids, 2 faults |
| `rb_tree` | Is the tree a sorted set at every step, balanced, and walkable in both directions? `RedBlack`, `Walkable`, `Promise` | 6 keys |
| `owncloud` | Is a walk told the truth, and are transfers whole or fail? `WalkIsTrue`, `UploadIsWhole`, `DownloadIsWhole` | a directory, two files of one name inside and outside of it, 4 blocks, a buffer of 2, 2 faults, 1 act of another user |
| `sftp` | Does connecting end, does a call reach the right server, is the terminal restored, and does a walk that succeeds miss only what it may? `ConnectEnds`, `OwnServer`, `TerminalRestored`, `MissesOnlyTheRest` | 2 contexts one after the other, 2 directories and 2 files, 2 attempts, every usable offer of a server, one uri without a password and one with a wrong one, one context with keys and one without, with and without a terminal, 2 faults of ten kinds |
| `probes` | Who is admitted, who is refused, and does a probe stay behind? `AdmittedInStep`, `RefusedForAReason`, `NoProbeLeft` | 2 clients, clocks right, 3 s ahead, 1 s and 3 s behind, a limit of 1 s, 2 faults, 2 s |

The type invariants are not listed in runs: they are theorems (section 5), except
RbTree's, which is stated for a reader and for a run by hand
(`INVARIANT TypeOK`).

**Bounds.** Except for renames a path of SyncRun is handled without looking at any
other one, and a rename concerns two: two paths show both, and one is enough for the
liveness run, where a path's future depends on itself alone. Three versions let both
sides change after they were in sync (1 common, 2 conflicting). Of two paths one has
a row that is found and one a row that is not, so that each disturbs the other. One
fault between two runs of any length is enough for each hazard of whole runs;
`MaxFaults = 2` (in Lock `MaxFailures = 2`) is used where the second fault hits the
handling of the first (push, lock, journal, server), 3 for the calls of a context.
In TreeRun three directories in each other are the shallowest tree in which the
cleanup has to empty a directory that is itself inside one to be removed, and the
file makes one of them non-empty for another reason; an act of a user during a run
and a fault count against the same bound `MaxFaults`. Six keys are the fewest with
which all cases of the deletion repair occur at more than one level. Two blocks of a
push let a copy be interrupted and mixed, sizes 0 to 2 let versions have equal and
different sizes; four blocks of an upload let one be buffered, one spilled, and
another buffered behind it, in writes smaller and larger than the buffer (as the
push's 16384 bytes are larger than its 5120). Two contexts can race; three process
ids let one of them be dead and another one recycled. `Inode` has enough numbers for
the files and rows of the local replica, and one of them is large. Two contexts of
`sftp` show what the first leaves to the second; the tree has an entry behind a
directory in either order of a listing; two attempts let a server refuse one and
hang up on the next, and a second fault may hit the connecting after a first. In
`probes` two clients are what one needs to disturb the other, and the clocks are one
in step, one at the limit and one beyond it on either side (an old probe makes a
fast clock look right); two seconds let one pass between two calls twice. `Epoch`
only keeps times above the limit, as those of today are. `writes`, `acts` and
`faults` are the only counters that bound runs; the clock `now` advances with writes
and, in TreeRun, with each run until the replicas are at rest. `SYMMETRY`, in runs
without liveness properties, permutes clients, paths among those of high or of low
hash, and inode numbers among the large or the small ones; nothing else
distinguishes them. `sync_rerun` passes with `HighHash = {p1}` as well, where
`NoSilentDivergence` has nothing to say, and `tree_run` with `HighHash = {f}`,
`Faults = {}` and `MaxWrites = 3`, where the same file is brought by every run.
Lists are checked on all contents of up to five elements of three values.

**Deadlock** is checked in every run but `push_file`: a push that is done has no
next step. The others can always start another run or call. In `sftp` this says
that no step of connecting, asking or walking is ever without a next one.

**Fairness.** `SyncRun!FairSpec` has weak fairness of `Program`: the user runs
csync again (its documentation asks for that after an interruption) and a run, a
sequential program, goes on; users owe nothing. `StateDb!FairSpec` says the same
of the runs it consists of. `PushFile!FairSpec`: the push goes on.
`Sftp!FairSpec`: a connection, a prompt and a walk go on (WF each); that whoever is
asked answers or closes stdin is an assumption about the user, without which a
prompt waits, as it should; nobody has to load or walk. `Lock!FairLockSpec`: each
context goes on (WF), and one that repeats a refused `csync_init` gives up in
the end (SF of `Destroy`); nothing is assumed about `Retry` or crashes.
`SomebodyGetsIn` says the system as a whole goes on; a single context may
starve, as nothing queues. Client, TreeRun, RbTree, OwnCloud and Probes have safety
properties only and no fairness.

## 4. Properties

Beyond one type invariant per module, the runs check:

* `AtMostOneSideActs` - the two reconciliation walks never send a path both ways.
* `NoJournalNoRemove` - without a journal nothing is taken for deleted.
* `NoSilentDivergence` - two files the next detection takes for unchanged are the same version.
* `NoLostUpdate` - at a path whose row can be found, a version disappears by the program only if it was in sync, is kept under a conflict name, or a newer one replaces it where conflict copies are off.
* `NoResurrect`, `SettledStaysDeleted` - a deletion of what was synchronized is not undone, where rows can be found.
* `OriginalOrFinal` - "each file has either its original content or its correct final content" (`doc/csync.txt`), per step of a run.
* `RemoveOnlyRemoved` - a file or directory is deleted only where the other side has none (in TreeRun, unless the walk of this run could not see it).
* `CalmRunConverges`, `SecondRunIsQuiet`, `ThirdRunIsQuiet`, `EventuallyEqual` - one undisturbed run makes the replicas equal, the next one (with directories, the one after that) has nothing to do where rows can be found, and re-running always gets there once users rest.
* `Promise` of PushFile, StateDb and RbTree - they implement Replacement, Journal and SortedSet.
* `DeliversDetected`, `StampVouches`, `PushEnds` - the push, see above.
* `ReadsJournal`, `JournalAgain` - a run that believes a journal to exist queries a readable copy with the rows of the file (whether a query finds the row of its path is `HighHash` of SyncRun); the journal is written again when nothing fails any more.
* `HonestJournal`, `NoDeadHandle` - the context: the journal is written only from trees on which all phases succeeded; nothing closed or freed is used before `csync_commit` has failed.
* `ExitMeansDone` - the program is on its way to exit code 0 only if every phase its arguments leave has succeeded, under the lock.
* `ExclusiveUnlessRobbed`, `SomebodyGetsIn` - the lock, see above.
* `NewerIsNotOverwritten`, `MutualExclusion`, `OnlyInStep` - what the code or its documents say, and what fails when it is put into a configuration (section 6).
* `RedBlack`, `Walkable` - the tree, at every step of its repair loops.
* `WalkIsTrue`, `UploadIsWhole`, `DownloadIsWhole` - the ownCloud module, see above.
* `MissesOnlyTheRest` - a walk over sftp that succeeds has seen every entry, but for what is below something it may not open or look at, and for a connection lost after the last opendir; an opendir on a lost connection fails the run.
* `OwnServer` - a call never goes over the session of another context.
* `TerminalRestored` - after a prompt, whichever way it ended, echo and flags of a terminal are as before.
* `ConnectEnds` - connecting comes to an end whatever server and user do.
* `AdmittedInStep`, `RefusedForAReason` - whoever gets through `csync_init` has a clock within the limit, the seconds its own measuring took aside, unless a failing close left it an old probe to look at; whoever does not has one that may be off, a failed call, or a probe that another client took away.
* `NoProbeLeft` - a probe nobody is about to remove is there only since a crash or a failed removal.

## 5. Proofs

For every value of the constants that satisfies the named assumptions of the module
(`ConstantsAssumption`, `ModesAssumption`, `EpochAssumption`):

* **SyncRun_proofs** has every safety property that the passing runs of SyncRun check.
  What is proved without a hypothesis: `TypeCorrect`; `OneSide`
  (`AtMostOneSideActs`); `NoJournal` (`NoJournalNoRemove`). `AtMostOneSideActs` is not inductive: it speaks of propagation
  only, while it is made true by the reconciliation walks. The strengthening gives
  every path a predicate by phase: a *fresh* pair holds what detection may write,
  a *halfway* pair what the local walk makes of a fresh one, and a *settled*
  pair, after both walks, has at most one acting side, which every step of
  propagation preserves. `NoJournal` adds that without a journal no fresh pair
  has a node with the instruction NONE, without which the reconciler writes no REMOVE.
  The lemmas about `Visit` go through the decision table branch by branch.

  The properties of whole runs need users and failures that leave something
  out; each theorem names its hypothesis, and the next section shows, constant by
  constant, what breaks the property in the code:

  | theorem | property | hypothesis |
  |---|---|---|
  | `JournalHidesNothing` | `NoSilentDivergence` | `Orderly`: no move onto a path in use, no two versions in one second, no act during a run |
  | `RemovesWhatIsGone` | `RemoveOnlyRemoved` | `Watched`: no act during a run, no `localOnly`, no silent gap in a walk, a module that writes to a temporary file |
  | `OldOrNew` | `OriginalOrFinal` | `Watched` |
  | `CalmRunsConverge` | `CalmRunConverges` | `Patient`: `Orderly`, and no `localOnly` |
  | `SecondRunRests` | `SecondRunIsQuiet` | `Tidy`: `Patient`, and no second links |
  | `NothingIsLost` | `NoLostUpdate` | `Guarded`: users who only write and delete, and of the twelve failures the utimes of a copy, a full disk, the merge, a journal that is not written or lost, and crashes; and a module that writes to a temporary file |
  | `NothingComesBack` | `NoResurrect` | `Guarded`, with either kind of module |

  In all of them the number of paths, runs, versions and failures is unbounded,
  `HighHash` and `LargeInode` are any sets, and every failure that the hypothesis does not
  name may happen at any time. `SecondRunIsQuiet`, `NoLostUpdate` and `NoResurrect` speak of
  the paths in `Findable`, as the code breaks them at all others (finding 26); what happens
  to those others in the same run is part of the proofs. The other properties hold for
  paths of either kind. The
  inductive invariants are built one on the other:

  * `RunInv`: between runs there are no trees; no time is of the future; a node that
    will be pushed has the time of its file; a walk still has before it all it
    has to act upon. With `Rows` - a path that is in the journal, and on neither
    replica newer than its row, is the same version on both, and likewise for the
    row the running run would write - it gives `NoSilentDivergence`.
  * `Seen`: a path without a node has no file, and a deletion is due only where
    the other replica has none, for a walk that missed nothing. It gives
    `RemoveOnlyRemoved` and `OriginalOrFinal`.
  * `CalmInv` adds `Converging`: in a calm run the walk, the two visits, the push and
    the merge each leave the path judged, decided or equal.
  * `QuietInv` follows the times through a run: no local file whose row is found is
    older than it (`Dated`: where the row is not found an older remote file may be
    sent over it), nothing that is on its way is older than what it replaces (`Forward`),
    two visits decide every path (`Decisive`), and a calm run leaves each one empty
    or level with its row (`Closing`), so that the next one finds nothing where it finds the row (`Still`).
  * `Numbers`: without renames and recycled numbers no file has the inode number of
    another path's row, so no detection that finds the row of its own path says RENAME. On it stands `LossInv`: files that are equal
    are the version remembered as agreed on, a file not newer than its row is that
    version (`Kept`), a new file is pushed to where there is none (`NewAlone`), and
    each verdict that takes a file away was given on one that was agreed on or is
    beaten (`Verdicts`).
  * `Numbered` and `Alive`: versions that were deleted are on no disk at their path
    and in no node that will be sent.
* **PushFile_proofs**: `TypeCorrect`; `PushKeepsPromise`, the refinement
  `Spec => Promise`: initial states map to initial states and each of the seventeen
  actions to a step of Replacement or a stutter; `DeliveryIsWhole`
  (`DeliversDetected`) and `StampIsEarned` (`StampVouches`). The inductive
  invariant has three parts: *progress* (what each call may rely on having been
  done), *unmixed* (as long as the source is version 1, all blocks sent are its
  prefix) and *stamped* (where the time of the source stands).
* **StateDb_proofs**: `TypeCorrect` (with: only a readable copy has tables to
  be queried); `LookUpsAreRight` (`ReadsJournal`): from the copy to the end of the
  run both files have the same rows; `JournalKeepsPromise`, the refinement of Journal,
  under the assumption that the three renaming queries, whose outcome the code
  ignores, do not fail (`"swap" \notin Faults`). Its invariant says, call by call,
  which tables of the temporary file exist and which rows are in them.
* **Client_proofs**, about Session: `TypeCorrect`; `JournalIsHonest` (`HonestJournal`), through
  *earned*: a status bit is set only for a phase that succeeded on the present trees;
  `InitializedIsLocked` and `NothingDeadIsUsed`, for clients that do not commit
  before they initialize (`"early" \notin Features`), through *held*: what a
  context in each state holds, until a commit has failed. About Client:
  `ClientTypeCorrect`; `ExitIsEarned` (`ExitMeansDone`), through
  *course*: what has been called, and what it returned, at each place of
  `main`; `ClientsJournalHonestly` (`HonestJournal`, without `--test-statedb`) and
  `ClientsUseNothingDead` (`NoDeadHandle`, also without `"early"`). The last two
  reuse the step lemmas of Session: each call of `main` is a step of Session
  (*calls*), and only the setting of the status by hand is not.
* **Sftp_proofs**: `TypeCorrect`; `TerminalIsRestored` (`TerminalRestored`), through
  *restorable*: in the middle of a prompt what was saved is what was there before, and
  what was changed can be told from the place in the prompt; `ServerIsOwn`
  (`OwnServer`, one context at a time: `"together" \notin Features`), through *single*
  (a loaded context is the only one) and *placed* (whose session is in the
  statics at each step of loading and connecting); `NothingElseIsMissed`
  (`MissesOnlyTheRest`), for any tree, through *accounted*: while the connection is
  up, an entry that has not been seen is, or is below, something that was passed
  over, has still to be read or is just being stat'ed or opened. It needs that no
  directories go round in circles, which `ConstantsAssumption` says; `Above` is
  defined as the smallest set that goes up, so that no induction is needed.
* **OwnCloud_proofs**: `TypeCorrect`, with `WalkCorrect`: the directories of a walk are
  in each other, an entry is in the innermost one, and until it was stat'ed
  it is the one in the cache; no file is open meanwhile. `WalkTellsTheTruth`
  (`WalkIsTrue`) follows: the stat of an entry cannot miss the cache.
  `UploadsAreWhole` (`UploadIsWhole`, unless a write of the buffer may fall short: `"flush"
  \notin Faults`), from: while every write is acknowledged the temporary file and the
  buffer behind it are what was handed over, and the file is empty until something
  was spilled. `DownloadsAreWhole` (`DownloadIsWhole`, `"spool" \notin Faults`), from:
  the temporary file is the file as it was at open, what was read is the first part of
  it, and a read that returns nothing is made at its end. The two faults left out
  break the properties (section 6).
* **Admission_proofs**, about what lets a run begin. About Probes: `TypeCorrect`;
  `ProbesAreRemoved` (`NoProbeLeft`); `OnlyInStepAdmitted` (`AdmittedInStep`) and
  `NobodyRefusedForNothing` (`RefusedForAReason`), through *known*: no probe that a
  client may stat is older than its own measuring, whoever wrote it, unless it
  did not make one and is `misled`, so what it
  measures differs from its clock by no more than the seconds since. About Lock:
  `LockTypeCorrect`; `ExclusionIsOnlyRobbed` (`ExclusiveUnlessRobbed`), through
  *backed*: unless robbed, the lock file names the process of every holder, and there
  is only one holder per file, as linking needs the name to be free. It holds for
  large process ids and shared processes too.
* **TreeRun_proofs** has every property that `tree_run` checks, for trees of any
  size and depth:

  | theorem | property | hypothesis |
  |---|---|---|
  | `TypeCorrect` | `TypeOK` | none |
  | `RemovesOnlyRemoved` | `RemoveOnlyRemoved` | `~Collections`: rmdir removes empty directories only |
  | `UnwalkedStayUntouched` | `UnwalkedUntouched` (no run: `tree_run` excludes nothing) | `~Collections` |
  | `CalmRunsConverge` | `CalmRunConverges` | `Settling` |
  | `ThirdRunsAreQuiet` | `ThirdRunIsQuiet` | `Settling` |
  | `SettledDeletionsStay` | `SettledStaysDeleted` | `Settling` |

  `Settling` is `~Collections`, no edit of a file during a run, and no path that is
  excluded or too deep inside a directory that is walked (at the top they may be).
  `HighHash` is any set; `ThirdRunIsQuiet` and `SettledStaysDeleted` speak of
  `Findable` paths, `CalmRunConverges` and `RemoveOnlyRemoved` of all.
  Each part is needed: a rmdir that takes along what is inside breaks
  `RemoveOnlyRemoved` (finding 2), an edit between push and merge and an unwalked path
  in a directory break `CalmRunConverges` (section 6, findings 27 and 24). Directories may
  change during runs, and every failure and crash may happen at any time; a
  property of undisturbed runs speaks of the runs after it.

  The inductive invariant is built in four layers, and is defined next to its proof:

  * `InvA`, with the types: nothing is in a directory that is not there (`Shape`) or
    dated in the future (`Clocked`); between runs there are no trees (`Resting`);
    what a node may say in each phase (`Nodes`, `Walking`, `Removing`) and what each
    pass still has before it (`Course`). For `RemoveOnlyRemoved` it needs to know
    what the second walk cannot have overlooked: `Seen` says that what is on a disk
    is in its tree, still to be walked, or was changed behind the walk (`unseen`);
    `Kept` that what will be pushed is still there wherever its directory is, so
    that a directory that goes away takes nothing with it that is on its way;
    `Occupied` that a directory that the push of another path made again on the
    other replica, and that is still to be removed here, holds what was pushed, so that
    rmdir fails on it. The property itself is no invariant of the disks: that a
    removal finds nothing on the other side follows only from all of these.
  * `InvB`: no file is older than its row in the journal (`NotOlder`), a detected
    file is as it was detected or gone (`AsFound`), and in each phase of the
    propagation the nodes of a file tell how its two times compare
    (`FileRows`, one `Row` per path). The row of a directory would be false: its time
    moves with every call in it.
  * `InvC` relates runs to each other. In an undisturbed run the walks find exactly
    what is there (`Scanned`, `Undisturbed`), and `CalmRows` says for every path,
    phase by phase, which pairs of instructions there are and what is on the disks
    for each; a directory needs another table than a file. `Ageing` says that a time of a local
    directory only grows unless it is synchronized to the remote one's. So the
    commit leaves every path `Synced`; if it was synced before, at rest, too
    (`AtRest`: the local time is that of the row, the remote one is not newer).
    `Settled` carries this from run to run, and `Quiet` says what two walks
    can find then at paths with findable rows: nothing at all, or, in the second run, a time to be
    copied to the other replica. At the others the walks find NEW or RENAME on one side
    and NEW on the other (`Tells`, `Matching`): files and directories are sent again, but
    nothing is removed (`NoneGoes`), and only directories that are not findable
    themselves are dated by it.
  * `InvD` adds `Vacated`, which follows a deletion made at rest: in the whole
    subtree one replica is empty and the other has nothing newer than its rows, so a
    walk finds only NONE there, the reconciler writes only REMOVE, and no push makes
    it again.

  What a pass does to a disk is stated once, by `Grows` and `Shrinks`: which paths may
  appear or go, and which directories are dated. That a path's way up (`UpTo`) ends,
  is a chain, and has fewer members the higher it starts follows
  from its definition as a smallest set that goes up, without induction.

Model-checked only: liveness (`EventuallyEqual`, `PushEnds`, `SomebodyGetsIn`,
`JournalAgain`, `ConnectEnds`), which is out of the prover's reach; CList, Paths and
Exclude, which are recursive or compute over sequences; and the properties of RbTree
(`RedBlack`, `Walkable`, `Promise`), which need induction over the tree.

## 6. Findings

Quoted with their lines in `PROJECT.json`; each is shown by a configuration
change in the table below, or by the definition named there. In short:

1. Unlinking a stale lock removes the lock of whoever took it meanwhile.
2. Removing a directory over WebDAV removes a file that was just edited in it; the
   next run removes its other copy.
3. After a conflict whose push fails, the losing file is journalled as
   synchronized; deleting the winner then deletes the loser.
4. A directory that may not be read counts as empty, so its files are deleted on
   the other replica.
5. An upload that fails while reading replaces the destination by a part of the
   file; a failed push then deletes it. An upload the server refuses is reported
   as done if the old file, or the stale cache, has the same size.
6. `open` and `mkdirs` are repeated for ever when a directory cannot be made.
7. A crash in the middle of the copy over the journal leaves a torn data base that
   no run repairs; a failed rename of its tables leaves rows that every
   later run trips over.
8. `csync_commit` returns 0 when the journal was not written; after it returned an
   error, `csync_destroy` uses a closed handle and freed trees; committed too
   early, it makes a context that is initialized but not locked.
9. Client data of a context is overwritten by the insertion of the rows.
10. Process ids above 0xFFFF count as broken locks; a refused context removes the
    lock of another context of its process; the retry for a taken temporary name
    cannot work.
11. After one run the times of directories may not be at rest: a directory deleted
    then comes back. A second run settles them.
12. A removal that failed on the remote replica is not written back to the
    journal, and what is left comes back on the local one.
13. Error paths of `_csync_new_dir` and `_csync_sync_dir` leave `ctx->replica`
    switched; an empty cleanup list is reported as a lack of memory.
14. Deleting a node with two children breaks the red-black tree; duplicating an
    empty tree makes a node of the sentinel. csync does neither.
15. `owncloud_unlink` never fails; short writes to the temporary file are only
    logged; the known directory is not forgotten when it is removed.
16. Over sftp, a server that offers nothing for which the client sends a request
    keeps it in the loop of the authentication for ever: no known method, a password the uri
    does not have, or public keys to a client that has none.
17. The session of the sftp module is static: a second context of a process for
    another server uses the session of the first; a lost connection is never made again.
18. The end of a listing and a connection that is lost look alike: what was not
    listed counts as deleted.
19. A client without a callback crashes when a server asks for a password; the
    first `csync_init` for a new host always fails; the newline of an answer to the
    question about its key answers the next question.
20. The prompt leaves a stdin that is no terminal with other flags than before.
21. The second probe is not in the exclude list: another machine that walks while
    it is there copies it.
22. `--test-statedb` makes `csync_destroy` write a journal after the detection alone;
    the exit code of the program does not say that a journal could not be written.
23. `local_only_mode` skips the remote walk and nothing else: with a journal all
    local files are deleted.
24. Excluded paths, and those below the limit of the depth, are in the way of the
    removal of their directory, which comes back, or go with it over WebDAV. The
    configured depth is not used at all.
25. Patterns that end in a slash exclude nothing; a last line without a newline is
    ignored; ports with a 0 in front are octal; the root of a server has no path.
26. The journal stores path hashes with a sign and looks them up without: half of all
    paths are new, or renamed, to every run. They are copied again each time, an older
    local file replaces a newer remote one, and what is deleted comes back. Large
    inode numbers are cut off by `atoi`, and renames not seen.
27. An edit between the push of a file and the merge of the trees is journalled as
    synchronized.
28. The making of the remote probe may fail in a close nobody looks at; an older probe
    is measured instead, and a client out of step is admitted.

The passing runs leave out moves and faults under which a property fails. They
are switched by constants; adding one to a configuration shows:

| constant | run, property that fails | code |
|---|---|---|
| `PROPERTY NewerIsNotOverwritten`, `Faults = {}` | `sync_interrupted`: finding 26 | `csync_statedb.c:393` |
| `Findable == Path` | `sync_interrupted`, `NoLostUpdate`, `SecondRunIsQuiet` and, with `Recorded` in place of `FoundByHash` in `LooksUnchanged`, `NoResurrect`; `tree_run`, `ThirdRunIsQuiet`, `SettledStaysDeleted`; all with `Faults = {}`: finding 26 | `csync_statedb.c:393` |
| `Faults` + copy | `sync_interrupted`, `NoLostUpdate`: finding 3 | `csync_statedb.c:301` |
| `Faults` + walk | `sync_moves`, `RemoveOnlyRemoved`: finding 4 (`MaxFaults = 1`) | `csync_update.c:230` |
| `UserMoves` + rename | `sync_interrupted`, `NoLostUpdate`: a renamed file replaces a new one of the other side | `csync_reconcile.c:89-127` |
| `UserMoves` + link | `sync_interrupted`, `NoLostUpdate`: a file with two links is ignored, and overwritten | `csync_update.c:100` |
| `Faults` + backup, `ConflictCopies = {TRUE}` | `sync_interrupted`, `NoLostUpdate`: a failed backup does not stop the overwrite | `csync_propagate.c:596` |
| `Faults` + unlink | `sync_interrupted`, `NoResurrect`: the retried deletion is forgotten if the journal is lost | `csync_propagate.c:675` |
| `UserMoves` + duringRun | `sync_rerun`, `NoSilentDivergence`: finding 27 | `csync_util.c:212` |
| `UserMoves` + sameSecond | `sync_moves`, `CalmRunConverges`: two versions of one second are never exchanged | `csync_reconcile.c:123-127` |
| 2 paths, `UserMoves` + rename, renameOver | `sync_rerun`, `NoSilentDivergence`: an older file moved over a path looks unchanged | `csync_update.c:110` |
| `AtomicCopy = {TRUE}`, `Faults` + copy | `sync_interrupted`, `OriginalOrFinal`: finding 5 | `csync_propagate.c:427` |
| `Worlds <- DeepUpload` | `push_file`, `PushEnds`: finding 6 | `csync_propagate.c:204` |
| `INVARIANT TransferErrorsDetected` | `push_file`: finding 5 | `csync_propagate.c:302` |
| `Faults` + torn | `state_db`, `JournalAgain`: finding 7 | `csync_statedb.c:191` |
| `Faults` + swap | `state_db`, `Promise` and `JournalAgain`: finding 7 | `csync_statedb.c:374` |
| `PROPERTY CommitReports` | `session`: finding 8 | `csync.c:690` |
| `Features = {"early"}`, `INVARIANT InitMeansLocked` | `session`: finding 8 | `csync.c:755` |
| `Modes` + test_statedb | `session`, `HonestJournal`: finding 22 | `csync_client.c:294` |
| `INVARIANT ExitMeansJournalled` | `session`: finding 22 | `csync.c:773` |
| `INVARIANT MutualExclusion` | `lock`: finding 1 | `csync_lock.c:163` |
| `LargePid = {q1}` | `lock`, `MutualExclusion`, which finding 1 breaks by a race, without one: finding 10 | `csync_lock.c:147` |
| `Features` + shared | `lock`, `MutualExclusion`, likewise: finding 10 | `csync.c:789` |
| `PROPERTY SyncedStaysDeleted` | `tree_run`: finding 11 | `csync_propagate.c:1124` |
| `PROPERTY WrittenBack` | `tree_run`: finding 12 | `csync_propagate.c:991` |
| `UserMoves` + filesDuringRun | `tree_run`, `CalmRunConverges`: finding 27 | `csync_util.c:212` |
| `Collections = TRUE` | `tree_run`, `RemoveOnlyRemoved`: finding 2 | `csync_owncloud.c:1409` |
| `Excluded = {f}` or `MaxDepth = 1` | `tree_run`, `CalmRunConverges` and `SettledStaysDeleted`: finding 24 | `csync_update.c:280` |
| the same, `Collections = TRUE`, `PROPERTY UnwalkedUntouched` | `tree_run`: finding 24 | `csync_owncloud.c:1409` |
| `UserMoves` + localOnly | `sync_moves`, `CalmRunConverges` and `RemoveOnlyRemoved`; `sync_interrupted`, `NoLostUpdate`: finding 23 | `csync.c:373` |
| `Offers <- KeysOnly` | `sftp`, `ConnectEnds`: finding 16 | `csync_sftp.c:459` |
| `Features = {"together"}` | `sftp`, `OwnServer`: finding 17 | `csync_sftp.c:166` |
| `INVARIANT SeesEverything` | `sftp`: finding 18 | `csync_update.c:242` |
| `Callback = FALSE` | `sftp`, a deadlock in the step "crashed": finding 19 | `csync_sftp.c:102` |
| `INVARIANT EveryQuestionIsAsked` | `sftp`: finding 19 | `csync_sftp.c:325` |
| `INVARIANT StdinRestored` | `sftp`: finding 20 | `csync_auth.c:263` |
| `INVARIANT OnlyInStep` | `probes`: finding 28 | `csync_time.c:138` |
| `INVARIANT ProbesStayOut` | `probes`: finding 21 | `csync_util.c:273` |
| `Features = {"inner"}` | `rb_tree`, `RedBlack`: finding 14 | `c_rbtree.c:496` |
| `Faults` + flush | `owncloud`, `UploadIsWhole`: finding 15 | `csync_owncloud.c:779` |
| `Faults` + spool | `owncloud`, `DownloadIsWhole`: finding 15 | `csync_owncloud.c:818` |

`OriginalOrFinal` of SyncRun speaks of runs without conflict copies: with them the
path is empty between the backup and the push (`csync_propagate.c:594-598`).

## 7. Not modelled, and why

* In SyncRun: directories (TreeRun has them) and what the exclude list takes out
  (TreeRun, too); failing journal queries, which the code retries; a conflict
  copy's own life as a new path (it is remembered in `kept`); temporary files a
  crash leaves behind (PushFile has them); a conflict copy that is compared and removed
  while somebody rewrites the file in its place (the push, the comparison and the
  removal are one step); clock skew, which the model takes as
  zero and Probes bounds; running out of memory, which ends the process much
  like `Crash`.
* In TreeRun: conflict copies, renames and links, which SyncRun has; a path that
  is a file on one replica and a directory on the other; a conflict of two file
  versions of one second.
* In PushFile: content of the same length written outside the program; the
  loss of connection beyond the failing of single calls.
* In StateDb: a query that is busy or meets a changed schema and is retried; the
  content of rows, and whether a look-up finds its row (SyncRun has that).
* In Session and Client: options, user data, status codes; how the phases work
  inside; arguments that only set levels of logging.
* In Lock: processes that are not csync and own a recycled id (they would make
  a stale lock stay as long as they live); an `errno` of ERANGE left over from an earlier call, which the
  code also takes for a broken file.
* In RbTree: duplication and the walk with a visitor; running out of memory.
* In OwnCloud: session set-up, certificates, authentication, compression, escaping of
  names, `utimes` and times; a file whose temporary copy cannot be closed.
* In Sftp: the transfer of data, chmod, chown and utimes, which hand over to libssh
  (PushFile has the push over sftp); prompts of a server whose answer may be shown;
  a server that counts no attempts.
* In Console: the verification of an answer by asking twice, which no caller wants.
* In Probes: several remote replicas; what the walk of a client does with a
  probe it finds, beyond copying it.
* In Paths and Exclude: sets in brackets of a pattern; hexadecimal ports.
* Not at all: `csync_memstat_check`, which logs how much memory is used; the smb
  module, which hands over to libsmbclient, and the dummy module of the tests;
  configuration and log; what remains of the helpers, strings and allocation; the
  local module and the dispatch of `csync_vio.c` except as the push, the walk and the
  loading use them.

## 8. Plan

Done, in order of importance: Reconcile and SyncRun; PushFile and Replacement;
Lock; StateDb and Journal; Session; TreeRun and CList; RbTree and SortedSet;
OwnCloud; Sftp and Console; Probes; Client; Paths and Exclude; `local_only` mode,
excluded paths and the limit of the depth; the proofs of section 5.

Next:

1. Proofs: `SecondRunRests` of SyncRun with second links and with two versions in
   one second, which no run shows to be in its way; the theorems of TreeRun with
   unwalked paths in directories that nobody deletes.
2. The retries of `csync_statedb_query`; a path that changes between file and
   directory in TreeRun.
3. The upload of PushFile composed with OwnCloud instead of its own `Upload`.
