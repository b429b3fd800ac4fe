------------------------------- MODULE StateDb -------------------------------
(***************************************************************************)
(* The state database, csync_statedb.c, run after run: the check of the    *)
(* file, the temporary copy, the queries that rewrite its tables, and the  *)
(* copy back over the file, with queries and copies failing and the        *)
(* process dying between any two of them.                                  *)
(*                                                                         *)
(* csync_statedb_query has two ways to fail: NULL if the statement cannot  *)
(* be prepared, and a list that is not NULL, which every caller takes for  *)
(* success, if it cannot be executed.                                      *)
(***************************************************************************)
EXTENDS Naturals, FiniteSets

CONSTANTS
    Path,       \* paths that may have a row
    NoTable,    \* a table that does not exist
    NoFile,     \* a file that does not exist
    Foreign,    \* a file without the header of a database
    Torn,       \* a file with the header and too few pages
    Large,      \* the file is longer than the buffer of c_copy
    Faults,     \* what may fail, a subset of AllFaults
    MaxFaults   \* bound: faults that happen

(* open: a data base cannot be opened; unlink; copy: c_copy fails; probe:  *)
(* the query that looks for the table; prepare, step: the queries before   *)
(* the insertion; insert, commit: the insertion; swap: the queries after   *)
(* it; run: the synchronization fails; crash: the process dies; torn: it   *)
(* does so in the middle of the copy over the file.                        *)
AllFaults == {"open", "unlink", "copy", "probe", "prepare", "step", "insert",
              "commit", "swap", "run", "crash", "torn"}

J == INSTANCE Journal WITH stored <- NoTable, synced <- NoTable

Table  == {"metadata", "metadata_temp", "metadata_wait"}
Tables == [Table -> {NoTable} \cup SUBSET J!Row]
Empty  == [t \in Table |-> NoTable]
Unreadable == {NoFile, Foreign, Torn}

ASSUME ConstantsAssumption ==
    /\ \A S \in SUBSET (J!Row \cup Path) : NoTable # S
    /\ \A f \in Tables : f \notin Unreadable
    /\ Cardinality(Unreadable) = 3
    /\ Large \in BOOLEAN
    /\ Faults \subseteq AllFaults
    /\ MaxFaults \in Nat

VARIABLES
    file,     \* .csync_journal.db
    tmp,      \* .csync_journal.db.ctmp, open while a run is on
    exists,   \* ctx->statedb.exists
    tree,     \* the paths to be written, NoTable before the run has any
    pc,       \* the next call
    faults    \* faults so far

vars == <<file, tmp, exists, tree, pc, faults>>

File  == Unreadable \cup Tables
Calls == {"check", "copy_in", "probe", "run", "drop", "create_temp", "create",
          "index", "insert", "rename_old", "rename_new", "drop_old", "truncate",
          "copy_out", "unlink_tmp", "discard"}

TypeOK ==
    /\ file \in File /\ tmp \in File
    /\ exists \in BOOLEAN
    /\ tree \in {NoTable} \cup SUBSET Path
    /\ pc \in Calls \cup {"idle"}
    /\ faults \in Nat

Init ==
    /\ file \in {NoFile, Foreign} \cup
          {[Empty EXCEPT !["metadata"] = P \X {"old"}] : P \in SUBSET Path}
    /\ tmp = NoFile
    /\ exists = FALSE
    /\ tree = NoTable
    /\ pc = "idle"
    /\ faults = 0

Fault(f) ==
    /\ f \in Faults
    /\ faults < MaxFaults
    /\ faults' = faults + 1

NoFault    == UNCHANGED faults
Readable   == tmp \notin Unreadable
Goto(next) == pc' = next

AgedFile(f) ==
    IF f \in Unreadable THEN f
    ELSE [t \in Table |-> IF f[t] = NoTable THEN NoTable
                          ELSE {r[1] : r \in f[t]} \X {"old"}]

(* A context is created and initialized: rows of earlier runs are old.     *)
Begin ==
    /\ pc = "idle"
    /\ file' = AgedFile(file) /\ tmp' = AgedFile(tmp)
    /\ exists' = FALSE
    /\ tree' = NoTable
    /\ Goto("check")
    /\ UNCHANGED faults

-----------------------------------------------------------------------------
(* csync_statedb_load *)

(* No header of a database.  An empty file, which has none either, is      *)
(* unlinked too, and created again.                                        *)
HeaderMismatch == file = Foreign

(* sqlite3_open looks at the header alone and creates a missing file; a    *)
(* file that it cannot open is unlinked before the second attempt.         *)
Check ==
    /\ pc = "check"
    /\ UNCHANGED <<tmp, exists, tree>>
    /\ \/ /\ file' = IF HeaderMismatch \/ file = NoFile THEN Empty ELSE file
          /\ NoFault
          /\ Goto("copy_in")
       \/ /\ HeaderMismatch /\ Fault("unlink")
          /\ UNCHANGED file
          /\ Goto("copy_in")
       \/ /\ Fault("open")
          /\ \/ /\ file \notin {NoFile, Foreign, Empty}
                /\ file' = Empty /\ Goto("copy_in")
             \/ file' = NoFile /\ Goto("idle")

(* Mutant: an existing temporary file is used as it is. *)
CopiedOnce(src, dst) == IF dst = NoFile THEN src ELSE dst

(* c_copy truncates its destination. *)
Copied(src, dst) == src

(* csync_destroy closes a data base that was not opened too, but not one   *)
(* that was not copied.                                                    *)
CopyIn ==
    /\ pc = "copy_in"
    /\ UNCHANGED <<file, exists, tree>>
    /\ \/ NoFault /\ tmp' = Copied(file, tmp) /\ Goto("probe")
       \/ Fault("copy") /\ tmp' = NoFile /\ Goto("idle")
       \/ Fault("open") /\ tmp' = Copied(file, tmp) /\ Goto("discard")

(* Mutant: the table is taken to exist when the query fails. *)
TableAlways == TRUE
TableThere  == Readable /\ tmp["metadata"] # NoTable

Probe ==
    /\ pc = "probe"
    /\ \/ NoFault /\ exists' = TableThere
       \/ Fault("probe") /\ exists' = FALSE
    /\ Goto("run")
    /\ UNCHANGED <<file, tmp, tree>>

(* The phases of csync, and the merge of the trees; with any failure the   *)
(* journal is closed and not written.                                      *)
Run ==
    /\ pc = "run"
    /\ \/ NoFault /\ tree' \in SUBSET Path /\ Goto("drop")
       \/ Fault("run") /\ UNCHANGED tree /\ Goto("discard")
    /\ UNCHANGED <<file, tmp, exists>>

-----------------------------------------------------------------------------
(* csync_statedb_write *)

Change(t, rows) == tmp' = [tmp EXCEPT ![t] = rows]

(* CREATE TABLE IF NOT EXISTS: the rows of a table that is there stay.     *)
Created(t) == IF tmp[t] = NoTable THEN {} ELSE tmp[t]

(* One of the queries before the insertion, which gives table t the rows.  *)
Query(name, t, rows, next) ==
    /\ pc = name
    /\ UNCHANGED <<file, exists, tree>>
    /\ \/ Readable /\ NoFault /\ Change(t, rows) /\ Goto(next)
       \/ Readable /\ Fault("step") /\ UNCHANGED tmp /\ Goto(next)
       \/ Readable /\ Fault("prepare") /\ UNCHANGED tmp /\ Goto("discard")
       \/ ~Readable /\ UNCHANGED <<tmp, faults>> /\ Goto("discard")

DropTables  == Query("drop", "metadata", NoTable, "create_temp")
CreateTemp  == Query("create_temp", "metadata_temp",
                     Created("metadata_temp"), "create")
CreateTable == Query("create", "metadata", Created("metadata"), "index")

(* The indexes need the table.                                             *)
CreateIndex ==
    /\ pc = "index"
    /\ Goto(IF tmp["metadata"] # NoTable THEN "insert" ELSE "discard")
    /\ UNCHANGED <<file, tmp, exists, tree, faults>>

(* The primary key refuses a second row for a path.                        *)
Conflict == \E r \in tmp["metadata_temp"] : r[1] \in tree

(* The outcome of the COMMIT is not looked at.                             *)
InsertMetadata ==
    /\ pc = "insert"
    /\ UNCHANGED <<file, exists, tree>>
    /\ \/ /\ tmp["metadata_temp"] # NoTable /\ ~Conflict
          /\ Goto("rename_old")
          /\ \/ /\ NoFault
                /\ Change("metadata_temp",
                          tmp["metadata_temp"] \cup (tree \X {"new"}))
             \/ Fault("commit") /\ UNCHANGED tmp
       \/ /\ IF tmp["metadata_temp"] = NoTable \/ Conflict THEN NoFault
                                                           ELSE Fault("insert")
          /\ UNCHANGED tmp
          /\ Goto("discard")

(* ALTER TABLE a RENAME TO b *)
Renamed(a, b) ==
    IF tmp[a] # NoTable /\ tmp[b] = NoTable
    THEN [tmp EXCEPT ![b] = tmp[a], ![a] = NoTable]
    ELSE tmp

(* One of the queries after it, whose outcome nobody looks at either.      *)
Swap(name, result, next) ==
    /\ pc = name
    /\ \/ NoFault /\ tmp' = result
       \/ Fault("swap") /\ UNCHANGED tmp
    /\ Goto(next)
    /\ UNCHANGED <<file, exists, tree>>

RenameOld == Swap("rename_old", Renamed("metadata", "metadata_wait"),
                  "rename_new")
RenameNew == Swap("rename_new", Renamed("metadata_temp", "metadata"),
                  "drop_old")
DropOld   == Swap("drop_old", [tmp EXCEPT !["metadata_wait"] = NoTable],
                  "truncate")

-----------------------------------------------------------------------------
(* csync_statedb_close *)

(* jwritten: c_copy opens the file with O_TRUNC, and unlinks it if it      *)
(* cannot write all of it.                                                 *)
Truncate ==
    /\ pc = "truncate"
    /\ UNCHANGED <<tmp, exists, tree>>
    /\ \/ NoFault /\ file' = Empty /\ Goto("copy_out")
       \/ Fault("copy") /\ file' = NoFile /\ Goto("idle")

(* Mutant: a copy that failed is left as it is. *)
CopyFailedKept == Torn
CopyFailed     == NoFile

CopyOut ==
    /\ pc = "copy_out"
    /\ UNCHANGED <<tmp, exists, tree>>
    /\ \/ NoFault /\ Large /\ file # Torn /\ file' = Torn /\ Goto("copy_out")
       \/ /\ NoFault /\ (file = Torn <=> Large)
          /\ file' = tmp
          /\ Goto("unlink_tmp")
       \/ Fault("copy") /\ file' = CopyFailed /\ Goto("idle")

(* After a copy that failed the temporary file stays.                      *)
UnlinkTmp ==
    /\ pc \in {"unlink_tmp", "discard"}
    /\ tmp' = NoFile
    /\ Goto("idle")
    /\ UNCHANGED <<file, exists, tree, faults>>

Crash ==
    /\ pc # "idle"
    /\ Fault(IF pc = "copy_out" /\ file = Torn THEN "torn" ELSE "crash")
    /\ Goto("idle")
    /\ UNCHANGED <<file, tmp, exists, tree>>

-----------------------------------------------------------------------------
Next ==
    \/ Begin \/ Check \/ CopyIn \/ Probe \/ Run
    \/ DropTables \/ CreateTemp \/ CreateTable \/ CreateIndex
    \/ InsertMetadata
    \/ RenameOld \/ RenameNew \/ DropOld
    \/ Truncate \/ CopyOut \/ UnlinkTmp \/ Crash

Spec == Init /\ [][Next]_vars

(* csync is run again and again, and a run goes on.                        *)
FairSpec == Spec /\ WF_vars(Next)

-----------------------------------------------------------------------------
(***************************************************************************)
(* Properties.                                                             *)
(***************************************************************************)

(* The rows that the queries of a run on a copy of f find.                 *)
Rows(f) == IF f \in Unreadable THEN NoTable ELSE f["metadata"]

(* The journal keeps what Journal promises and SyncRun relies on: the rows *)
(* of a run stay, are replaced at once by those of the run that ends, all  *)
(* of them and no others, or are lost; what a run that failed or died left *)
(* in the temporary file never gets into it.                               *)
JournalRows == INSTANCE Journal WITH stored <- Rows(file), synced <- tree
Promise == JournalRows!Spec

(* "statedb doesn't exist" (csync_statedb_load): a run believes a journal  *)
(* to exist only while the copy it queries can be read and has the rows of *)
(* the file.  That a query finds the row of its path is another matter:    *)
(* HighHash of SyncRun.                                                    *)
ReadsJournal ==
    pc = "run" /\ exists => Rows(file) # NoTable /\ Rows(tmp) = Rows(file)

(* Once nothing fails any more, running csync again ("Crash resistance" in *)
(* doc/csync.txt) writes the journal, whatever is at its path by then.     *)
JournalAgain == []<>(pc = "unlink_tmp")
=============================================================================
