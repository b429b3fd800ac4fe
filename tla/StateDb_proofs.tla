---------------------------- MODULE StateDb_proofs ----------------------------
(***************************************************************************)
(* Proofs about StateDb for every set of paths and every faults, save, for *)
(* what the journal promises, the failing of the queries whose outcome     *)
(* nobody looks at.                                                        *)
(***************************************************************************)
EXTENDS StateDb, TLAPS

USE DEF J!Row, J!Age

(* A table, by the assumptions on the constants, has rows or does not      *)
(* exist, and a file is readable or is not.                                *)
LEMMA Sorts ==
  /\ \A S : S \subseteq J!Row => S # NoTable
  /\ \A S : S \subseteq Path => S # NoTable
  /\ \A f \in Tables : f \notin Unreadable
  /\ Empty \in Tables
  /\ "metadata" \in Table /\ "metadata_temp" \in Table
  /\ "metadata_wait" \in Table
BY ConstantsAssumption DEF Tables, Empty, Table

(* Ageing keeps the shape of a file.                                       *)
LEMMA AgedFileType ==
  ASSUME NEW f \in File
  PROVE  AgedFile(f) \in File
<1>1. CASE f \in Unreadable
  BY <1>1 DEF AgedFile
<1>2. CASE f \notin Unreadable
  <2>1. f \in Tables
    BY <1>2 DEF File
  <2>2. \A t \in Table : f[t] # NoTable => f[t] \subseteq J!Row
    BY <2>1 DEF Tables
  <2>3. \A t \in Table : f[t] # NoTable =>
             {r[1] : r \in f[t]} \X {"old"} \subseteq J!Row
    BY <2>2
  <2> QED BY <1>2, <2>3 DEF AgedFile, File, Tables
<1> QED BY <1>1, <1>2

(* A readable copy has tables.                                             *)
LEMMA ReadableTables ==
  ASSUME TypeOK, Readable
  PROVE  tmp \in Tables
BY DEF TypeOK, Readable, File

(* One more table written gives tables again.                              *)
LEMMA ChangeType ==
  ASSUME NEW f \in Tables, NEW t \in Table,
         NEW rows \in {NoTable} \cup SUBSET J!Row
  PROVE  [f EXCEPT ![t] = rows] \in File
BY DEF Tables, File

LEMMA RenamedType ==
  ASSUME TypeOK, tmp \in Tables, NEW a \in Table, NEW b \in Table
  PROVE  Renamed(a, b) \in File
BY DEF Renamed, Tables, File

-----------------------------------------------------------------------------
(* The rewriting of the tables begins with a readable copy, and the run    *)
(* has a tree by then.                                                     *)
Writing == {"create_temp", "create", "index", "insert", "rename_old",
            "rename_new", "drop_old", "truncate", "copy_out"}

ReadableInv ==
    /\ pc \in Writing => tmp \in Tables
    /\ pc \in Writing \cup {"drop"} => tree \in SUBSET Path
    /\ pc \in {"check", "copy_in", "probe", "run"} => tree = NoTable

LEMMA TypeStep == TypeOK /\ ReadableInv /\ [Next]_vars => TypeOK' /\ ReadableInv'
<1> SUFFICES ASSUME TypeOK, ReadableInv, [Next]_vars
             PROVE  TypeOK' /\ ReadableInv'
  OBVIOUS
<1> USE Sorts
<1>1. CASE Begin
  <2>1. file' \in File /\ tmp' \in File
    BY <1>1, AgedFileType DEF TypeOK, Begin
  <2> QED BY <1>1, <2>1 DEF TypeOK, Begin, ReadableInv, Writing, Goto, Calls
<1>2. CASE Check
  BY <1>2 DEF TypeOK, Check, ReadableInv, Writing, Goto, Calls, File,
              Unreadable, Fault, NoFault, HeaderMismatch
<1>3. CASE CopyIn
  BY <1>3 DEF TypeOK, CopyIn, ReadableInv, Writing, Goto, Calls, File,
              Unreadable, Fault, NoFault, Copied
<1>4. CASE Probe
  <2>1. TableThere \in BOOLEAN
    BY DEF TableThere
  <2>2. exists' \in BOOLEAN
    BY <1>4, <2>1, Zenon DEF Probe
  <2> QED BY <1>4, <2>2 DEF TypeOK, Probe, ReadableInv, Writing, Goto, Calls,
                            Fault, NoFault
<1>5. CASE Run
  BY <1>5 DEF TypeOK, Run, ReadableInv, Writing, Goto, Calls, Fault, NoFault
<1>6. ASSUME NEW name, NEW t \in Table,
             NEW rows \in {NoTable} \cup SUBSET J!Row,
             NEW next \in {"create_temp", "create", "index"},
             Query(name, t, rows, next), name \in Writing \cup {"drop"}
      PROVE  TypeOK' /\ ReadableInv'
  <2>1. CASE Readable
    <3>1. tmp \in Tables
      BY <2>1, ReadableTables
    <3>2. tmp' \in Tables
      BY <1>6, <2>1, <3>1 DEF Query, Change, Tables
    <3> QED BY <1>6, <2>1, <3>2 DEF TypeOK, Query, ReadableInv, Writing, Goto,
                                    Calls, Fault, NoFault, File
  <2>2. CASE ~Readable
    BY <1>6, <2>2 DEF TypeOK, Query, ReadableInv, Writing, Goto, Calls
  <2> QED BY <2>1, <2>2
<1>7. CASE DropTables
  BY <1>6, <1>7 DEF DropTables
<1>8. CASE CreateTemp
  <2>1. pc = "create_temp" /\ tmp \in Tables
    BY <1>8 DEF CreateTemp, Query, ReadableInv, Writing
  <2>2. Created("metadata_temp") \in {NoTable} \cup SUBSET J!Row
    BY <2>1 DEF Created, Tables
  <2> QED BY <1>6, <1>8, <2>2 DEF CreateTemp, Writing
<1>9. CASE CreateTable
  <2>1. pc = "create" /\ tmp \in Tables
    BY <1>9 DEF CreateTable, Query, ReadableInv, Writing
  <2>2. Created("metadata") \in {NoTable} \cup SUBSET J!Row
    BY <2>1 DEF Created, Tables
  <2> QED BY <1>6, <1>9, <2>2 DEF CreateTable, Writing
<1>10. CASE CreateIndex
  BY <1>10 DEF TypeOK, CreateIndex, ReadableInv, Writing, Goto, Calls
<1>11. CASE InsertMetadata
  <2>1. tmp \in Tables /\ tree \subseteq Path
    BY <1>11 DEF InsertMetadata, ReadableInv, Writing
  <2>2. tmp["metadata_temp"] # NoTable =>
           tmp["metadata_temp"] \cup (tree \X {"new"}) \in SUBSET J!Row
    BY <2>1 DEF Tables
  <2>3. tmp' \in Tables
    BY <1>11, <2>1, <2>2 DEF InsertMetadata, Change, Tables
  <2> QED BY <1>11, <2>1, <2>3 DEF TypeOK, InsertMetadata, ReadableInv,
             Writing, Goto, Calls, Fault, NoFault, File
<1>12. ASSUME NEW name \in Writing, NEW result \in Tables,
              NEW next \in Writing, Swap(name, result, next)
       PROVE  TypeOK' /\ ReadableInv'
  BY <1>12 DEF TypeOK, Swap, ReadableInv, Writing, Goto, Calls, Fault,
               NoFault, File
<1>13. CASE RenameOld
  <2>1. Renamed("metadata", "metadata_wait") \in Tables
    BY <1>13 DEF RenameOld, Swap, ReadableInv, Writing, Renamed, Tables
  <2> QED BY <1>12, <1>13, <2>1 DEF RenameOld, Writing
<1>14. CASE RenameNew
  <2>1. Renamed("metadata_temp", "metadata") \in Tables
    BY <1>14 DEF RenameNew, Swap, ReadableInv, Writing, Renamed, Tables
  <2> QED BY <1>12, <1>14, <2>1 DEF RenameNew, Writing
<1>15. CASE DropOld
  <2>1. [tmp EXCEPT !["metadata_wait"] = NoTable] \in Tables
    BY <1>15 DEF DropOld, Swap, ReadableInv, Writing, Tables
  <2> QED BY <1>12, <1>15, <2>1 DEF DropOld, Writing
<1>16. CASE Truncate
  BY <1>16 DEF TypeOK, Truncate, ReadableInv, Writing, Goto, Calls, File,
               Unreadable, Fault, NoFault
<1>17. CASE CopyOut
  BY <1>17 DEF TypeOK, CopyOut, ReadableInv, Writing, Goto, Calls, File,
               Unreadable, Fault, NoFault, CopyFailed
<1>18. CASE UnlinkTmp
  BY <1>18 DEF TypeOK, UnlinkTmp, ReadableInv, Writing, Goto, Calls, File,
               Unreadable
<1>19. CASE Crash
  BY <1>19 DEF TypeOK, Crash, ReadableInv, Writing, Goto, Calls, Fault
<1>20. CASE UNCHANGED vars
  BY <1>20 DEF TypeOK, ReadableInv, vars
<1> QED BY <1>1, <1>2, <1>3, <1>4, <1>5, <1>7, <1>8, <1>9, <1>10, <1>11,
           <1>13, <1>14, <1>15, <1>16, <1>17, <1>18, <1>19, <1>20 DEF Next

(* The variables of StateDb keep their types.                              *)
THEOREM TypeCorrect == Spec => [](TypeOK /\ ReadableInv)
<1>1. Init => TypeOK /\ ReadableInv
  <2> SUFFICES ASSUME Init PROVE TypeOK /\ ReadableInv
    OBVIOUS
  <2>1. file \in File
    BY Sorts DEF Init, File, Unreadable, Tables, Empty
  <2> QED BY <2>1, Sorts DEF Init, TypeOK, ReadableInv, Writing, File,
                             Unreadable, Calls
<1>2. TypeOK /\ ReadableInv /\ [Next]_vars => TypeOK' /\ ReadableInv'
  BY TypeStep
<1> QED BY <1>1, <1>2, PTL DEF Spec

-----------------------------------------------------------------------------
(* A run looks up rows in a copy of the file.                              *)
CopyInv ==
    /\ pc \in {"probe", "run"} => tmp = file
    /\ pc = "run" /\ exists => TableThere

(* What a run is told about the journal is so.                             *)
THEOREM LookUpsAreRight == Spec => []ReadsJournal
<1>1. Init => CopyInv
  BY DEF Init, CopyInv
<1>2. CopyInv /\ [Next]_vars => CopyInv'
  <2> SUFFICES ASSUME CopyInv, [Next]_vars PROVE CopyInv'
    OBVIOUS
  <2>1. CASE Probe
    <3>0. tmp' = file'
      BY <2>1 DEF Probe, CopyInv
    <3>1. exists' => TableThere
      <4>1. exists' = TableThere \/ exists' = FALSE
        BY <2>1, Zenon DEF Probe
      <4> QED BY <4>1, Zenon
    <3>2. TableThere' = TableThere
      BY <2>1 DEF Probe, TableThere, Readable
    <3> QED BY <2>1, <3>0, <3>1, <3>2 DEF CopyInv
  <2>2. CASE CopyIn
    BY <2>2 DEF CopyIn, Copied, CopyInv, Goto
  <2>3. ASSUME pc' \notin {"probe", "run"} PROVE CopyInv'
    BY <2>3 DEF CopyInv
  <2>4. CASE UNCHANGED vars
    BY <2>4 DEF vars, CopyInv, TableThere, Readable
  <2>5. \/ pc' \notin {"probe", "run"} \/ Probe \/ CopyIn \/ UNCHANGED vars
    BY DEF Next, Begin, Check, Run, DropTables, CreateTemp, CreateTable,
           CreateIndex, InsertMetadata, RenameOld, RenameNew, DropOld, Query,
           Swap, Truncate, CopyOut, UnlinkTmp, Crash, Goto
  <2> QED BY <2>1, <2>2, <2>3, <2>4, <2>5
<1>3. CopyInv => ReadsJournal
  BY DEF CopyInv, ReadsJournal, TableThere, Readable, Rows
<1> QED BY <1>1, <1>2, <1>3, PTL DEF Spec

-----------------------------------------------------------------------------
(* Unless a query of the swap fails, the two auxiliary tables are gone     *)
(* when a run ends, and what takes the place of the journal is the rows of *)
(* the run, or none when the COMMIT failed.                                *)
Clean(f)    == f["metadata_temp"] = NoTable /\ f["metadata_wait"] = NoTable
Whole(rows) == rows \in {{}, tree \X {"new"}}

TableInv ==
    /\ file \in Tables => Clean(file)
    /\ pc \in {"probe", "run", "drop", "create_temp"} /\ tmp \in Tables =>
           Clean(tmp)
    /\ pc \in {"create", "index", "insert"} =>
           /\ tmp["metadata_temp"] \in {NoTable, {}}
           /\ tmp["metadata_wait"] = NoTable
    /\ pc \in {"insert", "rename_old"} => tmp["metadata"] # NoTable
    /\ pc = "rename_old" =>
           Whole(tmp["metadata_temp"]) /\ tmp["metadata_wait"] = NoTable
    /\ pc = "rename_new" =>
           Whole(tmp["metadata_temp"]) /\ tmp["metadata"] = NoTable
    /\ pc = "drop_old" =>
           Whole(tmp["metadata"]) /\ tmp["metadata_temp"] = NoTable
    /\ pc \in {"truncate", "copy_out"} => Whole(tmp["metadata"]) /\ Clean(tmp)

(* The rows of a run are a table.                                          *)
LEMMA WholeIsTable ==
  ASSUME ReadableInv, pc \in Writing, NEW rows, Whole(rows)
  PROVE  rows # NoTable
<1>1. tree \X {"new"} \subseteq J!Row
  BY DEF ReadableInv
<1> QED BY <1>1, Sorts DEF Whole

LEMMA TableStep ==
  ASSUME "swap" \notin Faults, TypeOK, ReadableInv, TableInv, Next
  PROVE  TableInv'
<1> USE Sorts
<1>1. CASE Begin
  <2>1. file' \in Tables => Clean(file')
    <3>1. CASE file \in Unreadable
      BY <1>1, <3>1 DEF Begin, AgedFile
    <3>2. CASE file \notin Unreadable
      <4>1. Clean(file)
        BY <3>2 DEF TypeOK, File, TableInv
      <4> QED BY <1>1, <3>2, <4>1 DEF Begin, AgedFile, Clean, Table
    <3> QED BY <3>1, <3>2
  <2> QED BY <1>1, <2>1 DEF Begin, Goto, TableInv
<1>2. CASE Check
  BY <1>2 DEF Check, TableInv, Goto, Clean, Empty, Table, Unreadable
<1>3. CASE CopyIn
  BY <1>3 DEF CopyIn, TableInv, Goto, Copied, Unreadable
<1>4. CASE Probe
  BY <1>4 DEF Probe, TableInv, Goto
<1>5. CASE Run
  BY <1>5 DEF Run, TableInv, Goto
<1>6. CASE DropTables
  BY <1>6, ReadableTables DEF DropTables, Query, Change, TableInv, Goto,
     Clean, Tables
<1>7. CASE CreateTemp
  BY <1>7, ReadableTables DEF CreateTemp, Query, Change, Created, TableInv,
     Goto, Clean, Tables
<1>8. CASE CreateTable
  BY <1>8, ReadableTables DEF CreateTable, Query, Change, Created, TableInv,
     Goto, Clean, Tables
<1>9. CASE CreateIndex
  BY <1>9 DEF CreateIndex, TableInv, Goto
<1>10. CASE InsertMetadata
  <2>1. tmp \in Tables
    BY <1>10 DEF InsertMetadata, ReadableInv, Writing
  <2> QED BY <1>10, <2>1 DEF InsertMetadata, Change, TableInv, Goto, Whole,
                             Tables
<1>11. CASE RenameOld
  <2>1. tmp \in Tables /\ tmp' = Renamed("metadata", "metadata_wait")
    BY <1>11 DEF RenameOld, Swap, Fault, ReadableInv, Writing
  <2> QED BY <1>11, <2>1 DEF RenameOld, Swap, Renamed, TableInv, Goto, Whole,
                             Tables
<1>12. CASE RenameNew
  <2>1. tmp \in Tables /\ tmp' = Renamed("metadata_temp", "metadata")
    BY <1>12 DEF RenameNew, Swap, Fault, ReadableInv, Writing
  <2>2. tmp["metadata_temp"] # NoTable
    BY <1>12, WholeIsTable DEF RenameNew, Swap, TableInv, Writing
  <2> QED BY <1>12, <2>1, <2>2 DEF RenameNew, Swap, Renamed, TableInv, Goto,
                                   Whole, Tables
<1>13. CASE DropOld
  <2>1. tmp \in Tables /\ tmp' = [tmp EXCEPT !["metadata_wait"] = NoTable]
    BY <1>13 DEF DropOld, Swap, Fault, ReadableInv, Writing
  <2> QED BY <1>13, <2>1 DEF DropOld, Swap, TableInv, Goto, Whole, Clean,
                             Tables
<1>14. CASE Truncate
  BY <1>14 DEF Truncate, TableInv, Goto, Clean, Empty, Table, Whole,
               Unreadable
<1>15. CASE CopyOut
  BY <1>15 DEF CopyOut, CopyFailed, TableInv, Goto, Whole, Unreadable
<1>16. CASE UnlinkTmp
  BY <1>16 DEF UnlinkTmp, TableInv, Goto
<1>17. CASE Crash
  BY <1>17 DEF Crash, TableInv, Goto
<1> QED BY <1>1, <1>2, <1>3, <1>4, <1>5, <1>6, <1>7, <1>8, <1>9, <1>10,
           <1>11, <1>12, <1>13, <1>14, <1>15, <1>16, <1>17 DEF Next

(* Ageing a file ages its rows.                                            *)
LEMMA AgedRows ==
  ASSUME NEW f \in File
  PROVE  Rows(AgedFile(f)) = JournalRows!Aged(Rows(f))
<1>1. CASE f \in Unreadable
  BY <1>1 DEF Rows, AgedFile, JournalRows!Aged
<1>2. CASE f \notin Unreadable
  <2>1. AgedFile(f) = [t \in Table |-> IF f[t] = NoTable THEN NoTable
                                       ELSE {r[1] : r \in f[t]} \X {"old"}]
    BY <1>2 DEF AgedFile
  <2>2. AgedFile(f) \in Tables
    BY <1>2, <2>1, AgedFileType, Sorts DEF File, Unreadable, Tables
  <2>3. AgedFile(f) \notin Unreadable
    BY <2>2, Sorts
  <2> QED BY <1>2, <2>1, <2>3, Sorts DEF Rows, JournalRows!Aged
<1> QED BY <1>1, <1>2

(* Every step keeps the rows, ages them, replaces or loses them.           *)
LEMMA PromiseStep ==
  ASSUME TypeOK, ReadableInv, TableInv, [Next]_vars
  PROVE  [JournalRows!Next]_<<Rows(file), tree>>
<1> USE Sorts DEF JournalRows!Next
<1>l. ASSUME Rows(file') \in {NoTable, {}}, tree' = tree
      PROVE  JournalRows!Next
  BY <1>l DEF JournalRows!Lose
<1>e. Rows(Empty) = NoTable /\ Rows(Torn) = NoTable /\ Rows(NoFile) = NoTable
  BY DEF Rows, Empty, Table, Unreadable
<1>1. CASE Begin
  <2>1. Rows(file') = JournalRows!Aged(Rows(file)) /\ tree' = NoTable
    BY <1>1, AgedRows DEF Begin, TypeOK
  <2> QED BY <2>1 DEF JournalRows!Begin
<1>2. CASE Check
  <2>1. tree' = tree /\ file' \in {file, Empty, NoFile}
    BY <1>2 DEF Check
  <2> QED BY <2>1, <1>l, <1>e
<1>3. CASE Run
  <2>1. CASE tree' \in SUBSET Path
    <3>1. file' = file
      BY <1>3 DEF Run
    <3>2. tree = NoTable
      BY <1>3 DEF Run, ReadableInv
    <3> QED BY <2>1, <3>1, <3>2 DEF JournalRows!Propagated
  <2>2. CASE tree' = tree
    BY <1>3, <2>2 DEF Run
  <2> QED BY <1>3, <2>1, <2>2 DEF Run
<1>4. CASE Truncate
  BY <1>4, <1>l, <1>e DEF Truncate
<1>5. CASE CopyOut
  <2>1. CASE file' = tmp
    <3>1. tmp \in Tables /\ Whole(tmp["metadata"]) /\ tree' = tree
      BY <1>5 DEF CopyOut, ReadableInv, Writing, TableInv
    <3>2. Rows(file') = tmp["metadata"]
      BY <2>1, <3>1 DEF Rows
    <3>3. tree # NoTable
      BY <1>5 DEF CopyOut, ReadableInv, Writing
    <3>4. CASE Rows(file') = tree \X {"new"}
      BY <3>1, <3>3, <3>4 DEF JournalRows!Replace, JournalRows!RowsOf
    <3>5. CASE Rows(file') = {}
      BY <3>1, <3>5, <1>l
    <3> QED BY <3>1, <3>2, <3>4, <3>5 DEF Whole
  <2>2. CASE file' \in {Torn, NoFile}
    BY <1>5, <2>2, <1>l, <1>e DEF CopyOut
  <2> QED BY <1>5, <2>1, <2>2 DEF CopyOut, CopyFailed
<1>6. CASE UNCHANGED <<file, tree>>
  BY <1>6
<1> QED BY <1>1, <1>2, <1>3, <1>4, <1>5, <1>6
        DEF Next, vars, CopyIn, Probe, DropTables, CreateTemp, CreateTable,
            CreateIndex, InsertMetadata, RenameOld, RenameNew, DropOld, Query,
            Swap, UnlinkTmp, Crash

(* Whatever else fails, and wherever a run dies, the journal implements    *)
(* Journal: it is the one the last run was told of, the complete one of    *)
(* the run that ends, or lost.                                             *)
THEOREM JournalKeepsPromise == "swap" \notin Faults => (Spec => Promise)
<1> SUFFICES ASSUME "swap" \notin Faults PROVE Spec => Promise
  OBVIOUS
<1>1. Init => JournalRows!Init /\ TableInv
  BY Sorts DEF Init, JournalRows!Init, TableInv, Rows, Clean, Empty, Table,
               Unreadable
<1>2. TypeOK /\ ReadableInv /\ TableInv /\ [Next]_vars => TableInv'
  BY TableStep DEF vars, TableInv, Whole
<1>3. TypeOK /\ ReadableInv /\ TableInv /\ [Next]_vars
         => [JournalRows!Next]_<<Rows(file), tree>>
  BY PromiseStep
<1> QED BY <1>1, <1>2, <1>3, TypeCorrect, PTL
        DEF Spec, Promise, JournalRows!Spec
=============================================================================
