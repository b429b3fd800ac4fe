--------------------------- MODULE SyncRun_proofs ---------------------------
(***************************************************************************)
(* Proofs about SyncRun for every set of paths and inode numbers, every    *)
(* set of user moves and of faults, with and without conflict copies: type *)
(* correctness; the decisions a reconciler must never get wrong, step by   *)
(* step; and the properties of whole runs and of runs that follow each     *)
(* other.  A theorem that needs users or runs that leave something undone  *)
(* says so in its hypothesis (Orderly, Watched, Patient, Tidy, Guarded);   *)
(* README.md says what each of them excludes and which of the excluded     *)
(* moves and failures break the property in the code.                      *)
(***************************************************************************)
EXTENDS SyncRun, TLAPS

-----------------------------------------------------------------------------
(***************************************************************************)
(* The decision table.                                                     *)
(***************************************************************************)

(* What a visit makes of the instructions <<i, j>> of the walked node and  *)
(* its counterpart, whatever their times: <<k, l>>.                        *)
Decided(i, j, k, l) ==
    \/ j = "ABSENT" /\ k = Alone(i) /\ l = "ABSENT"
    \/ /\ i \in {"NEW", "EVAL"} /\ j = i
       /\ \/ k \in {"SYNC", "CONFLICT"} /\ l = "NONE"
          \/ k = "NONE" /\ l \in {"NONE", "SYNC", "CONFLICT"}
          \/ i = "EVAL" /\ k \in {"SYNC", "NONE"} /\ l = "EVAL"
    \/ /\ i \in {"NEW", "EVAL"} /\ j \in {"NEW", "EVAL"} /\ i # j
       /\ k \in {"SYNC", "CONFLICT", "NONE"} /\ l = j
    \/ i \in {"NEW", "EVAL"} /\ j = "NONE" /\ k = "SYNC" /\ l = "NONE"
    \/ /\ ~(i \in {"NEW", "EVAL"} /\ j \in {"NEW", "EVAL", "NONE"})
       /\ j # "ABSENT" /\ k = i /\ l = j

(* A visit decides on the pair of instructions as Decided says.            *)
LEMMA VisitDecides ==
  ASSUME NEW cur, NEW other, NEW keep \in BOOLEAN,
         cur.mtime \in Nat, other.mtime \in Nat
  PROVE  LET v == Visit(cur, other, keep)
         IN  Decided(cur.instr, other.instr, v[1], v[2])
<1> DEFINE v == Visit(cur, other, keep)
<1> DEFINE i == cur.instr
<1> DEFINE j == other.instr
<1>w. Win(keep) \in {"SYNC", "CONFLICT"}
  BY DEF Win
<1>1. CASE j = "ABSENT"
  BY <1>1 DEF Visit, Decided
<1>2. CASE i = "NEW" /\ j = "NEW"
  <2>1. v = BothNew(cur, other, keep)
    BY <1>2 DEF Visit
  <2>2. \/ v[1] \in {"SYNC", "CONFLICT"} /\ v[2] = "NONE"
        \/ v[1] = "NONE" /\ v[2] \in {"NONE", "SYNC", "CONFLICT"}
    BY <2>1, <1>w DEF BothNew
  <2> QED BY <1>2, <2>2 DEF Decided
<1>3. CASE i = "EVAL" /\ j = "EVAL"
  <2>1. v = BothModified(cur, other, keep)
    BY <1>3 DEF Visit
  <2>2. \/ v[1] \in {"SYNC", "CONFLICT"} /\ v[2] = "NONE"
        \/ v[1] = "NONE" /\ v[2] \in {"NONE", "SYNC", "CONFLICT"}
        \/ v[1] \in {"SYNC", "NONE"} /\ v[2] = "EVAL"
    BY <2>1, <1>3 DEF BothModified
  <2> QED BY <1>3, <2>2 DEF Decided
<1>4. CASE i \in {"NEW", "EVAL"} /\ j \in {"NEW", "EVAL"} /\ i # j
  <2>1. v = NewAgainstModified(cur, other, keep)
    BY <1>4 DEF Visit
  <2>2. v[1] \in {"SYNC", "CONFLICT", "NONE"} /\ v[2] = j
    BY <2>1, <1>w DEF NewAgainstModified
  <2> QED BY <1>4, <2>2 DEF Decided
<1>5. CASE i \in {"NEW", "EVAL"} /\ j = "NONE"
  BY <1>5 DEF Visit, Decided
<1>6. CASE /\ j # "ABSENT"
           /\ ~(i \in {"NEW", "EVAL"} /\ j \in {"NEW", "EVAL", "NONE"})
  <2>1. v = <<i, j>>
    BY <1>6 DEF Visit
  <2> QED BY <1>6, <2>1 DEF Decided
<1> QED BY <1>1, <1>2, <1>3, <1>4, <1>5, <1>6

(* The instructions a visit leaves are instructions.                       *)
LEMMA DecidedType ==
  ASSUME NEW i \in Instruction \cup {"ABSENT"},
         NEW j \in Instruction \cup {"ABSENT"}, NEW k, NEW l,
         Decided(i, j, k, l)
  PROVE  k \in Instruction \cup {"ABSENT"} /\ l \in Instruction \cup {"ABSENT"}
BY DEF Decided, Alone, Instruction

-----------------------------------------------------------------------------
(***************************************************************************)
(* Types.                                                                  *)
(***************************************************************************)

(* The parts of TypeOK that a step may disturb by more than a counter.     *)
DiskType   == disk \in [Replica -> [Path -> File \cup {NoFile}]]
TreeType   == tree \in [Replica -> [Path -> Node]]
SyncedType == synced \in [Path -> Nat]
ContextType ==
    /\ TreeType /\ step \in Steps /\ current \in Replica
    /\ todo \subseteq Path /\ pushing \subseteq Path
    /\ copies \in BOOLEAN /\ atomic \in BOOLEAN

(* The other replica is a replica.                                         *)
LEMMA OtherReplica ==
  ASSUME NEW r \in Replica
  PROVE  Other(r) \in Replica /\ Other(r) # r /\ Other(Other(r)) = r
BY DEF Replica, Other

(* What is at a path is a file, as NoFile is none.                         *)
LEMMA ThereIsFile ==
  ASSUME DiskType, NEW r \in Replica, NEW p \in Path, There(r, p)
  PROVE  /\ disk[r][p] \in File
         /\ disk[r][p].data \in Nat \ {0} /\ disk[r][p].mtime \in Nat
         /\ disk[r][p].inode \in Inode \cup {RemoteInode}
         /\ disk[r][p].linked \in BOOLEAN
<1>1. disk[r][p] \in File
  BY DEF DiskType, There
<1> QED BY <1>1 DEF File

(* A file put at one path of one replica leaves the disks well formed.     *)
LEMMA PutType ==
  ASSUME DiskType, NEW r \in Replica, NEW p \in Path,
         NEW f \in File \cup {NoFile}, Put(r, p, f)
  PROVE  DiskType'
BY DEF DiskType, Put

(* A freshly created file is a file.                                       *)
LEMMA NewFileType ==
  ASSUME NEW r \in Replica, NEW i \in FreeInodes(r),
         NEW d \in Nat \ {0}, NEW t \in Nat
  PROVE  [data |-> d, mtime |-> t, inode |-> i, linked |-> FALSE] \in File
<1>1. i \in Inode \cup {RemoteInode}
  BY DEF FreeInodes
<1> QED BY <1>1 DEF File

(* The agreed versions are versions of files.                              *)
LEMMA RememberSyncType ==
  ASSUME SyncedType, DiskType', RememberSync
  PROVE  SyncedType'
<1>1. ASSUME NEW p \in Path, InSync(disk', p)
      PROVE  disk'["local"][p].data \in Nat
  <2>1. disk'["local"][p] \in File
    BY <1>1 DEF DiskType, InSync, Replica
  <2> QED BY <2>1 DEF File
<1>2. \A p \in Path : synced[p] \in Nat
  BY DEF SyncedType
<1> QED BY <1>1, <1>2 DEF SyncedType, RememberSync

(* The trees of a run that begins or is over.                              *)
LEMMA EmptyTreesType == EmptyTrees \in [Replica -> [Path -> Node]]
<1>1. Absent \in Node
  BY DEF Absent, Node
<1> QED BY <1>1 DEF EmptyTrees

(* A new instruction in one node leaves the trees well formed.             *)
LEMMA InstrType ==
  ASSUME TreeType, NEW r \in Replica, NEW p \in Path,
         NEW k \in Instruction \cup {"ABSENT"},
         tree' = [tree EXCEPT ![r][p].instr = k]
  PROVE  TreeType'
<1>1. [tree[r][p] EXCEPT !.instr = k] \in Node
  BY DEF TreeType, Node
<1> QED BY <1>1 DEF TreeType

(* The instruction and the time of a node.                                 *)
LEMMA NodeFields ==
  ASSUME TreeType, NEW r \in Replica, NEW p \in Path
  PROVE  /\ tree[r][p] \in Node
         /\ tree[r][p].instr \in Instruction \cup {"ABSENT"}
         /\ tree[r][p].mtime \in Nat
<1>1. tree[r][p] \in Node
  BY DEF TreeType
<1> QED BY <1>1 DEF Node

(* A visit of the reconciler changes the two instructions of its path, as  *)
(* the decision table says.                                                *)
LEMMA VisitStep ==
  ASSUME TypeOK, NEW p \in Path, ReconcilePath(p)
  PROVE  LET o == Other(current) IN
         /\ Decided(tree[current][p].instr, tree[o][p].instr,
                    tree'[current][p].instr, tree'[o][p].instr)
         /\ TreeType'
         /\ \A r \in Replica, q \in Path \ {p} : tree'[r][q] = tree[r][q]
<1> DEFINE o == Other(current)
<1> DEFINE v == Visit(tree[current][p], tree[o][p], copies)
<1>r. current \in Replica /\ o \in Replica /\ o # current /\ TreeType
  BY OtherReplica DEF TypeOK, TreeType
<1>n. /\ tree[current][p] \in Node /\ tree[o][p] \in Node
      /\ tree[current][p].instr \in Instruction \cup {"ABSENT"}
      /\ tree[o][p].instr \in Instruction \cup {"ABSENT"}
      /\ tree[current][p].mtime \in Nat /\ tree[o][p].mtime \in Nat
  BY <1>r, NodeFields
<1>1. Decided(tree[current][p].instr, tree[o][p].instr, v[1], v[2])
  BY <1>n, VisitDecides DEF TypeOK
<1>2. tree' = [tree EXCEPT ![current][p].instr = v[1], ![o][p].instr = v[2]]
  BY DEF ReconcilePath
<1> HIDE DEF v
<1>3. v[1] \in Instruction \cup {"ABSENT"} /\ v[2] \in Instruction \cup {"ABSENT"}
  BY <1>1, <1>n, DecidedType
<1>4. /\ tree'[current][p] = [tree[current][p] EXCEPT !.instr = v[1]]
      /\ tree'[o][p] = [tree[o][p] EXCEPT !.instr = v[2]]
      /\ \A r \in Replica, q \in Path \ {p} : tree'[r][q] = tree[r][q]
      /\ tree' \in [Replica -> [Path -> Node]]
  <2>1. /\ [tree[current][p] EXCEPT !.instr = v[1]] \in Node
        /\ [tree[o][p] EXCEPT !.instr = v[2]] \in Node
    BY <1>n, <1>3 DEF Node
  <2> QED BY <2>1, <1>2, <1>r DEF TreeType
<1>5. tree'[current][p].instr = v[1] /\ tree'[o][p].instr = v[2]
  BY <1>4, <1>n DEF Node
<1> QED BY <1>1, <1>4, <1>5 DEF TreeType

(* A walk that is over, or dropped, leaves the context well formed.        *)
LEMMA EndRunType ==
  ASSUME TypeOK, EndRun
  PROVE  ContextType'
BY EmptyTreesType DEF EndRun, TypeOK, TreeType, ContextType, Steps

(* A push, whatever its outcome, ends with an instruction in the node.     *)
LEMMA PushEndsType ==
  ASSUME TypeOK, NEW p \in Path, NEW k \in Instruction, PushEnds(p, k)
  PROVE  ContextType'
<1>1. TreeType
  BY DEF TypeOK, TreeType
<1>2. TreeType'
  BY <1>1, InstrType DEF PushEnds, TypeOK
<1> QED BY <1>2 DEF PushEnds, TypeOK, ContextType, options

(* What a push leaves at the destination.                                  *)
LEMMA DeliverType ==
  ASSUME TypeOK, NEW p \in Path, There(current, p), NEW t \in Nat,
         Deliver(p, t)
  PROVE  DiskType'
<1>1. DiskType /\ current \in Replica /\ Dest \in Replica
  BY OtherReplica DEF TypeOK, DiskType, Dest
<1>2. disk[current][p].data \in Nat \ {0}
  BY <1>1, ThereIsFile
<1>3. PICK i \in FreeInodes(Dest) :
         Put(Dest, p, [data |-> disk[current][p].data, mtime |-> t,
                       inode |-> i, linked |-> FALSE])
  BY DEF Deliver
<1>4. [data |-> disk[current][p].data, mtime |-> t, inode |-> i,
       linked |-> FALSE] \in File
  BY <1>1, <1>2, NewFileType
<1> QED BY <1>1, <1>3, <1>4, PutType

LEMMA LeaveDestinationType ==
  ASSUME TypeOK, NEW p \in Path, LeaveDestination(p)
  PROVE  DiskType'
<1>1. DiskType /\ Dest \in Replica
  BY OtherReplica DEF TypeOK, DiskType, Dest
<1>2. CASE InPlace
  BY <1>1, <1>2, PutType DEF LeaveDestination
<1>3. CASE ~InPlace
  BY <1>1, <1>3 DEF LeaveDestination, DiskType
<1> QED BY <1>2, <1>3

(* A fault, or none, leaves the counters well formed.                      *)
LEMMA FaultType ==
  ASSUME TypeOK, NoFault \/ \E f \in AllFaults : Fault(f)
  PROVE  faults' \in Nat /\ calm' \in 0 .. 2
BY DEF TypeOK, NoFault, Fault

-----------------------------------------------------------------------------
(* Every step of a user or of the program keeps the types.                 *)
LEMMA UserType ==
  ASSUME TypeOK, User
  PROVE  TypeOK'
<1> USE DEF ctxVars, dbVars, options
<1>t. DiskType /\ SyncedType
  BY DEF TypeOK, DiskType, SyncedType
<1>1. ASSUME NEW r \in Replica, NEW p \in Path, UserWrites(r, p)
      PROVE  TypeOK'
  <2>1. PICK t \in WriteTimes :
           /\ now' = t
           /\ IF There(r, p)
              THEN Put(r, p, [disk[r][p] EXCEPT !.data = writes + 1, !.mtime = t])
              ELSE \E i \in FreeInodes(r) :
                     Put(r, p, [data |-> writes + 1, mtime |-> t, inode |-> i,
                                linked |-> FALSE])
    BY <1>1 DEF UserWrites
  <2>2. t \in Nat /\ writes + 1 \in Nat \ {0}
    BY DEF WriteTimes, TypeOK
  <2>3. DiskType'
    <3>1. CASE There(r, p)
      <4>1. [disk[r][p] EXCEPT !.data = writes + 1, !.mtime = t] \in File
        BY <1>t, <2>2, <3>1, ThereIsFile DEF File
      <4> QED BY <1>t, <2>1, <3>1, <4>1, PutType
    <3>2. CASE ~There(r, p)
      <4>1. PICK i \in FreeInodes(r) :
               Put(r, p, [data |-> writes + 1, mtime |-> t, inode |-> i,
                          linked |-> FALSE])
        BY <2>1, <3>2
      <4>2. [data |-> writes + 1, mtime |-> t, inode |-> i,
             linked |-> FALSE] \in File
        BY <2>2, NewFileType
      <4> QED BY <1>t, <4>1, <4>2, PutType
    <3> QED BY <3>1, <3>2
  <2>4. SyncedType'
    BY <1>1, <1>t, <2>3, RememberSyncType DEF UserWrites
  <2> QED BY <1>1, <2>1, <2>2, <2>3, <2>4
          DEF UserWrites, TypeOK, DiskType, SyncedType
<1>2. ASSUME NEW r \in Replica, NEW p \in Path, UserDeletes(r, p)
      PROVE  TypeOK'
  <2>1. DiskType'
    BY <1>2, <1>t, PutType DEF UserDeletes
  <2>2. SyncedType'
    BY <1>2, <1>t, <2>1, RememberSyncType DEF UserDeletes
  <2>3. dead' \in [Path -> SUBSET Nat]
    <3>1. disk[r][p].data \in Nat
      BY <1>2, <1>t, ThereIsFile DEF UserDeletes
    <3> QED BY <1>2, <3>1 DEF UserDeletes, TypeOK
  <2> QED BY <1>2, <2>1, <2>2, <2>3
          DEF UserDeletes, TypeOK, DiskType, SyncedType
<1>3. ASSUME NEW p \in Path, NEW q \in Path, UserRenames(p, q)
      PROVE  TypeOK'
  <2>1. DiskType'
    <3>1. disk["local"][p] \in File /\ "local" \in Replica
      BY <1>3, <1>t, ThereIsFile DEF UserRenames, Replica
    <3> QED BY <1>3, <1>t, <3>1 DEF UserRenames, DiskType
  <2>2. SyncedType'
    BY <1>3, <1>t, <2>1, RememberSyncType DEF UserRenames
  <2> QED BY <1>3, <2>1, <2>2 DEF UserRenames, TypeOK, DiskType, SyncedType
<1>4. ASSUME NEW p \in Path, UserLinks(p)
      PROVE  TypeOK'
  <2>1. DiskType'
    <3>1. disk["local"][p] \in File /\ "local" \in Replica
      BY <1>4, <1>t, ThereIsFile DEF UserLinks, Replica
    <3>2. [disk["local"][p] EXCEPT !.linked = ~@] \in File
      BY <3>1 DEF File
    <3> QED BY <1>4, <1>t, <3>1, <3>2 DEF UserLinks, DiskType
  <2> QED BY <1>4, <2>1 DEF UserLinks, TypeOK, DiskType
<1> QED BY <1>1, <1>2, <1>3, <1>4 DEF User

(* The walks: what update detection and reconciliation write is a node.    *)
LEMMA WalkType ==
  ASSUME TypeOK, NEW p \in Path,
         DetectUpdate(p) \/ SkipUnreadable(p) \/ ReconcilePath(p)
  PROVE  TypeOK'
<1> USE DEF ctxVars, dbVars, history, options
<1>t. DiskType /\ TreeType /\ current \in Replica
  BY DEF TypeOK, DiskType, TreeType
<1>1. CASE DetectUpdate(p)
  <2>1. TreeType'
    <3>1. CASE There(current, p)
      <4> DEFINE f == disk[current][p]
      <4>1. f.mtime \in Nat /\ f.inode \in Inode \cup {RemoteInode}
        BY <1>t, <3>1, ThereIsFile
      <4>2. Detect(current, p, f) \in Instruction
        BY DEF Detect, Instruction
      <4>3. [instr |-> Detect(current, p, f), mtime |-> f.mtime,
             inode |-> f.inode] \in Node
        BY <4>1, <4>2 DEF Node
      <4>4. tree' = [tree EXCEPT ![current][p] =
                       [instr |-> Detect(current, p, f), mtime |-> f.mtime,
                        inode |-> f.inode]]
        BY <1>1, <3>1 DEF DetectUpdate
      <4> HIDE DEF f
      <4> QED BY <1>t, <4>3, <4>4 DEF TreeType
    <3>2. CASE ~There(current, p)
      BY <1>1, <1>t, <3>2 DEF DetectUpdate, TreeType
    <3> QED BY <3>1, <3>2
  <2> QED BY <1>1, <2>1 DEF DetectUpdate, TypeOK, TreeType
<1>2. CASE SkipUnreadable(p)
  <2>1. faults' \in Nat /\ calm' \in 0 .. 2
    BY <1>2, FaultType DEF SkipUnreadable, AllFaults
  <2> QED BY <1>2, <2>1 DEF SkipUnreadable, TypeOK
<1>3. CASE ReconcilePath(p)
  <2>1. TreeType'
    BY <1>3, VisitStep
  <2> QED BY <1>3, <2>1 DEF ReconcilePath, TypeOK, TreeType
<1> QED BY <1>1, <1>2, <1>3

(* A push leaves files and nodes, whichever way it ends.                   *)
LEMMA PushType ==
  ASSUME TypeOK, NEW p \in Path,
         \/ PushSucceeds(p) \/ PushFailsToOpen(p) \/ PushFails(p)
         \/ PushFailsLate(p) \/ PushEndsRun(p)
  PROVE  TypeOK'
<1> USE DEF dbVars, options
<1>t. /\ DiskType /\ TreeType /\ SyncedType
      /\ current \in Replica /\ Dest \in Replica
      /\ "UPDATED" \in Instruction /\ "ERROR" \in Instruction
  BY OtherReplica DEF TypeOK, DiskType, TreeType, SyncedType, Dest, Instruction
<1>1. CASE PushSucceeds(p)
  <2>1. DiskType' /\ now' \in Nat
    <3>1. tree[current][p].mtime \in Nat
      BY <1>t, NodeFields
    <3>2. now + 1 \in Nat /\ now \in Nat
      BY DEF TypeOK
    <3> QED BY <1>1, <3>1, <3>2, DeliverType DEF PushSucceeds
  <2>2. kept' \in [Replica -> SUBSET Nat]
    BY <1>1 DEF PushSucceeds, ForgetEqualCopy, TypeOK
  <2>3. faults' \in Nat /\ calm' \in 0 .. 2
    BY <1>1, FaultType DEF PushSucceeds, AllFaults
  <2>4. SyncedType'
    BY <1>1, <1>t, <2>1, RememberSyncType DEF PushSucceeds
  <2>5. ContextType'
    BY <1>1, <1>t, PushEndsType DEF PushSucceeds
  <2> QED BY <1>1, <2>1, <2>2, <2>3, <2>4, <2>5
          DEF PushSucceeds, TypeOK, DiskType, TreeType, SyncedType, ContextType
<1>2. CASE PushFailsToOpen(p)
  <2>1. faults' \in Nat /\ calm' \in 0 .. 2
    BY <1>2, FaultType DEF PushFailsToOpen, AllFaults
  <2>2. ContextType'
    BY <1>2, <1>t, PushEndsType DEF PushFailsToOpen
  <2> QED BY <1>2, <2>1, <2>2 DEF PushFailsToOpen, TypeOK, TreeType, ContextType
<1>3. CASE PushFails(p)
  <2>1. DiskType'
    BY <1>3, LeaveDestinationType DEF PushFails
  <2>2. faults' \in Nat /\ calm' \in 0 .. 2
    BY <1>3, FaultType DEF PushFails, AllFaults
  <2>3. SyncedType'
    BY <1>3, <1>t, <2>1, RememberSyncType DEF PushFails
  <2>4. ContextType'
    BY <1>3, <1>t, PushEndsType DEF PushFails
  <2> QED BY <1>3, <2>1, <2>2, <2>3, <2>4
          DEF PushFails, TypeOK, DiskType, TreeType, SyncedType, ContextType
<1>4. CASE PushFailsLate(p)
  <2>1. DiskType' /\ now' \in Nat
    <3>1. now + 1 \in Nat /\ now \in Nat
      BY DEF TypeOK
    <3> QED BY <1>4, <1>t, <3>1, DeliverType, PutType DEF PushFailsLate
  <2>2. faults' \in Nat /\ calm' \in 0 .. 2
    BY <1>4, FaultType DEF PushFailsLate, AllFaults
  <2>3. SyncedType'
    BY <1>4, <1>t, <2>1, RememberSyncType DEF PushFailsLate
  <2>4. ContextType'
    BY <1>4, <1>t, PushEndsType DEF PushFailsLate
  <2>5. kept' \in [Replica -> SUBSET Nat]
    BY <1>4 DEF PushFailsLate, ForgetEqualCopy, TypeOK
  <2> QED BY <1>4, <2>1, <2>2, <2>3, <2>4, <2>5
          DEF PushFailsLate, TypeOK, DiskType, TreeType, SyncedType, ContextType
<1>5. CASE PushEndsRun(p)
  <2>1. DiskType'
    BY <1>5, LeaveDestinationType DEF PushEndsRun
  <2>2. faults' \in Nat /\ calm' \in 0 .. 2
    BY <1>5, FaultType DEF PushEndsRun, AllFaults
  <2>3. SyncedType'
    BY <1>5, <1>t, <2>1, RememberSyncType DEF PushEndsRun
  <2>4. ContextType'
    BY <1>5, EndRunType DEF PushEndsRun
  <2> QED BY <1>5, <2>1, <2>2, <2>3, <2>4
          DEF PushEndsRun, TypeOK, DiskType, TreeType, SyncedType, ContextType
<1> QED BY <1>1, <1>2, <1>3, <1>4, <1>5

(* A backup and a deletion.                                                *)
LEMMA BackUpRemoveType ==
  ASSUME TypeOK, NEW p \in Path, BackUp(p) \/ RemoveFile(p)
  PROVE  TypeOK'
<1> USE DEF dbVars, options
<1>t. /\ DiskType /\ TreeType /\ SyncedType
      /\ current \in Replica /\ Dest \in Replica
      /\ {"NONE", "ERROR", "DELETED"} \subseteq Instruction
      /\ NoFile \in File \cup {NoFile}
  BY OtherReplica DEF TypeOK, DiskType, TreeType, SyncedType, Dest, Instruction
<1>1. CASE BackUp(p)
  <2>1. DiskType' /\ kept' \in [Replica -> SUBSET Nat]
    <3>1. CASE UNCHANGED <<disk, kept>>
      BY <1>t, <3>1 DEF DiskType, TypeOK
    <3>2. CASE /\ There(Dest, p) /\ Put(Dest, p, NoFile)
               /\ kept' = [kept EXCEPT ![Dest] = @ \cup {disk[Dest][p].data}]
      <4>1. disk[Dest][p].data \in Nat
        BY <1>t, <3>2, ThereIsFile
      <4>2. DiskType'
        BY <1>t, <3>2, PutType
      <4> QED BY <1>t, <3>2, <4>1, <4>2 DEF TypeOK
    <3> QED BY <1>1, <3>1, <3>2 DEF BackUp
  <2>2. TreeType'
    BY <1>1, <1>t, InstrType DEF BackUp
  <2>3. faults' \in Nat /\ calm' \in 0 .. 2
    BY <1>1, FaultType DEF BackUp, AllFaults
  <2>4. SyncedType'
    BY <1>1, <1>t, <2>1, RememberSyncType DEF BackUp
  <2> QED BY <1>1, <2>1, <2>2, <2>3, <2>4
          DEF BackUp, TypeOK, DiskType, TreeType, SyncedType, ContextType
<1>2. CASE RemoveFile(p)
  <2>1. DiskType'
    <3>1. CASE UNCHANGED disk
      BY <1>t, <3>1 DEF DiskType
    <3>2. CASE Put(current, p, NoFile)
      BY <1>t, <3>2, PutType
    <3> QED BY <1>2, <3>1, <3>2 DEF RemoveFile
  <2>2. TreeType'
    BY <1>2, <1>t, InstrType DEF RemoveFile
  <2>3. faults' \in Nat /\ calm' \in 0 .. 2
    BY <1>2, FaultType DEF RemoveFile, AllFaults
  <2>4. SyncedType'
    BY <1>2, <1>t, <2>1, RememberSyncType DEF RemoveFile
  <2> QED BY <1>2, <2>1, <2>2, <2>3, <2>4
          DEF RemoveFile, TypeOK, DiskType, TreeType, SyncedType, ContextType
<1> QED BY <1>1, <1>2

(* The commit: what is merged into the tree, and the rows of the journal.  *)
LEMMA CommitType ==
  ASSUME TypeOK,
         (\E p \in Path : MergePath(p)) \/ WriteJournal \/ Crash
  PROVE  TypeOK'
<1> USE DEF dbVars, options
<1>t. DiskType /\ TreeType /\ "local" \in Replica
  BY DEF TypeOK, DiskType, TreeType, Replica
<1>1. ASSUME NEW p \in Path, MergePath(p)
      PROVE  TypeOK'
  <2>1. ContextType'
    <3>1. CASE EndRun
      BY <3>1, EndRunType
    <3>2. CASE /\ There("local", p)
               /\ tree' = [tree EXCEPT !["local"][p] =
                             [instr |-> "NONE", mtime |-> disk["local"][p].mtime,
                              inode |-> disk["local"][p].inode]]
               /\ todo' = todo \ {p}
               /\ UNCHANGED <<step, current, pushing, options>>
      <4>1. [instr |-> "NONE", mtime |-> disk["local"][p].mtime,
             inode |-> disk["local"][p].inode] \in Node
        BY <1>t, <3>2, ThereIsFile DEF Node, Instruction
      <4> QED BY <1>t, <3>2, <4>1 DEF TypeOK, TreeType, ContextType
    <3> QED BY <1>1, <3>1, <3>2 DEF MergePath
  <2>2. faults' \in Nat /\ calm' \in 0 .. 2
    BY <1>1, FaultType DEF MergePath, AllFaults
  <2> QED BY <1>1, <2>1, <2>2 DEF MergePath, TypeOK, TreeType, ContextType
<1>2. CASE WriteJournal
  <2>1. journal' \in [Path -> Record \cup {NoRecord}] /\ exists' \in BOOLEAN
    <3> DEFINE row(p) == LET n == tree["local"][p]
                         IN  IF Written(n)
                             THEN [mtime |-> n.mtime, inode |-> n.inode]
                             ELSE NoRecord
    <3>1. \A p \in Path : row(p) \in Record \cup {NoRecord}
      <4>1. \A p \in Path : tree["local"][p] \in Node
        BY <1>t, NodeFields
      <4> QED BY <4>1 DEF Node, Record
    <3>2. \/ journal' = [p \in Path |-> row(p)] /\ exists' = TRUE
          \/ UNCHANGED <<journal, exists>>
          \/ journal' = [p \in Path |-> NoRecord] /\ exists' = FALSE
      BY <1>2 DEF WriteJournal
    <3> HIDE DEF row
    <3> QED BY <3>1, <3>2 DEF TypeOK
  <2>2. ContextType'
    BY <1>2, EndRunType DEF WriteJournal
  <2>3. faults' \in Nat /\ calm' \in 0 .. 2
    BY <1>2, FaultType DEF WriteJournal, AllFaults
  <2>4. dead' \in [Path -> SUBSET Nat]
    BY <1>2 DEF WriteJournal, TypeOK
  <2> QED BY <1>2, <2>1, <2>2, <2>3, <2>4
          DEF WriteJournal, TypeOK, TreeType, ContextType
<1>3. CASE Crash
  <2>1. ContextType'
    BY <1>3, EndRunType DEF Crash
  <2>2. faults' \in Nat /\ calm' \in 0 .. 2
    BY <1>3, FaultType DEF Crash, AllFaults
  <2> QED BY <1>3, <2>1, <2>2 DEF Crash, TypeOK, TreeType, ContextType
<1> QED BY <1>1, <1>2, <1>3

(* A run begins, and one walk follows the other.                           *)
LEMMA NextWalkType ==
  ASSUME TypeOK, StartRun \/ NextWalk
  PROVE  TypeOK'
<1> USE DEF dbVars, history, options
<1>1. CASE StartRun
  <2>1. calm' \in 0 .. 2
    BY <1>1 DEF StartRun, TypeOK
  <2>2. copies' \in BOOLEAN
    BY <1>1, ConstantsAssumption DEF StartRun
  <2> QED BY <1>1, <2>1, <2>2, EmptyTreesType DEF StartRun, TypeOK, Steps, Replica
<1>2. CASE NextWalk
  <2>1. step' \in Steps /\ current' \in Replica /\ todo' \subseteq Path
    BY <1>2 DEF NextWalk, StartWalk, RemoteWalks, Steps, Replica
  <2> QED BY <1>2, <2>1 DEF NextWalk, TypeOK
<1> QED BY <1>1, <1>2

(* Types are right in every reachable state, whatever the constants.       *)
THEOREM TypeCorrect == Spec => []TypeOK
<1>1. Init => TypeOK
  <2> SUFFICES ASSUME Init PROVE TypeOK
    OBVIOUS
  <2>1. disk \in [Replica -> [Path -> File \cup {NoFile}]]
    BY DEF Init
  <2>2. tree \in [Replica -> [Path -> Node]]
    BY EmptyTreesType DEF Init
  <2>3. /\ kept \in [Replica -> SUBSET Nat]
        /\ journal \in [Path -> Record \cup {NoRecord}]
        /\ synced \in [Path -> Nat] /\ dead \in [Path -> SUBSET Nat]
    BY DEF Init
  <2>4. step \in Steps /\ current \in Replica
    BY DEF Init, Steps, Replica
  <2>5. exists \in BOOLEAN
    BY Zenon DEF Init
  <2>6. todo = {} /\ pushing = {} /\ now = 0 /\ writes = 0 /\ faults = 0 /\ calm = 0
    BY Zenon DEF Init
  <2>7. now \in Nat /\ writes \in Nat /\ faults \in Nat /\ calm \in 0 .. 2
    BY <2>6
  <2>8. copies \in BOOLEAN
    BY Zenon DEF Init
  <2>9. atomic \in BOOLEAN
    BY ConstantsAssumption, Zenon DEF Init
  <2> QED BY <2>1, <2>2, <2>3, <2>4, <2>5, <2>6, <2>7, <2>8, <2>9 DEF TypeOK
<1>2. TypeOK /\ [Next]_vars => TypeOK'
  <2> SUFFICES ASSUME TypeOK, [Next]_vars PROVE TypeOK'
    OBVIOUS
  <2>1. CASE UNCHANGED vars
    BY <2>1 DEF vars, TypeOK
  <2>2. CASE User
    BY <2>2, UserType
  <2>3. CASE StartRun \/ NextWalk
    BY <2>3, NextWalkType
  <2>4. ASSUME NEW p \in Path, VisitPath(p) PROVE TypeOK'
    <3>1. CASE DetectUpdate(p) \/ SkipUnreadable(p) \/ ReconcilePath(p)
      BY <3>1, WalkType
    <3>2. CASE \/ PushSucceeds(p) \/ PushFailsToOpen(p) \/ PushFails(p)
               \/ PushFailsLate(p) \/ PushEndsRun(p)
      BY <3>2, PushType
    <3>3. CASE BackUp(p) \/ RemoveFile(p)
      BY <3>3, BackUpRemoveType
    <3>4. CASE MergePath(p)
      BY <3>4, CommitType
    <3> QED BY <2>4, <3>1, <3>2, <3>3, <3>4 DEF VisitPath
  <2>5. CASE WriteJournal \/ Crash
    BY <2>5, CommitType
  <2> QED BY <2>1, <2>2, <2>3, <2>4, <2>5 DEF Next, Program
<1> QED BY <1>1, <1>2, PTL DEF Spec

-----------------------------------------------------------------------------
(***************************************************************************)
(* AtMostOneSideActs.  It is not inductive: the second walk decides on     *)
(* what the first one left, so the invariant says what a path may look     *)
(* like before, between and after its two visits.                          *)
(***************************************************************************)

iL(p) == tree["local"][p].instr
iR(p) == tree["remote"][p].instr

(* Before the first visit: both detectors asked for the same row, so       *)
(* one side cannot be NEW where the other is EVAL.                         *)
Fresh(p) ==
    \A r \in Replica :
        tree[r][p].instr \in
            IF exists /\ FoundByHash(p) THEN {"ABSENT", "NONE", "EVAL", "IGNORE"}
                                     ELSE {"ABSENT", "NEW", "RENAME", "IGNORE"}

(* After the walk of the local tree.                                       *)
Halfway(p) ==
    \/ iR(p) = "ABSENT"
    \/ iL(p) \notin Acting
    \/ iL(p) \in {"SYNC", "CONFLICT"} /\ iR(p) \in {"NONE", "EVAL", "IGNORE"}
    \/ iL(p) = "NEW" /\ iR(p) \in {"IGNORE", "RENAME"}

(* After both walks.                                                       *)
Settled(p) == iL(p) \notin Acting \/ iR(p) \notin Acting

WalkInv ==
    /\ step = "update" => \A p \in Path : Fresh(p)
    /\ step = "reconcile" /\ current = "local" =>
         \A p \in Path : IF p \in todo THEN Fresh(p) ELSE Halfway(p)
    /\ step = "reconcile" /\ current = "remote" =>
         \A p \in Path : IF p \in todo THEN Halfway(p) ELSE Settled(p)
    /\ step = "propagate" => \A p \in Path : Settled(p)

-----------------------------------------------------------------------------
(* One new instruction: which instructions the trees hold afterwards.      *)
LEMMA InstrStep ==
  ASSUME TreeType, NEW r \in Replica, NEW p \in Path, NEW k,
         tree' = [tree EXCEPT ![r][p].instr = k]
  PROVE  /\ tree'[r][p].instr = k
         /\ \A s \in Replica, q \in Path :
                s # r \/ q # p => tree'[s][q] = tree[s][q]
BY DEF TreeType, Node

(* Users touch neither the trees nor the journal.                          *)
LEMMA UserKeeps ==
  ASSUME User
  PROVE  UNCHANGED <<journal, exists, tree, step, current, todo, pushing>>
BY DEF User, UserWrites, UserDeletes, UserRenames, UserLinks, ctxVars, dbVars

(* The instruction update detection gives a node, in both trees alike.     *)
LEMMA DetectStep ==
  ASSUME TypeOK, NEW p \in Path, DetectUpdate(p)
  PROVE  \A r \in Replica, q \in Path :
            \/ tree'[r][q].instr = tree[r][q].instr
            \/ tree'[r][q].instr = "IGNORE"
            \/ exists /\ FoundByHash(q) /\ tree'[r][q].instr \in {"NONE", "EVAL"}
            \/ ~(exists /\ FoundByHash(q)) /\ tree'[r][q].instr \in {"NEW", "RENAME"}
<1> DEFINE f == disk[current][p]
<1> DEFINE n == [instr |-> Detect(current, p, f), mtime |-> f.mtime,
                 inode |-> f.inode]
<1>1. \/ n.instr = "IGNORE"
      \/ exists /\ FoundByHash(p) /\ n.instr \in {"NONE", "EVAL"}
      \/ ~(exists /\ FoundByHash(p)) /\ n.instr \in {"NEW", "RENAME"}
  <2>1. n.instr = Detect(current, p, f)
    OBVIOUS
  <2> QED BY <2>1 DEF Detect
<1>2. tree' = tree \/ tree' = [tree EXCEPT ![current][p] = n]
  BY DEF DetectUpdate
<1> HIDE DEF n
<1>3. \A r \in Replica, q \in Path :
        tree'[r][q] = tree[r][q] \/ (q = p /\ tree'[r][q] = n)
  BY <1>2 DEF TypeOK
<1> QED BY <1>1, <1>3

(* What the first walk leaves of a path both detectors have just judged,   *)
(* and what the second walk makes of that.                                 *)
LEMMA FirstVisit ==
  ASSUME NEW i, NEW j, NEW k, NEW l, Decided(i, j, k, l),
         \/ {i, j} \subseteq {"ABSENT", "IGNORE", "NONE", "EVAL"}
         \/ {i, j} \subseteq {"ABSENT", "IGNORE", "NEW", "RENAME"}
  PROVE  \/ l = "ABSENT"
         \/ k \notin Acting
         \/ k \in {"SYNC", "CONFLICT"} /\ l \in {"NONE", "EVAL", "IGNORE"}
         \/ k = "NEW" /\ l \in {"IGNORE", "RENAME"}
<1>1. CASE {i, j} \subseteq {"ABSENT", "IGNORE", "NONE", "EVAL"}
  <2>1. i \in {"ABSENT", "IGNORE", "NONE", "EVAL"}
        /\ j \in {"ABSENT", "IGNORE", "NONE", "EVAL"}
    BY <1>1
  <2> QED BY <2>1 DEF Decided, Alone, Acting, Pushing
<1>2. CASE {i, j} \subseteq {"ABSENT", "IGNORE", "NEW", "RENAME"}
  <2>1. i \in {"ABSENT", "IGNORE", "NEW", "RENAME"}
        /\ j \in {"ABSENT", "IGNORE", "NEW", "RENAME"}
    BY <1>2
  <2> QED BY <2>1 DEF Decided, Alone, Acting, Pushing
<1> QED BY <1>1, <1>2

LEMMA SecondVisit ==
  ASSUME NEW i, NEW j, NEW k, NEW l, Decided(j, i, l, k),
         \/ j = "ABSENT"
         \/ i \notin Acting
         \/ i \in {"SYNC", "CONFLICT"} /\ j \in {"NONE", "EVAL", "IGNORE"}
         \/ i = "NEW" /\ j \in {"IGNORE", "RENAME"}
  PROVE  k \notin Acting \/ l \notin Acting
BY DEF Decided, Alone, Acting, Pushing

(* A visit of either walk.                                                 *)
LEMMA ReconcileStep ==
  ASSUME TypeOK, WalkInv, NEW p \in Path, ReconcilePath(p)
  PROVE  WalkInv'
<1>0. /\ step = "reconcile" /\ p \in todo /\ todo' = todo \ {p}
      /\ UNCHANGED <<step, current, journal, exists>>
  BY DEF ReconcilePath, dbVars
<1>1. ASSUME NEW q \in Path \ {p}
      PROVE  (Fresh(q) => Fresh(q)') /\ (Halfway(q) => Halfway(q)')
             /\ (Settled(q) => Settled(q)')
  <2>1. \A r \in Replica : tree'[r][q] = tree[r][q]
    BY VisitStep
  <2> QED BY <1>0, <2>1 DEF Fresh, Halfway, Settled, iL, iR, FoundByHash, Recorded, Replica
<1>2. CASE current = "local"
  <2>1. Decided(iL(p), iR(p), iL(p)', iR(p)')
    BY <1>2, VisitStep DEF iL, iR, Other
  <2>2. \/ {iL(p), iR(p)} \subseteq {"ABSENT", "IGNORE", "NONE", "EVAL"}
        \/ {iL(p), iR(p)} \subseteq {"ABSENT", "IGNORE", "NEW", "RENAME"}
    BY <1>0, <1>2 DEF WalkInv, Fresh, iL, iR, Replica
  <2>3. Halfway(p)'
    BY <2>1, <2>2, FirstVisit DEF Halfway
  <2> QED BY <1>0, <1>1, <1>2, <2>3 DEF WalkInv
<1>3. CASE current = "remote"
  <2>1. Decided(iR(p), iL(p), iR(p)', iL(p)')
    BY <1>3, VisitStep DEF iL, iR, Other
  <2>2. Halfway(p)
    BY <1>0, <1>3 DEF WalkInv
  <2>3. Settled(p)'
    BY <2>1, <2>2, SecondVisit DEF Halfway, Settled
  <2> QED BY <1>0, <1>1, <1>3, <2>3 DEF WalkInv
<1> QED BY <1>2, <1>3 DEF TypeOK, Replica

(* The instruction a step of the propagator leaves is not acted upon, and  *)
(* the other nodes stay as they are; or the run is over.                   *)
LEMMA PropagateStep ==
  ASSUME TypeOK, NEW p \in Path,
         \/ PushSucceeds(p) \/ PushFailsToOpen(p) \/ PushFails(p)
         \/ PushFailsLate(p) \/ PushEndsRun(p)
         \/ BackUp(p) \/ RemoveFile(p)
  PROVE  /\ step = "propagate"
         /\ UNCHANGED <<journal, exists>>
         /\ \/ step' = "idle" /\ tree' = EmptyTrees
            \/ /\ UNCHANGED <<step, current>>
               /\ \A r \in Replica, q \in Path :
                    \/ tree'[r][q].instr = tree[r][q].instr
                    \/ tree'[r][q].instr \in {"UPDATED", "ERROR", "NONE"}
                    \/ /\ tree[r][q].instr = "REMOVE"
                       /\ tree'[r][q].instr = "DELETED"
<1> USE DEF dbVars, options
<1>t. TreeType /\ current \in Replica
  BY DEF TypeOK, TreeType
<1>1. CASE PushEndsRun(p)
  BY <1>1 DEF PushEndsRun, MayPush, EndRun
<1>2. CASE PushSucceeds(p)
  <2>1. PushEnds(p, "UPDATED") /\ step = "propagate"
    BY <1>2 DEF PushSucceeds, MayPush
  <2> QED BY <1>2, <1>t, <2>1, InstrStep DEF PushSucceeds, PushEnds
<1>3. CASE PushFailsToOpen(p) \/ PushFails(p) \/ PushFailsLate(p)
  <2>1. PushEnds(p, "ERROR") /\ step = "propagate" /\ UNCHANGED dbVars
    BY <1>3 DEF PushFailsToOpen, PushFails, PushFailsLate, MayPush
  <2> QED BY <1>t, <2>1, InstrStep DEF PushEnds
<1>4. CASE BackUp(p)
  <2>1. /\ step = "propagate" /\ UNCHANGED <<dbVars, step, current>>
        /\ \/ tree' = [tree EXCEPT ![current][p].instr = "NONE"]
           \/ tree' = [tree EXCEPT ![current][p].instr = "ERROR"]
    BY <1>4 DEF BackUp
  <2> QED BY <1>t, <2>1, InstrStep
<1>5. CASE RemoveFile(p)
  <2>1. /\ step = "propagate" /\ UNCHANGED <<dbVars, step, current>>
        /\ tree[current][p].instr = "REMOVE"
        /\ \/ tree' = [tree EXCEPT ![current][p].instr = "NONE"]
           \/ tree' = [tree EXCEPT ![current][p].instr = "DELETED"]
    BY <1>5 DEF RemoveFile
  <2>2. CASE tree' = [tree EXCEPT ![current][p].instr = "NONE"]
    BY <1>t, <2>1, <2>2, InstrStep
  <2>3. CASE tree' = [tree EXCEPT ![current][p].instr = "DELETED"]
    BY <1>t, <2>1, <2>3, InstrStep
  <2> QED BY <2>1, <2>2, <2>3
<1> QED BY <1>1, <1>2, <1>3, <1>4, <1>5

(* A step of the commit, or a crash: the trees are done with.              *)
LEMMA CommitStep ==
  ASSUME (\E p \in Path : MergePath(p)) \/ WriteJournal \/ Crash
  PROVE  \/ step' = "idle" /\ tree' = EmptyTrees
         \/ /\ step = "merge" /\ UNCHANGED <<step, journal, exists>>
            /\ \E p \in Path : \E m, i : tree' = [tree EXCEPT !["local"][p] =
                      [instr |-> "NONE", mtime |-> m, inode |-> i]]
BY DEF MergePath, WriteJournal, Crash, EndRun, dbVars

(* A detected path is as fresh as before.                                  *)
LEMMA FreshStep ==
  ASSUME TypeOK, NEW p \in Path, DetectUpdate(p), NEW q \in Path, Fresh(q)
  PROVE  Fresh(q)'
<1>1. UNCHANGED <<journal, exists>>
  BY DEF DetectUpdate, dbVars
<1> QED BY <1>1, DetectStep DEF Fresh, FoundByHash, Recorded

LEMMA WalkInvStep ==
  ASSUME TypeOK, WalkInv, [Next]_vars
  PROVE  WalkInv'
<1>1. CASE User \/ UNCHANGED vars
  <2>1. UNCHANGED <<journal, exists, tree, step, current, todo, pushing>>
    BY <1>1, UserKeeps DEF vars
  <2> QED BY <2>1 DEF WalkInv, Fresh, Halfway, Settled, iL, iR, FoundByHash, Recorded
<1>2. CASE StartRun
  <2>1. step' = "update" /\ tree' = EmptyTrees
    BY <1>2 DEF StartRun
  <2>2. \A r \in Replica, p \in Path : tree'[r][p].instr = "ABSENT"
    BY <2>1 DEF EmptyTrees, Absent
  <2>3. \A p \in Path : Fresh(p)'
    BY <2>2 DEF Fresh
  <2> QED BY <2>1, <2>3 DEF WalkInv
<1>3. CASE NextWalk
  <2> USE DEF StartWalk, dbVars
  <2>1. todo = {} /\ UNCHANGED <<tree, journal, exists>>
    BY <1>3 DEF NextWalk
  <2>2. \A p \in Path : /\ Fresh(p)' <=> Fresh(p)
                        /\ Halfway(p)' <=> Halfway(p)
                        /\ Settled(p)' <=> Settled(p)
    BY <2>1 DEF Fresh, Halfway, Settled, iL, iR, FoundByHash, Recorded
  <2>3. \A p \in Path : iL(p) = "ABSENT" => Halfway(p)
    BY DEF Halfway, Acting, Pushing
  <2>4. \A p \in Path : iR(p) = "ABSENT" => Settled(p)
    BY DEF Settled, Acting, Pushing
  <2>5. CASE step = "update" /\ current = "local"
    BY <1>3, <2>2, <2>5 DEF NextWalk, WalkInv
  <2>6. CASE step = "update" /\ current = "remote"
    BY <1>3, <2>2, <2>3, <2>6 DEF NextWalk, WalkInv, iL
  <2>7. CASE step = "reconcile" /\ current = "local"
    BY <1>3, <2>1, <2>2, <2>4, <2>7 DEF NextWalk, WalkInv, iR
  <2>8. CASE step = "reconcile" /\ current = "remote"
    BY <1>3, <2>1, <2>2, <2>8 DEF NextWalk, WalkInv
  <2>9. CASE step = "propagate"
    BY <1>3, <2>2, <2>9 DEF NextWalk, WalkInv
  <2> QED BY <1>3, <2>5, <2>6, <2>7, <2>8, <2>9 DEF NextWalk
<1>4. ASSUME NEW p \in Path, DetectUpdate(p) PROVE WalkInv'
  BY <1>4, FreshStep DEF DetectUpdate, WalkInv
<1>5. ASSUME NEW p \in Path, SkipUnreadable(p) PROVE WalkInv'
  <2>1. step = "update" /\ UNCHANGED <<journal, exists, tree, step>>
    BY <1>5 DEF SkipUnreadable, dbVars
  <2> QED BY <2>1 DEF WalkInv, Fresh, FoundByHash, Recorded
<1>6. ASSUME NEW p \in Path, ReconcilePath(p) PROVE WalkInv'
  BY <1>6, ReconcileStep
<1>7. ASSUME NEW p \in Path,
             \/ PushSucceeds(p) \/ PushFailsToOpen(p) \/ PushFails(p)
             \/ PushFailsLate(p) \/ PushEndsRun(p)
             \/ BackUp(p) \/ RemoveFile(p)
      PROVE  WalkInv'
  <2>1. CASE step' = "idle"
    BY <2>1 DEF WalkInv
  <2>2. CASE step' # "idle"
    <3>1. step' = "propagate" /\ step = "propagate"
      BY <1>7, <2>2, PropagateStep
    <3>2. \A r \in Replica, q \in Path :
             tree[r][q].instr \notin Acting => tree'[r][q].instr \notin Acting
      BY <1>7, <2>2, PropagateStep DEF Acting, Pushing
    <3>3. \A q \in Path : Settled(q) => Settled(q)'
      BY <3>2 DEF Settled, iL, iR, Replica
    <3> QED BY <3>1, <3>3 DEF WalkInv
  <2> QED BY <2>1, <2>2
<1>8. CASE (\E p \in Path : MergePath(p)) \/ WriteJournal \/ Crash
  <2>1. step' \in {"idle", "merge"}
    BY <1>8, CommitStep
  <2> QED BY <2>1 DEF WalkInv
<1> QED BY <1>1, <1>2, <1>3, <1>4, <1>5, <1>6, <1>7, <1>8
        DEF Next, Program, VisitPath

(* Whatever the users do and whatever fails, no path is sent both ways.    *)
THEOREM OneSide == Spec => []AtMostOneSideActs
<1>1. Init => WalkInv
  BY DEF Init, WalkInv
<1>2. TypeOK /\ WalkInv /\ [Next]_vars => WalkInv'
  BY WalkInvStep
<1>3. WalkInv => AtMostOneSideActs
  BY DEF WalkInv, AtMostOneSideActs, Settled, iL, iR
<1> QED BY <1>1, <1>2, <1>3, TypeCorrect, PTL DEF Spec

-----------------------------------------------------------------------------
(***************************************************************************)
(* NoJournalNoRemove.                                                      *)
(***************************************************************************)

(* Without a journal: NONE, which Alone turns into a deletion, stands only *)
(* where the other replica has a node for the path too.                    *)
NoJournalInv ==
    ~exists => \A r \in Replica, p \in Path :
        /\ tree[r][p].instr \notin {"REMOVE", "DELETED"}
        /\ step = "update" => tree[r][p].instr # "NONE"
        /\ step = "reconcile" /\ tree[r][p].instr = "NONE" =>
                tree[Other(r)][p].instr # "ABSENT"

(* A visit to two instructions that are neither a deletion, nor NONE where *)
(* the other tree has nothing, leaves two such instructions.               *)
Harmless(i, j) == /\ i \notin {"REMOVE", "DELETED"}
                  /\ i = "NONE" => j # "ABSENT"

LEMMA HarmlessVisit ==
  ASSUME NEW i, NEW j, NEW k, NEW l, Decided(i, j, k, l),
         Harmless(i, j), Harmless(j, i)
  PROVE  Harmless(k, l) /\ Harmless(l, k)
BY DEF Decided, Alone, Harmless

LEMMA NoJournalStep ==
  ASSUME TypeOK, NoJournalInv, [Next]_vars
  PROVE  NoJournalInv'
<1>e. ASSUME tree' = EmptyTrees PROVE NoJournalInv'
  <2>1. \A r \in Replica, p \in Path : tree'[r][p].instr = "ABSENT"
    BY <1>e DEF EmptyTrees, Absent
  <2> QED BY <2>1 DEF NoJournalInv
<1>1. CASE User \/ UNCHANGED vars
  <2>1. UNCHANGED <<journal, exists, tree, step, current, todo, pushing>>
    BY <1>1, UserKeeps DEF vars
  <2> QED BY <2>1 DEF NoJournalInv
<1>2. CASE StartRun
  BY <1>2, <1>e DEF StartRun
<1>3. CASE NextWalk
  <2>1. UNCHANGED <<tree, exists>>
    BY <1>3 DEF NextWalk, dbVars
  <2>2. step' = "update" => step = "update"
    BY <1>3 DEF NextWalk, StartWalk
  <2>3. step' = "reconcile" => step \in {"update", "reconcile"}
    BY <1>3 DEF NextWalk, StartWalk
  <2> QED BY <2>1, <2>2, <2>3 DEF NoJournalInv
<1>4. ASSUME NEW p \in Path, DetectUpdate(p) PROVE NoJournalInv'
  <2>1. step = "update" /\ UNCHANGED <<exists, step>>
    BY <1>4 DEF DetectUpdate, dbVars
  <2> QED BY <1>4, <2>1, DetectStep DEF NoJournalInv
<1>5. ASSUME NEW p \in Path, SkipUnreadable(p) PROVE NoJournalInv'
  BY <1>5 DEF SkipUnreadable, NoJournalInv, dbVars
<1>6. ASSUME NEW p \in Path, ReconcilePath(p) PROVE NoJournalInv'
  <2> DEFINE o == Other(current)
  <2>1. step = "reconcile" /\ UNCHANGED <<exists, step>>
    BY <1>6 DEF ReconcilePath, dbVars
  <2>2. /\ current \in Replica /\ o \in Replica
        /\ Other(o) = current /\ \A r \in Replica : r = current \/ r = o
    BY DEF TypeOK, Replica, Other
  <2>3. \A r \in Replica, q \in Path \ {p} : tree'[r][q] = tree[r][q]
    BY <1>6, VisitStep
  <2>4. SUFFICES ASSUME ~exists PROVE NoJournalInv'
    BY <2>1 DEF NoJournalInv
  <2>5. /\ Harmless(tree[current][p].instr, tree[o][p].instr)
        /\ Harmless(tree[o][p].instr, tree[current][p].instr)
    BY <2>1, <2>2, <2>4 DEF NoJournalInv, Harmless
  <2>6. Decided(tree[current][p].instr, tree[o][p].instr,
                tree'[current][p].instr, tree'[o][p].instr)
    BY <1>6, VisitStep
  <2>7. /\ Harmless(tree'[current][p].instr, tree'[o][p].instr)
        /\ Harmless(tree'[o][p].instr, tree'[current][p].instr)
    BY <2>5, <2>6, HarmlessVisit
  <2>8. \A r \in Replica : Harmless(tree'[r][p].instr, tree'[Other(r)][p].instr)
    BY <2>2, <2>7
  <2>9. \A r \in Replica, q \in Path \ {p} :
           Harmless(tree'[r][q].instr, tree'[Other(r)][q].instr)
    BY <2>1, <2>3, <2>4, OtherReplica DEF NoJournalInv, Harmless
  <2> HIDE DEF o
  <2> QED BY <2>1, <2>8, <2>9 DEF NoJournalInv, Harmless
<1>7. ASSUME NEW p \in Path,
             \/ PushSucceeds(p) \/ PushFailsToOpen(p) \/ PushFails(p)
             \/ PushFailsLate(p) \/ PushEndsRun(p)
             \/ BackUp(p) \/ RemoveFile(p)
      PROVE  NoJournalInv'
  <2>1. CASE tree' = EmptyTrees
    BY <2>1, <1>e
  <2>2. CASE tree' # EmptyTrees
    <3>1. step = "propagate" /\ UNCHANGED <<exists, step>>
      BY <1>7, <2>2, PropagateStep
    <3>2. \A r \in Replica, q \in Path :
             \/ tree'[r][q].instr = tree[r][q].instr
             \/ tree'[r][q].instr \in {"UPDATED", "ERROR", "NONE"}
             \/ tree[r][q].instr = "REMOVE"
      BY <1>7, <2>2, PropagateStep
    <3> QED BY <3>1, <3>2 DEF NoJournalInv
  <2> QED BY <2>1, <2>2
<1>8. CASE (\E p \in Path : MergePath(p)) \/ WriteJournal \/ Crash
  <2>1. CASE tree' = EmptyTrees
    BY <2>1, <1>e
  <2>2. CASE tree' # EmptyTrees
    <3>1. step = "merge" /\ UNCHANGED <<step, exists>>
      BY <1>8, <2>2, CommitStep
    <3>2. PICK p \in Path :
             \E m, i : tree' = [tree EXCEPT !["local"][p] =
                                  [instr |-> "NONE", mtime |-> m, inode |-> i]]
      BY <1>8, <2>2, CommitStep
    <3>3. \A r \in Replica, q \in Path :
             tree'[r][q].instr \in {tree[r][q].instr, "NONE"}
      BY <3>2 DEF TypeOK
    <3> QED BY <3>1, <3>3 DEF NoJournalInv
  <2> QED BY <2>1, <2>2
<1> QED BY <1>1, <1>2, <1>3, <1>4, <1>5, <1>6, <1>7, <1>8
        DEF Next, Program, VisitPath

(* A lost database never makes csync delete a file.                        *)
THEOREM NoJournal == Spec => []NoJournalNoRemove
<1>1. Init => NoJournalInv
  BY DEF Init, NoJournalInv, EmptyTrees, Absent
<1>2. TypeOK /\ NoJournalInv /\ [Next]_vars => NoJournalInv'
  BY NoJournalStep
<1>3. NoJournalInv => NoJournalNoRemove
  BY DEF NoJournalInv, NoJournalNoRemove
<1> QED BY <1>1, <1>2, <1>3, TypeCorrect, PTL DEF Spec

-----------------------------------------------------------------------------
(***************************************************************************)
(* What a step may do to the disks, the trees and the clock.  Every proof  *)
(* below works from these facts instead of the actions.                    *)
(***************************************************************************)

Both(p) == There("local", p) /\ There("remote", p)
Same(p) == Both(p) => disk["local"][p].data = disk["remote"][p].data

Pushes(p) == \/ PushSucceeds(p) \/ PushFailsToOpen(p) \/ PushFails(p)
             \/ PushFailsLate(p) \/ PushEndsRun(p)

(* The ways a path p fares on the disks while it is propagated.            *)
Untouched == UNCHANGED <<disk, now>>
Delivered(p, t) ==
    /\ There(current, p)
    /\ \E i \in Inode \cup {RemoteInode} :
          disk' = [disk EXCEPT ![Dest][p] =
                     [data |-> disk[current][p].data, mtime |-> t, inode |-> i,
                      linked |-> FALSE]]
Removed(r, p) == disk' = [disk EXCEPT ![r][p] = NoFile] /\ now' = now

(* Which disks a push may leave: the one or the other file is whole.       *)
LEMMA PushDisk ==
  ASSUME NEW p \in Path, Pushes(p)
  PROVE  /\ step = "propagate"
         /\ tree[current][p].instr \in Pushing \/ p \in pushing
         /\ \/ Untouched
            \/ InPlace /\ Removed(Dest, p)
            \/ Delivered(p, tree[current][p].mtime) /\ now' = now
            \/ Delivered(p, now + 1) /\ now' = now + 1
<1>0. MayPush(p)
  BY DEF Pushes, PushSucceeds, PushFailsToOpen, PushFails, PushFailsLate,
         PushEndsRun
<1>a. /\ step = "propagate"
      /\ tree[current][p].instr \in Pushing \/ p \in pushing
  BY <1>0 DEF MayPush, Pushing
<1>f. FreeInodes(Dest) \subseteq Inode \cup {RemoteInode}
  BY DEF FreeInodes
<1>1. CASE PushSucceeds(p)
  BY <1>a, <1>1, <1>f DEF PushSucceeds, Deliver, Delivered, Put
<1>2. CASE PushFailsToOpen(p)
  BY <1>a, <1>2 DEF PushFailsToOpen, Untouched
<1>3. CASE PushFails(p) \/ PushEndsRun(p)
  BY <1>a, <1>3 DEF PushFails, PushEndsRun, LeaveDestination, Untouched, Removed, Put
<1>4. CASE PushFailsLate(p)
  BY <1>a, <1>4, <1>f DEF PushFailsLate, Deliver, Delivered, Removed, Put
<1> QED BY <1>a, <1>1, <1>2, <1>3, <1>4 DEF Pushes

(* How a step of the propagator for the path p moves the run on.           *)
PushOver(p, k) ==
    /\ tree[current][p].instr \in Acting \/ pushing = {p}
    /\ tree' = [tree EXCEPT ![current][p].instr = k]
    /\ todo' = todo \ {p} /\ pushing' = {}
    /\ k = "UPDATED" => \E t : Delivered(p, t)
RemovalOver(p, k) ==
    /\ tree[current][p].instr = "REMOVE" /\ pushing = {}
    /\ tree' = [tree EXCEPT ![current][p].instr = k]
    /\ todo' = todo \ {p} /\ pushing' = {}
    /\ \/ k = "NONE" /\ disk' = disk
       \/ k = "DELETED" /\ Removed(current, p)
BackedUp(p, k) ==
    /\ tree[current][p].instr = "CONFLICT" /\ pushing = {}
    /\ tree' = [tree EXCEPT ![current][p].instr = k]
    /\ todo' = todo /\ pushing' = {p}
    /\ \/ k = "NONE" /\ Removed(Dest, p)
       \/ k = "ERROR" /\ disk' = disk

(* Files are pushed, deleted and backed up by the propagation walks        *)
(* alone.                                                                  *)
LEMMA PropagatesOn ==
  ASSUME NEW p \in Path, Pushes(p) \/ BackUp(p) \/ RemoveFile(p)
  PROVE  /\ step = "propagate" /\ UNCHANGED <<journal, exists, writes>>
         /\ \/ EndRun
            \/ /\ UNCHANGED <<step, current, copies, atomic>>
               /\ \/ PushOver(p, "UPDATED") \/ PushOver(p, "ERROR")
                  \/ RemovalOver(p, "NONE") \/ RemovalOver(p, "DELETED")
                  \/ BackedUp(p, "NONE") \/ BackedUp(p, "ERROR")
<1> USE DEF dbVars, options
<1>a. MayPush(p) => /\ step = "propagate"
                    /\ tree[current][p].instr \in Acting \/ pushing = {p}
  BY DEF MayPush, Acting, Pushing
<1>1. CASE PushSucceeds(p)
  <2>1. \E t : Delivered(p, t)
    BY <1>1 DEF PushSucceeds, Deliver, Delivered, Put, FreeInodes
  <2> QED BY <1>1, <1>a, <2>1 DEF PushSucceeds, PushEnds, PushOver
<1>2. CASE PushFailsToOpen(p) \/ PushFails(p) \/ PushFailsLate(p)
  BY <1>2, <1>a DEF PushFailsToOpen, PushFails, PushFailsLate, PushEnds, PushOver
<1>3. CASE PushEndsRun(p)
  BY <1>3, <1>a DEF PushEndsRun
<1>4. CASE BackUp(p)
  BY <1>4 DEF BackUp, BackedUp, Removed, Put
<1>5. CASE RemoveFile(p)
  BY <1>5 DEF RemoveFile, RemovalOver, Removed, Put
<1> QED BY <1>1, <1>2, <1>3, <1>4, <1>5 DEF Pushes

(* A delivered copy is equal to its source.                                *)
LEMMA DeliveredSame ==
  ASSUME TypeOK, NEW p \in Path, NEW t, Delivered(p, t)
  PROVE  /\ Same(p)'
         /\ \A s \in Replica, q \in Path : s # Dest \/ q # p =>
               disk'[s][q] = disk[s][q]
<1>t. /\ DiskType /\ Replica = {current, Dest} /\ current # Dest
      /\ Replica = {"local", "remote"}
  BY DEF TypeOK, DiskType, Dest, Replica, Other
<1>1. PICK i \in Inode \cup {RemoteInode} :
         disk' = [disk EXCEPT ![Dest][p] =
                    [data |-> disk[current][p].data, mtime |-> t, inode |-> i,
                     linked |-> FALSE]]
  BY DEF Delivered
<1>2. /\ disk'[Dest][p].data = disk[current][p].data
      /\ \A s \in Replica, q \in Path : s # Dest \/ q # p =>
            disk'[s][q] = disk[s][q]
  BY <1>1, <1>t DEF DiskType
<1> QED BY <1>t, <1>2 DEF Same

(* What has been delivered is there.                                       *)
LEMMA DeliveredThere ==
  ASSUME TypeOK, NEW p \in Path, NEW t \in Nat, Delivered(p, t)
  PROVE  /\ There(current, p) /\ disk'[Dest][p] # NoFile
         /\ disk'[Dest][p].data = disk[current][p].data
         /\ disk'[Dest][p].mtime = t /\ disk'[Dest][p].linked = FALSE
<1>t. DiskType /\ current \in Replica /\ Dest \in Replica
  BY OtherReplica DEF TypeOK, DiskType, Dest
<1>1. PICK i \in Inode \cup {RemoteInode} :
         disk' = [disk EXCEPT ![Dest][p] =
                    [data |-> disk[current][p].data, mtime |-> t, inode |-> i,
                     linked |-> FALSE]]
  BY DEF Delivered
<1>2. disk'[Dest][p] = [data |-> disk[current][p].data, mtime |-> t,
                        inode |-> i, linked |-> FALSE]
  BY <1>1, <1>t DEF DiskType
<1>3. There(current, p) /\ disk[current][p].data \in Nat \ {0}
  BY <1>t, ThereIsFile DEF Delivered
<1>4. disk'[Dest][p] \in File
  BY <1>2, <1>3 DEF File
<1>5. disk'[Dest][p] # NoFile
  BY <1>4, ConstantsAssumption
<1> QED BY <1>2, <1>3, <1>5

(* A removed file leaves nothing to compare.                               *)
LEMMA RemovedSame ==
  ASSUME TypeOK, NEW p \in Path, NEW r \in Replica,
         disk' = [disk EXCEPT ![r][p] = NoFile]
  PROVE  /\ Same(p)' /\ ~There(r, p)'
         /\ \A s \in Replica, q \in Path : s # r \/ q # p =>
               disk'[s][q] = disk[s][q]
<1>t. DiskType /\ Replica = {"local", "remote"}
  BY DEF TypeOK, DiskType, Replica
<1> QED BY <1>t DEF DiskType, Same, Both, There

(* The propagator leaves a path alone, or equal files, or not both files.  *)
LEMMA PropagatesSame ==
  ASSUME TypeOK, NEW p \in Path, Pushes(p) \/ BackUp(p) \/ RemoveFile(p)
  PROVE  /\ \A r \in Replica, q \in Path \ {p} : disk'[r][q] = disk[r][q]
         /\ disk' = disk \/ Same(p)'
<1>t. /\ DiskType /\ Replica = {current, Dest} /\ current # Dest
      /\ Replica = {"local", "remote"}
  BY DEF TypeOK, DiskType, Dest, Replica, Other
<1>1. CASE disk' = disk
  BY <1>1
<1>2. ASSUME NEW r \in Replica, disk' = [disk EXCEPT ![r][p] = NoFile]
      PROVE  /\ \A s \in Replica, q \in Path \ {p} : disk'[s][q] = disk[s][q]
             /\ Same(p)'
  BY <1>2, RemovedSame
<1>3. ASSUME NEW t, Delivered(p, t)
      PROVE  /\ \A s \in Replica, q \in Path \ {p} : disk'[s][q] = disk[s][q]
             /\ Same(p)'
  BY <1>3, DeliveredSame
<1>4. CASE BackUp(p)
  BY <1>4, <1>1, <1>2, <1>t DEF BackUp, Put
<1>5. CASE RemoveFile(p)
  BY <1>5, <1>1, <1>2, <1>t DEF RemoveFile, Put
<1>6. CASE Pushes(p)
  BY <1>6, <1>1, <1>2, <1>3, <1>t, PushDisk DEF Untouched, Removed
<1> QED BY <1>4, <1>5, <1>6

(* Every other step of the program leaves the disks and the clock alone.   *)
LEMMA OthersKeepDisk ==
  ASSUME \/ StartRun \/ NextWalk \/ WriteJournal \/ Crash
         \/ \E p \in Path : \/ DetectUpdate(p) \/ SkipUnreadable(p)
                            \/ ReconcilePath(p) \/ MergePath(p)
  PROVE  UNCHANGED <<disk, now>>
BY DEF StartRun, NextWalk, WriteJournal, Crash, DetectUpdate, SkipUnreadable,
       ReconcilePath, MergePath

-----------------------------------------------------------------------------
(***************************************************************************)
(* NoSilentDivergence.  A file, its node, its row and the version that the *)
(* row stands for: what each says of the others while a run goes on.       *)
(***************************************************************************)

(* Users who leave a running synchronization alone, write no two versions  *)
(* in one second and rename no file onto a path that is in use.            *)
Orderly == UserMoves \cap {"renameOver", "sameSecond", "duringRun"} = {}

(* Between runs there are no trees.                                        *)
Resting == step = "idle" => tree = EmptyTrees /\ todo = {} /\ pushing = {}

(* No file, node or row is of the future.                                  *)
Timely ==
    /\ \A r \in Replica, p \in Path : There(r, p) => disk[r][p].mtime <= now
    /\ \A r \in Replica, p \in Path : tree[r][p].mtime <= now
    /\ \A p \in Path : Recorded(p) => journal[p].mtime <= now

(* A time stamp stands for one version.                                    *)
Stamped ==
    \A r, s \in Replica, p, q \in Path :
        There(r, p) /\ There(s, q) /\ disk[r][p].mtime = disk[s][q].mtime
            => disk[r][p].data = disk[s][q].data

(* What a node says of the disk is true as long as it is acted upon.       *)
Matches(r, p) == There(r, p) /\ tree[r][p].mtime = disk[r][p].mtime
Observed ==
    /\ step \in {"update", "reconcile"} =>
         \A r \in Replica, p \in Path :
            tree[r][p].instr # "ABSENT" => Matches(r, p)
    /\ step = "propagate" =>
         \A r \in Replica, p \in Path :
            tree[r][p].instr \in Pushing \/ (p \in pushing /\ r = current)
                => Matches(r, p)

(* A walk of the propagator visits all it has to act upon.                 *)
Pending ==
    /\ step = "propagate" /\ current = "local" =>
         \A p \in Path : iL(p) \in Acting => p \in todo
    /\ step = "propagate" /\ current = "remote" =>
         \A p \in Path : iL(p) \notin Acting /\ (iR(p) \in Acting => p \in todo)
    /\ step = "merge" =>
         /\ \A p \in Path : iL(p) \notin Acting /\ iR(p) \notin Acting
         /\ \A p \in todo : iR(p) = "UPDATED"
    /\ pushing # {} => step = "propagate"
    /\ \A p \in pushing : /\ tree[current][p].instr \in {"NONE", "ERROR"}
                          /\ tree[Dest][p].instr \notin Acting

(* After a step a path holds a file that was there before, perhaps         *)
(* elsewhere, or the one file that is newer than all.                      *)
Inherited(r, p) ==
    There(r, p)' => \E s \in Replica, q \in Path :
                       /\ There(s, q)
                       /\ disk'[r][p].mtime = disk[s][q].mtime
                       /\ disk'[r][p].data = disk[s][q].data
Freshest(r, p) == disk'[r][p].mtime = now + 1 /\ now' = now + 1

(* What a user leaves at the paths: UserWrites makes the one newest file,  *)
(* UserDeletes, UserRenames and UserLinks make no version and no time.     *)
LEMMA UserFiles ==
  ASSUME Orderly, TypeOK, User
  PROVE  \E s \in Replica, q \in Path :
            /\ Inherited(s, q) \/ Freshest(s, q)
            /\ \A r \in Replica, p \in Path : r # s \/ p # q => Inherited(r, p)
<1>t. DiskType /\ Replica = {"local", "remote"}
  BY DEF TypeOK, DiskType, Replica
<1>1. ASSUME NEW s \in Replica, NEW q \in Path, UserWrites(s, q)
      PROVE  /\ Freshest(s, q)
             /\ \A r \in Replica, p \in Path : r # s \/ p # q => Inherited(r, p)
  <2>1. PICK t \in WriteTimes :
           /\ now' = t
           /\ IF There(s, q)
              THEN Put(s, q, [disk[s][q] EXCEPT !.data = writes + 1, !.mtime = t])
              ELSE \E i \in FreeInodes(s) :
                     Put(s, q, [data |-> writes + 1, mtime |-> t, inode |-> i,
                                linked |-> FALSE])
    BY <1>1 DEF UserWrites
  <2>2. t = now + 1
    BY DEF WriteTimes, Orderly
  <2>3. \E f : disk' = [disk EXCEPT ![s][q] = f] /\ f.mtime = t
    <3>1. CASE There(s, q)
      <4> DEFINE f == [disk[s][q] EXCEPT !.data = writes + 1, !.mtime = t]
      <4>1. f.mtime = t
        BY <1>t, <3>1, ThereIsFile DEF File
      <4> QED BY <2>1, <3>1, <4>1 DEF Put
    <3>2. CASE ~There(s, q)
      BY <2>1, <3>2 DEF Put
    <3> QED BY <3>1, <3>2
  <2>4. /\ disk'[s][q].mtime = t
        /\ \A r \in Replica, p \in Path : r # s \/ p # q =>
              disk'[r][p] = disk[r][p]
    BY <2>3, <1>t DEF DiskType
  <2> QED BY <2>1, <2>2, <2>4 DEF Freshest, Inherited, There
<1>2. ASSUME NEW s \in Replica, NEW q \in Path, UserDeletes(s, q)
      PROVE  \A r \in Replica, p \in Path : Inherited(r, p)
  <2>1. disk' = [disk EXCEPT ![s][q] = NoFile]
    BY <1>2 DEF UserDeletes, Put
  <2>2. \A r \in Replica, p \in Path : disk'[r][p] \in {disk[r][p], NoFile}
    BY <2>1, <1>t DEF DiskType
  <2> QED BY <2>2 DEF Inherited, There
<1>3. ASSUME NEW p \in Path, NEW q \in Path, UserRenames(p, q)
      PROVE  \A r \in Replica, u \in Path : Inherited(r, u)
  <2>1. /\ There("local", p)
        /\ disk' = [disk EXCEPT !["local"] =
                      [@ EXCEPT ![q] = disk["local"][p], ![p] = NoFile]]
    BY <1>3 DEF UserRenames
  <2>2. /\ disk'["remote"] = disk["remote"]
        /\ \A u \in Path : \/ disk'["local"][u] \in {disk["local"][u], NoFile}
                           \/ disk'["local"][u] = disk["local"][p]
    BY <2>1, <1>t DEF DiskType
  <2> QED BY <2>1, <2>2, <1>t DEF Inherited, There
<1>4. ASSUME NEW q \in Path, UserLinks(q)
      PROVE  \A r \in Replica, p \in Path : Inherited(r, p)
  <2>1. There("local", q) /\ disk' = [disk EXCEPT !["local"][q].linked = ~@]
    BY <1>4 DEF UserLinks
  <2>2. /\ disk["local"][q] \in File /\ "local" \in Replica
        /\ disk'["local"][q] = [disk["local"][q] EXCEPT !.linked = ~@]
        /\ \A r \in Replica, p \in Path : r # "local" \/ p # q =>
              disk'[r][p] = disk[r][p]
    BY <2>1, <1>t, ThereIsFile DEF DiskType
  <2>3. /\ disk'["local"][q].mtime = disk["local"][q].mtime
        /\ disk'["local"][q].data = disk["local"][q].data
    BY <2>2 DEF File
  <2> QED BY <2>1, <2>2, <2>3 DEF Inherited, There
<1>5. Replica # {} /\ Path # {}
  BY ConstantsAssumption DEF Replica
<1> QED BY <1>1, <1>2, <1>3, <1>4, <1>5 DEF User

(* What a push, a conflict copy or a deletion leaves at the paths: a copy  *)
(* has the version of its source, and its time unless csync_vio_utimes     *)
(* failed.                                                                 *)
LEMMA PropagatedFiles ==
  ASSUME TypeOK, Observed,
         NEW p \in Path, Pushes(p) \/ BackUp(p) \/ RemoveFile(p)
  PROVE  \E s \in Replica, q \in Path :
            /\ Inherited(s, q) \/ Freshest(s, q)
            /\ \A r \in Replica, u \in Path : r # s \/ u # q => Inherited(r, u)
<1>t. /\ DiskType /\ current \in Replica /\ Dest \in Replica /\ current # Dest
      /\ Replica # {}
  BY DEF TypeOK, DiskType, Dest, Replica, Other
<1>1. CASE disk' = disk
  BY <1>1, <1>t DEF Inherited, There
<1>2. ASSUME NEW r \in Replica, disk' = [disk EXCEPT ![r][p] = NoFile]
      PROVE  \A s \in Replica, q \in Path : Inherited(s, q)
  <2>1. \A s \in Replica, q \in Path : disk'[s][q] \in {disk[s][q], NoFile}
    BY <1>2, <1>t DEF DiskType
  <2> QED BY <2>1 DEF Inherited, There
<1>3. ASSUME NEW t, Delivered(p, t)
      PROVE  /\ There(current, p)
             /\ disk'[Dest][p].data = disk[current][p].data
             /\ disk'[Dest][p].mtime = t
             /\ \A s \in Replica, q \in Path : s # Dest \/ q # p => Inherited(s, q)
  <2>1. PICK i \in Inode \cup {RemoteInode} :
           disk' = [disk EXCEPT ![Dest][p] =
                      [data |-> disk[current][p].data, mtime |-> t,
                       inode |-> i, linked |-> FALSE]]
    BY <1>3 DEF Delivered
  <2>2. /\ disk'[Dest][p].data = disk[current][p].data
        /\ disk'[Dest][p].mtime = t
        /\ \A s \in Replica, q \in Path : s # Dest \/ q # p =>
              disk'[s][q] = disk[s][q]
    BY <2>1, <1>t DEF DiskType
  <2> QED BY <1>3, <2>2 DEF Inherited, There, Delivered
<1>4. CASE BackUp(p)
  BY <1>4, <1>1, <1>2, <1>t DEF BackUp, Put
<1>5. CASE RemoveFile(p)
  BY <1>5, <1>1, <1>2, <1>t DEF RemoveFile, Put
<1>6. CASE Pushes(p)
  <2>1. Matches(current, p)
    BY <1>6, <1>t, PushDisk DEF Observed
  <2>2. CASE Delivered(p, tree[current][p].mtime)
    <3>1. Inherited(Dest, p)
      BY <2>1, <2>2, <1>3, <1>t DEF Inherited, Matches
    <3> QED BY <2>2, <3>1, <1>3, <1>t
  <2>3. CASE Delivered(p, now + 1) /\ now' = now + 1
    BY <2>3, <1>3, <1>t DEF Freshest
  <2> QED BY <1>6, <1>1, <1>2, <2>2, <2>3, <1>t, PushDisk DEF Untouched, Removed
<1> QED BY <1>4, <1>5, <1>6

(* So it is with every step.                                               *)
LEMMA StepFiles ==
  ASSUME Orderly, TypeOK, Observed, [Next]_vars
  PROVE  \E s \in Replica, q \in Path :
            /\ Inherited(s, q) \/ Freshest(s, q)
            /\ \A r \in Replica, u \in Path : r # s \/ u # q => Inherited(r, u)
<1>1. CASE disk' = disk
  BY <1>1, ConstantsAssumption DEF Inherited, There, Replica
<1>2. CASE User
  BY <1>2, UserFiles
<1>3. ASSUME NEW p \in Path, Pushes(p) \/ BackUp(p) \/ RemoveFile(p)
      PROVE  \E s \in Replica, q \in Path :
               /\ Inherited(s, q) \/ Freshest(s, q)
               /\ \A r \in Replica, u \in Path : r # s \/ u # q => Inherited(r, u)
  BY <1>3, PropagatedFiles
<1> QED BY <1>1, <1>2, <1>3, OthersKeepDisk
        DEF Next, Program, VisitPath, vars, Pushes

(* No step gives the time of one version to another.                       *)
LEMMA StampedStep ==
  ASSUME Orderly, TypeOK, Timely, Stamped, Observed, [Next]_vars
  PROVE  Stamped'
<1>1. PICK s \in Replica, q \in Path :
         /\ Inherited(s, q) \/ Freshest(s, q)
         /\ \A r \in Replica, u \in Path : r # s \/ u # q => Inherited(r, u)
  BY StepFiles
<1>2. SUFFICES ASSUME NEW r1 \in Replica, NEW r2 \in Replica,
                      NEW p1 \in Path, NEW p2 \in Path,
                      There(r1, p1)', There(r2, p2)',
                      disk'[r1][p1].mtime = disk'[r2][p2].mtime
               PROVE  disk'[r1][p1].data = disk'[r2][p2].data
  BY DEF Stamped
<1>3. CASE Inherited(r1, p1) /\ Inherited(r2, p2)
  BY <1>2, <1>3 DEF Inherited, Stamped
<1>4. ASSUME NEW r \in Replica, NEW p \in Path, There(r, p)', Inherited(r, p)
      PROVE  disk'[r][p].mtime # now + 1
  <2>1. PICK u \in Replica, v \in Path : There(u, v) /\ disk'[r][p].mtime = disk[u][v].mtime
    BY <1>4 DEF Inherited
  <2>2. disk[u][v].mtime <= now /\ disk[u][v].mtime \in Nat /\ now \in Nat
    BY <2>1, ThereIsFile DEF Timely, TypeOK, DiskType
  <2> QED BY <2>1, <2>2
<1>5. CASE ~(Inherited(r1, p1) /\ Inherited(r2, p2))
  BY <1>1, <1>2, <1>4, <1>5 DEF Freshest
<1> QED BY <1>3, <1>5

(* What a visit leaves of the times, and when it makes a node NONE.        *)
LEMMA VisitTimes ==
  ASSUME NEW cur, NEW other, NEW keep \in BOOLEAN,
         cur.mtime \in Nat, other.mtime \in Nat
  PROVE  LET v == Visit(cur, other, keep) IN
         /\ v[1] = "NONE" /\ cur.instr # "NONE" =>
               cur.mtime <= other.mtime /\ other.instr # "ABSENT"
         /\ v[2] = "NONE" /\ other.instr # "NONE" =>
               other.mtime <= cur.mtime /\ cur.instr # "ABSENT"
<1> DEFINE v == Visit(cur, other, keep)
<1> DEFINE i == cur.instr
<1> DEFINE j == other.instr
<1>w. Win(keep) \in {"SYNC", "CONFLICT"}
  BY DEF Win
<1>1. CASE j = "ABSENT"
  BY <1>1 DEF Visit, Alone
<1>2. CASE i = "NEW" /\ j = "NEW"
  BY <1>2, <1>w DEF Visit, BothNew
<1>3. CASE i = "EVAL" /\ j = "EVAL"
  BY <1>3 DEF Visit, BothModified
<1>4. CASE i \in {"NEW", "EVAL"} /\ j \in {"NEW", "EVAL"} /\ i # j
  BY <1>4, <1>w DEF Visit, NewAgainstModified
<1>5. CASE i \in {"NEW", "EVAL"} /\ j = "NONE"
  BY <1>5 DEF Visit
<1>6. CASE /\ j # "ABSENT"
           /\ ~(i \in {"NEW", "EVAL"} /\ j \in {"NEW", "EVAL", "NONE"})
  BY <1>6 DEF Visit
<1> QED BY <1>1, <1>2, <1>3, <1>4, <1>5, <1>6

(* _csync_merge_algorithm_visitor leaves two files alone that both         *)
(* changed only when neither is newer.                                     *)
LEMMA ReconcileTimes ==
  ASSUME TypeOK, NEW p \in Path, ReconcilePath(p)
  PROVE  /\ \A r \in Replica, q \in Path : tree'[r][q].mtime = tree[r][q].mtime
         /\ \A r \in Replica :
              tree'[r][p].instr = "NONE" /\ tree[r][p].instr # "NONE" =>
                 /\ tree[r][p].mtime <= tree[Other(r)][p].mtime
                 /\ tree[Other(r)][p].instr # "ABSENT"
<1> DEFINE o == Other(current)
<1> DEFINE v == Visit(tree[current][p], tree[o][p], copies)
<1>r. /\ current \in Replica /\ o \in Replica /\ o # current /\ TreeType
      /\ Other(o) = current /\ Replica = {current, o}
  BY DEF TypeOK, TreeType, Replica, Other
<1>n. /\ tree[current][p] \in Node /\ tree[o][p] \in Node
      /\ tree[current][p].mtime \in Nat /\ tree[o][p].mtime \in Nat
  BY <1>r, NodeFields
<1>1. /\ v[1] = "NONE" /\ tree[current][p].instr # "NONE" =>
            tree[current][p].mtime <= tree[o][p].mtime /\ tree[o][p].instr # "ABSENT"
      /\ v[2] = "NONE" /\ tree[o][p].instr # "NONE" =>
            tree[o][p].mtime <= tree[current][p].mtime
              /\ tree[current][p].instr # "ABSENT"
  BY <1>n, VisitTimes DEF TypeOK
<1>2. tree' = [tree EXCEPT ![current][p].instr = v[1], ![o][p].instr = v[2]]
  BY DEF ReconcilePath
<1> HIDE DEF v
<1>3. /\ tree'[current][p] = [tree[current][p] EXCEPT !.instr = v[1]]
      /\ tree'[o][p] = [tree[o][p] EXCEPT !.instr = v[2]]
      /\ \A r \in Replica, q \in Path \ {p} : tree'[r][q] = tree[r][q]
  BY <1>2, <1>r DEF TreeType
<1>4. /\ tree'[current][p].instr = v[1] /\ tree'[o][p].instr = v[2]
      /\ tree'[current][p].mtime = tree[current][p].mtime
      /\ tree'[o][p].mtime = tree[o][p].mtime
  BY <1>3, <1>n DEF Node
<1>5. \A r \in Replica, q \in Path : tree'[r][q].mtime = tree[r][q].mtime
  BY <1>3, <1>4, <1>r
<1> HIDE DEF o
<1>6. ASSUME NEW r \in Replica, tree'[r][p].instr = "NONE", tree[r][p].instr # "NONE"
      PROVE  /\ tree[r][p].mtime <= tree[Other(r)][p].mtime
             /\ tree[Other(r)][p].instr # "ABSENT"
  <2>1. CASE r = current
    BY <1>1, <1>4, <1>6, <2>1 DEF o
  <2>2. CASE r = o
    BY <1>1, <1>4, <1>6, <1>r, <2>2
  <2> QED BY <1>r, <2>1, <2>2
<1> QED BY <1>5, <1>6

(* A node is as it was, or with another instruction; or the file's; or     *)
(* there is none.                                                          *)
LEMMA InstrTimes ==
  ASSUME TreeType, NEW s \in Replica, NEW p \in Path, NEW k,
         tree' = [tree EXCEPT ![s][p].instr = k]
  PROVE  \A r \in Replica, q \in Path : tree'[r][q].mtime = tree[r][q].mtime
BY DEF TreeType, Node

(* A node or a row has the time of a file, of a node or of a row.          *)
LEMMA NodeTimes ==
  ASSUME TypeOK, [Next]_vars
  PROVE  \A r \in Replica, p \in Path :
            \/ tree'[r][p].mtime \in {tree[r][p].mtime, 0}
            \/ There(r, p) /\ tree'[r][p].mtime = disk[r][p].mtime
<1>t. TreeType /\ current \in Replica /\ "local" \in Replica
  BY DEF TypeOK, TreeType, Replica
<1>e. ASSUME tree' = EmptyTrees
      PROVE  \A r \in Replica, p \in Path : tree'[r][p].mtime = 0
  BY <1>e DEF EmptyTrees, Absent
<1>1. CASE tree' = tree
  BY <1>1
<1>2. CASE tree' = EmptyTrees
  BY <1>2, <1>e
<1>3. ASSUME NEW p \in Path, DetectUpdate(p)
      PROVE  \A r \in Replica, q \in Path :
               \/ tree'[r][q].mtime = tree[r][q].mtime
               \/ There(r, q) /\ tree'[r][q].mtime = disk[r][q].mtime
  <2>1. CASE There(current, p)
    <3>1. \E i, n : tree' = [tree EXCEPT ![current][p] =
                         [instr |-> i, mtime |-> disk[current][p].mtime, inode |-> n]]
      BY <1>3, <2>1 DEF DetectUpdate
    <3>2. /\ tree'[current][p].mtime = disk[current][p].mtime
          /\ \A r \in Replica, q \in Path : r # current \/ q # p =>
                tree'[r][q] = tree[r][q]
      BY <3>1, <1>t DEF TreeType
    <3> QED BY <2>1, <3>2
  <2>2. CASE ~There(current, p)
    BY <1>3, <2>2 DEF DetectUpdate
  <2> QED BY <2>1, <2>2
<1>4. ASSUME NEW p \in Path, ReconcilePath(p)
      PROVE  \A r \in Replica, q \in Path : tree'[r][q].mtime = tree[r][q].mtime
  BY <1>4, ReconcileTimes
<1>5. ASSUME NEW p \in Path, Pushes(p) \/ BackUp(p) \/ RemoveFile(p),
             tree' # EmptyTrees
      PROVE  \A r \in Replica, q \in Path : tree'[r][q].mtime = tree[r][q].mtime
  <2>1. ~EndRun
    BY <1>5 DEF EndRun
  <2>2. \E k : tree' = [tree EXCEPT ![current][p].instr = k]
    BY <1>5, <2>1, PropagatesOn DEF PushOver, RemovalOver, BackedUp
  <2> QED BY <1>t, <2>2, InstrTimes
<1>6. ASSUME NEW p \in Path, MergePath(p), tree' # EmptyTrees
      PROVE  \A r \in Replica, q \in Path :
               \/ tree'[r][q].mtime = tree[r][q].mtime
               \/ There(r, q) /\ tree'[r][q].mtime = disk[r][q].mtime
  <2>1. There("local", p) /\ \E i, n : tree' = [tree EXCEPT !["local"][p] =
             [instr |-> i, mtime |-> disk["local"][p].mtime, inode |-> n]]
    BY <1>6 DEF MergePath, EndRun
  <2>2. /\ tree'["local"][p].mtime = disk["local"][p].mtime
        /\ \A r \in Replica, q \in Path : r # "local" \/ q # p =>
              tree'[r][q] = tree[r][q]
    BY <2>1, <1>t DEF TreeType
  <2> QED BY <2>1, <2>2
<1>7. CASE StartRun \/ WriteJournal \/ Crash
  BY <1>7, <1>2 DEF StartRun, WriteJournal, Crash, EndRun
<1>8. CASE User \/ NextWalk \/ (\E p \in Path : SkipUnreadable(p)) \/ UNCHANGED vars
  BY <1>8, <1>1, UserKeeps DEF NextWalk, SkipUnreadable, vars
<1> QED BY <1>1, <1>2, <1>3, <1>4, <1>5, <1>6, <1>7, <1>8
        DEF Next, Program, VisitPath, Pushes

(* The rows of the journal are those it had, or the nodes written.         *)
LEMMA RowsStep ==
  ASSUME TypeOK, [Next]_vars
  PROVE  \/ UNCHANGED <<journal, exists>>
         \/ WriteJournal /\ \A p \in Path :
              Recorded(p)' => /\ Written(tree["local"][p])
                              /\ journal'[p].mtime = tree["local"][p].mtime
                              /\ journal'[p].inode = tree["local"][p].inode
<1>1. CASE WriteJournal
  BY <1>1 DEF WriteJournal, Recorded, dbVars
<1>2. CASE ~WriteJournal
  <2>1. CASE User \/ UNCHANGED vars
    BY <2>1, UserKeeps DEF vars
  <2>2. ASSUME NEW p \in Path, VisitPath(p)
        PROVE  UNCHANGED <<journal, exists>>
    BY <2>2, PropagatesOn DEF VisitPath, Pushes, DetectUpdate, SkipUnreadable,
            ReconcilePath, MergePath, dbVars
  <2>3. CASE StartRun \/ NextWalk \/ Crash
    BY <2>3 DEF StartRun, NextWalk, Crash, dbVars
  <2> QED BY <1>2, <2>1, <2>2, <2>3 DEF Next, Program
<1> QED BY <1>1, <1>2

(* The clock of the machines does not go back.                             *)
LEMMA Clock ==
  ASSUME [Next]_vars, TypeOK
  PROVE  now' \in {now, now + 1}
<1>1. CASE User
  BY <1>1 DEF User, UserWrites, UserDeletes, UserRenames, UserLinks, WriteTimes
<1>2. ASSUME NEW p \in Path, Pushes(p) \/ BackUp(p) \/ RemoveFile(p)
      PROVE  now' \in {now, now + 1}
  BY <1>2, PushDisk DEF Untouched, Removed, BackUp, RemoveFile
<1> QED BY <1>1, <1>2, OthersKeepDisk DEF Next, Program, VisitPath, Pushes, vars

(* No step makes a file, a node or a row of the future.                    *)
LEMMA TimelyStep ==
  ASSUME Orderly, TypeOK, Timely, Observed, [Next]_vars
  PROVE  Timely'
<1>1. now \in Nat /\ now' \in {now, now + 1}
  BY Clock DEF TypeOK
<1>2. ASSUME NEW r \in Replica, NEW p \in Path, There(r, p)'
      PROVE  disk'[r][p].mtime <= now'
  <2>1. CASE Freshest(r, p)
    BY <2>1, <1>1 DEF Freshest
  <2>2. CASE Inherited(r, p)
    <3>1. PICK s \in Replica, q \in Path :
             There(s, q) /\ disk'[r][p].mtime = disk[s][q].mtime
      BY <1>2, <2>2 DEF Inherited
    <3>2. disk[s][q].mtime <= now /\ disk[s][q].mtime \in Nat
      BY <3>1, ThereIsFile DEF Timely, TypeOK, DiskType
    <3> QED BY <1>1, <3>1, <3>2
  <2> QED BY <2>1, <2>2, StepFiles
<1>3. ASSUME NEW r \in Replica, NEW p \in Path
      PROVE  tree'[r][p].mtime <= now'
  <2>1. tree[r][p].mtime \in Nat /\ tree[r][p].mtime <= now
    BY NodeFields DEF TypeOK, TreeType, Timely
  <2>2. There(r, p) => disk[r][p].mtime \in Nat /\ disk[r][p].mtime <= now
    BY ThereIsFile DEF TypeOK, DiskType, Timely
  <2> QED BY <1>1, <2>1, <2>2, NodeTimes
<1>4. ASSUME NEW p \in Path, Recorded(p)'
      PROVE  journal'[p].mtime <= now'
  <2>1. CASE UNCHANGED <<journal, exists>>
    <3>1. Recorded(p) /\ journal[p] \in Record
      BY <1>4, <2>1 DEF Recorded, TypeOK
    <3>2. journal[p].mtime \in Nat /\ journal[p].mtime <= now
      BY <3>1 DEF Timely, Record
    <3> QED BY <1>1, <2>1, <3>2
  <2>2. CASE journal'[p].mtime = tree["local"][p].mtime
    <3>1. "local" \in Replica
      BY DEF Replica
    <3>2. tree["local"][p].mtime \in Nat /\ tree["local"][p].mtime <= now
      BY <3>1, NodeFields DEF TypeOK, TreeType, Timely
    <3> QED BY <1>1, <2>2, <3>2
  <2> QED BY <1>4, <2>1, <2>2, RowsStep
<1> QED BY <1>2, <1>3, <1>4 DEF Timely

(* A step of the program at one path, or of its walks.                     *)
LEMMA RestingStep ==
  ASSUME Resting, [Next]_vars
  PROVE  Resting'
<1>1. CASE User \/ UNCHANGED vars
  BY <1>1, UserKeeps DEF Resting, vars
<1>2. CASE StartRun \/ NextWalk
  BY <1>2 DEF StartRun, NextWalk, StartWalk, Resting
<1>3. ASSUME NEW p \in Path,
             DetectUpdate(p) \/ SkipUnreadable(p) \/ ReconcilePath(p)
      PROVE  Resting'
  BY <1>3 DEF DetectUpdate, SkipUnreadable, ReconcilePath, Resting
<1>4. ASSUME NEW p \in Path, Pushes(p) \/ BackUp(p) \/ RemoveFile(p)
      PROVE  Resting'
  BY <1>4, PropagatesOn DEF EndRun, Resting
<1>5. ASSUME NEW p \in Path, MergePath(p) PROVE Resting'
  BY <1>5 DEF MergePath, EndRun, Resting
<1>6. CASE WriteJournal \/ Crash
  BY <1>6 DEF WriteJournal, Crash, EndRun, Resting
<1> QED BY <1>1, <1>2, <1>3, <1>4, <1>5, <1>6
        DEF Next, Program, VisitPath, Pushes

(* Users who leave a run alone act only when there is none.                *)
LEMMA UserRests ==
  ASSUME Orderly, User
  PROVE  step = "idle"
BY DEF Orderly, User, UserWrites, UserDeletes, UserRenames, UserLinks, UserMayAct

(* Propagating one path, the run acts on one node of it: the other is not  *)
(* acted upon.                                                             *)
LEMMA ActsOnce ==
  ASSUME TypeOK, WalkInv, Pending, step = "propagate", NEW p \in Path,
         tree[current][p].instr \in Acting \/ pushing = {p}
  PROVE  tree[Dest][p].instr \notin Acting
<1>1. CASE pushing = {p}
  BY <1>1 DEF Pending
<1>2. CASE tree[current][p].instr \in Acting
  BY <1>2 DEF WalkInv, Settled, iL, iR, Dest, Other, TypeOK, Replica
<1> QED BY <1>1, <1>2

(* The nodes after a step of the propagator.                               *)
LEMMA PropagatesNodes ==
  ASSUME TypeOK, NEW p \in Path, Pushes(p) \/ BackUp(p) \/ RemoveFile(p), ~EndRun
  PROVE  /\ UNCHANGED <<step, current>> /\ step = "propagate"
         /\ tree'[current][p].instr \in {"UPDATED", "ERROR", "NONE", "DELETED"}
         /\ tree'[current][p].mtime = tree[current][p].mtime
         /\ \A r \in Replica, q \in Path :
               r # current \/ q # p => tree'[r][q] = tree[r][q]
         /\ tree[current][p].instr \in Acting \/ pushing = {p}
         /\ \/ todo' = todo \ {p} /\ pushing' = {}
            \/ /\ todo' = todo /\ pushing' = {p}
               /\ tree[current][p].instr = "CONFLICT"
               /\ tree'[current][p].instr \in {"NONE", "ERROR"}
         /\ tree'[current][p].instr = "UPDATED" => Same(p)'
         /\ tree'[current][p].instr = "NONE" =>
               Same(p)' \/ (tree[current][p].instr = "REMOVE" /\ disk' = disk)
<1>t. TreeType /\ current \in Replica
  BY DEF TypeOK, TreeType
<1>1. /\ step = "propagate" /\ UNCHANGED <<step, current>>
      /\ \/ PushOver(p, "UPDATED") \/ PushOver(p, "ERROR")
         \/ RemovalOver(p, "NONE") \/ RemovalOver(p, "DELETED")
         \/ BackedUp(p, "NONE") \/ BackedUp(p, "ERROR")
  BY PropagatesOn
<1>2. PICK k \in {"UPDATED", "ERROR", "NONE", "DELETED"} :
         \/ k \in {"UPDATED", "ERROR"} /\ PushOver(p, k)
         \/ k \in {"NONE", "DELETED"} /\ RemovalOver(p, k)
         \/ k \in {"NONE", "ERROR"} /\ BackedUp(p, k)
  BY <1>1
<1>3. tree' = [tree EXCEPT ![current][p].instr = k]
  BY <1>2 DEF PushOver, RemovalOver, BackedUp
<1>4. /\ tree'[current][p].instr = k
      /\ \A r \in Replica, q \in Path :
               r # current \/ q # p => tree'[r][q] = tree[r][q]
  BY <1>t, <1>3 DEF TreeType, Node
<1>m. tree'[current][p].mtime = tree[current][p].mtime
  BY <1>t, <1>3, InstrTimes
<1>5. tree[current][p].instr \in Acting \/ pushing = {p}
  BY <1>2 DEF PushOver, RemovalOver, BackedUp, Acting, Pushing
<1>6. \/ todo' = todo \ {p} /\ pushing' = {}
      \/ /\ todo' = todo /\ pushing' = {p} /\ k \in {"NONE", "ERROR"}
         /\ tree[current][p].instr = "CONFLICT"
  BY <1>2 DEF PushOver, RemovalOver, BackedUp
<1>7. k = "UPDATED" => Same(p)'
  BY <1>2, DeliveredSame DEF PushOver, RemovalOver, BackedUp
<1>8. k = "NONE" => Same(p)' \/ (tree[current][p].instr = "REMOVE" /\ disk' = disk)
  <2>1. Dest \in Replica
    BY OtherReplica DEF TypeOK, Dest
  <2>2. BackedUp(p, "NONE") => Same(p)'
    BY <2>1, RemovedSame DEF BackedUp, Removed
  <2>3. k = "NONE" => RemovalOver(p, "NONE") \/ BackedUp(p, "NONE")
    BY <1>2
  <2> QED BY <2>2, <2>3 DEF RemovalOver
<1> QED BY <1>1, <1>4, <1>m, <1>5, <1>6, <1>7, <1>8

(* The file a push or a backup is about stays where it is.                 *)
LEMMA SourceStays ==
  ASSUME TypeOK, NEW p \in Path, BackUp(p)
  PROVE  disk'[current][p] = disk[current][p]
<1>1. /\ DiskType /\ current \in Replica /\ Dest \in Replica /\ current # Dest
  BY DEF TypeOK, DiskType, Dest, Replica, Other
<1> QED BY <1>1 DEF BackUp, Put, DiskType

(* A node stays true of the disk until it is propagated: users who leave   *)
(* a run alone change nothing, and a visit changes its own path only.      *)
LEMMA ObservedStep ==
  ASSUME Orderly, TypeOK, WalkInv, Pending, Observed, [Next]_vars
  PROVE  Observed'
<1>t. TreeType /\ current \in Replica
  BY DEF TypeOK, TreeType
<1>i. ASSUME step' \in {"idle", "merge"} PROVE Observed'
  BY <1>i DEF Observed
<1>1. CASE UNCHANGED vars
  BY <1>1 DEF vars, Observed, Matches, There
<1>2. CASE User
  BY <1>2, <1>i, UserRests, UserKeeps
<1>3. CASE StartRun
  <2>1. step' = "update" /\ \A r \in Replica, p \in Path : tree'[r][p].instr = "ABSENT"
    BY <1>3 DEF StartRun, EmptyTrees, Absent
  <2> QED BY <2>1 DEF Observed
<1>4. CASE NextWalk
  <2>1. pushing = {} /\ UNCHANGED <<disk, tree, pushing>>
    BY <1>4 DEF NextWalk
  <2>2. \A r \in Replica, p \in Path : Matches(r, p)' <=> Matches(r, p)
    BY <2>1 DEF Matches, There
  <2>3. CASE step' \in {"update", "reconcile"}
    <3>1. step \in {"update", "reconcile"}
      BY <1>4, <2>3 DEF NextWalk, StartWalk
    <3> QED BY <2>1, <2>2, <2>3, <3>1 DEF Observed
  <2>4. CASE step' = "propagate"
    <3>1. step \in {"reconcile", "propagate"}
      BY <1>4, <2>4 DEF NextWalk, StartWalk
    <3>2. \A r \in Replica, p \in Path :
             tree[r][p].instr \in Pushing => Matches(r, p)
      BY <3>1 DEF Observed, Pushing
    <3> QED BY <2>1, <2>2, <2>4, <3>2 DEF Observed
  <2> QED BY <1>4, <1>i, <2>3, <2>4 DEF NextWalk, StartWalk
<1>5. ASSUME NEW p \in Path, DetectUpdate(p) PROVE Observed'
  <2>1. step = "update" /\ UNCHANGED <<disk, step>>
    BY <1>5 DEF DetectUpdate
  <2>2. ASSUME NEW r \in Replica, NEW q \in Path, tree'[r][q].instr # "ABSENT"
        PROVE  There(r, q) /\ tree'[r][q].mtime = disk[r][q].mtime
    <3>1. CASE tree'[r][q] = tree[r][q]
      BY <2>1, <2>2, <3>1 DEF Observed, Matches
    <3>2. CASE There(current, p)
      <4>1. \E i, n : tree' = [tree EXCEPT ![current][p] =
                         [instr |-> i, mtime |-> disk[current][p].mtime, inode |-> n]]
        BY <1>5, <3>2 DEF DetectUpdate
      <4>2. \/ tree'[r][q] = tree[r][q]
            \/ r = current /\ q = p /\ tree'[r][q].mtime = disk[current][p].mtime
        BY <4>1, <1>t DEF TreeType
      <4> QED BY <3>1, <3>2, <4>2
    <3> QED BY <1>5, <3>1, <3>2 DEF DetectUpdate
  <2> QED BY <2>1, <2>2 DEF Observed, Matches, There
<1>6. ASSUME NEW p \in Path, SkipUnreadable(p) PROVE Observed'
  BY <1>6 DEF SkipUnreadable, Observed, Matches, There
<1>7. ASSUME NEW p \in Path, ReconcilePath(p) PROVE Observed'
  <2>1. step = "reconcile" /\ UNCHANGED <<disk, step>>
    BY <1>7 DEF ReconcilePath
  <2>2. \A r \in Replica, q \in Path :
           /\ tree'[r][q].mtime = tree[r][q].mtime
           /\ tree'[r][q].instr # "ABSENT" => tree[r][q].instr # "ABSENT"
    <3>1. \A r \in Replica : r = current \/ r = Other(current)
      BY <1>t DEF Replica, Other
    <3> QED BY <1>7, <3>1, ReconcileTimes, VisitStep DEF Decided, Alone
  <2> QED BY <2>1, <2>2 DEF Observed, Matches, There
<1>8. ASSUME NEW p \in Path, Pushes(p) \/ BackUp(p) \/ RemoveFile(p)
      PROVE  Observed'
  <2>1. CASE EndRun
    BY <1>i, <2>1 DEF EndRun
  <2>2. CASE ~EndRun
    <3>1. /\ UNCHANGED <<step, current>> /\ step = "propagate"
          /\ tree'[current][p].instr \in {"UPDATED", "ERROR", "NONE", "DELETED"}
          /\ tree'[current][p].mtime = tree[current][p].mtime
          /\ \A r \in Replica, q \in Path :
                r # current \/ q # p => tree'[r][q] = tree[r][q]
          /\ tree[current][p].instr \in Acting \/ pushing = {p}
          /\ \/ todo' = todo \ {p} /\ pushing' = {}
             \/ /\ todo' = todo /\ pushing' = {p}
                /\ tree[current][p].instr = "CONFLICT"
      BY <1>8, <2>2, PropagatesNodes
    <3>2. tree[Dest][p].instr \notin Acting /\ Dest # current
          /\ Replica = {current, Dest}
      BY <3>1, <1>t, ActsOnce DEF Dest, Replica, Other
    <3>3. \A r \in Replica, q \in Path \ {p} : disk'[r][q] = disk[r][q]
      BY <1>8, PropagatesSame
    <3>4. ASSUME NEW r \in Replica, NEW q \in Path,
                 tree'[r][q].instr \in Pushing \/ (q \in pushing' /\ r = current)
          PROVE  There(r, q)' /\ tree'[r][q].mtime = disk'[r][q].mtime
      <4>1. CASE q # p
        <5>1. tree[r][q].instr \in Pushing
          BY <3>1, <3>4, <4>1
        <5> QED BY <3>1, <3>3, <4>1, <5>1 DEF Observed, Matches, There
      <4>2. CASE q = p /\ r = Dest
        BY <3>1, <3>2, <3>4, <4>2 DEF Acting
      <4>3. CASE q = p /\ r = current
        <5>1. pushing' = {p}
          BY <3>1, <3>4, <4>3 DEF Pushing
        <5>2. tree[current][p].instr = "CONFLICT"
          BY <3>1, <5>1
        <5>3. BackUp(p)
          BY <1>8, <5>1, <2>2 DEF Pushes, PushSucceeds, PushFailsToOpen, PushFails,
             PushFailsLate, PushEndsRun, PushEnds, RemoveFile
        <5> QED BY <1>t, <3>1, <4>3, <5>2, <5>3, SourceStays
                DEF Observed, Matches, There, Pushing
      <4> QED BY <3>2, <4>1, <4>2, <4>3
    <3> QED BY <3>1, <3>4 DEF Observed, Matches
  <2> QED BY <2>1, <2>2
<1>9. CASE (\E p \in Path : MergePath(p)) \/ WriteJournal \/ Crash
  BY <1>9, <1>i, CommitStep
<1> QED BY <1>1, <1>2, <1>3, <1>4, <1>5, <1>6, <1>7, <1>8, <1>9
        DEF Next, Program, VisitPath, Pushes

(* Every step keeps the books of the propagation walks:                    *)
(* csync_propagate_files visits each node of an acting instruction once.   *)
LEMMA PendingStep ==
  ASSUME TypeOK, WalkInv, Resting, Pending, [Next]_vars
  PROVE  Pending'
<1>t. /\ TreeType /\ current \in Replica /\ Replica = {"local", "remote"}
  BY DEF TypeOK, TreeType, Replica
<1>1. CASE User \/ UNCHANGED vars
  BY <1>1, UserKeeps DEF vars, Pending, iL, iR, Dest
<1>2. CASE StartRun
  BY <1>2 DEF StartRun, Pending, Resting
<1>3. CASE NextWalk
  <2>1. todo = {} /\ pushing = {} /\ UNCHANGED <<tree, pushing>>
    BY <1>3 DEF NextWalk
  <2>2. CASE step' \in {"update", "reconcile"}
    BY <2>1, <2>2 DEF Pending
  <2>3. CASE step = "reconcile" /\ current = "remote"
    BY <1>3, <2>1, <2>3 DEF NextWalk, StartWalk, Pending, iL, iR
  <2>4. CASE step = "propagate" /\ current = "local"
    BY <1>3, <2>1, <2>4 DEF NextWalk, StartWalk, Pending, iL, iR
  <2>5. CASE step = "propagate" /\ current = "remote"
    BY <1>3, <2>1, <2>5 DEF NextWalk, StartWalk, Pending, iL, iR
  <2> QED BY <1>3, <2>2, <2>3, <2>4, <2>5 DEF NextWalk, StartWalk
<1>4. ASSUME NEW p \in Path,
             DetectUpdate(p) \/ SkipUnreadable(p) \/ ReconcilePath(p)
      PROVE  Pending'
  <2>1. step \in {"update", "reconcile"} /\ UNCHANGED <<step, pushing>>
    BY <1>4 DEF DetectUpdate, SkipUnreadable, ReconcilePath
  <2> QED BY <2>1 DEF Pending
<1>5. ASSUME NEW p \in Path, Pushes(p) \/ BackUp(p) \/ RemoveFile(p)
      PROVE  Pending'
  <2>1. CASE EndRun
    BY <2>1 DEF EndRun, Pending
  <2>2. CASE ~EndRun
    <3>1. /\ UNCHANGED <<step, current>> /\ step = "propagate"
          /\ tree'[current][p].instr \in {"UPDATED", "ERROR", "NONE", "DELETED"}
          /\ \A r \in Replica, q \in Path :
                r # current \/ q # p => tree'[r][q] = tree[r][q]
          /\ tree[current][p].instr \in Acting \/ pushing = {p}
          /\ \/ todo' = todo \ {p} /\ pushing' = {}
             \/ /\ todo' = todo /\ pushing' = {p}
                /\ tree'[current][p].instr \in {"NONE", "ERROR"}
      BY <1>5, <2>2, PropagatesNodes
    <3>2. tree[Dest][p].instr \notin Acting /\ Dest # current /\ Dest \in Replica
      BY <3>1, <1>t, ActsOnce DEF Dest, Other
    <3>3. tree'[current][p].instr \notin Acting /\ tree'[Dest][p] = tree[Dest][p]
      BY <3>1, <3>2 DEF Acting, Pushing
    <3>4. CASE current = "local"
      BY <1>t, <3>1, <3>2, <3>3, <3>4 DEF Pending, iL, iR, Dest
    <3>5. CASE current = "remote"
      BY <1>t, <3>1, <3>2, <3>3, <3>5 DEF Pending, iL, iR, Dest
    <3> QED BY <1>t, <3>4, <3>5
  <2> QED BY <2>1, <2>2
<1>6. ASSUME NEW p \in Path, MergePath(p) PROVE Pending'
  <2>1. CASE EndRun
    BY <2>1 DEF EndRun, Pending
  <2>2. CASE ~EndRun
    <3>1. /\ step = "merge" /\ UNCHANGED <<step, pushing>>
          /\ \E m, i : tree' = [tree EXCEPT !["local"][p] =
                                  [instr |-> "NONE", mtime |-> m, inode |-> i]]
      BY <1>6, <2>2 DEF MergePath
    <3>2. /\ tree'["local"][p].instr = "NONE"
          /\ \A r \in Replica, q \in Path : r # "local" \/ q # p =>
                tree'[r][q] = tree[r][q]
      BY <3>1, <1>t DEF TreeType
    <3>3. todo' \subseteq todo
      BY <1>6, <2>2 DEF MergePath
    <3> QED BY <1>t, <3>1, <3>2, <3>3 DEF Pending, iL, iR, Acting, Pushing
  <2> QED BY <2>1, <2>2
<1>7. CASE WriteJournal \/ Crash
  BY <1>7 DEF WriteJournal, Crash, EndRun, Pending
<1> QED BY <1>1, <1>2, <1>3, <1>4, <1>5, <1>6, <1>7
        DEF Next, Program, VisitPath, Pushes

(* Two files not newer than the journal's row are equal; so are two files  *)
(* not newer than the local node that the next journal is written from,    *)
(* and the files of a path that was pushed to the local replica.           *)
OldRow(p) ==
    Recorded(p) /\ Both(p)
      /\ (\A r \in Replica : disk[r][p].mtime <= journal[p].mtime) => Same(p)
NextRow(p) ==
    iL(p) \in {"NONE", "REMOVE", "UPDATED"} /\ Both(p)
      /\ (\A r \in Replica : disk[r][p].mtime <= tree["local"][p].mtime)
         => Same(p)
Merged(p) == iR(p) = "UPDATED" => Same(p)
Rows == \A p \in Path : OldRow(p) /\ NextRow(p) /\ Merged(p)

(* A file at a path of the journal is as it was before the user's step, or *)
(* newer than all: a user renames no file onto such a path.                *)
LEMMA UserPath ==
  ASSUME Orderly, TypeOK, User, NEW r \in Replica, NEW u \in Path, Recorded(u),
         disk'[r][u] # NoFile
  PROVE  \/ disk'[r][u].mtime = now + 1
         \/ /\ There(r, u)
            /\ disk'[r][u].mtime = disk[r][u].mtime
            /\ disk'[r][u].data = disk[r][u].data
<1>t. DiskType /\ Replica = {"local", "remote"}
  BY DEF TypeOK, DiskType, Replica
<1>1. ASSUME NEW s \in Replica, NEW q \in Path, UserWrites(s, q)
      PROVE  disk'[r][u].mtime = now + 1 \/ disk'[r][u] = disk[r][u]
  <2>1. PICK t \in WriteTimes :
           IF There(s, q)
           THEN Put(s, q, [disk[s][q] EXCEPT !.data = writes + 1, !.mtime = t])
           ELSE \E i \in FreeInodes(s) :
                  Put(s, q, [data |-> writes + 1, mtime |-> t, inode |-> i,
                             linked |-> FALSE])
    BY <1>1 DEF UserWrites
  <2>2. t = now + 1
    BY DEF WriteTimes, Orderly
  <2>3. \E f : disk' = [disk EXCEPT ![s][q] = f] /\ f.mtime = t
    <3>1. CASE There(s, q)
      <4> DEFINE f == [disk[s][q] EXCEPT !.data = writes + 1, !.mtime = t]
      <4>1. f.mtime = t
        BY <1>t, <3>1, ThereIsFile DEF File
      <4> QED BY <2>1, <3>1, <4>1 DEF Put
    <3>2. CASE ~There(s, q)
      BY <2>1, <3>2 DEF Put
    <3> QED BY <3>1, <3>2
  <2> QED BY <2>2, <2>3, <1>t DEF DiskType
<1>2. ASSUME NEW s \in Replica, NEW q \in Path, UserDeletes(s, q)
      PROVE  disk'[r][u] = disk[r][u]
  BY <1>2, <1>t DEF UserDeletes, Put, DiskType
<1>3. ASSUME NEW p \in Path, NEW q \in Path, UserRenames(p, q)
      PROVE  disk'[r][u] = disk[r][u]
  <2>1. /\ q # u
        /\ disk' = [disk EXCEPT !["local"] =
                      [@ EXCEPT ![q] = disk["local"][p], ![p] = NoFile]]
    BY <1>3 DEF UserRenames, Orderly
  <2>2. r = "remote" \/ p # u
    BY <2>1, <1>t DEF DiskType
  <2> QED BY <2>1, <2>2, <1>t DEF DiskType
<1>4. ASSUME NEW q \in Path, UserLinks(q)
      PROVE  /\ There(r, u)
             /\ disk'[r][u].mtime = disk[r][u].mtime
             /\ disk'[r][u].data = disk[r][u].data
  <2>1. There("local", q) /\ disk' = [disk EXCEPT !["local"][q].linked = ~@]
    BY <1>4 DEF UserLinks
  <2>2. /\ disk["local"][q] \in File /\ "local" \in Replica
        /\ disk'["local"][q] = [disk["local"][q] EXCEPT !.linked = ~@]
        /\ r # "local" \/ u # q => disk'[r][u] = disk[r][u]
    BY <2>1, <1>t, ThereIsFile DEF DiskType
  <2>3. /\ disk'["local"][q].mtime = disk["local"][q].mtime
        /\ disk'["local"][q].data = disk["local"][q].data
    BY <2>2 DEF File
  <2> QED BY <2>1, <2>2, <2>3 DEF There
<1> QED BY <1>1, <1>2, <1>3, <1>4 DEF User, There

(* The local node of a path: where its instruction and time come from.     *)
LEMMA DetectNone ==
  ASSUME TypeOK, NEW p \in Path, DetectUpdate(p), NEW r \in Replica,
         NEW q \in Path
  PROVE  \/ tree'[r][q] = tree[r][q]
         \/ /\ tree'[r][q].instr \notin {"REMOVE", "UPDATED"}
            /\ tree'[r][q].instr = "NONE" =>
                 Recorded(q) /\ tree'[r][q].mtime <= journal[q].mtime
<1> DEFINE f == disk[current][p]
<1> DEFINE n == [instr |-> Detect(current, p, f), mtime |-> f.mtime,
                 inode |-> f.inode]
<1>1. /\ n.instr \notin {"REMOVE", "UPDATED"}
      /\ n.instr = "NONE" => Recorded(p) /\ ~(f.mtime > journal[p].mtime)
  <2>1. n.instr = Detect(current, p, f)
    OBVIOUS
  <2> QED BY <2>1 DEF Detect, FoundByHash
<1>2. There(current, p) /\ Recorded(p) =>
         f.mtime \in Nat /\ journal[p].mtime \in Nat /\ n.mtime = f.mtime
  BY ThereIsFile DEF TypeOK, DiskType, Recorded, Record
<1>3. tree' = tree \/ (There(current, p) /\ tree' = [tree EXCEPT ![current][p] = n])
  BY DEF DetectUpdate
<1>4. There(current, p) /\ n.instr = "NONE" =>
         Recorded(p) /\ n.mtime <= journal[p].mtime
  BY <1>1, <1>2
<1> HIDE DEF n
<1>5. \/ tree'[r][q] = tree[r][q]
      \/ There(current, p) /\ q = p /\ tree'[r][q] = n
  BY <1>3 DEF TypeOK
<1> QED BY <1>1, <1>4, <1>5

(* A visit leaves a pair of nodes unchanged or without an instruction      *)
(* only if it found them so, or if neither file is newer.                  *)
LEMMA VisitNone ==
  ASSUME TypeOK, Stamped, Observed, NEW p \in Path, ReconcilePath(p),
         iL(p)' \in {"NONE", "REMOVE", "UPDATED"},
         iL(p) \notin {"NONE", "REMOVE", "UPDATED"},
         Both(p), \A r \in Replica : disk[r][p].mtime <= tree["local"][p].mtime
  PROVE  Same(p)
<1>t. /\ TreeType /\ DiskType /\ Replica = {"local", "remote"}
      /\ current \in Replica /\ step = "reconcile"
  BY DEF TypeOK, TreeType, DiskType, Replica, ReconcilePath
<1>1. \/ Decided(iL(p), iR(p), iL(p)', iR(p)')
      \/ Decided(iR(p), iL(p), iR(p)', iL(p)')
  BY <1>t, VisitStep DEF iL, iR, Other
<1>2. iL(p)' = "NONE" /\ iL(p) # "ABSENT"
  BY <1>1 DEF Decided, Alone
<1>3. iR(p) # "ABSENT" /\ tree["local"][p].mtime <= tree["remote"][p].mtime
  <2>1. Other("local") = "remote" /\ "local" \in Replica
    BY DEF Other, Replica
  <2>2. tree'["local"][p].instr = "NONE" /\ tree["local"][p].instr # "NONE"
    BY <1>2 DEF iL
  <2> QED BY <2>1, <2>2, ReconcileTimes DEF iR
<1>4. Matches("local", p) /\ Matches("remote", p)
  BY <1>t, <1>2, <1>3 DEF Observed, iL, iR
<1>5. disk["local"][p].mtime \in Nat /\ disk["remote"][p].mtime \in Nat
  BY <1>t, ThereIsFile DEF Both
<1>6. disk["local"][p].mtime = disk["remote"][p].mtime
  BY <1>t, <1>3, <1>4, <1>5 DEF Matches
<1> QED BY <1>t, <1>6 DEF Stamped, Same, Both

(* Every step of a run keeps what the rows say: a row that is older than   *)
(* no file stands for equal files.                                         *)
LEMMA RowsInvStep ==
  ASSUME Orderly, TypeOK, Resting, Timely, Stamped, Observed, Pending, Rows,
         [Next]_vars
  PROVE  Rows'
<1>t. /\ TreeType /\ DiskType /\ Replica = {"local", "remote"}
      /\ current \in Replica
  BY DEF TypeOK, TreeType, DiskType, Replica
<1>a. ASSUME tree' = EmptyTrees, NEW u \in Path
      PROVE  iL(u)' = "ABSENT" /\ iR(u)' = "ABSENT"
  BY <1>a, <1>t DEF EmptyTrees, Absent, iL, iR
<1>d. ASSUME NEW u \in Path, \A r \in Replica : disk'[r][u] = disk[r][u]
      PROVE  /\ Same(u)' <=> Same(u)
             /\ Both(u)' <=> Both(u)
             /\ UNCHANGED <<journal, exists>> => (OldRow(u)' <=> OldRow(u))
             /\ tree'["local"][u] = tree["local"][u] => (NextRow(u)' <=> NextRow(u))
             /\ tree'["remote"][u] = tree["remote"][u] => (Merged(u)' <=> Merged(u))
  BY <1>d, <1>t DEF Same, Both, There, OldRow, NextRow, Merged, Recorded, iL, iR
<1>s. ASSUME NEW u \in Path, Same(u)'
      PROVE  OldRow(u)' /\ NextRow(u)' /\ Merged(u)'
  BY <1>s DEF OldRow, NextRow, Merged
<1>1. CASE UNCHANGED vars
  BY <1>1 DEF vars, Rows, OldRow, NextRow, Merged, Same, Both, There, Recorded,
              iL, iR
<1>2. CASE User
  <2>1. tree' = EmptyTrees /\ UNCHANGED <<journal, exists>>
    BY <1>2, UserRests, UserKeeps DEF Resting
  <2>2. ASSUME NEW u \in Path, Recorded(u)', Both(u)',
               \A r \in Replica : disk'[r][u].mtime <= journal'[u].mtime
        PROVE  Same(u)'
    <3>1. Recorded(u) /\ journal[u].mtime \in Nat /\ journal[u].mtime <= now
          /\ now \in Nat
      BY <2>1, <2>2 DEF Recorded, TypeOK, Timely, Record
    <3>2. \A r \in Replica : disk'[r][u].mtime # now + 1
      BY <2>1, <2>2, <3>1
    <3>3. \A r \in Replica : /\ There(r, u)
                             /\ disk'[r][u].mtime = disk[r][u].mtime
                             /\ disk'[r][u].data = disk[r][u].data
      BY <1>2, <1>t, <2>2, <3>1, <3>2, UserPath DEF Both, There
    <3> QED BY <1>t, <2>1, <2>2, <3>1, <3>3 DEF Rows, OldRow, Same, Both
  <2> QED BY <2>1, <2>2, <1>a DEF Rows, OldRow, NextRow, Merged
<1>3. CASE StartRun
  <2>1. tree' = EmptyTrees /\ UNCHANGED <<journal, exists, disk>>
    BY <1>3 DEF StartRun, dbVars
  <2> QED BY <2>1, <1>a, <1>d DEF Rows, NextRow, Merged
<1>4. CASE NextWalk \/ \E p \in Path : SkipUnreadable(p)
  <2>1. UNCHANGED <<journal, exists, disk, tree>>
    BY <1>4 DEF NextWalk, SkipUnreadable, dbVars
  <2> QED BY <2>1, <1>d DEF Rows
<1>5. ASSUME NEW p \in Path, DetectUpdate(p) PROVE Rows'
  <2>1. UNCHANGED <<journal, exists, disk>>
    BY <1>5 DEF DetectUpdate, dbVars
  <2>2. ASSUME NEW u \in Path
        PROVE  NextRow(u)'
    <3>1. CASE tree'["local"][u] = tree["local"][u]
      BY <2>1, <3>1, <1>d DEF Rows
    <3>2. CASE tree'["local"][u] # tree["local"][u]
      <4>1. /\ iL(u)' \notin {"REMOVE", "UPDATED"}
            /\ iL(u)' = "NONE" =>
                 Recorded(u) /\ tree'["local"][u].mtime <= journal[u].mtime
        BY <1>5, <1>t, <3>2, DetectNone DEF iL
      <4>2. SUFFICES ASSUME iL(u)' = "NONE", Both(u),
                            \A r \in Replica :
                               disk[r][u].mtime <= tree'["local"][u].mtime
                     PROVE  Same(u)
        BY <2>1, <4>1, <1>d DEF NextRow
      <4>3. \A r \in Replica : disk[r][u].mtime \in Nat
        BY <1>t, <4>2, ThereIsFile DEF Both
      <4>4. tree'["local"][u].mtime \in Nat /\ journal[u].mtime \in Nat
        <5>1. TreeType'
          BY <1>5, WalkType DEF TypeOK, TreeType
        <5>2. tree'["local"][u] \in Node
          BY <1>t, <5>1 DEF TreeType
        <5> QED BY <4>1, <4>2, <5>2 DEF Node, TypeOK, Recorded, Record
      <4>5. \A r \in Replica : disk[r][u].mtime <= journal[u].mtime
        BY <4>1, <4>2, <4>3, <4>4
      <4> QED BY <4>1, <4>2, <4>5 DEF Rows, OldRow
    <3> QED BY <3>1, <3>2
  <2>3. ASSUME NEW u \in Path
        PROVE  Merged(u)'
    <3>1. CASE tree'["remote"][u] = tree["remote"][u]
      BY <2>1, <3>1, <1>d DEF Rows
    <3>2. CASE tree'["remote"][u] # tree["remote"][u]
      BY <1>5, <1>t, <3>2, DetectNone DEF Merged, iR
    <3> QED BY <3>1, <3>2
  <2> QED BY <2>1, <2>2, <2>3, <1>d DEF Rows
<1>6. ASSUME NEW p \in Path, ReconcilePath(p) PROVE Rows'
  <2>1. UNCHANGED <<journal, exists, disk>>
    BY <1>6 DEF ReconcilePath, dbVars
  <2>2. \A u \in Path \ {p} : /\ tree'["local"][u] = tree["local"][u]
                              /\ tree'["remote"][u] = tree["remote"][u]
    BY <1>6, <1>t, VisitStep
  <2>3. NextRow(p)'
    <3>1. tree'["local"][p].mtime = tree["local"][p].mtime
      BY <1>6, <1>t, ReconcileTimes
    <3>2. CASE iL(p) \in {"NONE", "REMOVE", "UPDATED"}
      BY <2>1, <3>1, <3>2, <1>d DEF Rows, NextRow
    <3>3. CASE iL(p) \notin {"NONE", "REMOVE", "UPDATED"}
      BY <1>6, <2>1, <3>1, <3>3, <1>d, VisitNone DEF NextRow
    <3> QED BY <3>2, <3>3
  <2>4. Merged(p)'
    <3>1. \/ Decided(iL(p), iR(p), iL(p)', iR(p)')
          \/ Decided(iR(p), iL(p), iR(p)', iL(p)')
      BY <1>6, <1>t, VisitStep DEF iL, iR, Other
    <3>2. iR(p)' = "UPDATED" => iR(p) = "UPDATED"
      BY <3>1 DEF Decided, Alone
    <3> QED BY <2>1, <3>2, <1>d DEF Rows, Merged
  <2> QED BY <2>1, <2>2, <2>3, <2>4, <1>d DEF Rows
<1>7. ASSUME NEW p \in Path, Pushes(p) \/ BackUp(p) \/ RemoveFile(p)
      PROVE  Rows'
  <2>1. /\ UNCHANGED <<journal, exists>>
        /\ \A r \in Replica, q \in Path \ {p} : disk'[r][q] = disk[r][q]
        /\ disk' = disk \/ Same(p)'
    BY <1>7, PropagatesOn, PropagatesSame
  <2>2. \A u \in Path : OldRow(u)'
    BY <2>1, <1>d, <1>s DEF Rows
  <2>3. CASE EndRun
    BY <2>2, <2>3, <1>a DEF EndRun, Rows, NextRow, Merged
  <2>4. CASE ~EndRun
    <3>1. /\ tree'[current][p].instr \in {"UPDATED", "ERROR", "NONE", "DELETED"}
          /\ tree'[current][p].mtime = tree[current][p].mtime
          /\ \A r \in Replica, q \in Path :
               r # current \/ q # p => tree'[r][q] = tree[r][q]
          /\ tree'[current][p].instr = "UPDATED" => Same(p)'
          /\ tree'[current][p].instr = "NONE" =>
                Same(p)' \/ (tree[current][p].instr = "REMOVE" /\ disk' = disk)
      BY <1>7, <2>4, PropagatesNodes
    <3>2. \A u \in Path \ {p} : NextRow(u)' /\ Merged(u)'
      BY <1>t, <2>1, <3>1, <1>d DEF Rows
    <3>3. CASE Same(p)'
      BY <2>2, <3>2, <3>3, <1>s DEF Rows
    <3>4. CASE disk' = disk /\ ~Same(p)'
      <4>1. /\ iL(p)' \in {"NONE", "REMOVE", "UPDATED"} =>
                 iL(p) \in {"NONE", "REMOVE", "UPDATED"}
            /\ tree'["local"][p].mtime = tree["local"][p].mtime
            /\ iR(p)' = "UPDATED" => iR(p) = "UPDATED"
        BY <1>t, <3>1, <3>4 DEF iL, iR
      <4>2. NextRow(p)' /\ Merged(p)'
        BY <3>4, <4>1, <1>d DEF Rows, NextRow, Merged
      <4> QED BY <2>2, <3>2, <4>2 DEF Rows
    <3> QED BY <2>1, <3>3, <3>4
  <2> QED BY <2>3, <2>4
<1>8. ASSUME NEW p \in Path, MergePath(p) PROVE Rows'
  <2>1. UNCHANGED <<journal, exists, disk>>
    BY <1>8 DEF MergePath, dbVars
  <2>2. CASE EndRun
    BY <2>1, <2>2, <1>a, <1>d DEF EndRun, Rows, NextRow, Merged
  <2>3. CASE ~EndRun
    <3>1. \E m, i : tree' = [tree EXCEPT !["local"][p] =
                                [instr |-> "NONE", mtime |-> m, inode |-> i]]
      BY <1>8, <2>3 DEF MergePath
    <3>2. \A r \in Replica, q \in Path : r # "local" \/ q # p =>
              tree'[r][q] = tree[r][q]
      BY <3>1, <1>t DEF TreeType
    <3>3. Same(p)
      BY <1>8 DEF MergePath, Pending, Rows, Merged
    <3> QED BY <1>t, <2>1, <3>2, <3>3, <1>d, <1>s DEF Rows
  <2> QED BY <2>2, <2>3
<1>9. CASE WriteJournal \/ Crash
  <2>1. tree' = EmptyTrees /\ disk' = disk
    BY <1>9 DEF WriteJournal, Crash, EndRun
  <2>2. ASSUME NEW u \in Path PROVE OldRow(u)'
    <3>1. CASE UNCHANGED <<journal, exists>>
      BY <2>1, <3>1, <1>d DEF Rows
    <3>2. CASE WriteJournal /\ ~UNCHANGED <<journal, exists>>
      <4>1. Recorded(u)' => /\ Written(tree["local"][u])
                            /\ journal'[u].mtime = tree["local"][u].mtime
        BY <3>2, RowsStep DEF Next, Program
      <4>2. iL(u) \notin Acting
        BY <3>2 DEF WriteJournal, Pending
      <4>3. Recorded(u)' => iL(u) \in {"NONE", "UPDATED"}
        BY <4>1, <4>2 DEF Written, iL, Acting, Pushing
      <4> QED BY <2>1, <4>1, <4>3, <1>d DEF Rows, NextRow, OldRow
    <3> QED BY <1>9, <3>1, <3>2 DEF Crash, dbVars
  <2> QED BY <2>1, <2>2, <1>a DEF Rows, NextRow, Merged
<1> QED BY <1>1, <1>2, <1>3, <1>4, <1>5, <1>6, <1>7, <1>8, <1>9
        DEF Next, Program, VisitPath, Pushes

RunInv == Resting /\ Timely /\ Stamped /\ Observed /\ Pending

(* Before the first run there is nothing to be wrong about.                *)
LEMMA InitRunInv == Init => RunInv /\ Rows
<1> SUFFICES ASSUME Init PROVE RunInv /\ Rows
  OBVIOUS
<1>1. /\ \A r \in Replica, p \in Path : /\ ~There(r, p)
                                        /\ tree[r][p] = Absent
      /\ \A p \in Path : ~Recorded(p)
      /\ step = "idle" /\ todo = {} /\ pushing = {} /\ tree = EmptyTrees
      /\ now = 0
  BY DEF Init, There, Recorded, EmptyTrees
<1>2. Resting /\ Stamped /\ Observed /\ Pending
  BY <1>1 DEF Resting, Stamped, Observed, Pending
<1>3. Timely
  BY <1>1 DEF Timely, Absent
<1>4. Rows
  BY <1>1 DEF Rows, OldRow, NextRow, Merged, Absent, iL, iR, Replica
<1> QED BY <1>2, <1>3, <1>4 DEF RunInv

(* One step of the invariants of a run.                                    *)
LEMMA RunInvStep ==
  ASSUME Orderly, TypeOK, WalkInv, RunInv, [Next]_vars
  PROVE  RunInv'
BY RestingStep, TimelyStep, StampedStep, ObservedStep, PendingStep DEF RunInv

(* They hold throughout.                                                   *)
LEMMA RunInvAlways == Orderly => (Spec => [](TypeOK /\ WalkInv /\ RunInv))
<1> SUFFICES ASSUME Orderly PROVE Spec => [](TypeOK /\ WalkInv /\ RunInv)
  OBVIOUS
<1>1. Init => WalkInv /\ RunInv
  BY InitRunInv DEF Init, WalkInv
<1>2. TypeOK /\ WalkInv /\ RunInv /\ [Next]_vars => WalkInv' /\ RunInv'
  BY WalkInvStep, RunInvStep
<1> QED BY <1>1, <1>2, TypeCorrect, PTL DEF Spec

(* The journal never hides a difference between the replicas               *)
(* (_csync_detect_update compares a file with its row and nothing else):   *)
(* for users who leave a running synchronization alone, write no two       *)
(* versions in one second and rename no file onto a path in use.  Each of  *)
(* these three moves breaks it, as the README shows.                       *)
THEOREM JournalHidesNothing == Orderly => (Spec => []NoSilentDivergence)
<1> SUFFICES ASSUME Orderly PROVE Spec => []NoSilentDivergence
  OBVIOUS
<1>1. Init => Rows
  BY InitRunInv
<1>2. TypeOK /\ RunInv /\ Rows /\ [Next]_vars => Rows'
  BY RowsInvStep DEF RunInv
<1>3. Rows => NoSilentDivergence
  BY DEF Rows, OldRow, NoSilentDivergence, LooksUnchanged, FoundByHash, Same, Both, InSync,
         There, Replica
<1> QED BY <1>1, <1>2, <1>3, RunInvAlways, PTL DEF Spec

-----------------------------------------------------------------------------
(***************************************************************************)
(* RemoveOnlyRemoved and OriginalOrFinal.                                  *)
(***************************************************************************)

(* The update detection of this run missed nothing.                        *)
Whole == "walk" \notin Faults \/ calm > 0

(* Then a path without a node has no file, and a deletion is due only      *)
(* where the other replica has no file.                                    *)
Seen == Whole =>
    /\ step = "update" =>
         \A r \in Replica, p \in Path :
            tree[r][p].instr = "ABSENT" /\ There(r, p) =>
               \/ r = current /\ p \in todo
               \/ r = "remote" /\ current = "local"
    /\ step = "reconcile" =>
         \A r \in Replica, p \in Path :
            tree[r][p].instr = "ABSENT" => ~There(r, p)
    /\ step \in {"reconcile", "propagate"} =>
         \A r \in Replica, p \in Path :
            tree[r][p].instr = "REMOVE" => ~There(Other(r), p)

(* Nothing but a new run makes a run calm.                                 *)
LEMMA CalmStep ==
  ASSUME [Next]_vars, ~StartRun
  PROVE  calm' = calm \/ calm' = 0
<1>1. CASE User \/ UNCHANGED vars
  BY <1>1 DEF User, UserWrites, UserDeletes, UserRenames, UserLinks, vars
<1>2. ASSUME NEW p \in Path, VisitPath(p) PROVE calm' = calm \/ calm' = 0
  BY <1>2 DEF VisitPath, DetectUpdate, SkipUnreadable, ReconcilePath,
          PushSucceeds, PushFailsToOpen, PushFails, PushFailsLate, PushEndsRun,
          BackUp, RemoveFile, MergePath, Fault, NoFault, history
<1>3. CASE NextWalk \/ WriteJournal \/ Crash
  BY <1>3 DEF NextWalk, WriteJournal, Crash, Fault, NoFault, history
<1> QED BY <1>1, <1>2, <1>3 DEF Next, Program

(* The walks of csync_update that miss nothing give a node to every file,  *)
(* and a visit of csync_reconcile asks for a deletion only where there is  *)
(* none.                                                                   *)
LEMMA SeenStep ==
  ASSUME "duringRun" \notin UserMoves, "localOnly" \notin UserMoves,
         TypeOK, WalkInv, Pending, Seen, [Next]_vars
  PROVE  Seen'
<1>t. /\ TreeType /\ DiskType /\ Replica = {"local", "remote"}
      /\ current \in Replica
  BY DEF TypeOK, TreeType, DiskType, Replica
<1>i. ASSUME step' \in {"idle", "merge"} PROVE Seen'
  BY <1>i DEF Seen
<1>w. ASSUME Whole', ~StartRun PROVE Whole
  BY <1>w, CalmStep DEF Whole
<1>1. CASE UNCHANGED vars
  BY <1>1 DEF vars, Seen, Whole, There
<1>2. CASE User
  BY <1>2, <1>i, UserKeeps
     DEF User, UserWrites, UserDeletes, UserRenames, UserLinks, UserMayAct
<1>3. CASE StartRun
  BY <1>3, <1>t DEF StartRun, Seen
<1>4. CASE NextWalk
  <2>n. UNCHANGED <<disk, tree, calm>> /\ todo = {}
    BY <1>4 DEF NextWalk, history
  <2>s. Whole' <=> Whole
    BY <2>n DEF Whole
  <2>2. CASE step = "update" /\ current = "local"
    <3>1. step' = "update" /\ current' = "remote" /\ todo' = Path
      BY <1>4, <2>2 DEF NextWalk, StartWalk, RemoteWalks
    <3> QED BY <1>t, <2>n, <2>s, <2>2, <3>1 DEF Seen, There
  <2>3. CASE step = "update" /\ current = "remote"
    <3>1. step' = "reconcile"
      BY <1>4, <2>3 DEF NextWalk, StartWalk
    <3>2. \A r \in Replica, p \in Path : tree[r][p].instr # "REMOVE"
      BY <2>3 DEF WalkInv, Fresh
    <3> QED BY <1>t, <2>n, <2>s, <2>3, <3>1, <3>2 DEF Seen, There
  <2>4. CASE step = "reconcile" \/ step = "propagate"
    <3>1. /\ step' \in {"reconcile", "propagate", "merge"}
          /\ step' = "reconcile" => step = "reconcile"
      BY <1>4, <2>4 DEF NextWalk, StartWalk
    <3> QED BY <1>t, <2>n, <2>s, <2>4, <3>1 DEF Seen, There
  <2> QED BY <1>4, <2>2, <2>3, <2>4 DEF NextWalk
<1>5. ASSUME NEW p \in Path, DetectUpdate(p) PROVE Seen'
  <2>1. /\ step = "update" /\ todo' = todo \ {p}
        /\ UNCHANGED <<disk, step, current, calm>>
    BY <1>5 DEF DetectUpdate, history
  <2>2. /\ \A r \in Replica, q \in Path : r # current \/ q # p =>
              tree'[r][q] = tree[r][q]
        /\ There(current, p) => tree'[current][p].instr # "ABSENT"
    <3> DEFINE i == Detect(current, p, disk[current][p])
    <3>1. i # "ABSENT"
      BY DEF Detect
    <3>2. IF There(current, p)
          THEN \E m, n : tree' = [tree EXCEPT ![current][p] =
                            [instr |-> i, mtime |-> m, inode |-> n]]
          ELSE tree' = tree
      BY <1>5 DEF DetectUpdate
    <3> HIDE DEF i
    <3> QED BY <3>1, <3>2, <1>t DEF TreeType
  <2> QED BY <1>t, <2>1, <2>2 DEF Seen, Whole, There
<1>6. ASSUME NEW p \in Path, SkipUnreadable(p) PROVE Seen'
  BY <1>6 DEF SkipUnreadable, Fault, Seen, Whole
<1>7. ASSUME NEW p \in Path, ReconcilePath(p) PROVE Seen'
  <2>1. step = "reconcile" /\ UNCHANGED <<disk, step, calm>>
    BY <1>7 DEF ReconcilePath, history
  <2>2. /\ \A r \in Replica, q \in Path \ {p} : tree'[r][q] = tree[r][q]
        /\ \A r \in Replica :
             /\ tree'[r][p].instr = "ABSENT" => tree[r][p].instr = "ABSENT"
             /\ tree'[r][p].instr = "REMOVE" =>
                   \/ tree[r][p].instr = "REMOVE"
                   \/ tree[Other(r)][p].instr = "ABSENT"
    <3>1. /\ Decided(tree[current][p].instr, tree[Other(current)][p].instr,
                     tree'[current][p].instr, tree'[Other(current)][p].instr)
          /\ \A r \in Replica, q \in Path \ {p} : tree'[r][q] = tree[r][q]
      BY <1>7, VisitStep
    <3>2. /\ Replica = {current, Other(current)}
          /\ Other(Other(current)) = current
      BY <1>t DEF Replica, Other
    <3> QED BY <3>1, <3>2 DEF Decided, Alone
  <2> QED BY <1>t, <2>1, <2>2, OtherReplica DEF Seen, Whole, There
<1>8. ASSUME NEW p \in Path, Pushes(p) \/ BackUp(p) \/ RemoveFile(p)
      PROVE  Seen'
  <2>1. CASE EndRun
    BY <2>1, <1>i DEF EndRun
  <2>2. CASE ~EndRun
    <3>1. /\ UNCHANGED <<step, current>> /\ step = "propagate"
          /\ tree'[current][p].instr # "REMOVE"
          /\ \A r \in Replica, q \in Path :
                r # current \/ q # p => tree'[r][q] = tree[r][q]
          /\ tree[current][p].instr \in Acting \/ pushing = {p}
      BY <1>8, <2>2, PropagatesNodes
    <3>2. tree[Dest][p].instr \notin Acting /\ Replica = {current, Dest}
      BY <3>1, <1>t, ActsOnce DEF Dest, Replica, Other
    <3>3. \A r \in Replica, q \in Path \ {p} : disk'[r][q] = disk[r][q]
      BY <1>8, PropagatesSame
    <3>4. Whole' => Whole
      BY <1>8, <1>w, <3>1 DEF StartRun
    <3>5. ASSUME NEW r \in Replica, NEW q \in Path, tree'[r][q].instr = "REMOVE"
          PROVE  q # p /\ tree[r][q].instr = "REMOVE"
      BY <3>1, <3>2, <3>5 DEF Acting
    <3> QED BY <3>1, <3>3, <3>4, <3>5, OtherReplica DEF Seen, There
  <2> QED BY <2>1, <2>2
<1>9. CASE (\E p \in Path : MergePath(p)) \/ WriteJournal \/ Crash
  BY <1>9, <1>i, CommitStep
<1> QED BY <1>1, <1>2, <1>3, <1>4, <1>5, <1>6, <1>7, <1>8, <1>9
        DEF Next, Program, VisitPath, Pushes

(* Options and capability: who may be in conflict, and in place.           *)
OptionsInv ==
    /\ atomic \in AtomicCopy
    /\ \A r \in Replica, p \in Path : tree[r][p].instr = "CONFLICT" => copies

(* A visit makes a conflict only of two files that both changed, and only  *)
(* in a run with conflict copies.                                          *)
LEMMA VisitConflict ==
  ASSUME NEW cur, NEW other, NEW keep \in BOOLEAN, ~keep,
         cur.instr # "CONFLICT", other.instr # "CONFLICT"
  PROVE  LET v == Visit(cur, other, keep)
         IN  v[1] # "CONFLICT" /\ v[2] # "CONFLICT"
BY DEF Visit, Alone, Win, BothNew, BothModified, NewAgainstModified

(* Without conflict copies no node is a conflict and no conflicting path   *)
(* is pushed.                                                              *)
LEMMA OptionsStep ==
  ASSUME TypeOK, Resting, OptionsInv, [Next]_vars
  PROVE  OptionsInv'
<1>t. TreeType /\ current \in Replica /\ Replica = {"local", "remote"}
  BY DEF TypeOK, TreeType, Replica
<1>e. ASSUME tree' = EmptyTrees, UNCHANGED atomic PROVE OptionsInv'
  BY <1>e DEF OptionsInv, EmptyTrees, Absent
<1>1. CASE User \/ UNCHANGED vars
  <2>1. UNCHANGED <<tree, copies, atomic>>
    BY <1>1 DEF User, UserWrites, UserDeletes, UserRenames, UserLinks, ctxVars,
                options, vars
  <2> QED BY <2>1 DEF OptionsInv
<1>2. CASE StartRun \/ WriteJournal \/ Crash
  BY <1>2, <1>e DEF StartRun, WriteJournal, Crash, EndRun
<1>3. CASE NextWalk \/ \E p \in Path : SkipUnreadable(p)
  BY <1>3 DEF NextWalk, SkipUnreadable, options, OptionsInv
<1>4. ASSUME NEW p \in Path, DetectUpdate(p) PROVE OptionsInv'
  <2> DEFINE i == Detect(current, p, disk[current][p])
  <2>1. i # "CONFLICT" /\ UNCHANGED <<copies, atomic>>
    BY <1>4 DEF Detect, DetectUpdate, options
  <2>2. \/ tree' = tree
        \/ \E m, n : tree' = [tree EXCEPT ![current][p] =
                              [instr |-> i, mtime |-> m, inode |-> n]]
    BY <1>4 DEF DetectUpdate
  <2> HIDE DEF i
  <2> QED BY <2>1, <2>2, <1>t DEF TreeType, OptionsInv
<1>5. ASSUME NEW p \in Path, ReconcilePath(p) PROVE OptionsInv'
  <2> DEFINE o == Other(current)
  <2> DEFINE v == Visit(tree[current][p], tree[o][p], copies)
  <2>1. UNCHANGED <<copies, atomic>> /\ Replica = {current, o} /\ o # current
    BY <1>5, <1>t DEF ReconcilePath, options, Other, Replica
  <2>2. SUFFICES ASSUME ~copies
                 PROVE  /\ tree'[current][p].instr # "CONFLICT"
                        /\ tree'[o][p].instr # "CONFLICT"
    BY <1>5, <2>1, VisitStep DEF OptionsInv
  <2>3. v[1] # "CONFLICT" /\ v[2] # "CONFLICT"
    BY <2>1, <2>2, VisitConflict DEF OptionsInv, TypeOK
  <2>4. tree' = [tree EXCEPT ![current][p].instr = v[1], ![o][p].instr = v[2]]
    BY <1>5 DEF ReconcilePath
  <2> HIDE DEF v
  <2>5. tree'[current][p].instr = v[1] /\ tree'[o][p].instr = v[2]
    <3> HIDE DEF o
    <3> QED BY <2>1, <2>4, <1>t DEF TreeType, Node
  <2> QED BY <2>3, <2>5
<1>6. ASSUME NEW p \in Path, Pushes(p) \/ BackUp(p) \/ RemoveFile(p)
      PROVE  OptionsInv'
  <2>1. CASE EndRun
    BY <2>1, <1>e DEF EndRun
  <2>2. CASE ~EndRun
    <3>1. /\ tree'[current][p].instr # "CONFLICT"
          /\ \A r \in Replica, q \in Path :
                r # current \/ q # p => tree'[r][q] = tree[r][q]
          /\ UNCHANGED <<copies, atomic>>
      BY <1>6, <2>2, PropagatesNodes, PropagatesOn
    <3> QED BY <3>1 DEF OptionsInv
  <2> QED BY <2>1, <2>2
<1>7. ASSUME NEW p \in Path, MergePath(p) PROVE OptionsInv'
  <2>1. CASE EndRun
    BY <2>1, <1>e DEF EndRun
  <2>2. CASE ~EndRun
    <3>1. /\ UNCHANGED <<copies, atomic>>
          /\ \E m, i : tree' = [tree EXCEPT !["local"][p] =
                                  [instr |-> "NONE", mtime |-> m, inode |-> i]]
      BY <1>7, <2>2 DEF MergePath, options
    <3> QED BY <3>1, <1>t DEF TreeType, OptionsInv
  <2> QED BY <2>1, <2>2
<1> QED BY <1>1, <1>2, <1>3, <1>4, <1>5, <1>6, <1>7
        DEF Next, Program, VisitPath, Pushes

(* Users who leave a run alone and let it see both replicas, a detection   *)
(* that reads everything, a remote module that writes temporary files.     *)
Watched == /\ UserMoves \cap {"duringRun", "localOnly"} = {}
           /\ "walk" \notin Faults /\ TRUE \notin AtomicCopy

SeenInv == WalkInv /\ Resting /\ Pending /\ Seen /\ OptionsInv

(* They hold throughout.                                                   *)
LEMMA SeenAlways == Watched => (Spec => [](TypeOK /\ SeenInv))
<1> SUFFICES ASSUME Watched PROVE Spec => [](TypeOK /\ SeenInv)
  OBVIOUS
<1>1. Init => SeenInv
  <2> SUFFICES ASSUME Init PROVE SeenInv
    OBVIOUS
  <2>1. /\ step = "idle" /\ todo = {} /\ pushing = {} /\ tree = EmptyTrees
        /\ atomic \in AtomicCopy
    BY DEF Init
  <2>2. WalkInv /\ Resting /\ Pending /\ Seen
    BY <2>1 DEF WalkInv, Resting, Pending, Seen
  <2>3. OptionsInv
    BY <2>1 DEF OptionsInv, EmptyTrees, Absent
  <2> QED BY <2>2, <2>3 DEF SeenInv
<1>2. TypeOK /\ SeenInv /\ [Next]_vars => SeenInv'
  BY WalkInvStep, RestingStep, PendingStep, SeenStep, OptionsStep
     DEF SeenInv, Watched
<1> QED BY <1>1, <1>2, TypeCorrect, PTL DEF Spec

(* What a step of a run may do to a file that was there.                   *)
LEMMA GoneStep ==
  ASSUME Watched, TypeOK, SeenInv, Next, ByProgram,
         NEW r \in Replica, NEW p \in Path, Gone(r, p)
  PROVE  \/ disk'[r][p] = NoFile /\ ~There(Other(r), p)
         \/ disk'[r][p] = NoFile /\ disk[r][p].data \in kept'[r] /\ copies
         \/ disk'[r][p] # NoFile /\ There(Other(r), p)
              /\ disk'[r][p].data = disk[Other(r)][p].data
<1>t. /\ current \in Replica /\ Replica = {current, Dest} /\ Other(Dest) = current
      /\ Dest # current
      /\ Replica = {"local", "remote"} /\ DiskType /\ ~InPlace
  BY DEF TypeOK, DiskType, Dest, Replica, Other, Watched, SeenInv, OptionsInv, InPlace
<1>1. PICK u \in Path : Pushes(u) \/ BackUp(u) \/ RemoveFile(u)
  <2>1. ~User
    BY DEF ByProgram, User, UserWrites, UserDeletes, UserRenames, UserLinks
  <2>2. disk' # disk
    BY DEF Gone, There
  <2> QED BY <2>1, <2>2, OthersKeepDisk DEF Next, Program, VisitPath, Pushes
<1>2. u = p
  BY <1>1, PropagatesSame DEF Gone, There
<1>3. CASE Pushes(p)
  <2>1. disk' # disk
    BY DEF Gone, There
  <2>2. \E t \in Nat : Delivered(p, t)
    <3>1. now + 1 \in Nat /\ tree[current][p].mtime \in Nat
      BY <1>t, NodeFields DEF TypeOK, TreeType
    <3> QED BY <1>3, <1>t, <2>1, <3>1, PushDisk DEF Untouched
  <2>3. r = Dest
    BY <1>t, <2>2, DeliveredSame DEF Gone, There
  <2> QED BY <1>t, <2>2, <2>3, DeliveredThere
<1>4. CASE BackUp(p)
  <2>1. /\ There(Dest, p) /\ disk' = [disk EXCEPT ![Dest][p] = NoFile]
        /\ kept' = [kept EXCEPT ![Dest] = @ \cup {disk[Dest][p].data}]
    BY <1>4 DEF BackUp, Put, Gone, There
  <2>2. r = Dest
    BY <1>t, <2>1 DEF Gone, There, DiskType
  <2>3. copies
    BY <1>4, <1>t DEF BackUp, SeenInv, OptionsInv
  <2> QED BY <1>t, <2>1, <2>2, <2>3 DEF TypeOK, DiskType
<1>5. CASE RemoveFile(p)
  <2>1. /\ disk' = [disk EXCEPT ![current][p] = NoFile]
        /\ tree[current][p].instr = "REMOVE" /\ step = "propagate"
    BY <1>5 DEF RemoveFile, Put, Gone, There
  <2>2. r = current
    BY <1>t, <2>1 DEF Gone, There, DiskType
  <2>3. ~There(Other(r), p)
    BY <1>t, <2>1, <2>2 DEF SeenInv, Seen, Whole, Watched
  <2> QED BY <1>t, <2>1, <2>2, <2>3 DEF DiskType
<1> QED BY <1>1, <1>2, <1>3, <1>4, <1>5

(* csync_propagate_files deletes a file, whether by an instruction or by   *)
(* unlink(turi) after a failed push, only while the other replica does     *)
(* not have it: for users who leave a run alone and let it walk both       *)
(* replicas, with walks that skip nothing in silence and a remote module   *)
(* that writes to a temporary file.                                        *)
THEOREM RemovesWhatIsGone == Watched => (Spec => RemoveOnlyRemoved)
<1> DEFINE Rule ==
      ByProgram =>
        \A r \in Replica, p \in Path :
            There(r, p) /\ disk'[r][p] = NoFile =>
                \/ ~There(Other(r), p)
                \/ disk[r][p].data \in kept'[r]
<1> SUFFICES ASSUME Watched PROVE Spec => RemoveOnlyRemoved
  OBVIOUS
<1>1. TypeOK /\ SeenInv /\ [Next]_vars => [Rule]_vars
  BY GoneStep DEF Gone
<1> QED BY <1>1, SeenAlways, PTL DEF Spec, RemoveOnlyRemoved

(* The same hypotheses give what "Crash resistance" in doc/csync.txt       *)
(* says: without conflict copies a path that loses its file had nothing    *)
(* on the other replica, or gets the file of the other replica.            *)
THEOREM OldOrNew == Watched => (Spec => OriginalOrFinal)
<1> DEFINE Rule ==
      ByProgram /\ ~copies =>
        \A r \in Replica, p \in Path :
            Gone(r, p) =>
                IF disk'[r][p] = NoFile
                THEN ~There(Other(r), p)
                ELSE disk'[r][p].data = disk[Other(r)][p].data
<1> SUFFICES ASSUME Watched PROVE Spec => OriginalOrFinal
  OBVIOUS
<1>1. TypeOK /\ SeenInv /\ [Next]_vars => [Rule]_vars
  BY GoneStep
<1> QED BY <1>1, SeenAlways, PTL DEF Spec, OriginalOrFinal

-----------------------------------------------------------------------------
(***************************************************************************)
(* CalmRunConverges.                                                       *)
(***************************************************************************)

(* Remote files have one name.                                             *)
Plain == \A p \in Path : There("remote", p) => ~disk["remote"][p].linked

(* A file with a second link had it before, perhaps at another path of its *)
(* replica, or is a local file that a user gave one.                       *)
LEMMA LinkedStep ==
  ASSUME TypeOK, [Next]_vars, NEW r \in Replica, NEW u \in Path,
         disk'[r][u] # NoFile, disk'[r][u].linked = TRUE
  PROVE  \/ \E q \in Path : There(r, q) /\ disk[r][q].linked = TRUE
         \/ r = "local" /\ "link" \in UserMoves
<1>t. /\ DiskType /\ Replica = {"local", "remote"} /\ current \in Replica
      /\ Dest \in Replica
  BY OtherReplica DEF TypeOK, DiskType, Replica, Dest
<1>k. ASSUME disk'[r][u] \in {disk[r][u], NoFile}
      PROVE  There(r, u) /\ disk[r][u].linked = TRUE
  BY <1>k DEF There
<1>1. ASSUME NEW s \in Replica, NEW q \in Path, UserWrites(s, q)
      PROVE  There(r, u) /\ disk[r][u].linked = TRUE
  <2>1. PICK t \in WriteTimes :
           IF There(s, q)
           THEN Put(s, q, [disk[s][q] EXCEPT !.data = writes + 1, !.mtime = t])
           ELSE \E i \in FreeInodes(s) :
                  Put(s, q, [data |-> writes + 1, mtime |-> t, inode |-> i,
                             linked |-> FALSE])
    BY <1>1 DEF UserWrites
  <2>2. PICK f : disk' = [disk EXCEPT ![s][q] = f]
                 /\ f.linked = IF There(s, q) THEN disk[s][q].linked ELSE FALSE
    <3>1. CASE There(s, q)
      <4> DEFINE f == [disk[s][q] EXCEPT !.data = writes + 1, !.mtime = t]
      <4>1. f.linked = disk[s][q].linked
        BY <1>t, <3>1, ThereIsFile DEF File
      <4> QED BY <2>1, <3>1, <4>1 DEF Put
    <3>2. CASE ~There(s, q)
      BY <2>1, <3>2 DEF Put
    <3> QED BY <3>1, <3>2
  <2>3. \/ disk'[r][u] = disk[r][u]
        \/ s = r /\ u = q /\ disk'[r][u] = f
    BY <2>2, <1>t DEF DiskType
  <2> QED BY <2>2, <2>3, <1>k
<1>2. ASSUME NEW s \in Replica, NEW q \in Path, UserDeletes(s, q)
      PROVE  There(r, u) /\ disk[r][u].linked = TRUE
  <2>1. disk' = [disk EXCEPT ![s][q] = NoFile]
    BY <1>2 DEF UserDeletes, Put
  <2>2. disk'[r][u] \in {disk[r][u], NoFile}
    BY <2>1, <1>t DEF DiskType
  <2> QED BY <2>2, <1>k
<1>3. ASSUME NEW p \in Path, NEW q \in Path, UserRenames(p, q)
      PROVE  \E v \in Path : There(r, v) /\ disk[r][v].linked = TRUE
  <2>1. disk' = [disk EXCEPT !["local"] =
                      [@ EXCEPT ![q] = disk["local"][p], ![p] = NoFile]]
    BY <1>3 DEF UserRenames
  <2>2. \/ disk'[r][u] \in {disk[r][u], NoFile}
        \/ r = "local" /\ disk'[r][u] = disk["local"][p]
    BY <2>1, <1>t DEF DiskType
  <2> QED BY <2>2, <1>k DEF There
<1>4. ASSUME NEW q \in Path, UserLinks(q)
      PROVE  /\ "link" \in UserMoves
             /\ r = "local" \/ (There(r, u) /\ disk[r][u].linked = TRUE)
  <2>1. "link" \in UserMoves /\ (r # "local" => disk'[r] = disk[r])
    BY <1>4, <1>t DEF UserLinks, DiskType
  <2> QED BY <2>1, <1>k
<1>5. ASSUME NEW p \in Path, Pushes(p) \/ BackUp(p) \/ RemoveFile(p)
      PROVE  There(r, u) /\ disk[r][u].linked = TRUE
  <2>1. CASE disk' = disk
    BY <2>1, <1>k
  <2>2. ASSUME NEW s \in Replica, disk' = [disk EXCEPT ![s][p] = NoFile]
        PROVE  There(r, u) /\ disk[r][u].linked = TRUE
    <3>1. disk'[r][u] \in {disk[r][u], NoFile}
      BY <2>2, <1>t DEF DiskType
    <3> QED BY <3>1, <1>k
  <2>3. ASSUME NEW t \in Nat, Delivered(p, t)
        PROVE  There(r, u) /\ disk[r][u].linked = TRUE
    <3>1. /\ r # Dest \/ u # p => disk'[r][u] = disk[r][u]
          /\ disk'[Dest][p].linked = FALSE
      BY <2>3, DeliveredSame, DeliveredThere
    <3> QED BY <3>1, <1>k
  <2>4. now + 1 \in Nat /\ tree[current][p].mtime \in Nat
    BY <1>t, NodeFields DEF TypeOK, TreeType
  <2>5. CASE Pushes(p)
    BY <2>5, <2>1, <2>2, <2>3, <2>4, <1>t, PushDisk DEF Untouched, Removed
  <2>6. CASE BackUp(p)
    BY <2>6, <2>1, <2>2, <1>t DEF BackUp, Put
  <2>7. CASE RemoveFile(p)
    BY <2>7, <2>1, <2>2, <1>t DEF RemoveFile, Put
  <2> QED BY <1>5, <2>5, <2>6, <2>7
<1>6. CASE disk' = disk
  BY <1>6, <1>k
<1> QED BY <1>1, <1>2, <1>3, <1>4, <1>5, <1>6, OthersKeepDisk
        DEF Next, User, Program, VisitPath, vars, Pushes

(* No step gives a file of the remote replica a second link.               *)
LEMMA PlainStep ==
  ASSUME TypeOK, TypeOK', Plain, [Next]_vars
  PROVE  Plain'
<1>1. "remote" \in Replica
  BY DEF Replica
<1>2. ASSUME NEW p \in Path, disk'["remote"][p] # NoFile
      PROVE  disk'["remote"][p].linked \in BOOLEAN
  <2>1. disk'["remote"][p] \in File
    BY <1>1, <1>2 DEF TypeOK
  <2> QED BY <2>1 DEF File
<1> QED BY <1>1, <1>2, LinkedStep DEF Plain, There

(* What the detector has just found out.                                   *)
Judged(p) ==
    \A r \in Replica :
       /\ tree[r][p].instr = "NONE" =>
             Recorded(p) /\ disk[r][p].mtime <= journal[p].mtime
       /\ tree[r][p].instr = "IGNORE" => disk[r][p].linked
       /\ tree[r][p].instr = "RENAME" => r = "local"

(* A path is finished, or a node is there that will finish it, or the walk *)
(* of the remote tree will make it one.                                    *)
Done(p) == Equal(p) \/ (There("local", p) /\ disk["local"][p].linked)
Due(p)  == Done(p) \/ iL(p) \in Acting \/ iR(p) \in Acting \/ p \in pushing
Underway(p) ==
    /\ iL(p) \in {"NEW", "EVAL"} => iR(p) = "ABSENT"
    /\ \/ Due(p)
       \/ iL(p) = "NONE" /\ iR(p) = "EVAL"
       \/ iL(p) = "ABSENT" /\ iR(p) \in {"NONE", "EVAL"}

(* No failure is passed over: any other fault ends the run, or is the lost *)
(* time of a copy.  Either way, or when nothing interferes, the run        *)
(* finishes every path before it comes to the journal.                     *)
Failures == {"walk", "open", "copy", "chmod", "backup", "unlink"}
Sturdy   == Faults \cap Failures = {}
Sure     == calm > 0 \/ Sturdy

Converging ==
    /\ Sure =>
         /\ step = "update" => \A p \in Path : Judged(p)
         /\ step = "reconcile" /\ current = "local" =>
              \A p \in Path : IF p \in todo THEN Judged(p) ELSE Underway(p)
         /\ step = "reconcile" /\ current = "remote" =>
              \A p \in Path : IF p \in todo THEN Underway(p) ELSE Due(p)
         /\ step = "propagate" => \A p \in Path : Due(p)
         /\ step = "merge" => \A p \in Path : Done(p)
    /\ calm > 0 /\ step = "idle" => \A p \in Path : Done(p)

(* A visit of csync_update judges the file it finds.                       *)
LEMMA JudgedStep ==
  ASSUME TypeOK, NEW p \in Path, DetectUpdate(p), NEW u \in Path, Judged(u)
  PROVE  Judged(u)'
<1> DEFINE f == disk[current][p]
<1> DEFINE i == Detect(current, p, f)
<1>t. /\ TreeType /\ current \in Replica
      /\ UNCHANGED <<journal, exists, disk>>
  BY DEF TypeOK, TreeType, DetectUpdate, dbVars
<1>1. /\ i = "NONE" => Recorded(p) /\ ~(f.mtime > journal[p].mtime)
      /\ i = "IGNORE" => f.linked
      /\ i = "RENAME" => current = "local"
  BY DEF Detect, FoundByHash
<1>2. There(current, p) /\ Recorded(p) =>
         f.mtime \in Nat /\ journal[p].mtime \in Nat
  BY ThereIsFile DEF TypeOK, DiskType, Recorded, Record
<1>3. \/ tree' = tree
      \/ /\ There(current, p)
         /\ \E m, n : tree' = [tree EXCEPT ![current][p] =
                                 [instr |-> i, mtime |-> m, inode |-> n]]
  BY DEF DetectUpdate
<1>4. There(current, p) /\ i = "NONE" =>
         Recorded(p) /\ f.mtime <= journal[p].mtime
  BY <1>1, <1>2
<1> HIDE DEF i
<1>5. \A r \in Replica :
        \/ tree'[r][u] = tree[r][u]
        \/ There(current, p) /\ u = p /\ r = current /\ tree'[r][u].instr = i
  BY <1>t, <1>3 DEF TreeType
<1> QED BY <1>t, <1>1, <1>4, <1>5 DEF Judged, Recorded

(* The decision table brings every path on its way.                        *)
LEMMA FirstUnderway ==
  ASSUME NEW i, NEW j, NEW k, NEW l, Decided(i, j, k, l),
         \/ i \in {"ABSENT", "IGNORE", "NONE", "EVAL"} /\ j \in {"ABSENT", "NONE", "EVAL"}
         \/ i \in {"ABSENT", "IGNORE", "NEW", "RENAME"} /\ j \in {"ABSENT", "NEW"}
  PROVE  /\ k \in {"NEW", "EVAL"} => l = "ABSENT"
         /\ \/ k \in Acting \/ l \in Acting
            \/ k = "NONE" /\ l = "EVAL"
            \/ k = "ABSENT" /\ l \in {"NONE", "EVAL"}
            \/ i = "IGNORE"
            \/ i = "NONE" /\ j = "NONE"
            \/ i = "ABSENT" /\ j = "ABSENT"
            \/ i # "NONE" /\ j # "NONE" /\ k = "NONE" /\ l = "NONE"
BY DEF Decided, Alone, Acting, Pushing

(* After the second visit the path is finished or due to be propagated.    *)
LEMMA SecondDue ==
  ASSUME NEW i, NEW j, NEW k, NEW l, Decided(j, i, l, k),
         i \in {"NEW", "EVAL"} => j = "ABSENT",
         \/ i \in Acting \/ j \in Acting
         \/ i = "NONE" /\ j = "EVAL"
         \/ i = "ABSENT" /\ j \in {"NONE", "EVAL"}
  PROVE  k \in Acting \/ l \in Acting
BY DEF Decided, Alone, Acting, Pushing

(* A path that both trees have, or lack, with nothing to decide is done.   *)
LEMMA NothingToDo ==
  ASSUME TypeOK, Observed, Rows, Seen, Whole, NEW p \in Path,
         Judged(p), step = "reconcile",
         \/ iL(p) = "IGNORE"
         \/ iL(p) = "NONE" /\ iR(p) = "NONE"
         \/ iL(p) = "ABSENT" /\ iR(p) = "ABSENT"
  PROVE  Done(p)
<1>t. Replica = {"local", "remote"}
  BY DEF Replica
<1>1. CASE iL(p) = "IGNORE"
  BY <1>t, <1>1 DEF Judged, Observed, Matches, Done, iL
<1>2. CASE iL(p) = "NONE" /\ iR(p) = "NONE"
  <2>1. Both(p) /\ Same(p)
    BY <1>t, <1>2 DEF Judged, Observed, Matches, Both, Rows, OldRow, iL, iR
  <2> QED BY <2>1 DEF Done, Equal, InSync, Both, Same, There
<1>3. CASE iL(p) = "ABSENT" /\ iR(p) = "ABSENT"
  BY <1>t, <1>3 DEF Seen, Done, Equal, iL, iR
<1> QED BY <1>1, <1>2, <1>3

(* Two files that a visit leaves alone because neither is newer are of     *)
(* one version.                                                            *)
LEMMA EqualTimes ==
  ASSUME TypeOK, Observed, Stamped, NEW p \in Path, ReconcilePath(p),
         iL(p) # "NONE", iR(p) # "NONE", iL(p)' = "NONE", iR(p)' = "NONE"
  PROVE  Done(p)
<1>t. /\ Replica = {"local", "remote"} /\ step = "reconcile"
      /\ Other("local") = "remote" /\ Other("remote") = "local"
  BY DEF Replica, Other, ReconcilePath
<1>1. \A r \in Replica : /\ tree[r][p].mtime <= tree[Other(r)][p].mtime
                         /\ tree[Other(r)][p].instr # "ABSENT"
  BY <1>t, ReconcileTimes DEF iL, iR
<1>2. tree["local"][p].mtime \in Nat /\ tree["remote"][p].mtime \in Nat
  BY <1>t, NodeFields DEF TypeOK, TreeType
<1>3. tree["local"][p].mtime = tree["remote"][p].mtime
  BY <1>t, <1>1, <1>2
<1>4. Matches("local", p) /\ Matches("remote", p)
  BY <1>t, <1>1 DEF Observed
<1>5. /\ There("local", p) /\ There("remote", p)
      /\ disk["local"][p].mtime = disk["remote"][p].mtime
  BY <1>3, <1>4 DEF Matches
<1>6. disk["local"][p].data = disk["remote"][p].data
  BY <1>t, <1>5 DEF Stamped
<1> QED BY <1>5, <1>6 DEF Done, Equal, InSync, There

(* Without such a failure a conflict copy leaves its push due, and a push  *)
(* or a deletion finishes the path, unless the run ends.                   *)
Copied(p) ==
    /\ There(current, p) /\ disk'[Dest][p] # NoFile
    /\ disk'[current][p] = disk[current][p]
    /\ disk'[Dest][p].data = disk[current][p].data
    /\ disk[current][p].mtime = tree[current][p].mtime
    /\ calm' > 0 => disk'[Dest][p].mtime = tree[current][p].mtime
    /\ tree'[current][p].instr = "UPDATED"
Cleared(p) == disk'[current][p] = NoFile /\ disk'[Dest][p] = NoFile

(* After the propagation of a path that is due the path is finished.       *)
LEMMA PropagateEnds ==
  ASSUME TypeOK, WalkInv, Pending, Observed, Seen, Whole,
         NEW p \in Path, Pushes(p) \/ BackUp(p) \/ RemoveFile(p),
         calm' > 0 \/ Sturdy
  PROVE  /\ calm' > 0 => ~EndRun
         /\ pushing \subseteq {p}
         /\ \/ EndRun
            \/ p \in pushing'
            \/ Copied(p)
            \/ RemoveFile(p) /\ Cleared(p)
<1>t. /\ Replica = {"local", "remote"} /\ current \in Replica /\ Dest \in Replica
      /\ Replica = {current, Dest} /\ Dest # current /\ TreeType /\ DiskType
      /\ Other(current) = Dest
  BY DEF TypeOK, TreeType, DiskType, Replica, Dest, Other
<1>f. /\ \A k \in Failures : ~Fault(k)
      /\ calm' > 0 => \A k \in AllFaults : ~Fault(k)
  BY DEF Fault, Sturdy, Failures
<1>1. CASE Pushes(p)
  <2>0. MayPush(p) /\ step = "propagate"
    BY <1>1 DEF Pushes, PushSucceeds, PushFailsToOpen, PushFails,
            PushFailsLate, PushEndsRun, MayPush
  <2>1. Matches(current, p)
    BY <1>1, <1>t, PushDisk DEF Observed
  <2>2. \/ PushSucceeds(p)
        \/ PushEndsRun(p) /\ ~(calm' > 0)
    <3>1. ~PushFailsToOpen(p) /\ ~PushFails(p)
      BY <1>f, <2>1 DEF PushFailsToOpen, PushFails, Matches, Failures
    <3>2. ~PushFailsLate(p) /\ (PushEndsRun(p) => ~(calm' > 0))
      BY <1>f DEF PushFailsLate, PushEndsRun, AllFaults, Failures
    <3> QED BY <1>1, <3>1, <3>2 DEF Pushes
  <2>3. CASE PushSucceeds(p)
    <3>0. now + 1 \in Nat /\ tree[current][p].mtime \in Nat
      BY <1>t, NodeFields DEF TypeOK
    <3>1. PICK t \in Nat : /\ Delivered(p, t)
                           /\ calm' > 0 => t = tree[current][p].mtime
      <4>1. \/ Deliver(p, tree[current][p].mtime)
            \/ Deliver(p, now + 1) /\ ~(calm' > 0)
        BY <2>3, <1>f DEF PushSucceeds, AllFaults
      <4>2. \A t \in Nat : Deliver(p, t) => Delivered(p, t)
        BY <2>3 DEF PushSucceeds, Deliver, Delivered, Put, FreeInodes
      <4> QED BY <3>0, <4>1, <4>2
    <3>2. /\ There(current, p) /\ disk'[Dest][p] # NoFile
          /\ disk'[Dest][p].data = disk[current][p].data
          /\ disk'[Dest][p].mtime = t
          /\ disk'[current][p] = disk[current][p]
      BY <1>t, <3>1, DeliveredThere, DeliveredSame
    <3>3. tree'[current][p].instr = "UPDATED"
      <4>1. tree' = [tree EXCEPT ![current][p].instr = "UPDATED"]
        BY <2>3 DEF PushSucceeds, PushEnds
      <4> QED BY <1>t, <4>1 DEF TreeType, Node
    <3>4. ~EndRun
      BY <2>0, <2>3 DEF PushSucceeds, PushEnds, EndRun
    <3> QED BY <2>0, <2>1, <3>1, <3>2, <3>3, <3>4 DEF Copied, Matches, MayPush
  <2>4. CASE PushEndsRun(p) /\ ~(calm' > 0)
    BY <2>0, <2>4 DEF PushEndsRun, MayPush
  <2> QED BY <2>2, <2>3, <2>4
<1>2. CASE BackUp(p)
  BY <1>2 DEF BackUp, EndRun
<1>3. CASE RemoveFile(p)
  <2>1. ~There(Dest, p)
    BY <1>3, <1>t DEF RemoveFile, Seen
  <2>2. disk'[current][p] = NoFile /\ disk'[Dest][p] = NoFile
    <3>1. \/ disk' = [disk EXCEPT ![current][p] = NoFile]
          \/ disk' = disk /\ ~There(current, p)
      BY <1>3, <1>f DEF RemoveFile, Put, Failures
    <3> QED BY <1>t, <2>1, <3>1 DEF There, DiskType
  <2> QED BY <1>3, <2>2 DEF RemoveFile, EndRun, Cleared
<1> QED BY <1>1, <1>2, <1>3

(* Every step of a run in which nothing interferes, or of one that passes  *)
(* over no failure, brings its path one phase further.                     *)
LEMMA ConvergingStep ==
  ASSUME Orderly, TypeOK, WalkInv, RunInv, Rows, Seen, Seen', Plain, Pending',
         Converging, [Next]_vars
  PROVE  Converging'
<1>t. /\ TreeType /\ DiskType /\ Replica = {"local", "remote"}
      /\ current \in Replica /\ calm \in 0 .. 2
  BY DEF TypeOK, TreeType, DiskType, Replica
<1>w. Sure => Whole
  BY DEF Sure, Sturdy, Failures, Whole
<1>c. ASSUME ~StartRun
      PROVE  (calm' > 0 => calm > 0) /\ (Sure' => Sure)
  BY <1>c, <1>t, CalmStep DEF Sure
<1>d. ASSUME UNCHANGED disk, NEW u \in Path
      PROVE  Done(u)' <=> Done(u)
  BY <1>d DEF Done, Equal, InSync, There
<1>u. ASSUME UNCHANGED <<disk, tree, journal, pushing>>, NEW u \in Path
      PROVE  /\ Due(u)' <=> Due(u)
             /\ Underway(u)' <=> Underway(u)
             /\ Judged(u)' <=> Judged(u)
             /\ Done(u)' <=> Done(u)
  BY <1>u, <1>d DEF Due, Underway, Judged, iL, iR, Recorded
<1>1. CASE UNCHANGED vars
  BY <1>1, <1>u DEF vars, Converging, Sure
<1>2. CASE User
  <2>1. calm' = 0
    BY <1>2 DEF User, UserWrites, UserDeletes, UserRenames, UserLinks
  <2>2. step' = "idle"
    BY <1>2, UserRests, UserKeeps
  <2> QED BY <2>1, <2>2 DEF Converging
<1>3. CASE StartRun
  <2>1. /\ step' = "update"
        /\ \A r \in Replica, p \in Path : tree'[r][p].instr = "ABSENT"
    BY <1>3 DEF StartRun, EmptyTrees, Absent
  <2> QED BY <2>1 DEF Converging, Judged
<1>4. CASE NextWalk
  <2>1. /\ todo = {} /\ pushing = {}
        /\ UNCHANGED <<disk, tree, journal, pushing, calm>>
        /\ Sure' <=> Sure
    BY <1>4 DEF NextWalk, dbVars, history, Sure
  <2>2. CASE step = "update" /\ current = "local"
    <3>1. step' = "update"
      BY <1>4, <2>2 DEF NextWalk, StartWalk
    <3> QED BY <2>1, <2>2, <3>1, <1>u DEF Converging
  <2>3. CASE step = "update" /\ current = "remote"
    <3>1. /\ step' = "reconcile" /\ current' = "local"
          /\ todo' = {p \in Path : tree["local"][p].instr # "ABSENT"}
      BY <1>4, <2>3 DEF NextWalk, StartWalk
    <3>2. ASSUME NEW p \in Path, p \notin todo', Sure
          PROVE  Underway(p)
      <4>1. iL(p) = "ABSENT" /\ Judged(p) /\ Fresh(p)
        BY <2>3, <3>1, <3>2 DEF iL, Converging, WalkInv
      <4>2. iR(p) \notin {"IGNORE", "RENAME"}
        BY <1>t, <2>3, <4>1 DEF Judged, iR, RunInv, Observed, Matches, Plain
      <4>3. iR(p) \in {"ABSENT", "NONE", "EVAL", "NEW"}
        BY <1>t, <4>1, <4>2 DEF Fresh, iR
      <4>4. iR(p) = "ABSENT" => Done(p)
        BY <1>t, <1>w, <2>1, <2>3, <3>1, <3>2, <4>1
           DEF Seen, Done, Equal, There, iL, iR
      <4> QED BY <4>1, <4>3, <4>4 DEF Underway, Due, Acting, Pushing
    <3> QED BY <2>1, <2>3, <3>1, <3>2, <1>u DEF Converging
  <2>4. CASE step = "reconcile" /\ current = "local"
    <3>1. /\ step' = "reconcile" /\ current' = "remote"
          /\ todo' = {p \in Path : tree["remote"][p].instr # "ABSENT"}
      BY <1>4, <2>4 DEF NextWalk, StartWalk
    <3>2. \A p \in Path : p \notin todo' => iR(p) = "ABSENT"
      BY <3>1 DEF iR
    <3> QED BY <2>1, <2>4, <3>1, <3>2, <1>u DEF Converging, Underway
  <2>5. CASE step = "reconcile" /\ current = "remote"
    <3>1. step' = "propagate"
      BY <1>4, <2>5 DEF NextWalk, StartWalk
    <3> QED BY <2>1, <2>5, <3>1, <1>u DEF Converging
  <2>6. CASE step = "propagate" /\ current = "local"
    <3>1. step' = "propagate"
      BY <1>4, <2>6 DEF NextWalk, StartWalk
    <3> QED BY <2>1, <2>6, <3>1, <1>u DEF Converging
  <2>7. CASE step = "propagate" /\ current = "remote"
    <3>1. step' = "merge"
      BY <1>4, <2>7 DEF NextWalk, StartWalk
    <3>2. \A p \in Path : iL(p) \notin Acting /\ iR(p) \notin Acting
      BY <2>1, <3>1 DEF Pending, iL, iR
    <3> QED BY <2>1, <2>7, <3>1, <3>2, <1>u DEF Converging, Due
  <2> QED BY <1>4, <2>2, <2>3, <2>4, <2>5, <2>6, <2>7 DEF NextWalk
<1>5. ASSUME NEW p \in Path, DetectUpdate(p) PROVE Converging'
  <2>1. step = "update" /\ UNCHANGED <<step, calm>>
    BY <1>5 DEF DetectUpdate, history
  <2> QED BY <1>5, <2>1, JudgedStep DEF Converging, Sure
<1>6. ASSUME NEW p \in Path, SkipUnreadable(p) PROVE Converging'
  BY <1>6, <1>t DEF SkipUnreadable, Fault, Converging, Sure, Sturdy, Failures
<1>7. ASSUME NEW p \in Path, ReconcilePath(p) PROVE Converging'
  <2>1. /\ step = "reconcile" /\ p \in todo /\ todo' = todo \ {p}
        /\ UNCHANGED <<disk, journal, exists, step, current, pushing, calm>>
    BY <1>7 DEF ReconcilePath, dbVars, history
  <2>2. \A r \in Replica, q \in Path \ {p} : tree'[r][q] = tree[r][q]
    BY <1>7, VisitStep
  <2>3. \A u \in Path \ {p} : /\ Due(u)' <=> Due(u)
                              /\ Underway(u)' <=> Underway(u)
                              /\ Judged(u)' <=> Judged(u)
    BY <1>t, <2>1, <2>2, <1>d DEF Due, Underway, Judged, iL, iR, Recorded
  <2>4. SUFFICES ASSUME Sure
                 PROVE  IF current = "local" THEN Underway(p)' ELSE Due(p)'
    BY <1>t, <2>1, <2>3 DEF Converging, Sure
  <2>w. Whole
    BY <1>w, <2>4
  <2>5. CASE current = "local"
    <3>1. Decided(iL(p), iR(p), iL(p)', iR(p)')
      BY <1>7, <2>5, VisitStep DEF iL, iR, Other
    <3>2. Judged(p) /\ Fresh(p)
      BY <2>1, <2>4, <2>5 DEF Converging, WalkInv
    <3>3. iR(p) \notin {"IGNORE", "RENAME"}
      BY <1>t, <2>1, <3>2 DEF Judged, iR, RunInv, Observed, Matches, Plain
    <3>4. \/ /\ iL(p) \in {"ABSENT", "IGNORE", "NONE", "EVAL"}
             /\ iR(p) \in {"ABSENT", "NONE", "EVAL"}
          \/ /\ iL(p) \in {"ABSENT", "IGNORE", "NEW", "RENAME"}
             /\ iR(p) \in {"ABSENT", "NEW"}
      BY <1>t, <3>2, <3>3 DEF Fresh, iL, iR
    <3>5. /\ iL(p)' \in {"NEW", "EVAL"} => iR(p)' = "ABSENT"
          /\ \/ iL(p)' \in Acting \/ iR(p)' \in Acting
             \/ iL(p)' = "NONE" /\ iR(p)' = "EVAL"
             \/ iL(p)' = "ABSENT" /\ iR(p)' \in {"NONE", "EVAL"}
             \/ iL(p) = "IGNORE"
             \/ iL(p) = "NONE" /\ iR(p) = "NONE"
             \/ iL(p) = "ABSENT" /\ iR(p) = "ABSENT"
             \/ iL(p) # "NONE" /\ iR(p) # "NONE" /\ iL(p)' = "NONE" /\ iR(p)' = "NONE"
      BY <3>1, <3>4, FirstUnderway
    <3>6. \/ iL(p) = "IGNORE"
          \/ iL(p) = "NONE" /\ iR(p) = "NONE"
          \/ iL(p) = "ABSENT" /\ iR(p) = "ABSENT"
          => Done(p)
      BY <2>1, <2>w, <3>2, NothingToDo DEF RunInv
    <3>7. iL(p) # "NONE" /\ iR(p) # "NONE" /\ iL(p)' = "NONE" /\ iR(p)' = "NONE"
          => Done(p)
      BY <1>7, EqualTimes DEF RunInv
    <3> QED BY <2>1, <2>5, <3>5, <3>6, <3>7, <1>d DEF Underway, Due
  <2>6. CASE current = "remote"
    <3>1. Decided(iR(p), iL(p), iR(p)', iL(p)')
      BY <1>7, <2>6, VisitStep DEF iL, iR, Other
    <3>2. Underway(p)
      BY <2>1, <2>4, <2>6 DEF Converging
    <3>3. CASE Done(p) \/ p \in pushing
      BY <2>1, <2>6, <3>3, <1>d DEF Due
    <3>4. CASE ~(Done(p) \/ p \in pushing)
      BY <2>6, <3>1, <3>2, <3>4, SecondDue DEF Underway, Due
    <3> QED BY <3>3, <3>4
  <2> QED BY <1>t, <2>5, <2>6
<1>8. ASSUME NEW p \in Path, Pushes(p) \/ BackUp(p) \/ RemoveFile(p)
      PROVE  Converging'
  <2>1. /\ step = "propagate"
        /\ \/ step' = "propagate" \/ EndRun
    <3>1. CASE EndRun
      BY <1>8, <3>1, PropagatesOn
    <3>2. CASE ~EndRun
      BY <1>8, <3>2, PropagatesNodes
    <3> QED BY <3>1, <3>2
  <2>2. SUFFICES ASSUME Sure' PROVE Converging'
    BY DEF Converging, Sure
  <2>3. Sure /\ Whole /\ (calm' > 0 \/ Sturdy)
    BY <1>w, <2>1, <2>2, <1>c DEF StartRun, Sure
  <2>4. CASE EndRun
    <3>1. ~(calm' > 0) /\ step' = "idle"
      BY <1>8, <2>3, <2>4, PropagateEnds DEF RunInv, EndRun
    <3> QED BY <3>1 DEF Converging
  <2>5. CASE ~EndRun
    <3>1. Due(p)' /\ pushing \subseteq {p}
      <4>1. /\ pushing \subseteq {p}
            /\ p \in pushing' \/ Copied(p) \/ Cleared(p)
        BY <1>8, <2>3, <2>5, PropagateEnds DEF RunInv
      <4>2. Replica = {current, Dest} /\ current # Dest
        BY <1>t DEF Dest, Other
      <4>3. Copied(p) \/ Cleared(p) => Equal(p)'
        BY <1>t, <4>2 DEF Copied, Cleared, Equal, InSync, There
      <4> QED BY <4>1, <4>3 DEF Due, Done
    <3>2. /\ step' = "propagate"
          /\ \A r \in Replica, q \in Path : q # p => tree'[r][q] = tree[r][q]
      BY <1>8, <2>5, PropagatesNodes
    <3>3. \A r \in Replica, q \in Path \ {p} : disk'[r][q] = disk[r][q]
      BY <1>8, PropagatesSame
    <3>4. \A u \in Path \ {p} : Due(u) => Due(u)'
      BY <1>t, <3>1, <3>2, <3>3 DEF Due, Done, Equal, InSync, There, iL, iR
    <3> QED BY <2>1, <2>3, <3>1, <3>2, <3>4 DEF Converging
  <2> QED BY <2>4, <2>5
<1>9. CASE (\E p \in Path : MergePath(p)) \/ WriteJournal
  <2>1. UNCHANGED disk /\ step = "merge" /\ step' \in {"merge", "idle"}
    BY <1>9 DEF MergePath, WriteJournal, EndRun
  <2> QED BY <2>1, <1>c, <1>d DEF Converging, StartRun, Sure
<1>10. CASE Crash
  BY <1>10, <1>t DEF Crash, Fault, EndRun, Converging
<1> QED BY <1>1, <1>2, <1>3, <1>4, <1>5, <1>6, <1>7, <1>8, <1>9, <1>10
        DEF Next, Program, VisitPath, Pushes

(* Users who also let every run see both replicas.                         *)
Patient == Orderly /\ "localOnly" \notin UserMoves

CalmInv == WalkInv /\ RunInv /\ Rows /\ Seen /\ Plain /\ Converging

(* The invariants of a calm run hold throughout.                           *)
LEMMA CalmInvAlways == Patient => (Spec => [](TypeOK /\ CalmInv))
<1> SUFFICES ASSUME Patient PROVE Spec => [](TypeOK /\ CalmInv)
  OBVIOUS
<1>1. Init => CalmInv
  <2> SUFFICES ASSUME Init PROVE CalmInv
    OBVIOUS
  <2>1. step = "idle" /\ calm = 0 /\ \A p \in Path : ~There("remote", p)
    BY DEF Init, There, Replica
  <2>2. WalkInv /\ Seen /\ Plain /\ Converging
    BY <2>1 DEF WalkInv, Seen, Plain, Converging
  <2> QED BY <2>2, InitRunInv DEF CalmInv
<1>2. TypeOK /\ TypeOK' /\ CalmInv /\ [Next]_vars => CalmInv'
  <2> SUFFICES ASSUME TypeOK, TypeOK', CalmInv, [Next]_vars PROVE CalmInv'
    OBVIOUS
  <2>1. WalkInv' /\ RunInv' /\ Plain'
    BY WalkInvStep, RunInvStep, PlainStep DEF CalmInv, Patient
  <2>2. Rows'
    BY RowsInvStep DEF CalmInv, RunInv, Patient
  <2>3. Seen'
    BY SeenStep DEF CalmInv, RunInv, Patient, Orderly
  <2>4. Converging'
    BY <2>1, <2>3, ConvergingStep DEF CalmInv, RunInv, Patient
  <2> QED BY <2>1, <2>2, <2>3, <2>4 DEF CalmInv
<1> QED BY <1>1, <1>2, TypeCorrect, PTL DEF Spec

(* After a run without interference and without a fault, which             *)
(* csync_commit ends, the replicas are identical, files with a second      *)
(* link aside: for users who, between the runs, do what                    *)
(* JournalHidesNothing lets them do and do not ask for local_only_mode.    *)
THEOREM CalmRunsConverge == Patient => (Spec => []CalmRunConverges)
<1> SUFFICES ASSUME Patient PROVE Spec => []CalmRunConverges
  OBVIOUS
<1>1. CalmInv => CalmRunConverges
  BY DEF CalmInv, Converging, CalmRunConverges, Done
<1> QED BY <1>1, CalmInvAlways, PTL

-----------------------------------------------------------------------------
(***************************************************************************)
(* SecondRunIsQuiet.                                                       *)
(***************************************************************************)

(* Users who also give no file a second name.                              *)
Tidy == Patient /\ "link" \notin UserMoves

Unlinked == \A r \in Replica, p \in Path :
               There(r, p) => disk[r][p].linked = FALSE

(* No local file is older than its row.  Where the row is never found the  *)
(* remote file may be sent back again with the time it has, and the row be *)
(* the newer one.                                                          *)
Dated ==
    /\ \A p \in Path : Recorded(p) => exists
    /\ \A p \in Findable : Recorded(p) /\ There("local", p) =>
          journal[p].mtime <= disk["local"][p].mtime

(* What update detection says of the times.                                *)
Told(p) ==
    \A r \in Replica :
       /\ tree[r][p].instr # "IGNORE"
       /\ tree[r][p].instr = "NONE" => tree[r][p].mtime <= journal[p].mtime
       /\ tree[r][p].instr = "EVAL" => journal[p].mtime <= tree[r][p].mtime
       /\ tree[r][p].instr = "RENAME" => r = "local"
ToldAll == step = "update" => \A p \in Path : Told(p)

(* What is on its way to the local replica is not older than the row, nor  *)
(* than a local node that the next journal may be written from; nor is the *)
(* local file older than that node.                                        *)
Sent(p) == iR(p) \in Pushing \/ (p \in pushing /\ current = "remote")
Forward ==
    /\ step = "reconcile" \/ (step = "propagate" /\ current = "local") =>
         \A p \in Path : iR(p) \notin {"RENAME", "UPDATED", "IGNORE"}
    /\ step \in {"reconcile", "propagate"} =>
         \A p \in Path :
            FoundByHash(p) /\ (Sent(p) \/ iR(p) \in {"NEW", "EVAL"})
               => journal[p].mtime <= tree["remote"][p].mtime
    /\ step = "reconcile" => \A p \in Path : iL(p) # "UPDATED"
    /\ step = "reconcile" =>
         \A p \in Path : iL(p) = "NONE" =>
            /\ Sent(p) \/ iR(p) \in {"NEW", "EVAL"} =>
                  tree["local"][p].mtime <= tree["remote"][p].mtime
            /\ iR(p) = "NONE" =>
                  tree["remote"][p].mtime <= tree["local"][p].mtime
    /\ step = "propagate" =>
         \A p \in Path : iL(p) \in {"NONE", "UPDATED"} /\ Sent(p) =>
            tree["local"][p].mtime <= tree["remote"][p].mtime
    /\ step \in {"reconcile", "propagate", "merge"} =>
         \A p \in Path :
            iL(p) \in {"NONE", "UPDATED", "REMOVE"} /\ There("local", p)
               => tree["local"][p].mtime <= disk["local"][p].mtime

(* A step of the propagator and the local file of a path.                  *)
LEMMA PropagatesLocal ==
  ASSUME TypeOK, NEW p \in Path, Pushes(p) \/ BackUp(p) \/ RemoveFile(p)
  PROVE  \/ disk'["local"][p] \in {disk["local"][p], NoFile}
         \/ /\ Sent(p) /\ current = "remote"
            /\ disk'["local"][p].mtime \in {tree["remote"][p].mtime, now + 1}
<1>t. /\ DiskType /\ Replica = {"local", "remote"} /\ current \in Replica
      /\ Dest \in Replica /\ current # Dest
  BY DEF TypeOK, DiskType, Dest, Replica, Other
<1>1. CASE disk' = disk
  BY <1>1
<1>2. ASSUME NEW r \in Replica, disk' = [disk EXCEPT ![r][p] = NoFile]
      PROVE  disk'["local"][p] \in {disk["local"][p], NoFile}
  BY <1>2, <1>t DEF DiskType
<1>3. ASSUME NEW t \in Nat, Delivered(p, t), Dest = "remote"
      PROVE  disk'["local"][p] = disk["local"][p]
  BY <1>3, <1>t, DeliveredSame
<1>4. CASE BackUp(p)
  BY <1>4, <1>1, <1>2, <1>t DEF BackUp, Put
<1>5. CASE RemoveFile(p)
  BY <1>5, <1>1, <1>2, <1>t DEF RemoveFile, Put
<1>6. CASE Pushes(p)
  <2>1. now + 1 \in Nat /\ tree[current][p].mtime \in Nat
    BY <1>t, NodeFields DEF TypeOK, TreeType
  <2>2. ASSUME NEW t \in {tree[current][p].mtime, now + 1}, Delivered(p, t)
        PROVE  \/ disk'["local"][p] = disk["local"][p]
               \/ /\ Sent(p) /\ current = "remote"
                  /\ disk'["local"][p].mtime = t
    <3>1. CASE Dest = "remote"
      BY <2>1, <2>2, <3>1, <1>3
    <3>2. CASE Dest = "local"
      <4>1. disk'["local"][p].mtime = t
        BY <2>1, <2>2, <3>2, DeliveredThere
      <4>2. current = "remote" /\ Sent(p)
        BY <1>6, <1>t, <3>2, PushDisk DEF Sent, iR
      <4> QED BY <4>1, <4>2
    <3> QED BY <1>t, <3>1, <3>2
  <2>3. CASE Untouched \/ (InPlace /\ Removed(Dest, p))
    BY <2>3, <1>1, <1>2, <1>t DEF Untouched, Removed
  <2>4. CASE \E t \in {tree[current][p].mtime, now + 1} : Delivered(p, t)
    BY <2>2, <2>4
  <2> QED BY <1>6, <2>3, <2>4, PushDisk
<1> QED BY <1>4, <1>5, <1>6

(* No step gives a file a second link: users who make none, and            *)
(* csync_push_file, which renames its temporary file.                      *)
LEMMA UnlinkedStep ==
  ASSUME "link" \notin UserMoves, TypeOK, TypeOK', Unlinked, [Next]_vars
  PROVE  Unlinked'
<1>1. ASSUME NEW r \in Replica, NEW p \in Path, disk'[r][p] # NoFile
      PROVE  disk'[r][p].linked \in BOOLEAN
  <2>1. disk'[r][p] \in File
    BY <1>1 DEF TypeOK
  <2> QED BY <2>1 DEF File
<1> QED BY <1>1, LinkedStep DEF Unlinked, There

(* No step makes a row newer than the local file at its path: a user       *)
(* writes a newer one, and a copy is not older than the row.               *)
LEMMA DatedStep ==
  ASSUME Orderly, TypeOK, Timely, Pending, Forward, Dated, [Next]_vars
  PROVE  Dated'
<1>t. /\ Replica = {"local", "remote"} /\ now \in Nat /\ DiskType
      /\ \A p \in Path : Recorded(p) => journal[p].mtime \in Nat
  BY DEF TypeOK, DiskType, Replica, Recorded, Record
<1>n. \A p \in Path : There("local", p) => disk["local"][p].mtime \in Nat
  BY <1>t, ThereIsFile
<1>1. CASE User
  <2>1. UNCHANGED <<journal, exists>>
    BY <1>1, UserKeeps
  <2>2. ASSUME NEW u \in Findable, Recorded(u), disk'["local"][u] # NoFile
        PROVE  journal[u].mtime <= disk'["local"][u].mtime
    <3>1. journal[u].mtime <= now /\ journal[u].mtime \in Nat
      BY <1>t, <2>2 DEF Timely, Findable
    <3>2. \/ disk'["local"][u].mtime = now + 1
          \/ /\ There("local", u)
             /\ disk'["local"][u].mtime = disk["local"][u].mtime
      BY <1>1, <1>t, <2>2, UserPath DEF Findable
    <3> QED BY <1>t, <2>2, <3>1, <3>2 DEF Dated, Findable
  <2> QED BY <2>1, <2>2 DEF Dated, Findable, Recorded, There
<1>2. ASSUME NEW p \in Path, Pushes(p) \/ BackUp(p) \/ RemoveFile(p)
      PROVE  Dated'
  <2>1. UNCHANGED <<journal, exists>> /\ step = "propagate"
    BY <1>2, PropagatesOn
  <2>2. ASSUME NEW u \in Findable, Recorded(u), disk'["local"][u] # NoFile
        PROVE  journal[u].mtime <= disk'["local"][u].mtime
    <3>1. CASE disk'["local"][u] = disk["local"][u]
      BY <2>2, <3>1 DEF Dated, There, Findable
    <3>2. CASE /\ u = p /\ Sent(p)
               /\ disk'["local"][p].mtime \in {tree["remote"][p].mtime, now + 1}
      <4>1. journal[p].mtime <= now /\ journal[p].mtime \in Nat
        BY <1>t, <2>2, <3>2 DEF Timely, Findable
      <4>2. journal[p].mtime <= tree["remote"][p].mtime
        BY <2>1, <2>2, <3>2 DEF Forward, FoundByHash, Findable
      <4> QED BY <1>t, <3>2, <4>1, <4>2
    <3>3. \/ disk'["local"][u] \in {disk["local"][u], NoFile}
          \/ /\ u = p /\ Sent(p)
             /\ disk'["local"][p].mtime \in {tree["remote"][p].mtime, now + 1}
      BY <1>2, <1>t, PropagatesSame, PropagatesLocal DEF Findable
    <3> QED BY <2>2, <3>1, <3>2, <3>3
  <2> QED BY <2>1, <2>2 DEF Dated, Findable, Recorded, There
<1>3. CASE UNCHANGED <<disk, journal, exists>>
  BY <1>3 DEF Dated, Findable, Recorded, There
<1>4. CASE WriteJournal
  <2>1. UNCHANGED disk /\ step = "merge"
    BY <1>4 DEF WriteJournal
  <2>2. ASSUME NEW u \in Path, journal'[u] # NoRecord,
               ~UNCHANGED <<journal, exists>>
        PROVE  /\ exists'
               /\ There("local", u) => journal'[u].mtime <= disk["local"][u].mtime
    <3>1. exists' = TRUE
      BY <1>4, <2>2 DEF WriteJournal, dbVars
    <3>2. /\ Written(tree["local"][u])
          /\ journal'[u].mtime = tree["local"][u].mtime
      BY <1>4, <2>2, RowsStep DEF Next, Program, Recorded
    <3>3. iL(u) \in {"NONE", "UPDATED"}
      BY <2>1, <3>2 DEF Pending, Written, iL, Acting, Pushing
    <3> QED BY <2>1, <3>1, <3>2, <3>3 DEF Forward
  <2> QED BY <1>3, <2>1, <2>2 DEF Dated, Findable, Recorded, There
<1>5. CASE \/ StartRun \/ NextWalk \/ Crash
           \/ \E p \in Path : \/ DetectUpdate(p) \/ SkipUnreadable(p)
                              \/ ReconcilePath(p) \/ MergePath(p)
  <2>1. UNCHANGED <<disk, journal, exists>>
    BY <1>5 DEF StartRun, NextWalk, Crash, DetectUpdate, SkipUnreadable,
            ReconcilePath, MergePath, dbVars
  <2> QED BY <2>1, <1>3
<1> QED BY <1>1, <1>2, <1>3, <1>4, <1>5
        DEF Next, Program, VisitPath, Pushes, vars

(* _csync_detect_update gives a node the instruction that its file and     *)
(* the row call for.                                                       *)
LEMMA ToldStep ==
  ASSUME TypeOK, WalkInv, Unlinked, Dated, ToldAll, [Next]_vars
  PROVE  ToldAll'
<1>t. TreeType /\ current \in Replica /\ DiskType
  BY DEF TypeOK, TreeType, DiskType
<1>1. ASSUME NEW p \in Path, DetectUpdate(p) PROVE ToldAll'
  <2> DEFINE f == disk[current][p]
  <2> DEFINE n == [instr |-> Detect(current, p, f), mtime |-> f.mtime,
                   inode |-> f.inode]
  <2>1. /\ step = "update" /\ UNCHANGED journal
        /\ \/ tree' = tree
           \/ There(current, p) /\ tree' = [tree EXCEPT ![current][p] = n]
    BY <1>1 DEF DetectUpdate, dbVars
  <2>2. There(current, p) =>
          /\ n.instr # "IGNORE"
          /\ n.instr = "NONE" => ~(f.mtime > journal[p].mtime)
          /\ n.instr = "EVAL" => f.mtime > journal[p].mtime
          /\ n.instr \in {"NONE", "EVAL"} => Recorded(p)
          /\ n.instr = "RENAME" => current = "local"
    <3>1. n.instr = Detect(current, p, f)
      OBVIOUS
    <3>2. There(current, p) => f.linked = FALSE
      BY <1>t DEF Unlinked
    <3>3. Recorded(p) => exists
      BY DEF Dated
    <3> HIDE DEF n
    <3> QED BY <3>1, <3>2, <3>3 DEF Detect, FoundByHash
  <2>3. There(current, p) /\ Recorded(p) =>
           f.mtime \in Nat /\ journal[p].mtime \in Nat
    BY <1>t, ThereIsFile DEF TypeOK, Recorded, Record
  <2>4. n.mtime = f.mtime
    OBVIOUS
  <2> HIDE DEF n
  <2>5. There(current, p) =>
          /\ n.instr # "IGNORE"
          /\ n.instr = "NONE" => n.mtime <= journal[p].mtime
          /\ n.instr = "EVAL" => journal[p].mtime <= n.mtime
          /\ n.instr = "RENAME" => current = "local"
    BY <2>2, <2>3, <2>4
  <2>6. \A r \in Replica, q \in Path :
          \/ tree'[r][q] = tree[r][q]
          \/ There(current, p) /\ r = current /\ q = p /\ tree'[r][q] = n
    BY <1>t, <2>1 DEF TreeType
  <2> QED BY <2>1, <2>5, <2>6 DEF ToldAll, Told
<1>2. CASE StartRun
  <2>1. \A r \in Replica, p \in Path : tree'[r][p].instr = "ABSENT"
    BY <1>2 DEF StartRun, EmptyTrees, Absent
  <2> QED BY <2>1 DEF ToldAll, Told
<1>3. CASE User \/ UNCHANGED vars
  BY <1>3, UserKeeps DEF ToldAll, Told, vars
<1>4. ASSUME NEW p \in Path, SkipUnreadable(p) PROVE ToldAll'
  BY <1>4 DEF SkipUnreadable, ToldAll, Told, dbVars
<1>5. CASE NextWalk
  <2>1. UNCHANGED <<tree, journal>> /\ (step' = "update" => step = "update")
    BY <1>5 DEF NextWalk, StartWalk, dbVars
  <2> QED BY <2>1 DEF ToldAll, Told
<1>6. ASSUME \/ WriteJournal \/ Crash
             \/ \E p \in Path : \/ ReconcilePath(p) \/ MergePath(p)
                                \/ Pushes(p) \/ BackUp(p) \/ RemoveFile(p)
      PROVE  ToldAll'
  <2>1. step' # "update"
    <3>1. ASSUME NEW p \in Path, Pushes(p) \/ BackUp(p) \/ RemoveFile(p)
          PROVE  step' # "update"
      BY <3>1, PropagatesOn DEF EndRun
    <3> QED BY <1>6, <3>1 DEF WriteJournal, Crash, ReconcilePath, MergePath, EndRun
  <2> QED BY <2>1 DEF ToldAll
<1> QED BY <1>1, <1>2, <1>3, <1>4, <1>5, <1>6
        DEF Next, Program, VisitPath, Pushes

(* At the end of update detection.                                         *)
LEMMA ToldForward ==
  ASSUME TypeOK, WalkInv, RunInv, Dated, ToldAll, step = "update", todo = {},
         NEW p \in Path
  PROVE  /\ Sent(p) => iR(p) = "NEW"
         /\ iR(p) \notin {"RENAME", "UPDATED", "IGNORE"}
         /\ iL(p) # "UPDATED"
         /\ FoundByHash(p) /\ iR(p) \in {"NEW", "EVAL"} =>
               journal[p].mtime <= tree["remote"][p].mtime
         /\ iL(p) = "NONE" =>
              /\ iR(p) \in {"NEW", "EVAL"} =>
                    tree["local"][p].mtime <= tree["remote"][p].mtime
              /\ iR(p) = "NONE" =>
                    tree["remote"][p].mtime <= tree["local"][p].mtime
         /\ iL(p) # "ABSENT" /\ There("local", p) =>
               tree["local"][p].mtime <= disk["local"][p].mtime
<1>t. /\ TreeType /\ DiskType /\ Replica = {"local", "remote"}
      /\ tree["local"][p].mtime \in Nat /\ tree["remote"][p].mtime \in Nat
      /\ Recorded(p) => journal[p].mtime \in Nat
      /\ There("local", p) => disk["local"][p].mtime \in Nat
  <2>1. Recorded(p) => journal[p].mtime \in Nat
    BY DEF TypeOK, Recorded, Record
  <2>2. TreeType /\ DiskType /\ Replica = {"local", "remote"}
    BY DEF TypeOK, TreeType, DiskType, Replica
  <2> QED BY <2>1, <2>2, ThereIsFile, NodeFields
<1>1. /\ tree["local"][p].instr # "IGNORE" /\ tree["remote"][p].instr # "IGNORE"
      /\ tree["local"][p].instr = "NONE" =>
            tree["local"][p].mtime <= journal[p].mtime
      /\ tree["remote"][p].instr = "NONE" =>
            tree["remote"][p].mtime <= journal[p].mtime
      /\ tree["remote"][p].instr = "EVAL" =>
            journal[p].mtime <= tree["remote"][p].mtime
      /\ tree["remote"][p].instr # "RENAME"
  BY <1>t DEF ToldAll, Told
<1>2. \A r \in Replica :
         tree[r][p].instr \in
           IF FoundByHash(p) THEN {"ABSENT", "NONE", "EVAL", "IGNORE"}
                          ELSE {"ABSENT", "NEW", "RENAME", "IGNORE"}
  BY DEF WalkInv, Fresh, Dated, FoundByHash
<1>3. pushing = {}
  BY DEF RunInv, Pending
<1>4. \A r \in Replica : tree[r][p].instr # "ABSENT" =>
         There(r, p) /\ tree[r][p].mtime = disk[r][p].mtime
  BY DEF RunInv, Observed, Matches
<1>5. iL(p) = "NONE" /\ FoundByHash(p) => journal[p].mtime <= tree["local"][p].mtime
  BY <1>t, <1>4 DEF Dated, FoundByHash, Findable, iL
<1>6. (Sent(p) => iR(p) = "NEW") /\ iR(p) \notin {"RENAME", "UPDATED", "IGNORE"}
  <2>1. tree["remote"][p].instr \in {"ABSENT", "NONE", "EVAL", "NEW"}
    BY <1>1, <1>2, <1>t
  <2> QED BY <1>3, <2>1 DEF Sent, iR, Pushing
<1>7. iL(p) = "NONE" => FoundByHash(p)
  BY <1>2, <1>t DEF iL
<1>8. iR(p) \in {"NONE", "EVAL"} => FoundByHash(p)
  BY <1>2, <1>t DEF iR
<1>9. FoundByHash(p) => iR(p) # "NEW"
  BY <1>2, <1>t DEF iR
<1>10. iL(p) # "UPDATED"
  BY <1>2, <1>t DEF iL
<1> QED BY <1>1, <1>t, <1>4, <1>5, <1>6, <1>7, <1>8, <1>9, <1>10
        DEF FoundByHash, iL, iR

(* No step sends a file back in time to the local replica: what a visit    *)
(* of the reconciler lets pass is newer, and a push keeps the time of its  *)
(* source or takes that of the clock.                                      *)
LEMMA ForwardStep ==
  ASSUME Orderly, TypeOK, WalkInv, RunInv, Dated, ToldAll, Forward, [Next]_vars
  PROVE  Forward'
<1>t. /\ TreeType /\ DiskType /\ Replica = {"local", "remote"}
      /\ current \in Replica /\ now \in Nat
      /\ \A r \in Replica, p \in Path : tree[r][p].mtime \in Nat
  <2>1. TreeType /\ DiskType /\ Replica = {"local", "remote"}
    BY DEF TypeOK, TreeType, DiskType, Replica
  <2> QED BY <2>1, NodeFields DEF TypeOK
<1>i. ASSUME step' \in {"idle", "update"} PROVE Forward'
  BY <1>i DEF Forward
<1>1. CASE UNCHANGED vars
  BY <1>1 DEF vars, Forward, Sent, FoundByHash, Recorded, There, iL, iR
<1>2. CASE User
  BY <1>2, <1>i, UserRests, UserKeeps
<1>3. CASE StartRun
  BY <1>3, <1>i DEF StartRun
<1>4. CASE NextWalk
  <2>1. /\ todo = {} /\ pushing = {}
        /\ UNCHANGED <<disk, tree, journal, pushing>>
    BY <1>4 DEF NextWalk, dbVars
  <2>2. \A p \in Path : /\ Sent(p)' <=> Sent(p)
                        /\ iL(p)' = iL(p) /\ iR(p)' = iR(p)
                        /\ FoundByHash(p)' <=> FoundByHash(p)
                        /\ There("local", p)' <=> There("local", p)
    BY <2>1 DEF Sent, iL, iR, FoundByHash, Recorded, There
  <2>3. CASE step = "update"
    <3>1. step' # "propagate" /\ step' # "merge"
      BY <1>4, <2>3 DEF NextWalk, StartWalk
    <3>2. \A p \in Path :
            /\ Sent(p) => iR(p) = "NEW"
            /\ iR(p) \notin {"RENAME", "UPDATED", "IGNORE"}
            /\ iL(p) # "UPDATED"
            /\ FoundByHash(p) /\ iR(p) \in {"NEW", "EVAL"} =>
                  journal[p].mtime <= tree["remote"][p].mtime
            /\ iL(p) = "NONE" =>
                 /\ iR(p) \in {"NEW", "EVAL"} =>
                       tree["local"][p].mtime <= tree["remote"][p].mtime
                 /\ iR(p) = "NONE" =>
                       tree["remote"][p].mtime <= tree["local"][p].mtime
            /\ iL(p) # "ABSENT" /\ There("local", p) =>
                  tree["local"][p].mtime <= disk["local"][p].mtime
      BY <2>1, <2>3, ToldForward
    <3> QED BY <2>1, <2>2, <3>1, <3>2 DEF Forward
  <2>4. CASE step = "reconcile"
    <3>1. \/ step' = "reconcile"
          \/ step' = "propagate" /\ current' = "local"
      BY <1>4, <2>4 DEF NextWalk, StartWalk
    <3> QED BY <2>1, <2>2, <2>4, <3>1 DEF Forward
  <2>5. CASE step = "propagate"
    <3>1. \/ step' = "propagate" /\ current' = "remote"
          \/ step' = "merge"
      BY <1>4, <2>5 DEF NextWalk, StartWalk
    <3> QED BY <2>1, <2>2, <2>5, <3>1 DEF Forward
  <2> QED BY <1>4, <2>3, <2>4, <2>5 DEF NextWalk
<1>5. ASSUME NEW p \in Path, DetectUpdate(p) \/ SkipUnreadable(p) PROVE Forward'
  BY <1>5, <1>i DEF DetectUpdate, SkipUnreadable
<1>6. CASE WriteJournal \/ Crash
  BY <1>6, <1>i DEF WriteJournal, Crash, EndRun
<1>7. ASSUME NEW p \in Path, ReconcilePath(p) PROVE Forward'
  <2>1. /\ step = "reconcile" /\ step' = "reconcile" /\ pushing = {}
        /\ UNCHANGED <<disk, journal, current, pushing>>
    BY <1>7 DEF ReconcilePath, dbVars, RunInv, Pending
  <2>2. /\ \A r \in Replica, q \in Path \ {p} : tree'[r][q] = tree[r][q]
        /\ \/ Decided(iL(p), iR(p), iL(p)', iR(p)')
           \/ Decided(iR(p), iL(p), iR(p)', iL(p)')
    BY <1>7, <1>t, VisitStep DEF iL, iR, Other
  <2>3. /\ \A r \in Replica, q \in Path : tree'[r][q].mtime = tree[r][q].mtime
        /\ iL(p)' = "NONE" /\ iL(p) # "NONE" =>
              tree["local"][p].mtime <= tree["remote"][p].mtime
        /\ iR(p)' = "NONE" /\ iR(p) # "NONE" =>
              tree["remote"][p].mtime <= tree["local"][p].mtime
    <3>1. Other("local") = "remote" /\ Other("remote") = "local"
      BY DEF Other
    <3> QED BY <1>7, <1>t, <3>1, ReconcileTimes DEF iL, iR
  <2>4. \A q \in Path \ {p} :
           /\ Sent(q)' <=> Sent(q)
           /\ iL(q)' = iL(q) /\ iR(q)' = iR(q)
    BY <1>t, <2>1, <2>2 DEF Sent, iL, iR
  <2>5. \A q \in Path : /\ FoundByHash(q)' <=> FoundByHash(q)
                        /\ There("local", q)' <=> There("local", q)
    BY <2>1 DEF FoundByHash, Recorded, There
  <2>6. /\ iR(p)' \notin {"RENAME", "UPDATED", "IGNORE"}
        /\ Sent(p)' \/ iR(p)' \in {"NEW", "EVAL"} =>
              Sent(p) \/ iR(p) \in {"NEW", "EVAL"}
    <3>1. iR(p) \notin {"RENAME", "UPDATED", "IGNORE"}
      BY <2>1 DEF Forward
    <3> QED BY <2>1, <2>2, <3>1 DEF Sent, Decided, Alone, Pushing
  <2>7. /\ iL(p)' = "NONE" /\ iL(p) # "NONE" => iR(p) # "NONE"
        /\ iL(p)' = "NONE" /\ iL(p) = "NONE" /\ iR(p)' = "NONE" => iR(p) = "NONE"
        /\ iL(p)' \in {"NONE", "UPDATED", "REMOVE"} => iL(p) # "ABSENT"
        /\ iL(p)' = "UPDATED" => iL(p) = "UPDATED"
    BY <2>2 DEF Decided, Alone
  <2>8. iL(p)' # "ABSENT" /\ There("local", p) /\ iL(p) # "ABSENT" =>
           tree["local"][p].mtime <= disk["local"][p].mtime
    BY <1>t, <2>1 DEF RunInv, Observed, Matches, iL
  <2> DEFINE Facts(q) ==
        /\ iR(q) \notin {"RENAME", "UPDATED", "IGNORE"} /\ iL(q) # "UPDATED"
        /\ FoundByHash(q) /\ (Sent(q) \/ iR(q) \in {"NEW", "EVAL"})
              => journal[q].mtime <= tree["remote"][q].mtime
        /\ iL(q) = "NONE" =>
             /\ Sent(q) \/ iR(q) \in {"NEW", "EVAL"} =>
                   tree["local"][q].mtime <= tree["remote"][q].mtime
             /\ iR(q) = "NONE" =>
                   tree["remote"][q].mtime <= tree["local"][q].mtime
        /\ iL(q) \in {"NONE", "UPDATED", "REMOVE"} /\ There("local", q)
              => tree["local"][q].mtime <= disk["local"][q].mtime
  <2>9. \A q \in Path : Facts(q)
    BY <2>1 DEF Forward
  <2>10. ASSUME NEW q \in Path \ {p} PROVE Facts(q)'
    BY <2>1, <2>3, <2>4, <2>5, <2>9, <1>t
  <2>11. Facts(p)'
    <3>1. (Sent(p)' \/ iR(p)' \in {"NEW", "EVAL"}) =>
             (Sent(p) \/ iR(p) \in {"NEW", "EVAL"})
      BY <2>6
    <3>2. iL(p)' = "NONE" /\ (Sent(p)' \/ iR(p)' \in {"NEW", "EVAL"}) =>
             tree["local"][p].mtime <= tree["remote"][p].mtime
      BY <2>3, <2>9, <3>1
    <3>3. iL(p)' = "NONE" /\ iR(p)' = "NONE" =>
             tree["remote"][p].mtime <= tree["local"][p].mtime
      BY <2>3, <2>7, <2>9
    <3>4. iL(p)' \in {"NONE", "UPDATED", "REMOVE"} /\ There("local", p)
              => tree["local"][p].mtime <= disk["local"][p].mtime
      BY <2>7, <2>8
    <3> QED BY <1>t, <2>1, <2>3, <2>5, <2>6, <2>7, <2>9, <3>1, <3>2, <3>3, <3>4
  <2> HIDE DEF Facts
  <2>12. \A q \in Path : Facts(q)'
    BY <2>10, <2>11
  <2> QED BY <2>1, <2>12 DEF Forward, Facts
<1>8. ASSUME NEW p \in Path, Pushes(p) \/ BackUp(p) \/ RemoveFile(p), ~EndRun
      PROVE  Forward'
  <2>1. /\ UNCHANGED <<step, current, journal>> /\ step = "propagate"
        /\ tree'[current][p].instr \in {"UPDATED", "ERROR", "NONE", "DELETED"}
        /\ tree'[current][p].mtime = tree[current][p].mtime
        /\ \A r \in Replica, q \in Path :
              r # current \/ q # p => tree'[r][q] = tree[r][q]
        /\ tree[current][p].instr \in Acting \/ pushing = {p}
        /\ \/ pushing' = {}
           \/ pushing' = {p} /\ tree[current][p].instr = "CONFLICT"
    BY <1>8, PropagatesNodes, PropagatesOn
  <2>2. \A q \in Path \ {p} :
           /\ Sent(q)' => Sent(q)
           /\ iL(q)' = iL(q) /\ iR(q)' = iR(q)
    BY <1>t, <2>1 DEF Sent, iL, iR
  <2>3. \A r \in Replica, q \in Path : tree'[r][q].mtime = tree[r][q].mtime
    BY <1>t, <2>1
  <2>4. \A q \in Path : /\ FoundByHash(q)' <=> FoundByHash(q)
                        /\ q # p => disk'["local"][q] = disk["local"][q]
    BY <1>8, <1>t, <2>1, PropagatesSame DEF FoundByHash, Recorded
  <2>5. tree[Dest][p].instr \notin Acting
    BY <2>1, ActsOnce DEF RunInv
  <2>6. CASE current = "local"
    <3>1. iR(p) \notin Acting /\ iR(p) \notin {"RENAME", "UPDATED", "IGNORE"}
      BY <2>1, <2>5, <2>6 DEF Dest, Other, iR, Forward
    <3>2. ~Sent(p)' /\ iR(p)' = iR(p)
      BY <1>t, <2>1, <2>6, <3>1 DEF Sent, iR, Acting, Pushing
    <3>3. There("local", p) => tree["local"][p].mtime <= disk["local"][p].mtime
      <4>1. tree["local"][p].instr \in Pushing \/ p \in pushing \/ iL(p) = "REMOVE"
        BY <2>1, <2>6 DEF Acting, iL
      <4>2. CASE iL(p) = "REMOVE"
        BY <2>1, <4>2 DEF Forward
      <4>3. CASE tree["local"][p].instr \in Pushing \/ p \in pushing
        BY <1>t, <2>1, <2>6, <4>3 DEF RunInv, Observed, Matches
      <4> QED BY <4>1, <4>2, <4>3
    <3>4. disk'["local"][p] \in {disk["local"][p], NoFile}
      BY <1>8, <2>6, PropagatesLocal
    <3> QED BY <1>t, <2>1, <2>2, <2>3, <2>4, <2>6, <3>1, <3>2, <3>3, <3>4
            DEF Forward, There, Sent
  <2>7. CASE current = "remote"
    <3>1. iL(p)' = iL(p) /\ iL(p) # "REMOVE"
      BY <1>t, <2>1, <2>5, <2>7 DEF Dest, Other, iL, Acting
    <3>2. /\ Sent(p)' => Sent(p)
          /\ iR(p)' \notin {"NEW", "EVAL"}
      BY <1>t, <2>1, <2>7 DEF Sent, iR, Pushing
    <3>3. There("local", p)' /\ iL(p) \in {"NONE", "UPDATED"} =>
             tree["local"][p].mtime <= disk'["local"][p].mtime
      <4>1. CASE disk'["local"][p] \in {disk["local"][p], NoFile}
        BY <2>1, <4>1 DEF Forward, There
      <4>2. CASE /\ Sent(p)
                 /\ disk'["local"][p].mtime \in {tree["remote"][p].mtime, now + 1}
        <5>1. tree["local"][p].mtime <= now
          BY <1>t DEF RunInv, Timely
        <5> QED BY <1>t, <2>1, <4>2, <5>1 DEF Forward
      <4> QED BY <1>8, <4>1, <4>2, PropagatesLocal
    <3>4. \A q \in Path \ {p} : There("local", q)' <=> There("local", q)
      BY <2>4 DEF There
    <3> QED BY <1>t, <2>1, <2>2, <2>3, <2>4, <2>7, <3>1, <3>2, <3>3, <3>4
            DEF Forward
  <2> QED BY <1>t, <2>6, <2>7
<1>9. ASSUME NEW p \in Path, MergePath(p), ~EndRun PROVE Forward'
  <2>1. /\ step = "merge" /\ UNCHANGED <<step, disk>>
        /\ There("local", p)
        /\ \E n : tree' = [tree EXCEPT !["local"][p] =
                     [instr |-> "NONE", mtime |-> disk["local"][p].mtime,
                      inode |-> n]]
    BY <1>9 DEF MergePath
  <2>2. /\ tree'["local"][p].mtime = disk["local"][p].mtime
        /\ \A q \in Path \ {p} : tree'["local"][q] = tree["local"][q]
    BY <1>t, <2>1 DEF TreeType
  <2>3. disk["local"][p].mtime \in Nat
    BY <1>t, <2>1, ThereIsFile
  <2> QED BY <2>1, <2>2, <2>3 DEF Forward, There, iL
<1>10. ASSUME EndRun PROVE Forward'
  BY <1>10, <1>i DEF EndRun
<1> QED BY <1>1, <1>2, <1>3, <1>4, <1>5, <1>6, <1>7, <1>8, <1>9, <1>10
        DEF Next, Program, VisitPath, Pushes

(* The two visits decide every path: nothing, or one of its nodes is acted *)
(* upon.                                                                   *)
Unmoved(p) == \/ iL(p) = "NONE" /\ iR(p) = "NONE"
              \/ iL(p) = "ABSENT" /\ iR(p) = "ABSENT"
Decides(p) == iL(p) \in Acting \/ iR(p) \in Acting \/ Unmoved(p)
Awaits(p) ==
    /\ iL(p) \in {"NEW", "EVAL"} => iR(p) = "ABSENT"
    /\ \/ Decides(p)
       \/ iL(p) = "NONE" /\ iR(p) = "EVAL"
       \/ iL(p) = "ABSENT" /\ iR(p) \in {"NONE", "EVAL"}
Found(p) ==
    \/ /\ iL(p) \in {"ABSENT", "NONE", "EVAL"}
       /\ iR(p) \in {"ABSENT", "NONE", "EVAL"}
    \/ iL(p) \in {"ABSENT", "NEW", "RENAME"} /\ iR(p) \in {"ABSENT", "NEW"}
Decisive ==
    /\ step = "reconcile" /\ current = "local" =>
         \A p \in Path : IF p \in todo THEN Found(p) ELSE Awaits(p)
    /\ step = "reconcile" /\ current = "remote" =>
         \A p \in Path : IF p \in todo THEN Awaits(p) ELSE Decides(p)

(* The first visit of csync_reconcile decides a path or leaves it to the   *)
(* second one, which decides it.                                           *)
LEMMA DecisiveStep ==
  ASSUME TypeOK, WalkInv, RunInv, Dated, ToldAll, Forward, Decisive, [Next]_vars
  PROVE  Decisive'
<1>t. TreeType /\ Replica = {"local", "remote"} /\ current \in Replica
  BY DEF TypeOK, TreeType, Replica
<1>i. ASSUME step' # "reconcile" PROVE Decisive'
  BY <1>i DEF Decisive
<1>k. ASSUME tree' = tree, NEW p \in Path
      PROVE  /\ Decides(p)' <=> Decides(p)
             /\ Awaits(p)' <=> Awaits(p)
             /\ Found(p)' <=> Found(p)
  BY <1>k DEF Decides, Awaits, Found, Unmoved, iL, iR
<1>1. CASE User \/ UNCHANGED vars
  <2>1. UNCHANGED <<tree, step, current, todo>>
    BY <1>1, UserKeeps DEF vars
  <2> QED BY <2>1, <1>k DEF Decisive
<1>2. CASE NextWalk
  <2>1. todo = {} /\ UNCHANGED tree
    BY <1>2 DEF NextWalk
  <2>2. CASE step = "update" /\ step' = "reconcile"
    <3>1. /\ current' = "local"
          /\ todo' = {p \in Path : tree["local"][p].instr # "ABSENT"}
      BY <1>2, <2>2 DEF NextWalk, StartWalk
    <3>2. ASSUME NEW p \in Path PROVE Found(p)
      <4>1. iR(p) \notin {"RENAME", "UPDATED", "IGNORE"}
        BY <2>1, <2>2, ToldForward
      <4>2. iL(p) # "IGNORE" /\ Fresh(p)
        BY <1>t, <2>2 DEF ToldAll, Told, WalkInv, iL
      <4> QED BY <1>t, <4>1, <4>2 DEF Fresh, Found, iL, iR
    <3>3. ASSUME NEW p \in Path, iL(p) = "ABSENT" PROVE Awaits(p)
      BY <3>2, <3>3 DEF Found, Awaits, Decides, Unmoved, Acting, Pushing
    <3> QED BY <2>1, <3>1, <3>2, <3>3, <1>k DEF Decisive, iL
  <2>3. CASE step = "reconcile" /\ step' = "reconcile"
    <3>1. /\ current = "local" /\ current' = "remote"
          /\ todo' = {p \in Path : tree["remote"][p].instr # "ABSENT"}
      BY <1>2, <2>3 DEF NextWalk, StartWalk
    <3>2. \A p \in Path : p \notin todo' => iR(p) = "ABSENT"
      BY <3>1 DEF iR
    <3> QED BY <2>1, <2>3, <3>1, <3>2, <1>k DEF Decisive, Awaits
  <2>4. step' = "reconcile" => step \in {"update", "reconcile"}
    BY <1>2 DEF NextWalk, StartWalk
  <2> QED BY <1>i, <2>2, <2>3, <2>4
<1>3. ASSUME NEW p \in Path, ReconcilePath(p) PROVE Decisive'
  <2>1. /\ step = "reconcile" /\ p \in todo /\ todo' = todo \ {p}
        /\ UNCHANGED <<step, current>>
    BY <1>3 DEF ReconcilePath
  <2>2. \A r \in Replica, q \in Path \ {p} : tree'[r][q] = tree[r][q]
    BY <1>3, VisitStep
  <2>3. \A q \in Path \ {p} : /\ Decides(q)' <=> Decides(q)
                              /\ Awaits(q)' <=> Awaits(q)
                              /\ Found(q)' <=> Found(q)
    BY <1>t, <2>2 DEF Decides, Awaits, Found, Unmoved, iL, iR
  <2>4. CASE current = "local"
    <3>1. Decided(iL(p), iR(p), iL(p)', iR(p)')
      BY <1>3, <2>4, VisitStep DEF iL, iR, Other
    <3>2. Found(p)
      BY <2>1, <2>4 DEF Decisive
    <3>3. /\ iL(p)' \in {"NEW", "EVAL"} => iR(p)' = "ABSENT"
          /\ \/ iL(p)' \in Acting \/ iR(p)' \in Acting
             \/ iL(p)' = "NONE" /\ iR(p)' = "EVAL"
             \/ iL(p)' = "ABSENT" /\ iR(p)' \in {"NONE", "EVAL"}
             \/ iL(p) = "IGNORE"
             \/ iL(p) = "NONE" /\ iR(p) = "NONE"
             \/ iL(p) = "ABSENT" /\ iR(p) = "ABSENT"
             \/ iL(p) # "NONE" /\ iR(p) # "NONE" /\ iL(p)' = "NONE" /\ iR(p)' = "NONE"
      <4>1. \/ /\ iL(p) \in {"ABSENT", "IGNORE", "NONE", "EVAL"}
               /\ iR(p) \in {"ABSENT", "NONE", "EVAL"}
            \/ /\ iL(p) \in {"ABSENT", "IGNORE", "NEW", "RENAME"}
               /\ iR(p) \in {"ABSENT", "NEW"}
        BY <3>2 DEF Found
      <4> QED BY <3>1, <4>1, FirstUnderway
    <3>4. /\ iL(p) # "IGNORE"
          /\ iL(p) = "NONE" /\ iR(p) = "NONE" => Unmoved(p)'
          /\ iL(p) = "ABSENT" /\ iR(p) = "ABSENT" => Unmoved(p)'
      BY <3>1, <3>2 DEF Found, Decided, Alone, Unmoved
    <3>5. Awaits(p)'
      BY <3>3, <3>4 DEF Awaits, Decides, Unmoved
    <3> QED BY <2>1, <2>3, <2>4, <3>5 DEF Decisive
  <2>5. CASE current = "remote"
    <3>1. Decided(iR(p), iL(p), iR(p)', iL(p)')
      BY <1>3, <2>5, VisitStep DEF iL, iR, Other
    <3>2. Awaits(p)
      BY <2>1, <2>5 DEF Decisive
    <3>3. ASSUME Unmoved(p) PROVE Decides(p)'
      BY <3>1, <3>3 DEF Unmoved, Decided, Alone, Decides
    <3>4. ASSUME ~Unmoved(p) PROVE Decides(p)'
      <4>1. /\ iL(p) \in {"NEW", "EVAL"} => iR(p) = "ABSENT"
            /\ \/ iL(p) \in Acting \/ iR(p) \in Acting
               \/ iL(p) = "NONE" /\ iR(p) = "EVAL"
               \/ iL(p) = "ABSENT" /\ iR(p) \in {"NONE", "EVAL"}
        BY <3>2, <3>4 DEF Awaits, Decides
      <4> QED BY <3>1, <4>1, SecondDue DEF Decides
    <3> QED BY <2>1, <2>3, <2>5, <3>3, <3>4 DEF Decisive
  <2> QED BY <1>t, <2>4, <2>5
<1>4. ASSUME \/ StartRun \/ WriteJournal \/ Crash
             \/ \E p \in Path : \/ DetectUpdate(p) \/ SkipUnreadable(p)
                                \/ MergePath(p)
                                \/ Pushes(p) \/ BackUp(p) \/ RemoveFile(p)
      PROVE  Decisive'
  <2>1. step' # "reconcile"
    <3>1. ASSUME NEW p \in Path, Pushes(p) \/ BackUp(p) \/ RemoveFile(p)
          PROVE  step' # "reconcile"
      BY <3>1, PropagatesOn DEF EndRun
    <3> QED BY <1>4, <3>1 DEF StartRun, WriteJournal, Crash, DetectUpdate,
            SkipUnreadable, MergePath, EndRun
  <2> QED BY <1>i, <2>1
<1> QED BY <1>1, <1>2, <1>3, <1>4 DEF Next, Program, VisitPath, Pushes

-----------------------------------------------------------------------------
(* The end of a calm run: nothing at a path, or two files of which the     *)
(* local one is the newer, and a node, or a merge still to come, that      *)
(* gives the journal the time of the local one.                            *)
Empty(p) == ~There("local", p) /\ ~There("remote", p)
Level(p) == /\ There("local", p) /\ There("remote", p)
            /\ disk["remote"][p].mtime <= disk["local"][p].mtime
Noted(p) == /\ iL(p) \in {"NONE", "UPDATED"}
            /\ tree["local"][p].mtime = disk["local"][p].mtime
Quiet(p) == \/ Empty(p)
            \/ /\ Level(p) /\ Recorded(p)
               /\ disk["local"][p].mtime <= journal[p].mtime
Ended(p) == \/ iL(p) \in Acting \/ iR(p) \in Acting \/ p \in pushing
            \/ Empty(p) /\ iR(p) # "UPDATED"
            \/ Level(p) /\ (iR(p) = "UPDATED" \/ Noted(p))
Entered(p) == \/ Empty(p) /\ p \notin todo
              \/ Level(p) /\ (p \in todo \/ Noted(p))
Closing == calm > 0 =>
    /\ step = "propagate" => \A p \in Path : Ended(p)
    /\ step = "merge" => \A p \in Path : Entered(p)
    /\ step = "idle" => \A p \in Path : Quiet(p)

(* A step of a calm run leaves the path it finishes empty or level on      *)
(* both disks, and csync_statedb_write gives a level path a row that is    *)
(* not older than the local file.                                          *)
LEMMA ClosingStep ==
  ASSUME TypeOK, WalkInv, RunInv, Seen, Forward, Decisive, Pending', Closing,
         [Next]_vars
  PROVE  Closing'
<1>t. /\ TreeType /\ DiskType /\ Replica = {"local", "remote"}
      /\ current \in Replica /\ calm \in 0 .. 2
  BY DEF TypeOK, TreeType, DiskType, Replica
<1>c. ASSUME calm' > 0, ~StartRun
      PROVE  calm > 0 /\ Whole /\ ~\E k \in AllFaults : Fault(k)
  BY <1>c, <1>t, CalmStep DEF Whole, Fault
<1>u. ASSUME UNCHANGED <<disk, tree, journal, pushing>>, NEW u \in Path
      PROVE  /\ Ended(u)' <=> Ended(u)
             /\ UNCHANGED todo => (Entered(u)' <=> Entered(u))
             /\ Quiet(u)' <=> Quiet(u)
             /\ Empty(u)' <=> Empty(u)
             /\ Level(u)' <=> Level(u)
             /\ Noted(u)' <=> Noted(u)
  BY <1>u DEF Ended, Entered, Quiet, Empty, Level, Noted, There, Recorded, iL, iR
<1>1. CASE UNCHANGED vars
  BY <1>1, <1>u DEF vars, Closing
<1>2. CASE User
  <2>1. calm' = 0
    BY <1>2 DEF User, UserWrites, UserDeletes, UserRenames, UserLinks
  <2> QED BY <2>1 DEF Closing
<1>3. CASE StartRun
  BY <1>3 DEF StartRun, Closing
<1>4. CASE NextWalk
  <2>1. /\ todo = {} /\ pushing = {}
        /\ UNCHANGED <<disk, tree, journal, pushing, calm>>
    BY <1>4 DEF NextWalk, dbVars, history
  <2>2. CASE step = "reconcile" /\ step' = "propagate"
    <3>1. current = "remote"
      BY <1>4, <2>2 DEF NextWalk, StartWalk
    <3>2. ASSUME NEW p \in Path, calm > 0 PROVE Ended(p)
      <4>1. Decides(p) /\ iR(p) # "UPDATED"
        BY <2>1, <2>2, <3>1 DEF Decisive, Forward
      <4>2. CASE iL(p) = "NONE" /\ iR(p) = "NONE"
        <5>1. Matches("local", p) /\ Matches("remote", p)
          BY <1>t, <2>2, <4>2 DEF RunInv, Observed, iL, iR
        <5>2. tree["remote"][p].mtime <= tree["local"][p].mtime
          BY <2>2, <4>2 DEF Forward
        <5> QED BY <4>2, <5>1, <5>2 DEF Matches, Ended, Level, Noted
      <4>3. CASE iL(p) = "ABSENT" /\ iR(p) = "ABSENT"
        BY <1>t, <2>2, <3>2, <4>1, <4>3 DEF Seen, Whole, Ended, Empty, iL, iR
      <4> QED BY <4>1, <4>2, <4>3 DEF Decides, Unmoved, Ended
    <3> QED BY <2>1, <2>2, <3>2, <1>u DEF Closing
  <2>3. CASE step = "propagate" /\ step' = "propagate"
    BY <2>1, <2>3, <1>u DEF Closing
  <2>4. CASE step = "propagate" /\ step' = "merge"
    <3>1. todo' = {p \in Path : tree["remote"][p].instr = "UPDATED"}
      BY <1>4, <2>4 DEF NextWalk, StartWalk
    <3>2. \A p \in Path : iL(p) \notin Acting /\ iR(p) \notin Acting
      BY <2>1, <2>4 DEF Pending, iL, iR
    <3>3. ASSUME NEW p \in Path, calm > 0 PROVE Entered(p)'
      <4>1. p \in todo' <=> iR(p) = "UPDATED"
        BY <3>1 DEF iR
      <4>2. Ended(p)
        BY <2>4, <3>3 DEF Closing
      <4> QED BY <2>1, <3>2, <4>1, <4>2, <1>u DEF Ended, Entered
    <3> QED BY <2>1, <2>4, <3>3 DEF Closing
  <2>5. \/ step' \in {"update", "reconcile"}
        \/ step = "reconcile" /\ step' = "propagate"
        \/ step = "propagate" /\ step' \in {"propagate", "merge"}
    BY <1>4 DEF NextWalk, StartWalk
  <2> QED BY <2>2, <2>3, <2>4, <2>5 DEF Closing
<1>5. ASSUME NEW p \in Path,
             DetectUpdate(p) \/ SkipUnreadable(p) \/ ReconcilePath(p)
      PROVE  Closing'
  <2>1. step' \in {"update", "reconcile"}
    BY <1>5 DEF DetectUpdate, SkipUnreadable, ReconcilePath
  <2> QED BY <2>1 DEF Closing
<1>6. ASSUME NEW p \in Path, Pushes(p) \/ BackUp(p) \/ RemoveFile(p)
      PROVE  Closing'
  <2>1. SUFFICES ASSUME calm' > 0 PROVE Closing'
    BY DEF Closing
  <2>2. step = "propagate"
    BY <1>6, PropagatesOn
  <2>3. calm > 0 /\ Whole
    BY <2>1, <2>2, <1>c DEF StartRun
  <2>4. /\ ~EndRun /\ pushing \subseteq {p}
        /\ p \in pushing' \/ Copied(p) \/ (RemoveFile(p) /\ Cleared(p))
    BY <1>6, <2>1, <2>3, PropagateEnds DEF RunInv
  <2>5. /\ step' = "propagate" /\ current' = current
        /\ tree'[current][p].mtime = tree[current][p].mtime
        /\ tree'[current][p].instr \in {"UPDATED", "ERROR", "NONE", "DELETED"}
        /\ \A r \in Replica, q \in Path :
              r # current \/ q # p => tree'[r][q] = tree[r][q]
    BY <1>6, <2>4, PropagatesNodes
  <2>6. \A r \in Replica, q \in Path \ {p} : disk'[r][q] = disk[r][q]
    BY <1>6, PropagatesSame
  <2>7. \A u \in Path \ {p} : Ended(u) => Ended(u)'
    BY <1>t, <2>4, <2>5, <2>6 DEF Ended, Empty, Level, Noted, There, iL, iR
  <2>8. Ended(p)'
    <3>1. CASE p \in pushing'
      BY <3>1 DEF Ended
    <3>2. CASE Copied(p)
      <4>1. /\ There(current, p) /\ disk'[Dest][p] # NoFile
            /\ disk'[current][p] = disk[current][p]
            /\ disk'[Dest][p].mtime = disk[current][p].mtime
            /\ disk[current][p].mtime = tree[current][p].mtime
            /\ tree'[current][p].instr = "UPDATED"
        BY <2>1, <3>2 DEF Copied
      <4>2. disk[current][p].mtime \in Nat
        BY <1>t, <4>1, ThereIsFile
      <4>3. CASE current = "local"
        <5>1. Dest = "remote"
          BY <4>3 DEF Dest, Other
        <5>2. Level(p)'
          BY <4>1, <4>2, <4>3, <5>1 DEF Level, There
        <5>3. Noted(p)'
          BY <2>5, <4>1, <4>3 DEF Noted, iL
        <5> QED BY <5>2, <5>3 DEF Ended
      <4>4. CASE current = "remote"
        <5>1. Dest = "local"
          BY <4>4 DEF Dest, Other
        <5>2. Level(p)'
          BY <4>1, <4>2, <4>4, <5>1 DEF Level, There
        <5>3. iR(p)' = "UPDATED"
          BY <4>1, <4>4 DEF iR
        <5> QED BY <5>2, <5>3 DEF Ended
      <4> QED BY <1>t, <4>3, <4>4
    <3>3. CASE RemoveFile(p) /\ Cleared(p)
      <4>1. Empty(p)'
        BY <1>t, <3>3 DEF Cleared, Empty, There, Dest, Other
      <4>2. iR(p)' # "UPDATED"
        <5>1. CASE current = "local"
          <6>1. iR(p)' = iR(p)
            BY <1>t, <2>5, <5>1 DEF iR
          <6> QED BY <2>2, <5>1, <6>1 DEF Forward
        <5>2. CASE current = "remote"
          <6>1. tree' = [tree EXCEPT ![current][p].instr = "DELETED"]
                \/ tree' = [tree EXCEPT ![current][p].instr = "NONE"]
            BY <3>3 DEF RemoveFile
          <6>2. tree'[current][p].instr \in {"DELETED", "NONE"}
            BY <1>t, <6>1 DEF TreeType, Node
          <6> QED BY <5>2, <6>2 DEF iR
        <5> QED BY <1>t, <5>1, <5>2
      <4> QED BY <4>1, <4>2 DEF Ended
    <3> QED BY <2>4, <3>1, <3>2, <3>3
  <2> QED BY <2>2, <2>3, <2>5, <2>7, <2>8 DEF Closing
<1>7. ASSUME NEW p \in Path, MergePath(p) PROVE Closing'
  <2>1. SUFFICES ASSUME calm' > 0 PROVE Closing'
    BY DEF Closing
  <2>2. step = "merge" /\ p \in todo /\ UNCHANGED <<disk, journal>>
    BY <1>7 DEF MergePath, dbVars
  <2>3. calm > 0 /\ ~\E k \in AllFaults : Fault(k)
    BY <2>1, <2>2, <1>c DEF StartRun
  <2>4. There("local", p) /\ Level(p)
    BY <2>2, <2>3 DEF Closing, Entered, Level
  <2>5. /\ step' = "merge" /\ todo' = todo \ {p}
        /\ \E n : tree' = [tree EXCEPT !["local"][p] =
                     [instr |-> "NONE", mtime |-> disk["local"][p].mtime,
                      inode |-> n]]
    BY <1>7, <2>3, <2>4 DEF MergePath, AllFaults
  <2>6. /\ tree'["local"][p].mtime = disk["local"][p].mtime
        /\ iL(p)' = "NONE"
        /\ \A q \in Path \ {p} : tree'["local"][q] = tree["local"][q]
    BY <1>t, <2>5 DEF TreeType, iL
  <2>7. \A q \in Path : /\ Empty(q)' <=> Empty(q)
                        /\ Level(q)' <=> Level(q)
    BY <2>2 DEF Empty, Level, There
  <2>8. Noted(p)' /\ \A q \in Path \ {p} : Noted(q)' <=> Noted(q)
    BY <2>2, <2>6 DEF Noted, iL
  <2>9. \A q \in Path : Entered(q)
    BY <2>2, <2>3 DEF Closing
  <2> QED BY <2>4, <2>5, <2>7, <2>8, <2>9 DEF Closing, Entered
<1>8. CASE WriteJournal
  <2>1. SUFFICES ASSUME calm' > 0 PROVE Closing'
    BY DEF Closing
  <2>2. step = "merge" /\ todo = {} /\ UNCHANGED disk /\ step' = "idle"
    BY <1>8 DEF WriteJournal, EndRun
  <2>3. calm > 0 /\ ~\E k \in AllFaults : Fault(k)
    BY <2>1, <2>2, <1>c DEF StartRun
  <2>4. journal' = [p \in Path |->
                LET n == tree["local"][p]
                IN  IF Written(n) THEN [mtime |-> n.mtime, inode |-> n.inode]
                                  ELSE NoRecord]
    BY <1>8, <2>3 DEF WriteJournal, AllFaults
  <2>5. ASSUME NEW p \in Path PROVE Quiet(p)'
    <3>1. Empty(p) \/ (Level(p) /\ Noted(p))
      BY <2>2, <2>3 DEF Closing, Entered
    <3>2. CASE Empty(p)
      BY <2>2, <3>2 DEF Quiet, Empty, There
    <3>3. CASE Level(p) /\ Noted(p)
      <4>1. Written(tree["local"][p])
        BY <3>3 DEF Noted, Written, iL
      <4>2. journal'[p] = [mtime |-> tree["local"][p].mtime,
                           inode |-> tree["local"][p].inode]
        BY <2>4, <4>1
      <4>3. journal'[p] \in Record
        <5>1. tree["local"][p] \in Node
          BY <1>t, NodeFields
        <5> QED BY <4>2, <5>1 DEF Record, Node
      <4>4. Recorded(p)' /\ journal'[p].mtime = disk["local"][p].mtime
        BY <3>3, <4>2, <4>3, ConstantsAssumption DEF Recorded, Noted
      <4>5. disk["local"][p].mtime \in Nat
        BY <1>t, <3>3, ThereIsFile DEF Level
      <4> QED BY <2>2, <3>3, <4>4, <4>5 DEF Quiet, Level, There
    <3> QED BY <3>1, <3>2, <3>3
  <2> QED BY <2>2, <2>5 DEF Closing
<1>9. CASE Crash
  BY <1>9, <1>t DEF Crash, Fault, Closing
<1> QED BY <1>1, <1>2, <1>3, <1>4, <1>5, <1>6, <1>7, <1>8, <1>9
        DEF Next, Program, VisitPath, Pushes

-----------------------------------------------------------------------------
(* A run after a calm one finds what the journal says.                     *)
Still == calm = 2 /\ step # "idle" =>
    /\ step # "merge" => \A p \in Findable : Quiet(p)
    /\ \A r \in Replica, p \in Findable : tree[r][p].instr \in {"NONE", "ABSENT"}
    /\ pushing \cap Findable = {}

(* In the run after it every walk finds the paths quiet whose row it finds; *)
(* what it does to the others is not seen at these.                         *)
LEMMA StillStep ==
  ASSUME TypeOK, WalkInv, RunInv, Seen, Unlinked, Dated, Closing, Still,
         [Next]_vars
  PROVE  Still'
<1>t. /\ TreeType /\ DiskType /\ Replica = {"local", "remote"}
      /\ current \in Replica /\ calm \in 0 .. 2
  BY DEF TypeOK, TreeType, DiskType, Replica
<1>c. ASSUME calm' = 2, ~StartRun
      PROVE  calm = 2 /\ Whole /\ ~\E k \in AllFaults : Fault(k)
  BY <1>c, <1>t, CalmStep DEF Whole, Fault
<1>u. ASSUME UNCHANGED <<disk, journal>>, NEW u \in Path
      PROVE  Quiet(u)' <=> Quiet(u)
  BY <1>u DEF Quiet, Empty, Level, There, Recorded
<1>f. Findable \subseteq Path
  BY DEF Findable
<1>1. CASE UNCHANGED vars
  BY <1>1, <1>f, <1>u DEF vars, Still
<1>2. CASE User
  <2>1. calm' = 0
    BY <1>2 DEF User, UserWrites, UserDeletes, UserRenames, UserLinks
  <2> QED BY <2>1 DEF Still
<1>3. CASE StartRun
  <2>1. /\ step = "idle" /\ UNCHANGED <<disk, journal, pushing>>
        /\ calm' = IF calm < 2 THEN calm + 1 ELSE 2
        /\ tree' = EmptyTrees
    BY <1>3 DEF StartRun, dbVars
  <2>2. \A r \in Replica, p \in Path : tree'[r][p].instr = "ABSENT"
    BY <2>1 DEF EmptyTrees, Absent
  <2>3. pushing = {}
    BY <2>1 DEF RunInv, Pending
  <2>4. calm' = 2 => \A p \in Path : Quiet(p)
    BY <1>t, <2>1 DEF Closing
  <2> QED BY <1>f, <2>1, <2>2, <2>3, <2>4, <1>u DEF Still
<1>4. CASE NextWalk
  <2>1. UNCHANGED <<disk, journal, tree, pushing, calm>>
    BY <1>4 DEF NextWalk, dbVars, history
  <2>2. step # "idle" /\ (step' # "merge" => step # "merge")
    BY <1>4 DEF NextWalk
  <2> QED BY <1>f, <2>1, <2>2, <1>u DEF Still
<1>5. ASSUME NEW p \in Path, DetectUpdate(p) PROVE Still'
  <2>1. /\ step = "update" /\ UNCHANGED <<disk, journal, pushing, calm, step>>
        /\ tree' = tree \/
             (There(current, p) /\ \E m, n : tree' = [tree EXCEPT ![current][p] =
                [instr |-> Detect(current, p, disk[current][p]), mtime |-> m,
                 inode |-> n]])
    BY <1>5 DEF DetectUpdate, dbVars, history
  <2>2. SUFFICES ASSUME calm = 2 PROVE Still'
    BY <2>1 DEF Still
  <2>3. p \in Findable => Quiet(p)
    BY <2>1, <2>2 DEF Still
  <2>4. There(current, p) /\ p \in Findable =>
           Detect(current, p, disk[current][p]) = "NONE"
    <3>1. SUFFICES ASSUME There(current, p), p \in Findable
                   PROVE  Detect(current, p, disk[current][p]) = "NONE"
      OBVIOUS
    <3>2. /\ Level(p) /\ FoundByHash(p) /\ exists
          /\ disk["local"][p].mtime <= journal[p].mtime
      BY <1>t, <2>3, <3>1 DEF Quiet, Empty, Dated, FoundByHash, Findable
    <3>3. /\ disk["local"][p].mtime \in Nat /\ disk["remote"][p].mtime \in Nat
          /\ journal[p].mtime \in Nat
      <4>1. journal[p].mtime \in Nat
        BY <3>2 DEF TypeOK, FoundByHash, Recorded, Record
      <4> QED BY <1>t, <3>2, <4>1, ThereIsFile DEF Level
    <3>4. disk[current][p].linked = FALSE
      BY <1>t, <3>1 DEF Unlinked
    <3>5. ~(disk[current][p].mtime > journal[p].mtime)
      BY <1>t, <3>2, <3>3 DEF Level
    <3> QED BY <3>2, <3>4, <3>5 DEF Detect
  <2>5. \A r \in Replica, q \in Findable :
           tree'[r][q].instr \in {tree[r][q].instr, "NONE"}
    <3> DEFINE i == Detect(current, p, disk[current][p])
    <3>1. There(current, p) /\ p \in Findable => i = "NONE"
      BY <2>4
    <3>2. tree' = tree \/
             (There(current, p) /\ \E m, n : tree' = [tree EXCEPT ![current][p] =
                [instr |-> i, mtime |-> m, inode |-> n]])
      BY <2>1
    <3> HIDE DEF i
    <3> QED BY <1>f, <1>t, <3>1, <3>2 DEF TreeType
  <2> QED BY <1>f, <2>1, <2>2, <2>5, <1>u DEF Still
<1>6. ASSUME NEW p \in Path, SkipUnreadable(p) PROVE Still'
  BY <1>6, <1>t DEF SkipUnreadable, Fault, Still
<1>7. ASSUME NEW p \in Path, ReconcilePath(p) PROVE Still'
  <2>1. step = "reconcile" /\ UNCHANGED <<disk, journal, pushing, calm, step>>
    BY <1>7 DEF ReconcilePath, dbVars, history
  <2>2. SUFFICES ASSUME calm = 2 PROVE Still'
    BY <2>1 DEF Still
  <2>3. /\ Decided(tree[current][p].instr, tree[Other(current)][p].instr,
                   tree'[current][p].instr, tree'[Other(current)][p].instr)
        /\ \A r \in Replica, q \in Path \ {p} : tree'[r][q] = tree[r][q]
    BY <1>7, VisitStep
  <2>p. CASE p \notin Findable
    BY <1>f, <2>1, <2>2, <2>3, <2>p, <1>u DEF Still
  <2>q. SUFFICES ASSUME p \in Findable PROVE Still'
    BY <2>p
  <2>4. Quiet(p) /\ \A r \in Replica : tree[r][p].instr \in {"NONE", "ABSENT"}
    BY <2>1, <2>2, <2>q DEF Still
  <2>5. ~(tree[current][p].instr = "NONE" /\ tree[Other(current)][p].instr = "ABSENT")
    <3>1. SUFFICES ASSUME tree[current][p].instr = "NONE"
                   PROVE  tree[Other(current)][p].instr # "ABSENT"
      OBVIOUS
    <3>2. There(current, p)
      BY <1>t, <2>1, <3>1 DEF RunInv, Observed, Matches
    <3>3. There(Other(current), p) /\ Other(current) \in Replica
      BY <1>t, <2>4, <3>2 DEF Quiet, Empty, Level, Other
    <3> QED BY <2>1, <2>2, <3>3 DEF Seen, Whole
  <2>6. /\ tree'[current][p].instr \in {"NONE", "ABSENT"}
        /\ tree'[Other(current)][p].instr \in {"NONE", "ABSENT"}
    BY <1>t, <2>3, <2>4, <2>5, OtherReplica DEF Decided, Alone
  <2>7. \A r \in Replica : r = current \/ r = Other(current)
    BY <1>t DEF Other
  <2>8. \A r \in Replica, q \in Findable :
           tree'[r][q].instr \in {"NONE", "ABSENT"}
    BY <1>f, <2>1, <2>2, <2>3, <2>6, <2>7 DEF Still
  <2> QED BY <1>f, <2>1, <2>2, <2>8, <1>u DEF Still
<1>8. ASSUME NEW p \in Path, Pushes(p) \/ BackUp(p) \/ RemoveFile(p)
      PROVE  Still'
  <2>1. /\ step = "propagate"
        /\ tree[current][p].instr \in Acting \/ p \in pushing
    <3>1. CASE Pushes(p)
      BY <3>1, PushDisk DEF Acting
    <3>2. CASE BackUp(p) \/ RemoveFile(p)
      BY <3>2 DEF BackUp, RemoveFile, Acting, Pushing
    <3> QED BY <1>8, <3>1, <3>2
  <2>2. SUFFICES ASSUME calm' = 2 PROVE Still'
    BY DEF Still
  <2>3. calm = 2
    BY <2>1, <2>2, <1>c DEF StartRun
  <2>4. p \notin Findable
    BY <1>t, <2>1, <2>3 DEF Still, Acting, Pushing
  <2>5. /\ \A r \in Replica, q \in Findable : disk'[r][q] = disk[r][q]
        /\ UNCHANGED <<journal, exists>>
    BY <1>8, <1>f, <2>4, PropagatesSame, PropagatesOn
  <2>6. CASE EndRun
    BY <2>6 DEF EndRun, Still
  <2>7. ASSUME ~EndRun
        PROVE  /\ step' = "propagate"
               /\ \A r \in Replica, q \in Findable : tree'[r][q] = tree[r][q]
               /\ pushing' \subseteq {p}
    BY <1>8, <1>f, <1>t, <2>1, <2>4, <2>7, PropagatesNodes, PropagatesOn
  <2>8. \A q \in Findable : Quiet(q)' <=> Quiet(q)
    BY <1>t, <2>5 DEF Quiet, Empty, Level, There, Recorded
  <2> QED BY <1>t, <2>1, <2>3, <2>4, <2>6, <2>7, <2>8 DEF Still
<1>9. ASSUME NEW p \in Path, MergePath(p) PROVE Still'
  <2>1. step = "merge" /\ iR(p) = "UPDATED" /\ pushing' \subseteq pushing
    BY <1>9 DEF MergePath, RunInv, Pending, EndRun
  <2>2. SUFFICES ASSUME calm' = 2, ~EndRun PROVE Still'
    BY DEF Still, EndRun
  <2>3. calm = 2
    BY <2>1, <2>2, <1>c DEF StartRun
  <2>4. p \notin Findable
    BY <1>t, <2>1, <2>3 DEF Still, iR
  <2>5. /\ step' = "merge"
        /\ \A r \in Replica, q \in Findable : tree'[r][q] = tree[r][q]
    BY <1>9, <1>f, <1>t, <2>1, <2>2, <2>4 DEF MergePath, TreeType
  <2> QED BY <2>1, <2>3, <2>5 DEF Still
<1>10. CASE WriteJournal \/ Crash
  BY <1>10 DEF WriteJournal, Crash, EndRun, Still
<1> QED BY <1>1, <1>2, <1>3, <1>4, <1>5, <1>6, <1>7, <1>8, <1>9, <1>10
        DEF Next, Program, VisitPath, Pushes

QuietInv == /\ WalkInv /\ RunInv /\ Seen /\ Unlinked /\ Dated /\ ToldAll
            /\ Forward /\ Decisive /\ Closing /\ Still

(* The invariants of a second run hold throughout.                         *)
LEMMA QuietInvAlways == Tidy => (Spec => [](TypeOK /\ QuietInv))
<1> SUFFICES ASSUME Tidy PROVE Spec => [](TypeOK /\ QuietInv)
  OBVIOUS
<1>1. Init => QuietInv
  <2> SUFFICES ASSUME Init PROVE QuietInv
    OBVIOUS
  <2>1. /\ step = "idle" /\ calm = 0
        /\ \A r \in Replica, p \in Path : ~There(r, p)
        /\ \A p \in Path : ~Recorded(p)
    BY DEF Init, There, Recorded
  <2>2. WalkInv /\ Seen /\ ToldAll /\ Forward /\ Decisive /\ Closing /\ Still
    BY <2>1 DEF WalkInv, Seen, ToldAll, Forward, Decisive, Closing, Still
  <2>3. Unlinked /\ Dated
    BY <2>1 DEF Unlinked, Dated, Findable
  <2> QED BY <2>2, <2>3, InitRunInv DEF QuietInv
<1>2. TypeOK /\ TypeOK' /\ QuietInv /\ [Next]_vars => QuietInv'
  <2> SUFFICES ASSUME TypeOK, TypeOK', QuietInv, [Next]_vars PROVE QuietInv'
    OBVIOUS
  <2>1. /\ Orderly /\ "link" \notin UserMoves
        /\ "duringRun" \notin UserMoves /\ "localOnly" \notin UserMoves
    BY DEF Tidy, Patient, Orderly
  <2>2. WalkInv' /\ RunInv' /\ Seen'
    BY <2>1, WalkInvStep, RunInvStep, SeenStep DEF QuietInv, RunInv
  <2>3. Unlinked' /\ Dated' /\ ToldAll'
    BY <2>1, UnlinkedStep, DatedStep, ToldStep DEF QuietInv, RunInv
  <2>4. Forward' /\ Decisive'
    BY <2>1, ForwardStep, DecisiveStep DEF QuietInv
  <2>5. Closing' /\ Still'
    BY <2>2, ClosingStep, StillStep DEF QuietInv, RunInv
  <2> QED BY <2>2, <2>3, <2>4, <2>5 DEF QuietInv
<1> QED BY <1>1, <1>2, TypeCorrect, PTL DEF Spec

(* After a run in which nothing interfered, and no user since, a second    *)
(* run gives no instruction to act where it finds the row of the path,     *)
(* whatever it does to the paths whose rows it does not find: what it has  *)
(* just brought is not pushed back.  For users as in CalmRunsConverge who  *)
(* make no second links either.                                            *)
THEOREM SecondRunRests == Tidy => (Spec => []SecondRunIsQuiet)
<1> SUFFICES ASSUME Tidy PROVE Spec => []SecondRunIsQuiet
  OBVIOUS
<1>1. QuietInv => SecondRunIsQuiet
  BY DEF QuietInv, Still, SecondRunIsQuiet
<1> QED BY <1>1, QuietInvAlways, PTL

-----------------------------------------------------------------------------
(***************************************************************************)
(* NoLostUpdate and NoResurrect.                                           *)
(***************************************************************************)

(* Users who only write and delete, between the runs, and runs that pass   *)
(* over no failure.                                                        *)
Guarded == UserMoves = {} /\ Sturdy

Base == TypeOK /\ CalmInv /\ QuietInv

(* What is known of such users and runs already.                           *)
LEMMA BaseAlways == Guarded => (Spec => []Base)
<1> SUFFICES ASSUME Guarded PROVE Spec => []Base
  OBVIOUS
<1>1. Patient /\ Tidy
  BY DEF Guarded, Patient, Tidy, Orderly
<1> QED BY <1>1, CalmInvAlways, QuietInvAlways, PTL DEF Base

(* A run that comes to its journal has made the replicas equal.            *)
LEMMA MergedEqual ==
  ASSUME Guarded, Base, step = "merge", NEW p \in Path
  PROVE  Equal(p)
<1>1. Done(p)
  BY DEF Guarded, Base, CalmInv, Converging, Sure
<1>2. There("local", p) => disk["local"][p].linked = FALSE
  BY DEF Base, QuietInv, Unlinked, Replica
<1> QED BY <1>1, <1>2 DEF Done

(* A copy gets an inode number of its own.                                 *)
LEMMA PushInode ==
  ASSUME TypeOK, NEW p \in Path, Pushes(p),
         disk'[Dest][p] # NoFile, disk'[Dest][p] # disk[Dest][p]
  PROVE  disk'[Dest][p].inode \in FreeInodes(Dest)
<1>t. DiskType /\ Dest \in Replica
  BY OtherReplica DEF TypeOK, DiskType, Dest
<1>1. ASSUME NEW t, Deliver(p, t) PROVE disk'[Dest][p].inode \in FreeInodes(Dest)
  <2>1. PICK i \in FreeInodes(Dest) :
           disk' = [disk EXCEPT ![Dest][p] =
                      [data |-> disk[current][p].data, mtime |-> t,
                       inode |-> i, linked |-> FALSE]]
    BY <1>1 DEF Deliver, Put
  <2>2. disk'[Dest][p] = [data |-> disk[current][p].data, mtime |-> t,
                          inode |-> i, linked |-> FALSE]
    BY <2>1, <1>t DEF DiskType
  <2> QED BY <2>2
<1>2. ASSUME disk' = [disk EXCEPT ![Dest][p] = NoFile] PROVE FALSE
  BY <1>2, <1>t DEF DiskType
<1>3. CASE PushSucceeds(p)
  BY <1>1, <1>3 DEF PushSucceeds
<1>4. CASE PushFailsLate(p)
  BY <1>1, <1>2, <1>4 DEF PushFailsLate, Put
<1>5. CASE PushFailsToOpen(p) \/ PushFails(p) \/ PushEndsRun(p)
  BY <1>2, <1>5 DEF PushFailsToOpen, PushFails, PushEndsRun, LeaveDestination, Put
<1> QED BY <1>3, <1>4, <1>5 DEF Pushes

(* How a path fares that is propagated: its file is copied, taken away, or *)
(* taken away to make room for a copy; or the run ends, and without a      *)
(* temporary file the other replica may have lost its file.                *)
MadeRoom(p) == /\ tree[current][p].instr = "CONFLICT" /\ pushing' = {p}
               /\ disk'[current][p] = disk[current][p]
               /\ disk'[Dest][p] = NoFile
               /\ There(Dest, p) => disk[Dest][p].data \in kept'[Dest]
Stopped(p)  == EndRun /\ (disk' = disk \/ (InPlace /\ Removed(Dest, p)))
(* A path that csync_propagate_files visits fares in one of four ways.     *)
LEMMA Fares ==
  ASSUME Guarded, Base, NEW p \in Path, Pushes(p) \/ BackUp(p) \/ RemoveFile(p)
  PROVE  \/ Pushes(p) /\ ~EndRun /\ Copied(p) /\ pushing' = {}
         \/ RemoveFile(p) /\ ~EndRun /\ Cleared(p) /\ pushing' = {}
         \/ BackUp(p) /\ ~EndRun /\ MadeRoom(p)
         \/ Stopped(p)
<1>t. /\ DiskType /\ current \in Replica /\ Dest \in Replica /\ Dest # current
      /\ kept \in [Replica -> SUBSET Nat] /\ TypeOK
      /\ WalkInv /\ RunInv /\ Pending /\ Observed /\ Seen /\ Whole /\ Sturdy
  BY OtherReplica DEF Base, TypeOK, DiskType, Dest, CalmInv, RunInv, Guarded,
     Whole, Sturdy, Failures
<1>f. \A k \in Failures : ~Fault(k)
  BY <1>t DEF Sturdy, Fault
<1>1. /\ pushing \subseteq {p}
      /\ \/ EndRun \/ p \in pushing' \/ Copied(p) \/ (RemoveFile(p) /\ Cleared(p))
  BY <1>t, PropagateEnds
<1>2. CASE Pushes(p)
  <2>1. CASE EndRun
    <3>1. PushEndsRun(p)
      BY <1>2, <2>1 DEF Pushes, PushSucceeds, PushFailsToOpen, PushFails,
         PushFailsLate, PushEnds, EndRun, MayPush
    <3> QED BY <2>1, <3>1 DEF PushEndsRun, LeaveDestination, Put, Stopped, Removed
  <2>2. CASE ~EndRun
    <3>1. pushing' = {}
      BY <1>2, <2>2 DEF Pushes, PushSucceeds, PushFailsToOpen, PushFails,
         PushFailsLate, PushEndsRun, PushEnds
    <3>2. ~RemoveFile(p)
      <4>1. MayPush(p)
        BY <1>2 DEF Pushes, PushSucceeds, PushFailsToOpen, PushFails,
           PushFailsLate, PushEndsRun
      <4>2. pushing = {p} \/ tree[current][p].instr \in {"NEW", "SYNC"}
        BY <4>1 DEF MayPush
      <4> QED BY <4>2 DEF RemoveFile
    <3> QED BY <1>1, <1>2, <2>2, <3>1, <3>2
  <2> QED BY <2>1, <2>2
<1>3. CASE BackUp(p)
  <2>1. /\ tree[current][p].instr = "CONFLICT" /\ pushing' = {p} /\ ~EndRun
        /\ \/ /\ There(Dest, p)
              /\ kept' = [kept EXCEPT ![Dest] = @ \cup {disk[Dest][p].data}]
              /\ disk' = [disk EXCEPT ![Dest][p] = NoFile]
           \/ ~There(Dest, p) /\ disk' = disk
    BY <1>3, <1>f DEF BackUp, EndRun, Put, Failures
  <2>2. /\ disk'[current][p] = disk[current][p]
        /\ disk'[Dest][p] = NoFile
    BY <2>1, <1>t DEF DiskType, There
  <2>3. There(Dest, p) => disk[Dest][p].data \in kept'[Dest]
    BY <2>1, <1>t
  <2> QED BY <1>3, <2>1, <2>2, <2>3 DEF MadeRoom
<1>4. CASE RemoveFile(p)
  <2>1. pushing = {} /\ pushing' = {} /\ ~EndRun
    BY <1>4 DEF RemoveFile, EndRun
  <2>2. tree'[current][p].instr # "UPDATED"
    <3>1. \/ tree' = [tree EXCEPT ![current][p].instr = "DELETED"]
          \/ tree' = [tree EXCEPT ![current][p].instr = "NONE"]
      BY <1>4 DEF RemoveFile
    <3>2. TreeType
      BY <1>t DEF TypeOK, TreeType
    <3> QED BY <3>1, <3>2, <1>t DEF TreeType, Node
  <2>3. ~Copied(p)
    BY <2>2 DEF Copied
  <2> QED BY <1>1, <1>4, <2>1, <2>3
<1> QED BY <1>2, <1>3, <1>4

(* Whose a file is that was not there before: one a user has written, or a *)
(* copy.                                                                   *)
WrittenBy(r, p) ==
    /\ step = "idle" /\ UNCHANGED ctxVars
    /\ writes' = writes + 1 /\ disk'[r][p].data = writes + 1
    /\ disk'[r][p].mtime = now + 1
CarriedTo(r, p) == r = Dest /\ Pushes(p) /\ ~EndRun /\ Copied(p) /\ pushing' = {}

(* A file that was not there before is the only change of its step; it     *)
(* comes from a user between the runs or from csync_push_file.             *)
LEMMA Changed ==
  ASSUME Guarded, Base, [Next]_vars, NEW r \in Replica, NEW p \in Path,
         disk'[r][p] # NoFile, disk'[r][p] # disk[r][p]
  PROVE  /\ \A s \in Replica, q \in Path : s # r \/ q # p =>
               disk'[s][q] = disk[s][q]
         /\ \/ disk'[r][p].inode \in FreeInodes(r)
            \/ There(r, p) /\ disk'[r][p].inode = disk[r][p].inode
         /\ WrittenBy(r, p) \/ CarriedTo(r, p)
<1>t. /\ DiskType /\ current \in Replica /\ Dest \in Replica /\ TypeOK
      /\ Replica = {current, Dest} /\ current # Dest
  BY OtherReplica DEF Base, TypeOK, DiskType, Dest, Replica, Other
<1>k. ASSUME \E s \in Replica, q \in Path : disk' = [disk EXCEPT ![s][q] = NoFile]
      PROVE  FALSE
  BY <1>k, <1>t DEF DiskType
<1>1. ASSUME NEW s \in Replica, NEW q \in Path, UserWrites(s, q)
      PROVE  /\ \A u \in Replica, v \in Path : u # r \/ v # p =>
                   disk'[u][v] = disk[u][v]
             /\ \/ disk'[r][p].inode \in FreeInodes(r)
                \/ There(r, p) /\ disk'[r][p].inode = disk[r][p].inode
             /\ WrittenBy(r, p)
  <2>1. PICK t \in WriteTimes :
           IF There(s, q)
           THEN Put(s, q, [disk[s][q] EXCEPT !.data = writes + 1, !.mtime = t])
           ELSE \E i \in FreeInodes(s) :
                  Put(s, q, [data |-> writes + 1, mtime |-> t, inode |-> i,
                             linked |-> FALSE])
    BY <1>1 DEF UserWrites
  <2>2. t = now + 1
    BY DEF Guarded, WriteTimes
  <2>3. PICK f : /\ disk' = [disk EXCEPT ![s][q] = f]
                 /\ f.data = writes + 1 /\ f.mtime = t
                 /\ \/ f.inode \in FreeInodes(s)
                    \/ There(s, q) /\ f.inode = disk[s][q].inode
    <3>1. CASE There(s, q)
      <4> DEFINE f == [disk[s][q] EXCEPT !.data = writes + 1, !.mtime = t]
      <4>1. f.data = writes + 1 /\ f.mtime = t /\ f.inode = disk[s][q].inode
        BY <1>t, <3>1, ThereIsFile DEF File
      <4> QED BY <2>1, <3>1, <4>1 DEF Put
    <3>2. CASE ~There(s, q)
      BY <2>1, <3>2 DEF Put
    <3> QED BY <3>1, <3>2
  <2>4. s = r /\ q = p
    BY <2>3, <1>t DEF DiskType
  <2>5. /\ disk'[r][p] = f
        /\ \A u \in Replica, v \in Path : u # r \/ v # p =>
              disk'[u][v] = disk[u][v]
    BY <2>3, <2>4, <1>t DEF DiskType
  <2>6. step = "idle" /\ UNCHANGED ctxVars /\ writes' = writes + 1
    BY <1>1 DEF UserWrites, UserMayAct, Guarded
  <2> QED BY <2>2, <2>3, <2>4, <2>5, <2>6 DEF WrittenBy
<1>2. ASSUME NEW s \in Replica, NEW q \in Path, UserDeletes(s, q) PROVE FALSE
  BY <1>2, <1>k DEF UserDeletes, Put
<1>3. ASSUME NEW q \in Path, Pushes(q) \/ BackUp(q) \/ RemoveFile(q)
      PROVE  /\ \A s \in Replica, v \in Path : s # r \/ v # p =>
                   disk'[s][v] = disk[s][v]
             /\ disk'[r][p].inode \in FreeInodes(r)
             /\ CarriedTo(r, p)
  <2>1. q = p
    BY <1>3, <1>t, PropagatesSame
  <2>2. CASE Pushes(p) /\ ~EndRun /\ Copied(p) /\ pushing' = {}
    <3>1. r = Dest
      BY <1>t, <2>2 DEF Copied
    <3>2. \A s \in Replica, v \in Path : s # r \/ v # p =>
             disk'[s][v] = disk[s][v]
      BY <1>t, <2>2, <3>1, PropagatesSame DEF Copied
    <3> QED BY <1>t, <2>2, <3>1, <3>2, PushInode DEF CarriedTo
  <2>3. CASE Cleared(p) \/ MadeRoom(p)
    BY <1>t, <2>3 DEF Cleared, MadeRoom
  <2>4. CASE Stopped(p)
    BY <1>k, <1>t, <2>4 DEF Stopped, Removed
  <2> QED BY <1>3, <2>1, <2>2, <2>3, <2>4, Fares
<1>4. disk' # disk
  OBVIOUS
<1>5. ASSUME NEW u \in Path, NEW v \in Path, UserRenames(u, v) \/ UserLinks(u)
      PROVE  FALSE
  BY <1>5 DEF UserRenames, UserLinks, Guarded
<1> QED BY <1>1, <1>2, <1>3, <1>4, <1>5, OthersKeepDisk
        DEF Next, User, Program, VisitPath, vars, Pushes

(* Inode numbers: no two local files share one, no row has that of a file  *)
(* at another path, and a local node has that of its file until the path   *)
(* is propagated to.                                                       *)
Distinct ==
    \A p, q \in Path :
       /\ There("local", p) /\ There("local", q)
       /\ disk["local"][p].inode = disk["local"][q].inode
       => p = q
OwnRow ==
    \A p, q \in Path :
       /\ Recorded(p) /\ There("local", q)
       /\ journal[p].inode = disk["local"][q].inode
       => p = q
Own(p) == There("local", p) /\ tree["local"][p].inode = disk["local"][p].inode
OwnNode ==
    /\ step \in {"update", "reconcile"} =>
         \A p \in Path : iL(p) # "ABSENT" => Own(p)
    /\ step = "propagate" =>
         \A p \in Path : iL(p) # "ABSENT" =>
            \/ Own(p) \/ iL(p) = "DELETED" \/ iR(p) = "UPDATED"
            \/ p \in pushing /\ current = "remote"
    /\ step = "merge" =>
         \A p \in Path : iL(p) # "ABSENT" =>
            Own(p) \/ iL(p) = "DELETED" \/ p \in todo

(* A local file keeps its number, or is a new one whose number neither     *)
(* another file nor a row has.                                             *)
LEMMA InodeStep ==
  ASSUME Guarded, Base, [Next]_vars, NEW u \in Path, disk'["local"][u] # NoFile
  PROVE  \/ There("local", u) /\ disk'["local"][u].inode = disk["local"][u].inode
         \/ /\ \A v \in Path \ {u} : disk'["local"][v] = disk["local"][v]
            /\ \A v \in Path :
                 /\ There("local", v) => disk["local"][v].inode # disk'["local"][u].inode
                 /\ Recorded(v) => journal[v].inode # disk'["local"][u].inode
<1>1. CASE disk'["local"][u] = disk["local"][u]
  BY <1>1 DEF There
<1>2. CASE disk'["local"][u] # disk["local"][u]
  <2>1. "local" \in Replica
    BY DEF Replica
  <2>2. /\ \A s \in Replica, q \in Path : s # "local" \/ q # u =>
               disk'[s][q] = disk[s][q]
        /\ \/ disk'["local"][u].inode \in FreeInodes("local")
           \/ There("local", u) /\ disk'["local"][u].inode = disk["local"][u].inode
    BY <1>2, <2>1, Changed
  <2> QED BY <2>1, <2>2 DEF FreeInodes, Guarded
<1> QED BY <1>1, <1>2

(* No step gives two local files one inode number.                         *)
LEMMA DistinctStep ==
  ASSUME Guarded, Base, Distinct, [Next]_vars
  PROVE  Distinct'
<1>1. SUFFICES ASSUME NEW p \in Path, NEW q \in Path,
                      disk'["local"][p] # NoFile, disk'["local"][q] # NoFile,
                      disk'["local"][p].inode = disk'["local"][q].inode, p # q
               PROVE  FALSE
  BY DEF Distinct, There
<1>2. CASE /\ There("local", p) /\ disk'["local"][p].inode = disk["local"][p].inode
           /\ There("local", q) /\ disk'["local"][q].inode = disk["local"][q].inode
  BY <1>1, <1>2 DEF Distinct
<1> QED BY <1>1, <1>2, InodeStep DEF There

(* No step gives a file the number of the row of another path:             *)
(* csync_statedb_write takes the numbers from nodes that are those of      *)
(* their files.                                                            *)
LEMMA OwnRowStep ==
  ASSUME Guarded, Base, Distinct, OwnRow, OwnNode, [Next]_vars
  PROVE  OwnRow'
<1>t. TypeOK
  BY DEF Base
<1>1. SUFFICES ASSUME NEW p \in Path, NEW q \in Path,
                      journal'[p] # NoRecord, disk'["local"][q] # NoFile,
                      journal'[p].inode = disk'["local"][q].inode
               PROVE  p = q
  BY DEF OwnRow, There, Recorded
<1>2. CASE journal' = journal
  BY <1>1, <1>2, InodeStep DEF OwnRow, Recorded
<1>3. CASE WriteJournal /\ journal' # journal
  <2>1. step = "merge" /\ todo = {} /\ disk' = disk
    BY <1>3 DEF WriteJournal
  <2>2. /\ Written(tree["local"][p])
        /\ journal'[p].inode = tree["local"][p].inode
    BY <1>t, <1>1, <1>3, RowsStep DEF Recorded
  <2>3. Own(p)
    BY <2>1, <2>2 DEF OwnNode, Written, iL
  <2> QED BY <1>1, <2>1, <2>2, <2>3 DEF Own, Distinct, There
<1> QED BY <1>t, <1>2, <1>3, RowsStep

(* No step makes a local node stale before its path is propagated to, and  *)
(* csync_merge_file_trees reads the number of what was pushed.             *)
LEMMA OwnNodeStep ==
  ASSUME Guarded, Base, OwnNode, [Next]_vars
  PROVE  OwnNode'
<1>t. /\ TreeType /\ DiskType /\ Replica = {"local", "remote"}
      /\ current \in Replica /\ TypeOK /\ WalkInv /\ Pending /\ Resting
  BY DEF Base, TypeOK, TreeType, DiskType, Replica, CalmInv, RunInv
<1>i. ASSUME step' = "idle" PROVE OwnNode'
  BY <1>i DEF OwnNode
<1>1. CASE UNCHANGED vars
  BY <1>1 DEF vars, OwnNode, Own, There, iL, iR
<1>2. CASE User
  <2>1. Orderly
    BY DEF Guarded, Orderly
  <2>2. step' = "idle"
    BY <1>2, <2>1, UserRests, UserKeeps
  <2> QED BY <2>2, <1>i
<1>3. CASE StartRun
  <2>1. step' = "update" /\ \A p \in Path : tree'["local"][p].instr = "ABSENT"
    BY <1>3, <1>t DEF StartRun, EmptyTrees, Absent
  <2> QED BY <2>1 DEF OwnNode, iL
<1>4. CASE NextWalk
  <2>1. todo = {} /\ pushing = {} /\ UNCHANGED <<disk, tree, pushing>>
    BY <1>4 DEF NextWalk
  <2>2. \A p \in Path : /\ Own(p)' <=> Own(p)
                        /\ iL(p)' = iL(p) /\ iR(p)' = iR(p)
    BY <2>1 DEF Own, There, iL, iR
  <2>3. CASE step = "propagate" /\ step' = "merge"
    <3>1. todo' = {p \in Path : tree["remote"][p].instr = "UPDATED"}
      BY <1>4, <2>3 DEF NextWalk, StartWalk
    <3> QED BY <2>1, <2>2, <2>3, <3>1 DEF OwnNode, iR
  <2>4. CASE step \in {"update", "reconcile", "propagate"}
             /\ step' \in {"update", "reconcile", "propagate"}
             /\ (step' # "propagate" => step # "propagate")
    BY <2>1, <2>2, <2>4 DEF OwnNode
  <2>5. \/ step = "propagate" /\ step' = "merge"
        \/ /\ step \in {"update", "reconcile", "propagate"}
           /\ step' \in {"update", "reconcile", "propagate"}
           /\ (step' # "propagate" => step # "propagate")
    BY <1>4 DEF NextWalk, StartWalk
  <2> QED BY <2>3, <2>4, <2>5
<1>5. ASSUME NEW p \in Path, DetectUpdate(p) PROVE OwnNode'
  <2>1. step = "update" /\ UNCHANGED <<disk, step>>
    BY <1>5 DEF DetectUpdate
  <2> DEFINE n == [instr |-> Detect(current, p, disk[current][p]),
                   mtime |-> disk[current][p].mtime,
                   inode |-> disk[current][p].inode]
  <2>2. \/ tree' = tree
        \/ There(current, p) /\ tree' = [tree EXCEPT ![current][p] = n]
    BY <1>5 DEF DetectUpdate
  <2>3. n.inode = disk[current][p].inode
    OBVIOUS
  <2> HIDE DEF n
  <2>4. \A q \in Path : \/ tree'["local"][q] = tree["local"][q]
                        \/ /\ There("local", q) /\ q = p /\ current = "local"
                           /\ tree'["local"][q] = n
    BY <1>t, <2>2 DEF TreeType
  <2> QED BY <2>1, <2>3, <2>4 DEF OwnNode, Own, There, iL
<1>6. ASSUME NEW p \in Path, SkipUnreadable(p) PROVE OwnNode'
  BY <1>6 DEF SkipUnreadable, Fault, Guarded, Sturdy, Failures
<1>7. ASSUME NEW p \in Path, ReconcilePath(p) PROVE OwnNode'
  <2>1. step = "reconcile" /\ UNCHANGED <<disk, step>>
    BY <1>7 DEF ReconcilePath
  <2>2. \A q \in Path : tree'["local"][q].inode = tree["local"][q].inode
    <3>1. \E k, l : tree' = [tree EXCEPT ![current][p].instr = k,
                                         ![Other(current)][p].instr = l]
      BY <1>7 DEF ReconcilePath
    <3>2. Other(current) \in Replica /\ Other(current) # current
      BY <1>t, OtherReplica
    <3> QED BY <1>t, <3>1, <3>2 DEF TreeType, Node
  <2>3. \A q \in Path : iL(q)' # "ABSENT" => iL(q) # "ABSENT"
    <3>1. /\ Decided(tree[current][p].instr, tree[Other(current)][p].instr,
                     tree'[current][p].instr, tree'[Other(current)][p].instr)
          /\ \A r \in Replica, q \in Path \ {p} : tree'[r][q] = tree[r][q]
      BY <1>t, <1>7, VisitStep
    <3>2. current = "local" \/ Other(current) = "local"
      BY <1>t DEF Other
    <3> QED BY <1>t, <3>1, <3>2 DEF Decided, Alone, iL
  <2> QED BY <2>1, <2>2, <2>3 DEF OwnNode, Own, There
<1>8. ASSUME NEW p \in Path, Pushes(p) \/ BackUp(p) \/ RemoveFile(p)
      PROVE  OwnNode'
  <2>1. CASE EndRun
    BY <2>1, <1>i DEF EndRun
  <2>2. CASE ~EndRun
    <3>1. /\ UNCHANGED <<step, current>> /\ step = "propagate"
          /\ tree'[current][p].instr \in {"UPDATED", "ERROR", "NONE", "DELETED"}
          /\ \A r \in Replica, q \in Path :
                r # current \/ q # p => tree'[r][q] = tree[r][q]
          /\ tree[current][p].instr \in Acting \/ pushing = {p}
      BY <1>t, <1>8, <2>2, PropagatesNodes
    <3>2. \A q \in Path : tree'["local"][q].inode = tree["local"][q].inode
      <4>1. \E k : tree' = [tree EXCEPT ![current][p].instr = k]
        BY <1>8, <2>2 DEF Pushes, PushSucceeds, PushFailsToOpen, PushFails,
           PushFailsLate, PushEndsRun, PushEnds, BackUp, RemoveFile
      <4> QED BY <1>t, <4>1 DEF TreeType, Node
    <3>3. \A r \in Replica, q \in Path \ {p} : disk'[r][q] = disk[r][q]
      BY <1>t, <1>8, PropagatesSame
    <3>4. /\ Dest \in Replica /\ Dest # current
          /\ pushing \subseteq {p}
          /\ tree[current][p].instr \in Acting \cup {"NONE", "ERROR"}
      <4>1. Whole /\ Seen /\ Observed /\ Sturdy
        BY DEF Base, CalmInv, RunInv, Guarded, Whole, Sturdy, Failures
      <4>2. pushing \subseteq {p}
        BY <1>t, <1>8, <4>1, PropagateEnds
      <4> QED BY <1>t, <3>1, <4>2, OtherReplica DEF Dest, Pending
    <3>5. ASSUME NEW q \in Path \ {p}, iL(q)' # "ABSENT"
          PROVE  Own(q)' \/ iL(q)' = "DELETED" \/ iR(q)' = "UPDATED"
      <4>1. Own(q) \/ iL(q) = "DELETED" \/ iR(q) = "UPDATED"
        BY <1>t, <3>1, <3>4, <3>5 DEF OwnNode, iL
      <4> QED BY <1>t, <3>1, <3>2, <3>3, <4>1 DEF Own, There, iL, iR
    <3>6. ASSUME iL(p)' # "ABSENT"
          PROVE  \/ Own(p)' \/ iL(p)' = "DELETED" \/ iR(p)' = "UPDATED"
                 \/ p \in pushing' /\ current = "remote"
      <4>1. CASE current = "local"
        <5>1. /\ Own(p) \/ iR(p) = "UPDATED"
              /\ iR(p)' = iR(p)
          BY <1>t, <3>1, <3>4, <4>1 DEF OwnNode, iL, iR, Acting, Pushing
        <5>2. disk'["local"][p] = disk["local"][p] \/ iL(p)' = "DELETED"
          <6>1. Copied(p) \/ MadeRoom(p) => disk'["local"][p] = disk["local"][p]
            BY <4>1 DEF Copied, MadeRoom
          <6>2. RemoveFile(p) =>
                   disk'["local"][p] = disk["local"][p] \/ iL(p)' = "DELETED"
            <7>1. ASSUME tree' = [tree EXCEPT ![current][p].instr = "DELETED"]
                  PROVE  iL(p)' = "DELETED"
              BY <1>t, <4>1, <7>1 DEF TreeType, Node, iL
            <7> QED BY <7>1 DEF RemoveFile
          <6> QED BY <1>8, <2>2, <6>1, <6>2, Fares DEF Stopped
        <5> QED BY <3>2, <5>1, <5>2 DEF Own, There
      <4>2. CASE current = "remote"
        <5>1. /\ iL(p)' = iL(p) /\ Dest = "local"
              /\ Own(p) \/ iL(p) = "DELETED" \/ p \in pushing \/ iR(p) = "UPDATED"
          BY <1>t, <3>1, <3>6, <4>2 DEF OwnNode, iL, Dest, Other
        <5>2. CASE Copied(p)
          BY <4>2, <5>2 DEF Copied, iR
        <5>3. CASE MadeRoom(p)
          BY <4>2, <5>3 DEF MadeRoom
        <5>4. CASE RemoveFile(p)
          <6>1. pushing = {} /\ iR(p) = "REMOVE"
            BY <4>2, <5>4 DEF RemoveFile, iR
          <6>2. disk'["local"] = disk["local"]
            BY <1>t, <4>2, <5>4 DEF RemoveFile, Put, DiskType
          <6> QED BY <3>2, <5>1, <6>1, <6>2 DEF Own, There
        <5> QED BY <1>8, <2>2, <5>2, <5>3, <5>4, Fares DEF Stopped
      <4> QED BY <1>t, <4>1, <4>2
    <3> QED BY <3>1, <3>5, <3>6 DEF OwnNode
  <2> QED BY <2>1, <2>2
<1>9. ASSUME NEW p \in Path, MergePath(p) PROVE OwnNode'
  <2>1. CASE EndRun
    BY <2>1, <1>i DEF EndRun
  <2>2. CASE ~EndRun
    <3>1. /\ step = "merge" /\ UNCHANGED <<disk, step>> /\ todo' = todo \ {p}
          /\ There("local", p)
          /\ tree' = [tree EXCEPT !["local"][p] =
                        [instr |-> "NONE", mtime |-> disk["local"][p].mtime,
                         inode |-> disk["local"][p].inode]]
      BY <1>9, <2>2 DEF MergePath
    <3>2. /\ \A q \in Path \ {p} : tree'["local"][q] = tree["local"][q]
          /\ tree'["local"][p].inode = disk["local"][p].inode
      BY <1>t, <3>1 DEF TreeType
    <3> QED BY <3>1, <3>2 DEF OwnNode, Own, There, iL
  <2> QED BY <2>1, <2>2
<1>10. CASE WriteJournal \/ Crash
  BY <1>10, <1>i DEF WriteJournal, Crash, EndRun
<1> QED BY <1>1, <1>2, <1>3, <1>4, <1>5, <1>6, <1>7, <1>8, <1>9, <1>10
        DEF Next, Program, VisitPath, Pushes

(* So no file is taken for a renamed one where its own row is found.       *)
NoRename == \A r \in Replica, p \in Findable : tree[r][p].instr # "RENAME"

(* _csync_detect_update finds the number of a file in the row of its own   *)
(* path only, which it looks up first.                                     *)
LEMMA NoRenameStep ==
  ASSUME Guarded, Base, OwnRow, NoRename, [Next]_vars
  PROVE  NoRename'
<1>t. /\ TreeType /\ current \in Replica /\ Replica = {"local", "remote"}
      /\ TypeOK /\ Dated /\ Findable \subseteq Path
  BY DEF Base, TypeOK, TreeType, Replica, QuietInv, Findable
<1>1. ASSUME NEW p \in Path, DetectUpdate(p) PROVE NoRename'
  <2> DEFINE i == Detect(current, p, disk[current][p])
  <2>1. \/ tree' = tree
        \/ /\ There(current, p)
           /\ \E m, n : tree' = [tree EXCEPT ![current][p] =
                                    [instr |-> i, mtime |-> m, inode |-> n]]
    BY <1>1 DEF DetectUpdate
  <2>2. There(current, p) /\ p \in Findable => i # "RENAME"
    <3>1. SUFFICES ASSUME There(current, p), p \in Findable, i = "RENAME"
                   PROVE  FALSE
      OBVIOUS
    <3>2. /\ current = "local" /\ Renamed(disk["local"][p])
          /\ ~(exists /\ Recorded(p))
      BY <3>1 DEF Detect, FoundByHash, Findable
    <3>3. PICK q \in Path : Recorded(q) /\ journal[q].inode = disk["local"][p].inode
      BY <3>2 DEF Renamed
    <3>4. q = p /\ exists
      BY <1>t, <3>1, <3>2, <3>3 DEF OwnRow, Dated
    <3> QED BY <3>2, <3>3, <3>4
  <2> HIDE DEF i
  <2> QED BY <1>t, <2>1, <2>2 DEF NoRename, TreeType
<1>2. CASE \/ User \/ UNCHANGED vars \/ NextWalk
           \/ \E p \in Path : SkipUnreadable(p)
  <2>1. tree' = tree
    BY <1>2, UserKeeps DEF vars, NextWalk, SkipUnreadable
  <2> QED BY <2>1 DEF NoRename
<1>3. ASSUME tree' = EmptyTrees PROVE NoRename'
  BY <1>3, <1>t DEF EmptyTrees, Absent, NoRename
<1>4. ASSUME NEW p \in Path, ReconcilePath(p) PROVE NoRename'
  <2>1. /\ Decided(tree[current][p].instr, tree[Other(current)][p].instr,
                   tree'[current][p].instr, tree'[Other(current)][p].instr)
        /\ \A r \in Replica, q \in Path \ {p} : tree'[r][q] = tree[r][q]
    BY <1>t, <1>4, VisitStep
  <2>2. Replica = {current, Other(current)}
    BY <1>t DEF Other
  <2>3. p \in Findable =>
           /\ tree'[current][p].instr # "RENAME"
           /\ tree'[Other(current)][p].instr # "RENAME"
    BY <2>1, <2>2 DEF Decided, Alone, NoRename
  <2> QED BY <1>t, <2>1, <2>2, <2>3 DEF NoRename
<1>5. ASSUME NEW p \in Path, Pushes(p) \/ BackUp(p) \/ RemoveFile(p), ~EndRun
      PROVE  NoRename'
  <2>1. /\ tree'[current][p].instr \in {"UPDATED", "ERROR", "NONE", "DELETED"}
        /\ \A r \in Replica, q \in Path :
              r # current \/ q # p => tree'[r][q] = tree[r][q]
    BY <1>t, <1>5, PropagatesNodes
  <2> QED BY <1>t, <2>1 DEF NoRename
<1>6. CASE (\E p \in Path : MergePath(p)) \/ WriteJournal \/ Crash
  <2>1. ASSUME NEW p \in Path, NEW m, NEW n,
               tree' = [tree EXCEPT !["local"][p] =
                          [instr |-> "NONE", mtime |-> m, inode |-> n]]
        PROVE  NoRename'
    BY <1>t, <2>1 DEF TreeType, NoRename
  <2> QED BY <1>3, <1>6, <2>1, CommitStep
<1>7. CASE StartRun \/ EndRun
  BY <1>3, <1>7 DEF StartRun, EndRun
<1> QED BY <1>1, <1>2, <1>4, <1>5, <1>6, <1>7
        DEF Next, Program, VisitPath, Pushes

Numbers == Distinct /\ OwnRow /\ OwnNode /\ NoRename

(* All of this holds throughout.                                           *)
LEMMA NumbersAlways == Guarded => (Spec => [](Base /\ Numbers))
<1> SUFFICES ASSUME Guarded PROVE Spec => [](Base /\ Numbers)
  OBVIOUS
<1>1. Init => Numbers
  BY DEF Init, Numbers, Distinct, OwnRow, OwnNode, NoRename, There, Recorded,
     EmptyTrees, Absent, Replica, Findable
<1>2. Base /\ Numbers /\ [Next]_vars => Numbers'
  BY DistinctStep, OwnRowStep, OwnNodeStep, NoRenameStep DEF Numbers
<1> QED BY <1>1, <1>2, BaseAlways, PTL DEF Spec

(* What the replicas agreed on is remembered whenever a disk changes.      *)
LEMMA SyncStep ==
  ASSUME Guarded, [Next]_vars
  PROVE  RememberSync \/ UNCHANGED <<disk, synced>>
<1>1. CASE User
  BY <1>1 DEF User, UserWrites, UserDeletes, UserRenames, UserLinks, Guarded
<1>2. ASSUME NEW p \in Path, Pushes(p) \/ BackUp(p) \/ RemoveFile(p)
      PROVE  RememberSync \/ UNCHANGED <<disk, synced>>
  BY <1>2 DEF Pushes, PushSucceeds, PushFailsToOpen, PushFails, PushFailsLate,
     PushEndsRun, BackUp, RemoveFile
<1>3. ASSUME NEW p \in Path,
             DetectUpdate(p) \/ SkipUnreadable(p) \/ ReconcilePath(p) \/ MergePath(p)
      PROVE  UNCHANGED <<disk, synced>>
  BY <1>3 DEF DetectUpdate, SkipUnreadable, ReconcilePath, MergePath, history
<1>4. CASE StartRun \/ NextWalk \/ WriteJournal \/ Crash \/ UNCHANGED vars
  BY <1>4 DEF StartRun, NextWalk, WriteJournal, Crash, vars, history
<1> QED BY <1>1, <1>2, <1>3, <1>4 DEF Next, Program, VisitPath, Pushes

(* The history variable synced: equal files are the version agreed on.     *)
Remembered == \A p \in Path : InSync(disk, p) => synced[p] = disk["local"][p].data

(* The history variable is kept up by every step.                          *)
LEMMA RememberedStep ==
  ASSUME Guarded, Remembered, [Next]_vars
  PROVE  Remembered'
<1>1. CASE RememberSync
  BY <1>1 DEF RememberSync, Remembered
<1>2. CASE UNCHANGED <<disk, synced>>
  BY <1>2 DEF Remembered
<1> QED BY <1>1, <1>2, SyncStep

Agreed(r, p) == There(r, p) => disk[r][p].data = synced[p]

(* Both files of a path in sync are the version agreed on.                 *)
LEMMA InSyncAgreed ==
  ASSUME Remembered, NEW p \in Path, InSync(disk, p), NEW r \in Replica
  PROVE  Agreed(r, p)
BY DEF Remembered, InSync, Agreed, Replica

(* A version agreed on stays so while its file does.                       *)
LEMMA AgreedStays ==
  ASSUME Guarded, [Next]_vars, NEW r \in Replica, NEW p \in Path, Agreed(r, p),
         disk'[r][p] \in {disk[r][p], NoFile}
  PROVE  Agreed(r, p)'
<1>1. SUFFICES ASSUME disk'[r][p] # NoFile PROVE disk'[r][p].data = synced'[p]
  BY DEF Agreed, There
<1>2. disk[r][p].data = synced[p]
  BY <1>1 DEF Agreed, There
<1>3. CASE RememberSync
  <2>1. synced'[p] = IF InSync(disk', p) THEN disk'["local"][p].data
                                         ELSE synced[p]
    BY <1>3 DEF RememberSync
  <2>2. InSync(disk', p) => disk'[r][p].data = disk'["local"][p].data
    BY DEF InSync, Replica
  <2> QED BY <1>1, <1>2, <2>1, <2>2
<1> QED BY <1>1, <1>2, <1>3, SyncStep

(* A file that is not newer than its row is the version agreed on.         *)
Kept ==
    \A r \in Replica, p \in Path :
       Recorded(p) /\ There(r, p) /\ disk[r][p].mtime <= journal[p].mtime
          => Agreed(r, p)

(* A push that ends well leaves the path in sync.                          *)
LEMMA CopiedInSync ==
  ASSUME Base, NEW r \in Replica, NEW p \in Path, CarriedTo(r, p)
  PROVE  InSync(disk', p)
<1>1. Replica = {"local", "remote"} /\ current \in Replica /\ Dest = Other(current)
  BY DEF Base, TypeOK, Replica, Dest
<1>2. /\ disk'[current][p] # NoFile /\ disk'[Dest][p] # NoFile
      /\ disk'[Dest][p].data = disk'[current][p].data
  BY DEF CarriedTo, Copied, There
<1>3. \/ current = "local" /\ Dest = "remote"
      \/ current = "remote" /\ Dest = "local"
  BY <1>1 DEF Other
<1> QED BY <1>2, <1>3 DEF InSync

(* No step leaves an older file at a path with a row, and                  *)
(* csync_statedb_write writes rows for paths in sync only.                 *)
LEMMA KeptStep ==
  ASSUME Guarded, Base, Remembered, Kept, [Next]_vars
  PROVE  Kept'
<1>t. TypeOK /\ Timely /\ DiskType
  BY DEF Base, TypeOK, DiskType, CalmInv, RunInv
<1>1. SUFFICES ASSUME NEW r \in Replica, NEW p \in Path,
                      journal'[p] # NoRecord, disk'[r][p] # NoFile,
                      disk'[r][p].mtime <= journal'[p].mtime
               PROVE  Agreed(r, p)'
  BY DEF Kept, Recorded, There
<1>2. CASE journal' = journal
  <2>1. Recorded(p) /\ journal[p].mtime <= now
    BY <1>t, <1>1, <1>2 DEF Recorded, Timely
  <2>2. CASE disk'[r][p] = disk[r][p]
    BY <1>1, <1>2, <2>1, <2>2, AgreedStays DEF Kept, There
  <2>3. CASE WrittenBy(r, p)
    <3>1. now \in Nat /\ journal[p].mtime \in Nat /\ disk'[r][p].mtime = now + 1
      BY <1>t, <2>1, <2>3 DEF TypeOK, Recorded, Record, WrittenBy
    <3> QED BY <1>1, <1>2, <2>1, <3>1
  <2>4. CASE CarriedTo(r, p)
    <3>1. InSync(disk', p) /\ Remembered'
      BY <2>4, CopiedInSync, RememberedStep
    <3> QED BY <3>1 DEF Remembered, InSync, Agreed, Replica
  <2> QED BY <1>1, <2>2, <2>3, <2>4, Changed
<1>3. CASE WriteJournal
  <2>1. step = "merge" /\ UNCHANGED <<disk, synced>>
    BY <1>3 DEF WriteJournal
  <2>2. InSync(disk, p)
    BY <1>1, <2>1, MergedEqual DEF Equal, There, Replica
  <2> QED BY <2>1, <2>2, InSyncAgreed DEF Agreed, There
<1> QED BY <1>t, <1>2, <1>3, RowsStep

(* A new file is pushed to where there is none, if its row is found.       *)
OneNew(p) == /\ iL(p) = "NEW" => iR(p) = "ABSENT"
             /\ iR(p) = "NEW" => iL(p) = "ABSENT"
NewAlone ==
    /\ step = "reconcile" =>
         \A p \in Findable : (current = "local" /\ p \in todo) \/ OneNew(p)
    /\ step = "propagate" =>
         \A r \in Replica, p \in Findable :
            tree[r][p].instr = "NEW" \/ (p \in pushing /\ r = current)
               => ~There(Other(r), p)

(* No step of csync_reconcile leaves a new file that the other replica     *)
(* has something against, and _csync_conflict_file makes room for the      *)
(* file it pushes.                                                         *)
LEMMA NewAloneStep ==
  ASSUME Guarded, Base, NoRename, NewAlone, [Next]_vars
  PROVE  NewAlone'
<1>t. /\ TypeOK /\ TreeType /\ Replica = {"local", "remote"} /\ current \in Replica
      /\ WalkInv /\ Pending /\ Decisive /\ Seen /\ Whole
  BY DEF Base, TypeOK, TreeType, Replica, CalmInv, QuietInv, RunInv, Guarded,
     Whole, Sturdy, Failures
<1>f. Findable \subseteq Path
  BY DEF Findable
<1>i. ASSUME step' \notin {"reconcile", "propagate"} PROVE NewAlone'
  BY <1>i DEF NewAlone
<1>1. CASE User \/ UNCHANGED vars
  <2>1. CASE User
    <3>1. step = "idle" /\ step' = step
      BY <2>1, UserRests, UserKeeps DEF Guarded, Orderly
    <3> QED BY <1>i, <3>1
  <2>2. CASE UNCHANGED vars
    BY <1>f, <2>2 DEF vars, NewAlone, OneNew, There, iL, iR
  <2> QED BY <1>1, <2>1, <2>2
<1>2. CASE NextWalk
  <2>1. todo = {} /\ pushing = {} /\ UNCHANGED <<disk, tree, pushing>>
    BY <1>2 DEF NextWalk
  <2>2. \A p \in Path : OneNew(p)' <=> OneNew(p)
    BY <2>1 DEF OneNew, iL, iR
  <2>3. CASE step = "update" /\ step' = "reconcile"
    <3>1. /\ current' = "local"
          /\ todo' = {p \in Path : tree["local"][p].instr # "ABSENT"}
      BY <1>2, <2>3 DEF NextWalk, StartWalk
    <3> QED BY <1>f, <2>1, <2>2, <2>3, <3>1 DEF NewAlone, OneNew, iL
  <2>4. CASE step = "reconcile" /\ step' = "reconcile"
    BY <1>f, <2>1, <2>2, <2>4 DEF NewAlone
  <2>5. CASE step = "reconcile" /\ step' = "propagate"
    <3>1. ASSUME NEW r \in Replica, NEW p \in Findable, tree[r][p].instr = "NEW"
          PROVE  ~There(Other(r), p)
      <4>1. OneNew(p)
        BY <2>1, <2>5 DEF NewAlone
      <4>2. tree[Other(r)][p].instr = "ABSENT" /\ Other(r) \in Replica
        BY <1>t, <3>1, <4>1 DEF OneNew, iL, iR, Other
      <4> QED BY <1>f, <1>t, <2>5, <4>2 DEF Seen
    <3> QED BY <2>1, <2>5, <3>1 DEF NewAlone, There
  <2>6. CASE step = "propagate" /\ step' = "propagate"
    BY <2>1, <2>6 DEF NewAlone, There
  <2>7. step' = "update" \/ step' = "merge"
        \/ (step = "update" /\ step' = "reconcile")
        \/ (step = "reconcile" /\ step' = "reconcile")
        \/ (step = "reconcile" /\ step' = "propagate")
        \/ (step = "propagate" /\ step' = "propagate")
    BY <1>2 DEF NextWalk, StartWalk
  <2> QED BY <1>i, <2>3, <2>4, <2>5, <2>6, <2>7
<1>3. ASSUME NEW p \in Path, ReconcilePath(p) PROVE NewAlone'
  <2>1. /\ step = "reconcile" /\ p \in todo /\ todo' = todo \ {p}
        /\ UNCHANGED <<step, current>>
    BY <1>3 DEF ReconcilePath
  <2>2. /\ Decided(tree[current][p].instr, tree[Other(current)][p].instr,
                   tree'[current][p].instr, tree'[Other(current)][p].instr)
        /\ \A r \in Replica, q \in Path \ {p} : tree'[r][q] = tree[r][q]
    BY <1>t, <1>3, VisitStep
  <2>3. \A q \in Path \ {p} : OneNew(q)' <=> OneNew(q)
    BY <1>t, <2>2 DEF OneNew, iL, iR
  <2>4. p \in Findable => OneNew(p)'
    <3>0. SUFFICES ASSUME p \in Findable PROVE OneNew(p)'
      OBVIOUS
    <3>1. CASE current = "local"
      <4>1. Decided(iL(p), iR(p), iL(p)', iR(p)')
        BY <2>2, <3>1 DEF iL, iR, Other
      <4>2. Found(p) /\ iL(p) # "RENAME"
        BY <1>t, <2>1, <3>0, <3>1 DEF Decisive, NoRename, iL
      <4> QED BY <4>1, <4>2 DEF Found, Decided, Alone, OneNew
    <3>2. CASE current = "remote"
      <4>1. Decided(iR(p), iL(p), iR(p)', iL(p)')
        BY <2>2, <3>2 DEF iL, iR, Other
      <4>2. OneNew(p)
        BY <2>1, <3>0, <3>2 DEF NewAlone
      <4> QED BY <4>1, <4>2 DEF Decided, Alone, OneNew
    <3> QED BY <1>t, <3>1, <3>2
  <2> QED BY <1>f, <2>1, <2>3, <2>4 DEF NewAlone
<1>4. ASSUME NEW p \in Path, Pushes(p) \/ BackUp(p) \/ RemoveFile(p)
      PROVE  NewAlone'
  <2>1. CASE EndRun
    BY <1>i, <2>1 DEF EndRun
  <2>2. CASE ~EndRun
    <3>1. /\ UNCHANGED <<step, current>> /\ step = "propagate"
          /\ tree'[current][p].instr \in {"UPDATED", "ERROR", "NONE", "DELETED"}
          /\ \A r \in Replica, q \in Path :
                r # current \/ q # p => tree'[r][q] = tree[r][q]
          /\ tree[current][p].instr \in Acting \/ pushing = {p}
      BY <1>t, <1>4, <2>2, PropagatesNodes
    <3>2. \A r \in Replica, q \in Path \ {p} : disk'[r][q] = disk[r][q]
      BY <1>t, <1>4, PropagatesSame
    <3>3. pushing' \subseteq {p} /\ (p \in pushing' => disk'[Dest][p] = NoFile)
      BY <1>4, <2>2, Fares DEF MadeRoom, Stopped
    <3>4. tree[Dest][p].instr # "NEW"
      BY <1>t, <3>1, ActsOnce DEF Acting, Pushing
    <3>5. Replica = {current, Dest} /\ Dest = Other(current)
      BY <1>t DEF Dest, Other
    <3>6. ASSUME NEW r \in Replica, NEW q \in Findable \ {p},
                 tree'[r][q].instr = "NEW"
          PROVE  disk'[Other(r)][q] = NoFile
      <4>1. tree[r][q].instr = "NEW" /\ Other(r) \in Replica
        BY <1>f, <3>1, <3>6, OtherReplica
      <4> QED BY <1>f, <3>1, <3>2, <4>1 DEF NewAlone, There
    <3>7. ASSUME NEW r \in Replica
          PROVE  tree'[r][p].instr # "NEW"
      BY <1>t, <3>1, <3>4, <3>5
    <3> QED BY <3>1, <3>3, <3>5, <3>6, <3>7 DEF NewAlone, There
  <2> QED BY <2>1, <2>2
<1>5. CASE \/ StartRun \/ WriteJournal \/ Crash
           \/ \E p \in Path : DetectUpdate(p) \/ SkipUnreadable(p) \/ MergePath(p)
  BY <1>5, <1>i DEF StartRun, WriteJournal, Crash, DetectUpdate,
     SkipUnreadable, MergePath, EndRun
<1> QED BY <1>1, <1>2, <1>3, <1>4, <1>5 DEF Next, Program, VisitPath, Pushes

(* What the visitor decides over two changed files, or a changed one and   *)
(* an unchanged one, and by which times.                                   *)
LEMMA VisitWeighs ==
  ASSUME NEW cur, NEW other, NEW keep \in BOOLEAN,
         cur.mtime \in Nat, other.mtime \in Nat,
         cur.instr = "NEW" => other.instr # "EVAL",
         cur.instr = "EVAL" => other.instr # "NEW"
  PROVE  LET v == Visit(cur, other, keep)
             changed == {"NEW", "EVAL"}
         IN
         \/ /\ other.instr = "ABSENT"
            /\ v[1] = Alone(cur.instr) /\ v[2] = "ABSENT"
         \/ v[1] = cur.instr /\ v[2] = other.instr
         \/ /\ cur.instr \in changed /\ other.instr = "NONE"
            /\ v[1] = "SYNC" /\ v[2] = "NONE"
         \/ /\ cur.instr \in changed /\ other.instr \in changed
            /\ \/ /\ v[1] = "SYNC" => ~keep /\ other.mtime < cur.mtime
                  /\ v[1] \in {"SYNC", "CONFLICT"} /\ v[2] \in {"NONE", "EVAL"}
               \/ /\ v[2] = "SYNC" => ~keep /\ cur.mtime < other.mtime
                  /\ v[1] = "NONE" /\ v[2] \in {"NONE", "SYNC", "CONFLICT"}
               \/ /\ v[1] = "NONE" /\ v[2] = "EVAL"
                  /\ ~keep /\ cur.mtime <= other.mtime
<1>1. ASSUME NEW a, NEW b PROVE <<a, b>>[1] = a /\ <<a, b>>[2] = b
  OBVIOUS
<1> QED BY <1>1 DEF Visit, BothNew, BothModified, NewAgainstModified, Win

(* A file is overwritten or removed when its version was agreed on, or     *)
(* when a newer one beats it in a run without conflict copies.             *)
Beaten(r, p) == There(r, p) => /\ ~copies
                               /\ disk[r][p].mtime < tree[Other(r)][p].mtime
Verdict(r, p) ==
    LET i == tree[r][p].instr
        j == tree[Other(r)][p].instr
    IN  /\ i = "REMOVE" => Agreed(r, p)
        /\ j = "SYNC" => Agreed(r, p) \/ Beaten(r, p)
        /\ step = "reconcile" /\ i = "NONE" =>
              /\ j = "ABSENT" => Agreed(r, p)
              /\ j \in {"NEW", "EVAL"} => Agreed(r, p) \/ Beaten(r, p)
Verdicts == step \in {"reconcile", "propagate"} =>
               \A r \in Replica, p \in Path : Verdict(r, p)

(* One visit of the reconciler.                                            *)
LEMMA VerdictVisit ==
  ASSUME Guarded, Base, Remembered, Verdicts, NEW p \in Path, ReconcilePath(p),
         NEW r \in Replica
  PROVE  Verdict(r, p)'
<1> DEFINE o == Other(current)
           cur == tree[current][p]
           other == tree[o][p]
           v == Visit(cur, other, copies)
<1>t. /\ TypeOK /\ TreeType /\ DiskType /\ copies \in BOOLEAN /\ Stamped /\ Observed
      /\ current \in Replica /\ o \in Replica /\ o # current /\ Other(o) = current
      /\ Decisive
  BY OtherReplica DEF Base, TypeOK, TreeType, DiskType, CalmInv, QuietInv, RunInv
<1>1. /\ step = "reconcile" /\ p \in todo
      /\ UNCHANGED <<disk, synced, step, current, copies>>
      /\ tree' = [tree EXCEPT ![current][p].instr = v[1], ![o][p].instr = v[2]]
  BY DEF ReconcilePath, options, history
<1>2. /\ tree'[current][p].instr = v[1] /\ tree'[o][p].instr = v[2]
  <2>1. tree[current][p] \in Node /\ tree[o][p] \in Node
    BY <1>t DEF TreeType
  <2> QED BY <1>t, <1>1, <2>1 DEF TreeType, Node
<1>3. \A s \in Replica : tree'[s][p].mtime = tree[s][p].mtime
  BY <1>t, ReconcileTimes
<1>4. cur.mtime \in Nat /\ other.mtime \in Nat
  BY <1>t, NodeFields
<1>5. /\ cur.instr = "NEW" => other.instr # "EVAL"
      /\ cur.instr = "EVAL" => other.instr # "NEW"
  <2>1. CASE current = "local"
    <3>1. Found(p) /\ o = "remote"
      BY <1>t, <1>1, <2>1 DEF Decisive, Other
    <3> QED BY <2>1, <3>1 DEF Found, iL, iR
  <2>2. CASE current = "remote"
    <3>1. Awaits(p) /\ o = "local"
      BY <1>t, <1>1, <2>2 DEF Decisive, Other
    <3> QED BY <2>2, <3>1 DEF Awaits, iL, iR
  <2> QED BY <1>t, <2>1, <2>2 DEF Replica
<1>6. \A s \in Replica : /\ Agreed(s, p)' <=> Agreed(s, p)
                         /\ Beaten(s, p)' <=> Beaten(s, p)
  BY <1>1, <1>3, OtherReplica DEF Agreed, Beaten, There
<1>7. \A s \in Replica : tree[s][p].instr # "ABSENT" => Matches(s, p)
  BY <1>t, <1>1 DEF Observed
<1>8. \A s \in Replica : Verdict(s, p)
  BY <1>1 DEF Verdicts
<1>9. Replica = {current, o}
  BY <1>t DEF Replica, Other
<1>10. ASSUME other.instr = "ABSENT", v[1] = Alone(cur.instr), v[2] = "ABSENT"
       PROVE  Verdict(r, p)'
  BY <1>t, <1>1, <1>2, <1>6, <1>8, <1>9, <1>10 DEF Verdict, Alone
<1>11. ASSUME v[1] = cur.instr, v[2] = other.instr
       PROVE  Verdict(r, p)'
  BY <1>t, <1>1, <1>2, <1>6, <1>8, <1>9, <1>11 DEF Verdict
<1>12. ASSUME cur.instr \in {"NEW", "EVAL"}, other.instr = "NONE",
              v[1] = "SYNC", v[2] = "NONE"
       PROVE  Verdict(r, p)'
  BY <1>t, <1>1, <1>2, <1>6, <1>8, <1>9, <1>12 DEF Verdict
<1>13. ASSUME cur.instr \in {"NEW", "EVAL"}, other.instr \in {"NEW", "EVAL"},
              \/ /\ v[1] = "SYNC" => ~copies /\ other.mtime < cur.mtime
                 /\ v[1] \in {"SYNC", "CONFLICT"} /\ v[2] \in {"NONE", "EVAL"}
              \/ /\ v[2] = "SYNC" => ~copies /\ cur.mtime < other.mtime
                 /\ v[1] = "NONE" /\ v[2] \in {"NONE", "SYNC", "CONFLICT"}
              \/ /\ v[1] = "NONE" /\ v[2] = "EVAL"
                 /\ ~copies /\ cur.mtime <= other.mtime
       PROVE  Verdict(r, p)'
  <2>1. /\ There(current, p) /\ disk[current][p].mtime = cur.mtime
        /\ There(o, p) /\ disk[o][p].mtime = other.mtime
    BY <1>t, <1>7, <1>13 DEF Matches
  <2>2. cur.mtime = other.mtime => Agreed(current, p)
    <3>1. cur.mtime = other.mtime => disk[current][p].data = disk[o][p].data
      BY <1>t, <2>1 DEF Stamped
    <3>2. cur.mtime = other.mtime => InSync(disk, p)
      BY <1>9, <2>1, <3>1 DEF InSync, There, Replica
    <3> QED BY <1>t, <3>2, InSyncAgreed
  <2>3. /\ ~copies /\ other.mtime < cur.mtime => Beaten(o, p)
        /\ ~copies /\ cur.mtime < other.mtime => Beaten(current, p)
    BY <1>t, <2>1 DEF Beaten
  <2>4. ~copies /\ cur.mtime <= other.mtime => Agreed(current, p) \/ Beaten(current, p)
    BY <1>4, <2>2, <2>3
  <2> QED BY <1>t, <1>1, <1>2, <1>6, <1>9, <1>13, <2>3, <2>4 DEF Verdict
<1> HIDE DEF v, cur, other
<1>14. \/ other.instr = "ABSENT" /\ v[1] = Alone(cur.instr) /\ v[2] = "ABSENT"
       \/ v[1] = cur.instr /\ v[2] = other.instr
       \/ /\ cur.instr \in {"NEW", "EVAL"} /\ other.instr = "NONE"
          /\ v[1] = "SYNC" /\ v[2] = "NONE"
       \/ /\ cur.instr \in {"NEW", "EVAL"} /\ other.instr \in {"NEW", "EVAL"}
          /\ \/ /\ v[1] = "SYNC" => ~copies /\ other.mtime < cur.mtime
                /\ v[1] \in {"SYNC", "CONFLICT"} /\ v[2] \in {"NONE", "EVAL"}
             \/ /\ v[2] = "SYNC" => ~copies /\ cur.mtime < other.mtime
                /\ v[1] = "NONE" /\ v[2] \in {"NONE", "SYNC", "CONFLICT"}
             \/ /\ v[1] = "NONE" /\ v[2] = "EVAL"
                /\ ~copies /\ cur.mtime <= other.mtime
  BY <1>t, <1>4, <1>5, VisitWeighs DEF v
<1> QED BY <1>10, <1>11, <1>12, <1>13, <1>14

(* Every verdict of csync_reconcile is just when it falls and stays so     *)
(* until csync_propagate_files has carried it out.                         *)
LEMMA VerdictsStep ==
  ASSUME Guarded, Base, Remembered, Kept, Verdicts, [Next]_vars
  PROVE  Verdicts'
<1>t. /\ TypeOK /\ TreeType /\ current \in Replica /\ WalkInv /\ Pending
      /\ Converging /\ Sure
  BY DEF Base, TypeOK, TreeType, CalmInv, QuietInv, RunInv, Guarded, Sure
<1>i. ASSUME step' \notin {"reconcile", "propagate"} PROVE Verdicts'
  BY <1>i DEF Verdicts
<1>1. CASE User \/ UNCHANGED vars
  <2>1. CASE User
    <3>1. step = "idle" /\ step' = step
      BY <2>1, UserRests, UserKeeps DEF Guarded, Orderly
    <3> QED BY <1>i, <3>1
  <2>2. CASE UNCHANGED vars
    BY <2>2 DEF vars, Verdicts, Verdict, Agreed, Beaten, There
  <2> QED BY <1>1, <2>1, <2>2
<1>2. CASE NextWalk
  <2>1. todo = {} /\ UNCHANGED <<disk, tree, synced, copies>>
    BY <1>2 DEF NextWalk, options, history
  <2>2. \A r \in Replica, p \in Path : /\ Agreed(r, p)' <=> Agreed(r, p)
                                       /\ Beaten(r, p)' <=> Beaten(r, p)
    BY <2>1 DEF Agreed, Beaten, There
  <2>3. CASE step = "update" /\ step' = "reconcile"
    <3>1. ASSUME NEW r \in Replica, NEW p \in Path
          PROVE  Verdict(r, p)'
      <4>1. Judged(p) /\ Fresh(p)
        BY <1>t, <2>3 DEF Converging, WalkInv
      <4>2. tree[r][p].instr # "REMOVE" /\ tree[Other(r)][p].instr # "SYNC"
        BY <4>1, OtherReplica DEF Fresh
      <4>3. tree[r][p].instr = "NONE" => Agreed(r, p)
        BY <4>1 DEF Judged, Kept, Agreed
      <4> QED BY <2>1, <2>2, <4>2, <4>3 DEF Verdict
    <3> QED BY <3>1 DEF Verdicts
  <2>4. CASE /\ step \in {"reconcile", "propagate"}
             /\ step' = "reconcile" => step = "reconcile"
    BY <2>1, <2>2, <2>4 DEF Verdicts, Verdict
  <2>5. \/ step' \notin {"reconcile", "propagate"}
        \/ step = "update" /\ step' = "reconcile"
        \/ /\ step \in {"reconcile", "propagate"}
           /\ step' = "reconcile" => step = "reconcile"
    BY <1>2 DEF NextWalk, StartWalk
  <2> QED BY <1>i, <2>3, <2>4, <2>5
<1>3. ASSUME NEW p \in Path, ReconcilePath(p) PROVE Verdicts'
  <2>1. /\ step = "reconcile" /\ UNCHANGED <<disk, synced, step, copies>>
        /\ \A r \in Replica, q \in Path \ {p} : tree'[r][q] = tree[r][q]
    BY <1>t, <1>3, VisitStep DEF ReconcilePath, options, history
  <2>2. ASSUME NEW r \in Replica, NEW q \in Path \ {p} PROVE Verdict(r, q)'
    <3>1. Verdict(r, q)
      BY <2>1 DEF Verdicts
    <3> QED BY <2>1, <3>1, OtherReplica DEF Verdict, Agreed, Beaten, There
  <2> QED BY <1>3, <2>2, VerdictVisit DEF Verdicts
<1>4. ASSUME NEW p \in Path, Pushes(p) \/ BackUp(p) \/ RemoveFile(p)
      PROVE  Verdicts'
  <2>1. CASE EndRun
    BY <1>i, <2>1 DEF EndRun
  <2>2. CASE ~EndRun
    <3>1. /\ UNCHANGED <<step, current>> /\ step = "propagate"
          /\ tree'[current][p].instr \in {"UPDATED", "ERROR", "NONE", "DELETED"}
          /\ \A r \in Replica, q \in Path :
                r # current \/ q # p => tree'[r][q] = tree[r][q]
          /\ tree[current][p].instr \in Acting \/ pushing = {p}
      BY <1>t, <1>4, <2>2, PropagatesNodes
    <3>2. \A r \in Replica, q \in Path \ {p} : disk'[r][q] = disk[r][q]
      BY <1>t, <1>4, PropagatesSame
    <3>3. tree[Dest][p].instr \notin {"SYNC", "REMOVE"}
      BY <1>t, <3>1, ActsOnce DEF Acting, Pushing
    <3>4. Replica = {current, Dest}
      BY <1>t DEF Replica, Dest, Other
    <3>5. copies' = copies
      BY <1>4, <2>2, PropagatesOn
    <3>6. ASSUME NEW r \in Replica
          PROVE  tree'[r][p].instr \notin {"SYNC", "REMOVE"}
      BY <1>t, <3>1, <3>3, <3>4
    <3>7. ASSUME NEW r \in Replica, NEW q \in Path \ {p} PROVE Verdict(r, q)'
      <4>1. /\ Verdict(r, q) /\ Other(r) \in Replica
            /\ tree'[r][q] = tree[r][q] /\ tree'[Other(r)][q] = tree[Other(r)][q]
        BY <3>1, OtherReplica DEF Verdicts
      <4>2. Agreed(r, q) => Agreed(r, q)'
        BY <3>2, AgreedStays
      <4>3. Beaten(r, q) => Beaten(r, q)'
        BY <3>2, <3>5, <4>1 DEF Beaten, There
      <4> QED BY <3>1, <4>1, <4>2, <4>3 DEF Verdict
    <3>8. ASSUME NEW r \in Replica PROVE Verdict(r, p)'
      BY <3>1, <3>6, OtherReplica DEF Verdict
    <3> QED BY <3>7, <3>8 DEF Verdicts
  <2> QED BY <2>1, <2>2
<1>5. CASE \/ StartRun \/ WriteJournal \/ Crash
           \/ \E p \in Path : DetectUpdate(p) \/ SkipUnreadable(p) \/ MergePath(p)
  BY <1>5, <1>i DEF StartRun, WriteJournal, Crash, DetectUpdate,
     SkipUnreadable, MergePath, EndRun
<1> QED BY <1>1, <1>2, <1>3, <1>4, <1>5 DEF Next, Program, VisitPath, Pushes

LossInv == Remembered /\ Kept /\ NewAlone /\ Verdicts

(* All of this holds throughout.                                           *)
LEMMA LossInvAlways ==
  Guarded => (Spec => [](Base /\ Numbers /\ LossInv))
<1> SUFFICES ASSUME Guarded PROVE Spec => [](Base /\ Numbers /\ LossInv)
  OBVIOUS
<1>1. Init => LossInv
  BY DEF Init, LossInv, Remembered, Kept, NewAlone, Verdicts, InSync, Recorded,
     Replica
<1>2. Base /\ Numbers /\ LossInv /\ [Next]_vars => LossInv'
  BY RememberedStep, KeptStep, NewAloneStep, VerdictsStep DEF LossInv, Numbers
<1> QED BY <1>1, <1>2, NumbersAlways, PTL DEF Spec

(* What a step does to the file it takes or replaces.                      *)
LEMMA LossStep ==
  ASSUME Guarded, Base, NewAlone, Verdicts, atomic = FALSE, Next, ByProgram,
         NEW r \in Replica, NEW p \in Findable, Gone(r, p)
  PROVE  \/ disk[r][p].data = synced[p]
         \/ disk[r][p].data \in kept'[r]
         \/ ~copies /\ disk'[r][p] # NoFile /\ disk'[r][p].mtime > disk[r][p].mtime
<1>f. p \in Path
  BY DEF Findable
<1>t. /\ TypeOK /\ DiskType /\ current \in Replica /\ Dest \in Replica
      /\ Replica = {current, Dest} /\ current # Dest /\ Dest = Other(current)
      /\ Timely /\ now \in Nat /\ Other(Dest) = current
      /\ \A q \in Path : tree[current][q].mtime \in Nat
  BY OtherReplica, NodeFields
     DEF Base, TypeOK, TreeType, DiskType, Dest, Replica, Other, CalmInv, RunInv
<1>g. /\ There(r, p) /\ disk'[r][p] # disk[r][p]
      /\ disk'[r][p] = NoFile \/ disk'[r][p].data # disk[r][p].data
  BY DEF Gone, There
<1>1. CASE disk'[r][p] = NoFile
  <2>1. ~User
    <3>1. User => UNCHANGED ctxVars
      BY DEF User, UserWrites, UserDeletes, UserRenames, UserLinks
    <3> QED BY <3>1 DEF ByProgram
  <2>2. PICK q \in Path : Pushes(q) \/ BackUp(q) \/ RemoveFile(q)
    BY <1>f, <1>g, <2>1, OthersKeepDisk DEF Next, Program, VisitPath, Pushes
  <2>3. q = p
    BY <1>f, <1>t, <1>g, <2>2, PropagatesSame
  <2>4. ~Copied(p)
    BY <1>f, <1>t, <1>1, <1>g DEF Copied, There
  <2>5. CASE RemoveFile(p)
    <3>1. /\ step = "propagate" /\ tree[current][p].instr = "REMOVE"
          /\ \/ disk' = [disk EXCEPT ![current][p] = NoFile]
             \/ disk' = disk
      BY <2>5 DEF RemoveFile, Put
    <3>2. r = current
      BY <1>f, <1>t, <1>g, <3>1 DEF DiskType
    <3> QED BY <1>f, <1>t, <1>g, <3>1, <3>2 DEF Verdicts, Verdict, Agreed
  <2>6. CASE MadeRoom(p)
    BY <1>f, <1>t, <1>g, <2>6 DEF MadeRoom
  <2>7. ~Stopped(p)
    BY <1>f, <1>g DEF Stopped, InPlace
  <2> QED BY <2>2, <2>3, <2>4, <2>5, <2>6, <2>7, Fares
<1>2. CASE disk'[r][p] # NoFile
  <2>1. ~WrittenBy(r, p)
    BY DEF WrittenBy, ByProgram
  <2>2. r = Dest /\ Pushes(p) /\ Copied(p)
    BY <1>f, <1>2, <1>g, <1>f, <2>1, Changed DEF CarriedTo
  <2>3. tree[current][p].instr = "SYNC" /\ step = "propagate"
    <3>1. /\ step = "propagate"
          /\ p \in pushing \/ tree[current][p].instr \in {"NEW", "SYNC"}
      BY <2>2 DEF Pushes, PushSucceeds, PushFailsToOpen, PushFails,
         PushFailsLate, PushEndsRun, MayPush
    <3> QED BY <1>f, <1>t, <1>g, <2>2, <3>1 DEF NewAlone
  <2>4. Agreed(r, p) \/ Beaten(r, p)
    BY <1>f, <1>t, <2>2, <2>3 DEF Verdicts, Verdict
  <2>5. disk'[r][p].mtime \in {tree[current][p].mtime, now + 1}
    <3>1. \/ Delivered(p, tree[current][p].mtime) \/ Delivered(p, now + 1)
      BY <1>f, <1>2, <1>t, <1>g, <2>2, PushDisk DEF Untouched, InPlace
    <3>2. tree[current][p].mtime \in Nat /\ now + 1 \in Nat
      BY <1>f, <1>t
    <3>3. Delivered(p, tree[current][p].mtime) =>
             disk'[Dest][p].mtime = tree[current][p].mtime
      BY <1>f, <1>t, <3>2, DeliveredThere
    <3>4. Delivered(p, now + 1) => disk'[Dest][p].mtime = now + 1
      BY <1>f, <1>t, <3>2, DeliveredThere
    <3> QED BY <2>2, <3>1, <3>3, <3>4
  <2>6. tree[current][p].mtime <= now /\ disk[r][p].mtime \in Nat
    BY <1>f, <1>t, <1>g, ThereIsFile DEF Timely
  <2>7. Beaten(r, p) => ~copies /\ disk[r][p].mtime < tree[current][p].mtime
    BY <1>f, <1>t, <1>g, <2>2 DEF Beaten
  <2>8. Beaten(r, p) => ~copies /\ disk'[r][p].mtime > disk[r][p].mtime
    BY <1>f, <1>t, <2>5, <2>6, <2>7
  <2> QED BY <1>f, <1>2, <1>g, <2>4, <2>8 DEF Agreed
<1> QED BY <1>1, <1>2

(* What a user wrote at a path whose row can be found is not lost:         *)
(* csync_propagate_files takes a version away only when the replicas had   *)
(* agreed on it, when it is kept under a conflict name, or, without        *)
(* conflict copies, when a newer file takes its place.  For users who      *)
(* write and delete between the runs, a remote module that writes to a     *)
(* temporary file, and runs in which a full disk, the times of a copy, the *)
(* journal and the process may fail, any number of times.  Each of the     *)
(* moves and each of the failures walk, open, copy and backup breaks it.   *)
THEOREM NothingIsLost == Guarded /\ TRUE \notin AtomicCopy => (Spec => NoLostUpdate)
<1> SUFFICES ASSUME Guarded, TRUE \notin AtomicCopy PROVE Spec => NoLostUpdate
  OBVIOUS
<1>1. Watched
  BY DEF Watched, Guarded, Sturdy, Failures
<1>2. ASSUME Base, LossInv, SeenInv, [Next]_vars
      PROVE  [ByProgram => \A r \in Replica, p \in Findable : Gone(r, p) =>
                \/ disk[r][p].data = synced[p]
                \/ disk[r][p].data \in kept'[r]
                \/ /\ ~copies
                   /\ disk'[r][p] # NoFile
                   /\ disk'[r][p].mtime > disk[r][p].mtime]_vars
  <2>1. atomic = FALSE
    BY <1>2 DEF SeenInv, OptionsInv, Base, TypeOK
  <2> QED BY <1>2, <2>1, LossStep DEF LossInv
<1> QED BY <1>1, <1>2, SeenAlways, LossInvAlways, PTL DEF Spec, NoLostUpdate

(* Versions are numbered as they are written.                              *)
Numbered ==
    /\ \A r \in Replica, p \in Path : There(r, p) => disk[r][p].data <= writes
    /\ \A p \in Path : \A d \in dead[p] : d <= writes

(* What happens to the versions counted as dead.                           *)
LEMMA DeadStep ==
  ASSUME TypeOK, [Next]_vars
  PROVE  /\ writes' \in {writes, writes + 1}
         /\ \/ dead' = dead
            \/ dead' = [p \in Path |-> {}]
            \/ \E r \in Replica, p \in Path :
                  /\ UserDeletes(r, p) /\ InSync(disk, p)
                  /\ \A s \in Replica : LooksUnchanged(s, p)
                  /\ dead' = [dead EXCEPT ![p] = @ \cup {disk[r][p].data}]
<1>1. CASE User
  BY <1>1 DEF User, UserWrites, UserDeletes, UserRenames, UserLinks
<1>2. ASSUME NEW p \in Path, Pushes(p) \/ BackUp(p) \/ RemoveFile(p)
      PROVE  UNCHANGED <<writes, dead>>
  BY <1>2 DEF Pushes, PushSucceeds, PushFailsToOpen, PushFails, PushFailsLate,
     PushEndsRun, BackUp, RemoveFile
<1>3. ASSUME NEW p \in Path,
             DetectUpdate(p) \/ SkipUnreadable(p) \/ ReconcilePath(p) \/ MergePath(p)
      PROVE  UNCHANGED <<writes, dead>>
  BY <1>3 DEF DetectUpdate, SkipUnreadable, ReconcilePath, MergePath, history
<1>4. CASE StartRun \/ NextWalk \/ WriteJournal \/ Crash \/ UNCHANGED vars
  BY <1>4 DEF StartRun, NextWalk, WriteJournal, Crash, vars, history
<1> QED BY <1>1, <1>2, <1>3, <1>4 DEF Next, Program, VisitPath, Pushes

(* No version has a number yet to be given.                                *)
LEMMA NumberedStep ==
  ASSUME Guarded, Base, Numbered, [Next]_vars
  PROVE  Numbered'
<1>t. /\ TypeOK /\ DiskType /\ writes \in Nat /\ current \in Replica
      /\ dead \in [Path -> SUBSET Nat]
  BY DEF Base, TypeOK, DiskType
<1>w. writes' \in Nat /\ writes <= writes'
  BY <1>t, DeadStep
<1>1. ASSUME NEW r \in Replica, NEW p \in Path, disk'[r][p] # NoFile
      PROVE  disk'[r][p].data <= writes'
  <2>1. CASE disk'[r][p] = disk[r][p]
    <3>1. disk[r][p].data <= writes /\ disk[r][p].data \in Nat
      BY <1>t, <1>1, <2>1, ThereIsFile DEF Numbered, There
    <3> QED BY <1>t, <1>w, <2>1, <3>1
  <2>2. CASE WrittenBy(r, p)
    BY <1>t, <2>2 DEF WrittenBy
  <2>3. CASE CarriedTo(r, p)
    <3>1. /\ There(current, p) /\ disk'[r][p].data = disk[current][p].data
      BY <2>3 DEF CarriedTo, Copied
    <3>2. disk[current][p].data <= writes /\ disk[current][p].data \in Nat
      BY <1>t, <3>1, ThereIsFile DEF Numbered
    <3> QED BY <1>t, <1>w, <3>1, <3>2
  <2> QED BY <1>1, <2>1, <2>2, <2>3, Changed
<1>2. ASSUME NEW p \in Path, NEW d \in dead'[p] PROVE d <= writes'
  <2>1. ASSUME d \in dead[p] PROVE d <= writes'
    <3>1. d \in Nat /\ d <= writes
      BY <1>t, <2>1 DEF Numbered
    <3> QED BY <1>t, <1>w, <3>1
  <2>2. ASSUME NEW r \in Replica, NEW q \in Path, UserDeletes(r, q),
               dead' = [dead EXCEPT ![q] = @ \cup {disk[r][q].data}], d \notin dead[p]
        PROVE  d <= writes'
    <3>1. p = q /\ d = disk[r][p].data
      BY <1>t, <1>2, <2>2
    <3>2. There(r, p)
      BY <2>2, <3>1 DEF UserDeletes
    <3>3. d \in Nat /\ d <= writes
      BY <1>t, <3>1, <3>2, ThereIsFile DEF Numbered
    <3> QED BY <1>t, <1>w, <3>3
  <2> QED BY <1>t, <1>2, <2>1, <2>2, DeadStep
<1> QED BY <1>1, <1>2 DEF Numbered, There

(* A dead version that is still on one replica is known to the journal and *)
(* is not sent to the other one.                                           *)
Dead(r, p) == There(r, p) /\ disk[r][p].data \in dead[p]
Sending == {"NEW", "EVAL", "RENAME", "SYNC", "CONFLICT"}
Alive ==
    \A r \in Replica, p \in Path : Dead(r, p) =>
       /\ FoundByHash(p) /\ disk[r][p].mtime <= journal[p].mtime
       /\ ~InSync(disk, p)
       /\ tree[r][p].instr \notin Sending
       /\ ~(p \in pushing /\ r = current)

(* csync_push_file is not called for a dead version.                       *)
LEMMA DeadIsNotCarried ==
  ASSUME Base, Alive, NEW r \in Replica, NEW p \in Path, CarriedTo(r, p)
  PROVE  ~Dead(current, p)
<1>1. current \in Replica
  BY DEF Base, TypeOK
<1>2. p \in pushing \/ tree[current][p].instr \in {"NEW", "SYNC"}
  BY DEF CarriedTo, Pushes, PushSucceeds, PushFailsToOpen, PushFails,
     PushFailsLate, PushEndsRun, MayPush
<1> QED BY <1>1, <1>2 DEF Alive, Sending

(* The instructions and the pushes of a step of the program.               *)
LEMMA AliveNodes ==
  ASSUME Guarded, Base, Alive, [Next]_vars,
         NEW r \in Replica, NEW p \in Path, Dead(r, p), disk'[r][p] = disk[r][p]
  PROVE  tree'[r][p].instr \notin Sending /\ ~(p \in pushing' /\ r = current')
<1>t. /\ TypeOK /\ TreeType /\ DiskType /\ Replica = {"local", "remote"}
      /\ current \in Replica /\ Unlinked /\ Dated /\ Pending /\ Resting
  BY DEF Base, TypeOK, TreeType, DiskType, Replica, QuietInv, CalmInv, RunInv
<1>d. /\ There(r, p) /\ FoundByHash(p) /\ Recorded(p)
      /\ disk[r][p].mtime <= journal[p].mtime
      /\ tree[r][p].instr \notin Sending /\ ~(p \in pushing /\ r = current)
  BY DEF Alive, Dead, FoundByHash
<1>e. ASSUME tree' = EmptyTrees, pushing' = {}
      PROVE  tree'[r][p].instr \notin Sending /\ ~(p \in pushing' /\ r = current')
  BY <1>e DEF EmptyTrees, Absent, Sending
<1>1. CASE User \/ UNCHANGED vars
  BY <1>1, <1>d, UserKeeps DEF vars
<1>2. CASE StartRun
  <2>1. tree' = EmptyTrees /\ pushing' = {}
    BY <1>t, <1>2 DEF StartRun, Resting
  <2> QED BY <1>e, <2>1
<1>3. CASE NextWalk
  BY <1>3, <1>d DEF NextWalk
<1>4. ASSUME NEW q \in Path, DetectUpdate(q)
      PROVE  tree'[r][p].instr \notin Sending /\ ~(p \in pushing' /\ r = current')
  <2>1. UNCHANGED <<current, pushing>>
    BY <1>4 DEF DetectUpdate
  <2> DEFINE i == Detect(current, q, disk[current][q])
  <2>2. \/ tree' = tree
        \/ /\ There(current, q)
           /\ \E m, n : tree' = [tree EXCEPT ![current][q] =
                                    [instr |-> i, mtime |-> m, inode |-> n]]
    BY <1>4 DEF DetectUpdate
  <2>3. q = p /\ current = r => i = "NONE"
    <3>1. disk[r][p].linked = FALSE /\ exists
      BY <1>t, <1>d DEF Unlinked, Dated
    <3>2. disk[r][p].mtime \in Nat /\ journal[p].mtime \in Nat
      BY <1>t, <1>d, ThereIsFile DEF TypeOK, Recorded, Record
    <3> QED BY <1>d, <3>1, <3>2 DEF Detect
  <2> HIDE DEF i
  <2>4. tree'[r][p].instr = tree[r][p].instr \/ tree'[r][p].instr = "NONE"
    BY <1>t, <2>2, <2>3 DEF TreeType
  <2> QED BY <1>d, <2>1, <2>4 DEF Sending
<1>5. ASSUME NEW q \in Path, SkipUnreadable(q)
      PROVE  tree'[r][p].instr \notin Sending /\ ~(p \in pushing' /\ r = current')
  BY <1>5, <1>d DEF SkipUnreadable
<1>6. ASSUME NEW q \in Path, ReconcilePath(q)
      PROVE  tree'[r][p].instr \notin Sending /\ ~(p \in pushing' /\ r = current')
  <2>1. UNCHANGED <<current, pushing>>
    BY <1>6 DEF ReconcilePath
  <2>2. /\ Decided(tree[current][q].instr, tree[Other(current)][q].instr,
                   tree'[current][q].instr, tree'[Other(current)][q].instr)
        /\ \A s \in Replica, u \in Path \ {q} : tree'[s][u] = tree[s][u]
    BY <1>t, <1>6, VisitStep
  <2>3. r = current \/ r = Other(current)
    BY <1>t DEF Other
  <2>4. tree'[r][p].instr \notin Sending
    <3>1. CASE p = q
      BY <1>d, <2>2, <2>3, <3>1 DEF Decided, Alone, Sending
    <3>2. CASE p # q
      BY <1>d, <2>2, <3>2
    <3> QED BY <3>1, <3>2
  <2> QED BY <1>d, <2>1, <2>4
<1>7. ASSUME NEW q \in Path, Pushes(q) \/ BackUp(q) \/ RemoveFile(q)
      PROVE  tree'[r][p].instr \notin Sending /\ ~(p \in pushing' /\ r = current')
  <2>1. CASE EndRun
    BY <2>1, <1>e DEF EndRun
  <2>2. CASE ~EndRun
    <3>1. /\ UNCHANGED current
          /\ tree'[current][q].instr \in {"UPDATED", "ERROR", "NONE", "DELETED"}
          /\ \A s \in Replica, u \in Path :
                s # current \/ u # q => tree'[s][u] = tree[s][u]
      BY <1>t, <1>7, <2>2, PropagatesNodes
    <3>2. \/ pushing' = {}
          \/ pushing' = {q} /\ tree[current][q].instr = "CONFLICT"
      BY <1>7, <2>2, Fares DEF MadeRoom, Stopped
    <3> QED BY <1>d, <3>1, <3>2 DEF Sending
  <2> QED BY <2>1, <2>2
<1>8. ASSUME NEW q \in Path, MergePath(q)
      PROVE  tree'[r][p].instr \notin Sending /\ ~(p \in pushing' /\ r = current')
  <2>1. CASE EndRun
    BY <2>1, <1>e DEF EndRun
  <2>2. CASE ~EndRun
    <3>1. /\ UNCHANGED <<current, pushing>>
          /\ \E m, n : tree' = [tree EXCEPT !["local"][q] =
                                   [instr |-> "NONE", mtime |-> m, inode |-> n]]
      BY <1>8, <2>2 DEF MergePath
    <3>2. tree'[r][p].instr = tree[r][p].instr \/ tree'[r][p].instr = "NONE"
      BY <1>t, <3>1 DEF TreeType
    <3> QED BY <1>d, <3>1, <3>2 DEF Sending
  <2> QED BY <2>1, <2>2
<1>9. CASE WriteJournal \/ Crash
  BY <1>9, <1>e DEF WriteJournal, Crash, EndRun
<1> QED BY <1>1, <1>2, <1>3, <1>4, <1>5, <1>6, <1>7, <1>8, <1>9
        DEF Next, Program, VisitPath, Pushes

(* No step makes a dead version look new or changed, nor forgets its row:  *)
(* csync_statedb_write runs when no path is half deleted.                  *)
LEMMA AliveStep ==
  ASSUME Guarded, Base, Numbered, Alive, [Next]_vars
  PROVE  Alive'
<1>t. /\ TypeOK /\ DiskType /\ Replica = {"local", "remote"} /\ writes \in Nat
      /\ current \in Replica /\ Resting
      /\ dead \in [Path -> SUBSET Nat]
  BY DEF Base, TypeOK, DiskType, Replica, CalmInv, RunInv
<1>1. SUFFICES ASSUME NEW r \in Replica, NEW p \in Path, disk'[r][p] # NoFile,
                      disk'[r][p].data \in dead'[p]
               PROVE  /\ journal'[p] # NoRecord /\ p \notin HighHash
                      /\ disk'[r][p].mtime <= journal'[p].mtime
                      /\ ~InSync(disk', p)
                      /\ tree'[r][p].instr \notin Sending
                      /\ ~(p \in pushing' /\ r = current')
  BY DEF Alive, Dead, There, FoundByHash, Recorded
<1>o. Other(r) \in Replica /\ Other(r) # r /\ Replica = {r, Other(r)}
  BY <1>t DEF Other
<1>2. CASE disk'[r][p].data \in dead[p]
  <2>1. disk'[r][p] = disk[r][p]
    <3>1. ~WrittenBy(r, p)
      <4>1. disk'[r][p].data <= writes
        BY <1>2 DEF Numbered
      <4> QED BY <1>t, <4>1 DEF WrittenBy
    <3>2. ~CarriedTo(r, p)
      BY <1>2, DeadIsNotCarried DEF CarriedTo, Copied, Dead
    <3> QED BY <1>1, <3>1, <3>2, Changed
  <2>2. Dead(r, p)
    BY <1>1, <1>2, <2>1 DEF Dead, There
  <2>3. /\ Recorded(p) /\ p \notin HighHash
        /\ disk[r][p].mtime <= journal[p].mtime
        /\ ~InSync(disk, p)
    BY <2>2 DEF Alive, FoundByHash
  <2>4. ~InSync(disk', p)
    <3>1. SUFFICES ASSUME InSync(disk', p) PROVE FALSE
      OBVIOUS
    <3>2. /\ disk'[Other(r)][p] # NoFile
          /\ disk'[Other(r)][p].data = disk[r][p].data
      BY <1>t, <1>o, <2>1, <3>1 DEF InSync
    <3>3. disk'[Other(r)][p] # disk[Other(r)][p]
      BY <1>t, <1>o, <2>1, <2>3, <3>1 DEF InSync
    <3>4. ~WrittenBy(Other(r), p)
      <4>1. disk[r][p].data <= writes /\ disk[r][p].data \in Nat
        BY <1>t, <2>2, ThereIsFile DEF Numbered, Dead
      <4> QED BY <1>t, <3>2, <4>1 DEF WrittenBy
    <3>5. CarriedTo(Other(r), p)
      BY <1>o, <3>2, <3>3, <3>4, Changed
    <3>6. Other(r) = Dest /\ r = current
      BY <1>t, <3>5 DEF CarriedTo, Dest, Other
    <3> QED BY <1>o, <2>2, <3>5, <3>6, DeadIsNotCarried
  <2>5. tree'[r][p].instr \notin Sending /\ ~(p \in pushing' /\ r = current')
    BY <2>1, <2>2, AliveNodes
  <2>6. journal' = journal
    <3>1. SUFFICES ASSUME journal' # journal PROVE FALSE
      OBVIOUS
    <3>2. WriteJournal
      BY <1>t, <3>1, RowsStep
    <3>3. step = "merge"
      BY <3>2 DEF WriteJournal
    <3> QED BY <1>t, <2>2, <2>3, <3>3, MergedEqual DEF Equal, Dead
  <2> QED BY <2>1, <2>3, <2>4, <2>5, <2>6 DEF Recorded
<1>3. CASE disk'[r][p].data \notin dead[p]
  <2>1. PICK s \in Replica, q \in Path :
           /\ UserDeletes(s, q) /\ InSync(disk, q)
           /\ \A u \in Replica : LooksUnchanged(u, q)
           /\ dead' = [dead EXCEPT ![q] = @ \cup {disk[s][q].data}]
    BY <1>t, <1>1, <1>3, DeadStep
  <2>2. q = p
    BY <1>t, <1>1, <1>3, <2>1
  <2>3. disk' = [disk EXCEPT ![s][p] = NoFile]
    BY <2>1, <2>2 DEF UserDeletes, Put
  <2>4. disk'[s][p] = NoFile /\ disk'[r][p] = disk[r][p]
    BY <1>t, <1>1, <2>3 DEF DiskType
  <2>5. ~InSync(disk', p)
    BY <1>t, <2>4 DEF InSync
  <2>6. journal' = journal /\ step = "idle" /\ UNCHANGED <<tree, pushing>>
    BY <2>1 DEF UserDeletes, UserMayAct, Guarded, dbVars, ctxVars
  <2>7. tree = EmptyTrees /\ pushing = {}
    BY <1>t, <2>6 DEF Resting
  <2> QED BY <2>1, <2>2, <2>4, <2>5, <2>6, <2>7
          DEF LooksUnchanged, FoundByHash, Recorded, EmptyTrees, Absent, Sending
<1> QED BY <1>2, <1>3

(* A version that a user deleted after the replicas and the journal had    *)
(* agreed on it, its row one that is found, does not come back at its      *)
(* path, for users who write and delete between the runs, whatever the     *)
(* remote module does and however often a full disk, the times of a copy,  *)
(* the journal and the process fail.                                       *)
THEOREM NothingComesBack == Guarded => (Spec => NoResurrect)
<1> SUFFICES ASSUME Guarded PROVE Spec => NoResurrect
  OBVIOUS
<1>1. Init => Numbered /\ Alive
  BY DEF Init, Numbered, Alive, Dead, There
<1>2. Base /\ Numbered /\ Alive /\ [Next]_vars => (Numbered /\ Alive)'
  BY NumberedStep, AliveStep
<1>3. ASSUME Base, Alive, [Next]_vars
      PROVE  [ByProgram => \A r \in Replica, p \in Findable :
                disk'[r][p] # NoFile /\ disk'[r][p] # disk[r][p]
                   => disk'[r][p].data \notin dead[p]]_vars
  <2>1. SUFFICES ASSUME ByProgram, NEW r \in Replica, NEW p \in Path,
                        disk'[r][p] # NoFile, disk'[r][p] # disk[r][p],
                        disk'[r][p].data \in dead[p]
                 PROVE  FALSE
    BY DEF Findable
  <2>2. CarriedTo(r, p)
    BY <1>3, <2>1, Changed DEF WrittenBy, ByProgram
  <2> QED BY <1>3, <2>1, <2>2, DeadIsNotCarried DEF CarriedTo, Copied, Dead
<1> QED BY <1>1, <1>2, <1>3, BaseAlways, PTL DEF Spec, NoResurrect
=============================================================================
