------------------------------ MODULE PushFile ------------------------------
(***************************************************************************)
(* One push of one file, _csync_push_file of csync_propagate.c, call by    *)
(* call: the temporary file, the copy, the size check, the rename and the  *)
(* attributes, with the calls failing as the three file systems a          *)
(* destination may live on make them fail, the process dying between any   *)
(* two calls, and the source being rewritten meanwhile.                    *)
(*                                                                         *)
(* A file is a sequence of blocks; a block is the version of the source it *)
(* was read from.  Version 1 is the one update detection saw, version 0    *)
(* the one the destination had before.                                     *)
(***************************************************************************)
EXTENDS Integers, Sequences

CONSTANTS
    NoFile,      \* nothing at a path
    Worlds,      \* the destinations looked at
    Faults,      \* what may fail, a subset of AllFaults
    MaxFaults,   \* bound: faults that happen
    MaxVersion,  \* bound: versions of the source
    MaxBlocks    \* bound: blocks of a version

AllFaults == {"open", "create", "exists", "mkdir", "copy", "cache", "close",
              "space", "put", "stat", "unlink", "rename", "chmod", "utimes",
              "crash"}

Kind == {"local", "sftp", "owncloud"}

(* missing: directories above the destination that do not exist; denied:   *)
(* they may not be created; cache: the sizes the static stat cache of the  *)
(* ownCloud module may answer with.  Its name is a freed string by then,   *)
(* so the comparison that guards it may have either outcome.               *)
World == [kind : Kind, missing : 0 .. 2, denied : BOOLEAN,
          cache : SUBSET (0 .. MaxBlocks)]

ASSUME ConstantsAssumption ==
    /\ MaxFaults \in Nat /\ MaxVersion \in Nat \ {0} /\ MaxBlocks \in Nat
    /\ Faults \subseteq AllFaults
    /\ Worlds \subseteq World
    /\ \A w \in Worlds : w.cache # {} => w.kind = "owncloud"
    /\ NoFile \notin [blocks : Seq(0 .. MaxVersion),
                      stamp : {"old", "now", "source"}]

VARIABLES
    world,    \* the destination of this push
    size,     \* the blocks of each version
    old,      \* the file at the destination before the push, or NoFile
    src,      \* the version now at the source
    dst,      \* the file at the destination, or NoFile
    tmp,      \* there is a temporary file next to it
    missing,  \* directories still missing above it
    sent,     \* the blocks written to the open destination file
    pos,      \* the blocks read from the source
    pc,       \* the next call of the push
    rc,       \* its return code
    faults    \* faults so far

vars == <<world, size, old, src, dst, tmp, missing, sent, pc, rc, pos, faults>>

kind == world.kind

Calls == {"open_source", "open_dest", "copy", "close", "stat", "rename",
          "rename2", "chmod", "utimes", "out_close", "out_unlink", "return"}
Ends  == {"done", "crashed"}

(* Return codes: the run goes on after a soft error and ends after a hard  *)
(* one.                                                                    *)
Soft == 1
Hard == 0 - 1

Blocks == Seq(0 .. MaxVersion)
File   == [blocks : Blocks, stamp : {"old", "now", "source"}]

TypeOK ==
    /\ world \in Worlds
    /\ size \in [0 .. MaxVersion -> 0 .. MaxBlocks]
    /\ old \in File \cup {NoFile}
    /\ src \in 1 .. MaxVersion
    /\ dst \in File \cup {NoFile}
    /\ tmp \in BOOLEAN
    /\ missing \in 0 .. 2
    /\ sent \in Blocks
    /\ pos \in Nat
    /\ pc \in Calls \cup Ends
    /\ rc \in {0 - 1, 0, 1}
    /\ faults \in Nat

-----------------------------------------------------------------------------
Version(v) == [i \in 1 .. size[v] |-> v]

Init ==
    /\ world \in Worlds
    /\ missing = world.missing
    /\ size \in [0 .. MaxVersion -> 0 .. MaxBlocks]
    /\ old \in {NoFile} \cup IF missing > 0 THEN {}
                  ELSE {[blocks |-> Version(0), stamp |-> "old"]}
    /\ dst = old
    /\ src = 1
    /\ tmp = FALSE
    /\ sent = <<>> /\ pos = 0
    /\ pc = "open_source" /\ rc = Hard
    /\ faults = 0

Fault(f) ==
    /\ f \in Faults
    /\ faults < MaxFaults
    /\ faults' = faults + 1

NoFault == UNCHANGED faults

(* Mutant: the remote module's capability is taken for granted. *)
InPlaceAlways == kind # "local"

(* _push_to_tmp_first says no: only the ownCloud module has the capability *)
(* atomar_copy_support, as its server replaces a file at once.             *)
InPlace == kind = "owncloud"

(* The call fails, the push goes to its label out with the code r.         *)
FailWith(r, next) == rc' = r /\ pc' = next

(* Mutant: the file comes with the time of the source. *)
ArrivedStamped(b) == [blocks |-> b, stamp |-> "source"]

(* The file system has the file now, with the time of its arrival.         *)
Arrived(b) == [blocks |-> b, stamp |-> "now"]

-----------------------------------------------------------------------------
(* turi is not set yet: nothing is unlinked on the way out.                *)
OpenSource ==
    /\ pc = "open_source"
    /\ \/ NoFault /\ pc' = "open_dest" /\ UNCHANGED rc
       \/ /\ Fault("open")
          /\ \E r \in {Soft, Hard} : FailWith(r, "return")
    /\ UNCHANGED <<world, size, old, src, dst, tmp, missing, sent, pos>>

CreateDest ==
    /\ pc = "open_dest" /\ missing = 0
    /\ \/ NoFault /\ pc' = "copy" /\ tmp' = ~InPlace /\ UNCHANGED rc
       \/ /\ Fault("create")
          /\ \E r \in {Soft, Hard} : FailWith(r, "out_unlink")
          /\ UNCHANGED tmp
    /\ UNCHANGED <<world, size, old, src, dst, missing, sent, pos>>

(* EEXIST: c_tmpname refuses a name whose Xs are replaced already, so the  *)
(* loop does not come to a second name and its counter not to its limit.   *)
TmpNameTaken ==
    /\ pc = "open_dest" /\ missing = 0 /\ ~InPlace
    /\ Fault("exists")
    /\ FailWith(Hard, "out_unlink")
    /\ UNCHANGED <<world, size, old, src, dst, tmp, missing, sent, pos>>

(* Mutant: the directories are not created. *)
CreatableNever == FALSE

(* csync_vio_mkdirs goes on to the parent of a missing directory only when *)
(* its stat fails with ENOENT, which the ownCloud module, whose every      *)
(* status falls through to EIO, does not report.                           *)
Creatable == ~world.denied /\ (kind = "owncloud" => missing < 2)

(* ENOENT: the loop calls mkdirs and tries again, whatever mkdirs says.    *)
MakeParents ==
    /\ pc = "open_dest" /\ missing > 0
    /\ \/ NoFault /\ missing' = IF Creatable THEN 0 ELSE missing
       \/ /\ Fault("mkdir")
          /\ Creatable
          /\ missing' \in 1 .. missing
    /\ UNCHANGED <<world, size, old, src, dst, tmp, sent, pos, pc, rc>>

-----------------------------------------------------------------------------
(* One turn of the copy loop.  The ownCloud module keeps what is written   *)
(* in a cache of its own and only warns when that takes less.              *)
CopyBlock ==
    /\ pc = "copy" /\ pos < size[src]
    /\ pos' = pos + 1
    /\ \/ NoFault /\ sent' = Append(sent, src)
       \/ InPlace /\ Fault("cache") /\ UNCHANGED sent
    /\ UNCHANGED <<world, size, old, src, dst, tmp, missing, pc, rc>>

CopyEnds ==
    /\ pc = "copy"
    /\ \/ pos >= size[src] /\ NoFault /\ pc' = "close" /\ UNCHANGED rc
       \/ Fault("copy") /\ FailWith(Soft, "out_close")
    /\ UNCHANGED <<world, size, old, src, dst, tmp, missing, sent, pos>>

(* The upload of the ownCloud module takes place in close.  An upload that *)
(* is answered with an error may have been carried out or not.             *)
Upload ==
    \/ NoFault /\ dst' = Arrived(sent)
    \/ Fault("put") /\ dst' \in {dst, Arrived(sent)}

(* Only a full disk or quota makes a failing close fail the push.          *)
CloseDest ==
    /\ pc = "close"
    /\ \/ InPlace /\ Upload /\ pc' = "stat" /\ UNCHANGED <<sent, rc>>
       \/ ~InPlace /\ NoFault /\ pc' = "stat" /\ UNCHANGED <<dst, sent, rc>>
       \/ /\ ~InPlace /\ Fault("close")
          /\ \E n \in 0 .. Len(sent) : sent' = SubSeq(sent, 1, n)
          /\ pc' = "stat"
          /\ UNCHANGED <<dst, rc>>
       \/ /\ kind = "local" /\ Fault("space")
          /\ FailWith(Hard, "out_unlink")
          /\ UNCHANGED <<dst, sent>>
    /\ UNCHANGED <<world, size, old, src, tmp, missing, pos>>

(* Mutant: the sizes are not compared. *)
FitsAlways(n) == TRUE

(* The size update detection saw at the source.                            *)
Fits(n) == n = size[1]

(* The sizes stat may report for turi.                                     *)
StatSizes ==
    IF ~InPlace THEN {Len(sent)}
    ELSE world.cache \cup IF dst = NoFile THEN {} ELSE {Len(dst.blocks)}

CheckSize ==
    /\ pc = "stat"
    /\ \/ /\ NoFault
          /\ \E n \in StatSizes :
                IF Fits(n)
                THEN pc' = (IF InPlace THEN "chmod" ELSE "rename")
                     /\ UNCHANGED rc
                ELSE FailWith(Soft, "out_unlink")
       \/ /\ IF InPlace /\ dst = NoFile THEN NoFault ELSE Fault("stat")
          /\ \E r \in {Soft, Hard} : FailWith(r, "out_unlink")
    /\ UNCHANGED <<world, size, old, src, dst, tmp, missing, sent, pos>>

(* rename(2) on the local file system; over sftp, where rename does not    *)
(* overwrite, the destination is unlinked first.                           *)
Rename ==
    /\ pc = "rename"
    /\ \/ /\ kind = "local" /\ NoFault
          /\ dst' = Arrived(sent) /\ tmp' = FALSE
          /\ pc' = "chmod" /\ UNCHANGED rc
       \/ /\ kind = "local" /\ Fault("rename")
          /\ \E r \in {Soft, Hard} : FailWith(r, "out_unlink")
          /\ UNCHANGED <<dst, tmp>>
       \/ /\ kind # "local"
          /\ \/ NoFault /\ dst' = NoFile
             \/ Fault("unlink") /\ UNCHANGED dst
          /\ pc' = "rename2" /\ UNCHANGED <<tmp, rc>>
    /\ UNCHANGED <<world, size, old, src, missing, sent, pos>>

RenameOverSftp ==
    /\ pc = "rename2"
    /\ \/ /\ dst = NoFile /\ NoFault
          /\ dst' = Arrived(sent) /\ tmp' = FALSE
          /\ pc' = "chmod" /\ UNCHANGED rc
       \/ /\ IF dst = NoFile THEN Fault("rename") ELSE NoFault
          /\ FailWith(Soft, "out_unlink")
          /\ UNCHANGED <<dst, tmp>>
    /\ UNCHANGED <<world, size, old, src, missing, sent, pos>>

-----------------------------------------------------------------------------
(* Only files whose mode is not the default one are given their mode.      *)
SetMode ==
    /\ pc = "chmod"
    /\ \/ NoFault /\ pc' = "utimes" /\ UNCHANGED rc
       \/ /\ ~InPlace /\ Fault("chmod")
          /\ \E r \in {Soft, Hard} : FailWith(r, "out_unlink")
    /\ UNCHANGED <<world, size, old, src, dst, tmp, missing, sent, pos>>

(* The outcome of utimes is not looked at.                                 *)
SetTimes ==
    /\ pc = "utimes"
    /\ \/ NoFault /\ dst' = IF dst = NoFile THEN NoFile
                            ELSE [dst EXCEPT !.stamp = "source"]
       \/ Fault("utimes") /\ UNCHANGED dst
    /\ FailWith(0, "return")
    /\ UNCHANGED <<world, size, old, src, tmp, missing, sent, pos>>

(* The way out of a push that failed with the destination open: closing it *)
(* uploads, where closing does, what was copied so far.                    *)
OutClose ==
    /\ pc = "out_close"
    /\ IF InPlace THEN Upload ELSE NoFault /\ UNCHANGED dst
    /\ pc' = "out_unlink"
    /\ UNCHANGED <<world, size, old, src, tmp, missing, sent, pos, rc>>

(* turi is unlinked, the temporary file or the destination itself.         *)
OutUnlink ==
    /\ pc = "out_unlink"
    /\ \/ /\ NoFault
          /\ tmp' = FALSE
          /\ dst' = IF InPlace THEN NoFile ELSE dst
       \/ Fault("unlink") /\ UNCHANGED <<dst, tmp>>
    /\ pc' = "return"
    /\ UNCHANGED <<world, size, old, src, missing, sent, pos, rc>>

Return ==
    /\ pc = "return"
    /\ pc' = "done"
    /\ UNCHANGED <<world, size, old, src, dst, tmp, missing, sent, pos, rc,
                   faults>>

-----------------------------------------------------------------------------
Push ==
    \/ OpenSource \/ CreateDest \/ TmpNameTaken \/ MakeParents
    \/ CopyBlock \/ CopyEnds \/ CloseDest \/ CheckSize
    \/ Rename \/ RenameOverSftp \/ SetMode \/ SetTimes
    \/ OutClose \/ OutUnlink \/ Return

Crash ==
    /\ pc \notin Ends
    /\ Fault("crash")
    /\ pc' = "crashed"
    /\ UNCHANGED <<world, size, old, src, dst, tmp, missing, sent, pos, rc>>

(* A user writes a new version at the source.                              *)
Rewrite ==
    /\ pc \notin Ends
    /\ src < MaxVersion
    /\ src' = src + 1
    /\ UNCHANGED <<world, size, old, dst, tmp, missing, sent, pos, pc, rc,
                   faults>>

Next == Push \/ Crash \/ Rewrite
Spec == Init /\ [][Next]_vars

(* The push is a sequential program: it goes on.                           *)
FairSpec == Spec /\ WF_vars(Push)

-----------------------------------------------------------------------------
(***************************************************************************)
(* Properties.                                                             *)
(***************************************************************************)

(* A file of the size update detection saw at the source. *)
Complete(f) == f # NoFile /\ Len(f.blocks) = size[1]

(* What the destination path holds, in the terms of Replacement.           *)
DestState ==
    CASE dst = old                   -> "original"
      [] dst # old /\ dst = NoFile   -> "none"
      [] dst # old /\ Complete(dst)  -> "complete"
      [] OTHER                       -> "torn"

Outcome ==
    CASE pc = "done" /\ rc = 0 -> "updated"
      [] pc = "done" /\ rc # 0 -> "error"
      [] pc = "crashed"        -> "crashed"
      [] OTHER                 -> "running"

(* The push keeps what Replacement promises for its file system: on the    *)
(* local one the original gives way to the complete file in one step, over *)
(* sftp with a moment of nothing in between, and success is reported only  *)
(* for a complete file; with the capability nothing is promised.           *)
R == INSTANCE Replacement
        WITH kind <- kind, file <- DestState, result <- Outcome
Promise == R!Spec

(* A push to a temporary file that reports success has delivered what      *)
(* update detection saw, block for block, unless the source has been       *)
(* rewritten since.                                                        *)
DeliversDetected ==
    pc = "done" /\ rc = 0 /\ src = 1 /\ kind # "owncloud" =>
        dst # NoFile /\ dst.blocks = Version(1)

(* The time of the source, which makes the next run take the file for      *)
(* unchanged, stands only on a file of the size update detection saw,      *)
(* whenever the push is interrupted; unless a stale cache answered for it. *)
StampVouches ==
    dst # NoFile /\ dst.stamp = "source" /\ world.cache = {} => Complete(dst)

(* Every push comes to an end where directories can be created: the loop   *)
(* around the open that creates the destination is left.                   *)
PushEnds == <>(pc \in Ends)

(* The invariant of "Crash resistance" in doc/csync.txt: at every moment   *)
(* the file has its original or its final content.                         *)
OriginalOrFinal == dst # old => Complete(dst)

(* "Transfer errors" in doc/csync.txt: the size check after the transfer   *)
(* detects that it failed, so that success means another file is there.    *)
TransferErrorsDetected ==
    pc = "done" /\ rc = 0 =>
        dst # NoFile /\ (src = 1 => dst.blocks = Version(1))
=============================================================================
