--------------------------- MODULE PushFile_proofs ---------------------------
(***************************************************************************)
(* Proofs about PushFile for every set of destinations and of faults, any  *)
(* number of faults, versions and blocks: type correctness, that the push  *)
(* keeps the promise of Replacement, that what it reports as delivered is  *)
(* whole, and that only a complete file carries the time of the source.    *)
(***************************************************************************)
EXTENDS PushFile, SequenceTheorems, TLAPS

USE ConstantsAssumption

(* A file cut short is a file. *)
LEMMA PrefixType ==
  ASSUME NEW s \in Blocks, NEW n \in 0 .. Len(s)
  PROVE  SubSeq(s, 1, n) \in Blocks /\ Len(SubSeq(s, 1, n)) = n
BY SubSeqProperties DEF Blocks

LEMMA InitTypeOK == Init => TypeOK
<1> SUFFICES ASSUME Init PROVE TypeOK
  OBVIOUS
<1>1. Version(0) \in Blocks
  <2>1. size[0] \in Nat
    BY DEF Init
  <2> QED BY <2>1 DEF Version, Blocks
<1>2. world.missing \in 0 .. 2
  BY DEF Init, World
<1>3. old \in File \cup {NoFile}
  BY <1>1 DEF Init, File
<1>4. sent \in Blocks /\ pos \in Nat
  BY DEF Init, Blocks
<1>5. src \in 1 .. MaxVersion /\ dst \in File \cup {NoFile}
  BY <1>3 DEF Init
<1>6. pc \in Calls \cup Ends /\ rc \in {0 - 1, 0, 1} /\ faults \in Nat
  BY DEF Init, Calls, Ends, Hard
<1> QED BY <1>2, <1>3, <1>4, <1>5, <1>6 DEF Init, TypeOK

(* What the network or the disk has received is a file. *)
LEMMA ArrivedType ==
  ASSUME NEW b \in Blocks
  PROVE  /\ Arrived(b) \in File /\ Arrived(b) # NoFile
         /\ Arrived(b).blocks = b /\ Arrived(b).stamp = "now"
BY DEF Arrived, File, Blocks

LEMMA StepTypeOK == TypeOK /\ [Next]_vars => TypeOK'
<1> SUFFICES ASSUME TypeOK, [Next]_vars PROVE TypeOK'
  OBVIOUS
<1> USE DEF Calls, Ends, Soft, Hard, NoFault, FailWith
<1>0. \A f : Fault(f) => faults' \in Nat
  BY DEF TypeOK, Fault
<1> HIDE DEF FailWith
<1>1. CASE OpenSource
  BY <1>0, <1>1 DEF TypeOK, OpenSource, FailWith
<1>2. CASE CreateDest
  BY <1>0, <1>2 DEF TypeOK, CreateDest, FailWith
<1>3. CASE TmpNameTaken
  BY <1>0, <1>3 DEF TypeOK, TmpNameTaken, FailWith
<1>4. CASE MakeParents
  BY <1>0, <1>4 DEF TypeOK, MakeParents
<1>5. CASE CopyBlock
  <2>1. src \in 0 .. MaxVersion /\ sent \in Seq(0 .. MaxVersion)
    BY DEF TypeOK, Blocks
  <2>2. Append(sent, src) \in Seq(0 .. MaxVersion)
    BY <2>1
  <2>3. sent' \in Blocks
    BY <2>1, <2>2, <1>5 DEF CopyBlock, Blocks
  <2> QED BY <1>0, <2>3, <1>5 DEF TypeOK, CopyBlock
<1>6. CASE CopyEnds
  BY <1>0, <1>6 DEF TypeOK, CopyEnds, FailWith
<1>7. CASE CloseDest
  <2>1. sent' \in Blocks
    BY <1>7, PrefixType DEF TypeOK, CloseDest
  <2>2. dst' \in File \cup {NoFile}
    BY <1>7, ArrivedType DEF TypeOK, CloseDest, Upload
  <2>3. faults' \in Nat
    BY <1>0, <1>7 DEF TypeOK, CloseDest, Upload
  <2> QED BY <2>1, <2>2, <2>3, <1>7 DEF TypeOK, CloseDest, FailWith
<1>8. CASE CheckSize
  BY <1>0, <1>8 DEF TypeOK, CheckSize, FailWith
<1>9. CASE Rename
  BY <1>0, <1>9, ArrivedType DEF TypeOK, Rename, FailWith
<1>10. CASE RenameOverSftp
  BY <1>0, <1>10, ArrivedType DEF TypeOK, RenameOverSftp, FailWith
<1>11. CASE SetMode
  BY <1>0, <1>11 DEF TypeOK, SetMode, FailWith
<1>12. CASE SetTimes
  <2>1. dst' \in File \cup {NoFile}
    BY <1>12 DEF TypeOK, SetTimes, File
  <2> QED BY <1>0, <2>1, <1>12 DEF TypeOK, SetTimes, FailWith
<1>13. CASE OutClose
  BY <1>0, <1>13, ArrivedType DEF TypeOK, OutClose, Upload
<1>14. CASE OutUnlink
  BY <1>0, <1>14 DEF TypeOK, OutUnlink
<1>15. CASE Return
  BY <1>15 DEF TypeOK, Return
<1>16. CASE Crash
  BY <1>0, <1>16 DEF TypeOK, Crash
<1>17. CASE Rewrite
  BY <1>17 DEF TypeOK, Rewrite
<1>18. CASE UNCHANGED vars
  BY <1>18 DEF TypeOK, vars
<1> QED
  BY <1>1, <1>2, <1>3, <1>4, <1>5, <1>6, <1>7, <1>8, <1>9, <1>10, <1>11,
     <1>12, <1>13, <1>14, <1>15, <1>16, <1>17, <1>18 DEF Next, Push

(* Every state of every push has the types TypeOK gives its variables.     *)
THEOREM TypeCorrect == Spec => []TypeOK
BY InitTypeOK, StepTypeOK, PTL DEF Spec

-----------------------------------------------------------------------------
(***************************************************************************)
(* The promise.  A file counts as delivered when it has the size update    *)
(* detection saw and is not the one of before; its stamp tells the two     *)
(* apart even when both are empty.                                         *)
(***************************************************************************)
Delivered == Complete(dst) /\ dst # old

NotYet == {"open_source", "open_dest", "copy", "close", "stat", "rename"}

(* How far the push has got says what the destination holds.  This, not    *)
(* the promise itself, is inductive: rename relies on the size check made  *)
(* before it, and success on the rename made before it.                    *)
Progress ==
    /\ rc = 0 => pc \in {"return", "done", "crashed"}
    /\ old # NoFile => old.stamp = "old"
    /\ kind # "owncloud" =>
        /\ pc \in NotYet => dst = old
        /\ pc \in {"rename", "rename2"} => Len(sent) = size[1]
        /\ pc \in {"chmod", "utimes"} \/ rc = 0 => Delivered
        /\ dst \in {old, NoFile} \/ Delivered
    /\ kind = "local" => dst = old \/ Delivered

LEMMA InitProgress == Init => Progress
BY DEF Init, Progress, NotYet, Hard

(* A file that has just arrived has a stamp of its own. *)
LEMMA ArrivedIsNew ==
  ASSUME TypeOK, Progress, NEW b \in Blocks
  PROVE  Arrived(b) # old
BY ArrivedType DEF Progress

LEMMA StepProgress ==
  ASSUME TypeOK, Progress, [Next]_vars
  PROVE  Progress'
<1> USE DEF Soft, Hard, NotYet, kind, InPlace, FailWith, Delivered, Complete,
            NoFault
<1>f. sent \in Blocks
  BY DEF TypeOK
<1>1. CASE OpenSource
  BY <1>1 DEF Progress, OpenSource
<1>2. CASE CreateDest
  BY <1>2 DEF Progress, CreateDest
<1>3. CASE TmpNameTaken
  BY <1>3 DEF Progress, TmpNameTaken
<1>4. CASE MakeParents
  BY <1>4 DEF Progress, MakeParents
<1>5. CASE CopyBlock
  BY <1>5 DEF Progress, CopyBlock
<1>6. CASE CopyEnds
  BY <1>6 DEF Progress, CopyEnds
<1>7. CASE CloseDest
  BY <1>7 DEF Progress, CloseDest
<1>8. CASE CheckSize
  <2>1. CASE kind = "owncloud"
    BY <1>8, <2>1 DEF Progress, CheckSize
  <2>2. CASE kind # "owncloud"
    BY <1>8, <2>2 DEF Progress, CheckSize, StatSizes, Fits
  <2> QED BY <2>1, <2>2
<1>9. CASE Rename
  BY <1>9, <1>f, ArrivedIsNew, ArrivedType DEF Progress, Rename
<1>10. CASE RenameOverSftp
  BY <1>10, <1>f, ArrivedIsNew, ArrivedType DEF Progress, RenameOverSftp
<1>11. CASE SetMode
  BY <1>11 DEF Progress, SetMode
<1>12. CASE SetTimes
  <2>1. /\ dst # NoFile => /\ dst' = dst \/ dst'.stamp = "source"
                           /\ dst' # NoFile /\ dst'.blocks = dst.blocks
        /\ dst = NoFile => dst' = NoFile
    <3>1. NoFile \notin File
      BY DEF File, Blocks
    <3>2. \A f \in File : [f EXCEPT !.stamp = "source"] \in File
      BY DEF File
    <3>3. \A f \in File : /\ [f EXCEPT !.stamp = "source"].stamp = "source"
                          /\ [f EXCEPT !.stamp = "source"].blocks = f.blocks
      BY DEF File
    <3> QED BY <1>12, <3>1, <3>2, <3>3 DEF SetTimes, TypeOK
  <2> QED BY <1>12, <2>1 DEF Progress, SetTimes
<1>13. CASE OutClose
  BY <1>13 DEF Progress, OutClose
<1>14. CASE OutUnlink
  BY <1>14 DEF Progress, OutUnlink
<1>15. CASE Return
  BY <1>15 DEF Progress, Return
<1>16. CASE Crash
  BY <1>16 DEF Progress, Crash
<1>17. CASE Rewrite
  BY <1>17 DEF Progress, Rewrite
<1>18. CASE UNCHANGED vars
  BY <1>18 DEF Progress, vars
<1> QED
  BY <1>1, <1>2, <1>3, <1>4, <1>5, <1>6, <1>7, <1>8, <1>9, <1>10, <1>11,
     <1>12, <1>13, <1>14, <1>15, <1>16, <1>17, <1>18 DEF Next, Push

(* A push that starts maps to a push that starts. *)
LEMMA InitMaps == Init => R!Init
BY DEF Init, R!Init, R!Kind, World, kind, Kind, DestState, Outcome, Ends

(* Every call of the push maps to a step of Replacement or to a stutter.   *)
LEMMA StepMaps ==
  ASSUME TypeOK, Progress, Progress', [Next]_vars
  PROVE  [R!Next]_<<kind, DestState, Outcome>>
<1>1. CASE UNCHANGED vars
  BY <1>1 DEF vars, kind, DestState, Complete, Outcome
<1>2. CASE Next
  <2>1. pc \notin Ends /\ kind' = kind /\ old' = old /\ size' = size
    BY <1>2 DEF Next, Push, OpenSource, CreateDest, TmpNameTaken, MakeParents,
       CopyBlock, CopyEnds, CloseDest, CheckSize, Rename, RenameOverSftp,
       SetMode, SetTimes, OutClose, OutUnlink, Return, Crash, Rewrite, Ends,
       kind
  <2>2. Outcome = "running"
    BY <2>1 DEF Outcome, Ends
  <2>3. CASE pc' \in Ends
    <3>1. dst' = dst /\ rc' = rc
      BY <1>2, <2>3 DEF Next, Push, OpenSource, CreateDest, TmpNameTaken,
         MakeParents, CopyBlock, CopyEnds, CloseDest, CheckSize, Rename,
         RenameOverSftp, SetMode, SetTimes, OutClose, OutUnlink, Return, Crash,
         Rewrite, Ends, FailWith
    <3>2. DestState' = DestState
      BY <2>1, <3>1 DEF DestState, Complete
    <3>3. Outcome' = "updated" => DestState = "complete" \/ kind = "owncloud"
      BY <3>1 DEF Outcome, Progress, Delivered, Complete, DestState
    <3>4. Outcome' \in {"updated", "error", "crashed"}
      BY <2>3 DEF Outcome, Ends
    <3> QED BY <2>1, <2>2, <3>2, <3>3, <3>4 DEF R!Next, R!End
  <2>4. CASE pc' \notin Ends
    <3>1. Outcome' = "running"
      BY <2>4 DEF Outcome, Ends
    <3>2. CASE dst' = dst
      BY <2>1, <2>2, <3>1, <3>2 DEF DestState, Complete
    <3>3. CASE kind = "owncloud"
      <4>1. DestState' \in R!File
        BY DEF DestState, R!File
      <4> QED BY <2>1, <2>2, <3>1, <3>3, <4>1 DEF R!Next, R!Change
    <3>4. CASE kind # "owncloud" /\ dst' # dst
      <4>1. Rename \/ RenameOverSftp \/ SetTimes
        BY <1>2, <3>4 DEF Next, Push, OpenSource, CreateDest, TmpNameTaken,
           MakeParents, CopyBlock, CopyEnds, CloseDest, CheckSize, SetMode,
           OutClose, OutUnlink, Return, Crash, Rewrite, InPlace
      <4>2. CASE SetTimes
        <5>1. Delivered
          BY <3>4, <4>2 DEF SetTimes, Progress
        <5>2. Delivered'
          BY <2>1, <3>4, <4>2 DEF SetTimes, Progress, FailWith
        <5> QED BY <2>1, <2>2, <3>1, <5>1, <5>2 DEF Delivered, DestState
      <4>3. CASE Rename /\ kind = "local"
        <5>1. dst = old
          BY <3>4, <4>3 DEF Rename, Progress, NotYet
        <5>2. Delivered'
          BY <2>1, <3>4, <4>3, <5>1 DEF Progress
        <5>3. DestState = "original" /\ DestState' = "complete"
          BY <2>1, <5>1, <5>2 DEF DestState, Delivered, Complete
        <5> QED BY <2>1, <2>2, <3>1, <4>3, <5>3 DEF R!Next, R!Change
      <4>4. CASE Rename /\ kind # "local"
        <5>1. dst = old /\ dst' = NoFile
          BY <3>4, <4>4 DEF Rename, Progress, NotYet
        <5>2. DestState = "original" /\ DestState' = "none"
          BY <2>1, <3>4, <5>1 DEF DestState, Complete
        <5>3. kind = "sftp"
          BY <3>4, <4>4 DEF TypeOK, World, Kind, kind
        <5> QED BY <2>1, <2>2, <3>1, <5>2, <5>3 DEF R!Next, R!Change
      <4>5. CASE RenameOverSftp
        <5>1. dst = NoFile /\ pc' = "chmod"
          BY <3>4, <4>5 DEF RenameOverSftp
        <5>2. Delivered'
          BY <2>1, <3>4, <5>1 DEF Progress
        <5>3. DestState \in {"original", "none"} /\ DestState' = "complete"
          BY <2>1, <5>1, <5>2 DEF DestState, Delivered, Complete
        <5>4. kind \in {"local", "sftp"}
          BY <3>4 DEF TypeOK, World, Kind, kind
        <5>5. kind = "local" => DestState = "original"
          BY <5>1, <5>3 DEF Progress, Delivered, Complete, DestState
        <5> QED BY <2>1, <2>2, <3>1, <5>3, <5>4, <5>5 DEF R!Next, R!Change
      <4> QED BY <4>1, <4>2, <4>3, <4>4, <4>5
    <3> QED BY <3>2, <3>3, <3>4
  <2> QED BY <2>3, <2>4
<1> QED BY <1>1, <1>2

(* Every push keeps the promise its destination allows: on a local file    *)
(* system no one ever sees anything but the original or a complete file,   *)
(* and success always means a complete file.                               *)
THEOREM PushKeepsPromise == Spec => Promise
<1>1. Spec => [](TypeOK /\ Progress)
  BY InitTypeOK, InitProgress, StepTypeOK, StepProgress, PTL DEF Spec
<1>2. TypeOK /\ Progress /\ TypeOK' /\ Progress' /\ [Next]_vars
        => [R!Next]_<<kind, DestState, Outcome>>
  BY StepMaps
<1> QED BY InitMaps, <1>1, <1>2, PTL DEF Spec, Promise, R!Spec

-----------------------------------------------------------------------------
(***************************************************************************)
(* What is delivered.  While nobody rewrites the source every block that   *)
(* is on its way, or has arrived, is of the version update detection saw;  *)
(* that all of them have arrived is what the size check adds.              *)
(***************************************************************************)
Unmixed ==
    src = 1 =>
        /\ \A i \in 1 .. Len(sent) : sent[i] = 1
        /\ kind # "owncloud" /\ dst \notin {old, NoFile} =>
              \A i \in 1 .. Len(dst.blocks) : dst.blocks[i] = 1

LEMMA StepUnmixed ==
  ASSUME TypeOK, Progress, Unmixed, [Next]_vars
  PROVE  Unmixed'
<1> USE DEF NoFault, kind
<1>s. sent \in Blocks
  BY DEF TypeOK
<1>1. CASE UNCHANGED <<src, sent, dst, old, world>>
  BY <1>1 DEF Unmixed
<1>2. CASE CopyBlock
  <2>1. sent' = sent \/ sent' = Append(sent, src)
    BY <1>2 DEF CopyBlock
  <2>2. src = 1 => \A i \in 1 .. Len(sent') : sent'[i] = 1
    <3>1. sent \in Seq(0 .. MaxVersion) /\ src \in 0 .. MaxVersion
      BY <1>s DEF Blocks, TypeOK
    <3> QED BY <2>1, <3>1 DEF Unmixed
  <2> QED BY <2>2, <1>2 DEF Unmixed, CopyBlock
<1>3. CASE CloseDest
  <2>1. /\ src' = src /\ old' = old
        /\ world' = world
        /\ dst' = dst \/ dst' = Arrived(sent)
        /\ sent' = sent \/ \E n \in 0 .. Len(sent) : sent' = SubSeq(sent, 1, n)
    BY <1>3 DEF CloseDest, Upload
  <2>2. \A n \in 0 .. Len(sent) : \A i \in 1 .. n : SubSeq(sent, 1, n)[i] = sent[i]
    BY <1>s, SubSeqProperties DEF Blocks
  <2>3. Len(sent) \in Nat
    BY <1>s DEF Blocks
  <2>4. src = 1 => \A i \in 1 .. Len(sent') : sent'[i] = 1
    BY <1>s, <2>1, <2>2, <2>3, PrefixType DEF Unmixed
  <2> QED BY <1>s, <2>1, <2>4, ArrivedType DEF Unmixed
<1>4. CASE Rename \/ RenameOverSftp \/ OutClose
  BY <1>s, <1>4, ArrivedType DEF Rename, RenameOverSftp, OutClose, Upload,
     Unmixed
<1>5. CASE SetTimes
  <2>1. \A f \in File : [f EXCEPT !.stamp = "source"].blocks = f.blocks
    BY DEF File
  <2>2. kind # "owncloud" => Delivered
    BY <1>5 DEF SetTimes, Progress
  <2>3. UNCHANGED <<src, sent, old, world>>
    BY <1>5 DEF SetTimes
  <2>4. kind # "owncloud" => dst'.blocks = dst.blocks
    BY <1>5, <2>1, <2>2 DEF SetTimes, TypeOK, Delivered, Complete
  <2> QED BY <2>2, <2>3, <2>4 DEF Unmixed, Delivered, Complete
<1>6. CASE OutUnlink
  BY <1>6 DEF OutUnlink, Unmixed
<1>7. CASE Rewrite
  BY <1>7 DEF Rewrite, Unmixed, TypeOK
<1> QED
  BY <1>1, <1>2, <1>3, <1>4, <1>5, <1>6, <1>7 DEF Next, Push, OpenSource,
     CreateDest, TmpNameTaken, MakeParents, CopyEnds, CheckSize, SetMode,
     Return, Crash, vars

(* A push to a temporary file that reports success has delivered the       *)
(* version update detection saw, block for block, unless the source has    *)
(* been rewritten meanwhile: whatever was lost on the way is noticed.      *)
THEOREM DeliveryIsWhole == Spec => []DeliversDetected
<1>1. Init => Unmixed
  BY DEF Init, Unmixed
<1>2. TypeOK /\ Progress /\ Unmixed => DeliversDetected
  <2> SUFFICES ASSUME TypeOK, Progress, Unmixed, pc = "done", rc = 0, src = 1,
                      kind # "owncloud"
               PROVE  dst # NoFile /\ dst.blocks = Version(1)
    BY DEF DeliversDetected
  <2>1. dst # NoFile /\ dst # old /\ Len(dst.blocks) = size[1]
    BY DEF Progress, Delivered, Complete
  <2>2. dst.blocks \in Seq(0 .. MaxVersion)
    BY <2>1 DEF TypeOK, File, Blocks
  <2>3. \A i \in 1 .. size[1] : dst.blocks[i] = 1
    BY <2>1 DEF Unmixed
  <2>4. dst.blocks = [i \in 1 .. size[1] |-> dst.blocks[i]]
    BY <2>1, <2>2, LenProperties
  <2> QED BY <2>1, <2>3, <2>4 DEF Version
<1> QED
  BY InitTypeOK, InitProgress, StepTypeOK, StepProgress, StepUnmixed, <1>1,
     <1>2, PTL DEF Spec

-----------------------------------------------------------------------------
(***************************************************************************)
(* The time of the source on the destination.                              *)
(***************************************************************************)
Stamped ==
    world.cache = {} =>
        /\ pc \in {"rename", "rename2"} => Len(sent) = size[1]
        /\ pc \in {"chmod", "utimes"} /\ dst # NoFile => Complete(dst)
        /\ StampVouches

LEMMA StepStamped ==
  ASSUME TypeOK, Progress, Stamped, [Next]_vars
  PROVE  Stamped'
<1> USE DEF NoFault, FailWith, InPlace, kind, StampVouches, Complete
<1>s. sent \in Blocks
  BY DEF TypeOK
<1>1. CASE UNCHANGED <<world, size, sent, dst>>
           /\ pc' \notin {"rename", "rename2", "chmod", "utimes"}
  BY <1>1 DEF Stamped
<1>2. CASE CloseDest
  <2>1. /\ UNCHANGED <<world, size>>
        /\ dst' = dst \/ dst' = Arrived(sent)
        /\ pc' \in {"stat", "out_unlink"}
    BY <1>2 DEF CloseDest, Upload
  <2> QED BY <2>1, <1>s, ArrivedType DEF Stamped
<1>3. CASE CheckSize
  <2>1. UNCHANGED <<world, size, sent, dst>>
    BY <1>3 DEF CheckSize
  <2>2. \/ pc' = "out_unlink"
        \/ \E n \in StatSizes :
              Fits(n) /\ pc' = IF InPlace THEN "chmod" ELSE "rename"
    BY <1>3 DEF CheckSize
  <2>3. world.cache = {} /\ pc' = "rename" => Len(sent) = size[1]
    BY <2>2 DEF StatSizes, Fits
  <2>4. world.cache = {} /\ pc' = "chmod" /\ dst # NoFile => Complete(dst)
    BY <2>2 DEF StatSizes, Fits
  <2>5. pc' # "utimes" /\ pc' # "rename2"
    BY <2>2
  <2> QED BY <2>1, <2>3, <2>4, <2>5 DEF Stamped
<1>4. CASE Rename
  BY <1>4, <1>s, ArrivedType DEF Rename, Stamped
<1>5. CASE RenameOverSftp
  BY <1>5, <1>s, ArrivedType DEF RenameOverSftp, Stamped
<1>6. CASE SetMode
  BY <1>6 DEF SetMode, Stamped
<1>7. CASE SetTimes
  <2>1. \A f \in File : [f EXCEPT !.stamp = "source"].blocks = f.blocks
    BY DEF File
  <2>2. /\ dst # NoFile => dst'.blocks = dst.blocks
        /\ dst = NoFile => dst' = NoFile
    BY <1>7, <2>1 DEF SetTimes, TypeOK
  <2> QED BY <1>7, <2>2 DEF SetTimes, Stamped
<1>8. CASE OutClose
  BY <1>8, <1>s, ArrivedType DEF OutClose, Upload, Stamped
<1>9. CASE OutUnlink
  BY <1>9 DEF OutUnlink, Stamped
<1>10. CASE CopyBlock
  BY <1>10 DEF CopyBlock, Stamped
<1>11. CASE Crash \/ Rewrite
  BY <1>11 DEF Crash, Rewrite, Stamped
<1>12. CASE UNCHANGED vars
  BY <1>12 DEF vars, Stamped
<1> QED
  BY <1>1, <1>2, <1>3, <1>4, <1>5, <1>6, <1>7, <1>8, <1>9, <1>10, <1>11,
     <1>12 DEF Next, Push, OpenSource, CreateDest, TmpNameTaken, MakeParents,
     CopyEnds, Return

(* A file that carries the time of the source has the size update          *)
(* detection saw, at every moment and for every destination, so that an    *)
(* interrupted push is never taken for a finished one; a stale cache entry *)
(* of the ownCloud module is the one exception.                            *)
THEOREM StampIsEarned == Spec => []StampVouches
<1>1. Init => Stamped
  BY DEF Init, Stamped, StampVouches
<1>2. TypeOK /\ Progress /\ Stamped => StampVouches
  BY DEF Stamped, StampVouches
<1> QED
  BY InitTypeOK, InitProgress, StepTypeOK, StepProgress, StepStamped, <1>1,
     <1>2, PTL DEF Spec
=============================================================================
