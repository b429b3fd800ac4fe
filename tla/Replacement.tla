----------------------------- MODULE Replacement -----------------------------
(***************************************************************************)
(* What a push promises about the one file it replaces, depending on the   *)
(* file system of the destination: the step from "original" to "complete"  *)
(* that SyncRun takes for granted, with what may be seen in between.       *)
(*                                                                         *)
(* file is "original" until something happens to the destination path,     *)
(* "complete" when a file of the expected size is there, "torn" when       *)
(* another file is there, "none" when the original is gone and nothing     *)
(* took its place.                                                         *)
(***************************************************************************)
VARIABLES
    kind,    \* the file system of the destination
    file,    \* what is at the destination path
    result   \* how the push ended, "running" while it has not

Kind   == {"local", "sftp", "owncloud"}
File   == {"original", "complete", "torn", "none"}
Result == {"running", "updated", "error", "crashed"}

Init ==
    /\ kind \in Kind
    /\ file = "original"
    /\ result = "running"

(* rename(2) replaces the file at once.  Over sftp the old file is removed *)
(* first.  An upload that writes to the destination itself promises        *)
(* nothing.                                                                *)
Change ==
    /\ result = "running"
    /\ \/ kind = "local" /\ file = "original" /\ file' = "complete"
       \/ kind = "sftp" /\ file \in {"original", "none"} /\ file' = "complete"
       \/ kind = "sftp" /\ file = "original" /\ file' = "none"
       \/ kind = "owncloud" /\ file' \in File
    /\ UNCHANGED <<kind, result>>

(* Success is reported only for a complete file, save for such an upload.  *)
End ==
    /\ result = "running"
    /\ \/ result' = "updated" /\ (file = "complete" \/ kind = "owncloud")
       \/ result' \in {"error", "crashed"}
    /\ UNCHANGED <<kind, file>>

Next == Change \/ End
Spec == Init /\ [][Next]_<<kind, file, result>>
=============================================================================
