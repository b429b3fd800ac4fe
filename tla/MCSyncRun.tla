----------------------------- MODULE MCSyncRun -----------------------------
(* Small instances of SyncRun for TLC. *)
EXTENDS SyncRun, TLC

(* Nothing orders or names a path or an inode number, but whether the row  *)
(* of the path is found and the number survives its conversion matters.    *)
Symmetry ==
    Permutations(Findable) \cup Permutations(HighHash)
        \cup Permutations(Inode \ LargeInode) \cup Permutations(LargeInode)
=============================================================================
