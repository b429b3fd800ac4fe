------------------------------ MODULE SortedSet ------------------------------
(***************************************************************************)
(* What the trees of a run are to their users: a set of keys that grows    *)
(* and shrinks by one key at a time.                                       *)
(***************************************************************************)
CONSTANT Key
VARIABLE content

Init == content = {}
Insert(k) == k \notin content /\ content' = content \cup {k}
Delete(k) == k \in content /\ content' = content \ {k}
Next == \E k \in Key : Insert(k) \/ Delete(k)
Spec == Init /\ [][Next]_content
=============================================================================
