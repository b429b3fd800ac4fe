----------------------------- MODULE MCOwnCloud ------------------------------
(* A directory, and two files of one name, inside and outside of it.       *)
EXTENDS OwnCloud

CONSTANTS box, inner, outer

Parents == [p \in {box, inner, outer} |-> IF p = inner THEN box ELSE Top]
Names   == [p \in {box, inner, outer, Top} |->
              CASE p = box -> "box" [] p = Top -> "top" [] OTHER -> "f"]
=============================================================================
