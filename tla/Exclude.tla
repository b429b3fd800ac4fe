------------------------------ MODULE Exclude ------------------------------
(***************************************************************************)
(* The exclude list (csync_exclude.c): the lines of its files, the list    *)
(* that grows with them, and what is matched with it.  A string is a       *)
(* sequence of characters, as in Paths.                                    *)
(***************************************************************************)
EXTENDS Paths

Newline == "\n"

(* fnmatch without flags: a star stands for anything, slashes and points   *)
(* in front included.  Sets in brackets are left out.                      *)
csync_fnmatch(pattern, string) ==
    LET n == Len(pattern)
        k == Len(string)
        rest[i \in 1 .. n + 1, j \in 1 .. k + 1] ==
            IF i > n THEN j > k
            ELSE \/ pattern[i] = "*" /\ \E l \in j .. k + 1 : rest[i + 1, l]
                 \/ /\ pattern[i] # "*" /\ j <= k
                    /\ pattern[i] \in {"?", string[j]}
                    /\ rest[i + 1, j + 1]
    IN  rest[1, 1]

(* c_strlist: a vector of a size.  Adding to a full one is refused, so it  *)
(* is made twice as long before.                                           *)
EmptyList == [vector |-> <<>>, size |-> 32]

c_strlist_expand(list, size) ==
    IF list.size >= size THEN list ELSE [list EXCEPT !.size = size]

c_strlist_add(list, string) ==
    IF Len(list.vector) < list.size
    THEN [list EXCEPT !.vector = Append(@, string)] ELSE list

csync_exclude_add(list, string) ==
    c_strlist_add(IF Len(list.vector) = list.size
                  THEN c_strlist_expand(list, 2 * list.size) ELSE list, string)

(* What is between the newlines of a file and before the first; what       *)
(* follows the last one is no line.                                        *)
LinesOf(file) ==
    LET ends   == {i \in 1 .. Len(file) : file[i] = Newline}
        End(k) == CHOOSE i \in {0} \cup ends :
                      Cardinality({j \in ends : j <= i}) = k
    IN  [k \in 1 .. Cardinality(ends) |->
            SubSeq(file, End(k - 1) + 1, End(k) - 1)]

csync_exclude_load(list, file) ==
    FoldLeft(csync_exclude_add, list,
             SelectSeq(LinesOf(file),
                       LAMBDA line : line # <<>> /\ line[1] # "#"))

(* Characters that not every file system takes. *)
Special == {"\\", ":", "?", "*", "\"", ">", "<", "|"}

(* The journal and its temporary copy. *)
JournalName == <<"j">>

(* csync_excluded: the patterns are tried on the path in the replica and   *)
(* on its last component.                                                  *)
csync_excluded(list, unixExtensions, path) ==
    \/ ~unixExtensions /\ Chars(path) \cap Special # {}
    \/ \E pattern \in {JournalName \o <<"*">>} \cup Chars(list.vector) :
          \/ csync_fnmatch(pattern, path)
          \/ csync_fnmatch(pattern, c_basename(path))
=============================================================================
