----------------------------- MODULE MCTreeRun -----------------------------
(* Small instances of TreeRun for TLC: three directories in each other,    *)
(* and a file in the outer one.                                            *)
EXTENDS TreeRun, TLC, SequencesExt

CONSTANTS d, e, g3, f

Deep == (d :> Top) @@ (e :> d) @@ (g3 :> e) @@ (f :> d)
EmptyOrFull == {{}, Path}

-----------------------------------------------------------------------------
(* The exclude list.                                                       *)
X == INSTANCE Exclude

Strings(C, n) == UNION {[1 .. k -> C] : k \in 0 .. n}

(* Relative paths, as csync_ftw makes them. *)
RelativePaths ==
    {s \in Strings({"a", ".", "/", "*"}, 4) :
        /\ s # <<>> /\ s[1] # "/" /\ s[Len(s)] # "/"
        /\ ~IsPrefix(<<".", "/">>, s)
        /\ \A i \in 1 .. Len(s) - 1 : ~(s[i] = "/" /\ s[i + 1] = "/")}

InDirectory(dir, name) == dir \o <<"/">> \o name

Listed(pattern) == X!csync_exclude_load(X!EmptyList, Append(pattern, X!Newline))

(* A path is a name in a directory, or a name of its own. *)
ASSUME PathsComeApart ==
    \A s \in RelativePaths :
        s = IF X!c_dirname(s) = <<".">> THEN X!c_basename(s)
            ELSE InDirectory(X!c_dirname(s), X!c_basename(s))

(* The name of a conflict copy is another one in the same directory, and   *)
(* that of no other path of the same second.                               *)
ASSUME BackupsAreApart ==
    \A s \in RelativePaths :
        LET copy == X!BackupName(s, "_conflict-1")
        IN  /\ SelectSeq(copy, LAMBDA c : c # "_conflict-1") = s
            /\ X!c_dirname(copy) = X!c_dirname(s)

(* Every line of any number of files gets to the list, but for empty ones  *)
(* and comments.                                                           *)
ASSUME ListHoldsAll ==
    \A n \in 0 .. 3, k \in 0 .. 3 :
        LET Line(i) == <<ToString(i), X!Newline>>
            Lines(from, to) ==
                FlattenSeq([i \in 1 .. to - from |-> Line(from + i)])
            loaded == X!csync_exclude_load(
                          X!csync_exclude_load(X!EmptyList, Lines(0, n)),
                          <<X!Newline, "#", "a", X!Newline>> \o Lines(n, n + k))
        IN  loaded.vector = [i \in 1 .. n + k |-> <<ToString(i)>>]

(* There is room for every pattern. *)
ASSUME ListGrows ==
    \A size \in {32, 64} : \A n \in 0 .. size :
        LET filled == [vector |-> [i \in 1 .. n |-> <<ToString(i)>>],
                       size |-> size]
            added  == X!csync_exclude_add(filled, <<"a">>)
        IN  /\ added.vector = Append(filled.vector, <<"a">>)
            /\ added.size >= Len(added.vector)

(* The journal is excluded wherever it is, with any list.                  *)
ASSUME JournalIsExcluded ==
    \A s \in RelativePaths, end \in {<<>>, <<".", "a">>} :
        LET name == X!JournalName \o end
        IN  /\ X!csync_excluded(X!EmptyList, TRUE, name)
            /\ X!csync_excluded(X!EmptyList, TRUE, InDirectory(s, name))

(* A pattern without a slash and star excludes a name in every directory,  *)
(* one with a slash only there; one that ends in a slash excludes nothing. *)
ASSUME PatternsNamePaths ==
    \A s \in RelativePaths, p \in RelativePaths :
        "*" \notin X!Chars(p) =>
            /\ X!csync_excluded(Listed(p), TRUE, s) =
                  (p \in {s, X!c_basename(s)})
            /\ ~X!csync_excluded(Listed(Append(p, "/")), TRUE, s)

(* The star of the probe of csync_unix_extensions, which is made only if   *)
(* they are on, is not what excludes it.                                   *)
ASSUME StarsAreExcludedWithout ==
    \A s \in RelativePaths :
        /\ "*" \in X!Chars(s) => X!csync_excluded(X!EmptyList, FALSE, s)
        /\ ~X!csync_excluded(X!EmptyList, TRUE, s)

-----------------------------------------------------------------------------
(* The list that TreeRun has as a set, on all contents up to a length.     *)
L == INSTANCE CList

Samples == UNION {[1 .. n -> 1 .. 3] : n \in 0 .. 5}

(* A list of the elements of s, the last one in front. *)
Prepended(s) ==
    FoldLeft(LAMBDA l, x : L!PrependData(l.heap, l.list, x),
             L!Result(<<>>, L!Null), s)

(* Both walks through a list meet s.                                       *)
Holds(l, s) ==
    /\ L!Forward(l.heap, l.list) = s
    /\ L!Backward(l.heap, L!Last(l.heap, l.list)) = Reverse(s)

(* A list that was sorted is sorted in both directions, which the cleanup  *)
(* relies on, and complete from the old pointer too, through which it is   *)
(* freed.                                                                  *)
ASSUME SortsBothWays ==
    \A s \in Samples :
        LET old == Prepended(s)
            new == L!Sort(old.heap, old.list)
        IN  /\ Holds(old, Reverse(s))
            /\ Holds(new, SortSeq(s, <))
            /\ L!First(new.heap, old.list) = new.list
            /\ L!Last(new.heap, old.list) = L!Last(new.heap, new.list)

(* The other operations do to the walks what they are named for.           *)
ASSUME InsertsAndRemoves ==
    \A s \in {t \in Samples : Len(t) < 5} :
        LET l == Prepended(Reverse(s))
            h == l.heap
        IN  /\ \A x \in 1 .. 3 :
                  /\ Holds(L!AppendData(h, l.list, x), Append(s, x))
                  /\ Holds(L!Remove(h, l.list, x),
                           IF Contains(s, x) THEN RemoveFirst(s, x) ELSE s)
                  /\ \A k \in (0 - 1) .. 5 :
                        Holds(L!Insert(h, l.list, x, k),
                              IF k \in 0 .. Len(s) THEN InsertAt(s, k + 1, x)
                                                   ELSE Append(s, x))
                  /\ Holds(FoldLeft(
                              LAMBDA m, y : L!InsertSorted(m.heap, m.list, y),
                              L!Result(<<>>, L!Null), Append(s, x)),
                           SortSeq(Append(s, x), <))
=============================================================================
