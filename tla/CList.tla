-------------------------------- MODULE CList --------------------------------
(***************************************************************************)
(* The doubly linked list of std/c_list.c, pointer by pointer: a heap is a *)
(* sequence of cells, a pointer an index of it, and what the caller holds  *)
(* is a pointer to a cell.  csync keeps the directories that were not      *)
(* empty in such lists, sorts them and goes through them from the end.     *)
(***************************************************************************)
EXTENDS Integers, Sequences

Null    == 0
Cell(x) == [data |-> x, next |-> Null, prev |-> Null]

Linked(h, a, b) == [h EXCEPT ![a].next = b, ![b].prev = a]

(* The cell after n, linked to it if there is one.                         *)
Follow(h, n, m) == IF m = Null THEN [h EXCEPT ![n].next = Null]
                               ELSE Linked(h, n, m)

RECURSIVE First(_, _)
First(h, l) == IF l = Null THEN Null
               ELSE IF h[l].prev = Null THEN l ELSE First(h, h[l].prev)

RECURSIVE Last(_, _)
Last(h, l) == IF l = Null THEN Null
              ELSE IF h[l].next = Null THEN l ELSE Last(h, h[l].next)

(* c_list_position *)
RECURSIVE Position(_, _, _)
Position(h, l, k) == IF k = 0 \/ l = Null THEN l
                     ELSE Position(h, h[l].next, k - 1)

(* c_list_find *)
RECURSIVE Find(_, _, _)
Find(h, l, x) == IF l = Null \/ h[l].data = x THEN l
                 ELSE Find(h, h[l].next, x)

-----------------------------------------------------------------------------
(* An operation on list l of heap h results in a heap and a list.          *)
Result(h, l) == [heap |-> h, list |-> l]

AppendData(h, l, x) ==
    LET g == Append(h, Cell(x))
        n == Len(g)
    IN  IF l = Null THEN Result(g, n) ELSE Result(Linked(g, Last(g, l), n), l)

PrependData(h, l, x) ==
    LET g == Append(h, Cell(x))
        n == Len(g)
    IN  Result(IF l = Null THEN g ELSE Linked(g, n, First(g, l)), n)

(* A new cell in front of cell m, which is somewhere in l.                 *)
PutBefore(h, l, m, x) ==
    LET g == Append(h, Cell(x))
        n == Len(g)
        p == h[m].prev
    IN  Result(Linked(IF p = Null THEN g ELSE Linked(g, p, n), n, m),
               IF m = l THEN n ELSE l)

Insert(h, l, x, position) ==
    LET m == Position(h, l, position)
    IN  CASE position < 0              -> AppendData(h, l, x)
          [] position = 0              -> PrependData(h, l, x)
          [] position > 0 /\ m = Null  -> AppendData(h, l, x)
          [] position > 0 /\ m # Null  -> PutBefore(h, l, m, x)

(* The first cell that is not smaller than x, or Null.                     *)
RECURSIVE NotSmaller(_, _, _)
NotSmaller(h, l, x) == IF l = Null \/ x <= h[l].data THEN l
                       ELSE NotSmaller(h, h[l].next, x)

InsertSorted(h, l, x) ==
    LET m == NotSmaller(h, l, x)
    IN  IF m = Null THEN AppendData(h, l, x) ELSE PutBefore(h, l, m, x)

Remove(h, l, x) ==
    LET m == Find(h, l, x)
        p == h[m].prev
        n == h[m].next
        g == IF p = Null THEN h ELSE [h EXCEPT ![p].next = n]
    IN  IF m = Null THEN Result(h, l)
        ELSE Result(IF n = Null THEN g ELSE [g EXCEPT ![n].prev = p],
                    IF m = l THEN n ELSE l)

-----------------------------------------------------------------------------
(* _c_list_merge of two sorted lists                                       *)
RECURSIVE Merge(_, _, _)
Merge(h, a, b) ==
    IF a = Null THEN Result(h, b)
    ELSE IF b = Null THEN Result(h, a)
    ELSE LET head == IF h[a].data <= h[b].data THEN a ELSE b
             rest == IF head = a THEN Merge(h, h[a].next, b)
                                 ELSE Merge(h, a, h[b].next)
         IN  Result(Follow(rest.heap, head, rest.list), head)

(* _c_list_split takes every other cell out of l: the result is the list   *)
(* of those.                                                               *)
RECURSIVE Split(_, _)
Split(h, l) ==
    IF l = Null THEN Result(h, Null)
    ELSE IF h[l].next = Null THEN Result(h, Null)
    ELSE LET second == h[l].next
             taken  == Follow(h, l, h[second].next)
             g      == [taken EXCEPT ![second].prev = Null]
             rest   == Split(g, g[second].next)
         IN  Result(Follow(rest.heap, second, rest.list), second)

(* c_list_sort *)
RECURSIVE Sort(_, _)
Sort(h, l) ==
    IF l = Null THEN Result(h, Null)
    ELSE IF h[l].next = Null THEN Result(h, l)
    ELSE LET half == Split(h, l)
             a    == Sort(half.heap, l)
             b    == Sort(a.heap, half.list)
         IN  Merge(b.heap, a.list, b.list)

-----------------------------------------------------------------------------
(* What a walk with c_list_next from cell n, or with c_list_prev, meets.   *)
RECURSIVE Forward(_, _)
Forward(h, n) == IF n = Null THEN <<>>
                 ELSE <<h[n].data>> \o Forward(h, h[n].next)

RECURSIVE Backward(_, _)
Backward(h, n) == IF n = Null THEN <<>>
                  ELSE <<h[n].data>> \o Backward(h, h[n].prev)
=============================================================================
