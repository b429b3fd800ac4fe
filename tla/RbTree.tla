------------------------------- MODULE RbTree -------------------------------
(***************************************************************************)
(* The red-black tree of std/c_rbtree.c, which holds the files of a        *)
(* replica: the linking of a node, its removal and each round of the two   *)
(* repair loops are steps of their own.  A node is named by its key, as    *)
(* the data of a node never changes.                                       *)
(***************************************************************************)
EXTENDS Naturals, FiniteSets

CONSTANTS
    Key,        \* keys, natural numbers
    Nil,        \* the sentinel, _sentinel
    Null,       \* the null pointer
    Features    \* a subset of AllFeatures

(* inner: nodes with two children are deleted, which no caller in csync    *)
(* does: c_rbtree_destroy deletes the first node over and over.            *)
AllFeatures == {"inner"}

ASSUME ConstantsAssumption ==
    /\ Key \subseteq Nat /\ IsFiniteSet(Key)
    /\ Nil \notin Key /\ Null \notin Key /\ Nil # Null
    /\ Features \subseteq AllFeatures

Node    == Key \cup {Nil}
Pointer == Node \cup {Null}
Side    == {"left", "right"}
Color   == {"red", "black"}
Opposite(s) == IF s = "left" THEN "right" ELSE "left"

VARIABLES
    root,    \* tree->root
    child,   \* left and right of every node
    parent,  \* parent of every node, the sentinel's too
    color,   \* color of every node
    size,    \* tree->size
    keys,    \* what the callers inserted and did not delete
    pc,      \* idle, or a repair loop or the end of an operation
    x,       \* the node that is repaired
    y,       \* the node that is spliced out by a deletion
    ret      \* what the last operation returned

links == <<root, child, parent>>
tree  == <<root, child, parent, color>>
vars  == <<root, child, parent, color, size, keys, pc, x, y, ret>>

TypeOK ==
    /\ root \in Node
    /\ child \in [Node -> [Side -> Node]]
    /\ parent \in [Node -> Pointer]
    /\ color \in [Node -> Color]
    /\ size \in Nat
    /\ keys \subseteq Key
    /\ pc \in {"idle", "insert", "delete", "free"}
    /\ x \in Node /\ y \in Node
    /\ ret \in {0, 1}

Init ==
    /\ root = Nil
    /\ child = [n \in Node |-> [s \in Side |-> Nil]]
    /\ parent = [n \in Node |-> Null]
    /\ color = [n \in Node |-> "black"]
    /\ size = 0
    /\ keys = {}
    /\ pc = "idle" /\ x = Nil /\ y = Nil /\ ret = 0

-----------------------------------------------------------------------------
(* Pieces of the operations, on a record of the links of a tree.           *)
Links == [root |-> root, child |-> child, parent |-> parent]
Become(t) == root' = t.root /\ child' = t.child /\ parent' = t.parent

(* What points to node n, below parent p, points to m now.                 *)
Hang(t, p, n, m) ==
    IF p = Null THEN [t EXCEPT !.root = m]
    ELSE [t EXCEPT !.child[p][IF t.child[p]["left"] = n THEN "left"
                                                        ELSE "right"] = m]

(* _rbtree_subtree_left_rotate (s = left), _rbtree_subtree_right_rotate    *)
Rotate(t, n, s) ==
    LET up     == t.child[n][Opposite(s)]
        middle == t.child[up][s]
        t1     == [t EXCEPT !.child[n][Opposite(s)] = middle,
                            !.parent[middle] = IF middle = Nil THEN @ ELSE n]
        t2     == [t1 EXCEPT !.parent[up] = IF up = Nil THEN @
                                            ELSE t1.parent[n]]
        t3     == Hang(t2, t1.parent[n], n, up)
    IN  [t3 EXCEPT !.child[up][s] = n,
                   !.parent[n] = IF n = Nil THEN @ ELSE up]

(* c_rbtree_head and c_rbtree_tail of a subtree *)
Outermost(n, s) ==
    LET f[m \in Node] == IF child[m][s] = Nil THEN m ELSE f[child[m][s]]
    IN  f[n]

(* The nodes that the search for a key meets, from the root.               *)
Descent(k) ==
    LET f[n \in Node] ==
            IF n = Nil THEN {}
            ELSE IF n = k THEN {n}
            ELSE {n} \cup f[child[n][IF k < n THEN "left" ELSE "right"]]
    IN  f[root]

(* c_rbtree_find *)
Found(k) == k \in Descent(k)

-----------------------------------------------------------------------------
InsertDuplicate(k) ==
    /\ pc = "idle" /\ Found(k)
    /\ ret' = 1
    /\ UNCHANGED <<tree, size, keys, pc, x, y>>

(* Mutant: the comparison with the last node met is not made. *)
PlaceAnywhere(k) ==
    IF root = Nil THEN {Null}
    ELSE {p \in Descent(k) : \E s \in Side : child[p][s] = Nil}

(* The place that the search has found: below p, or the root.              *)
Place(k) ==
    IF root = Nil THEN {Null}
    ELSE {p \in Descent(k) : child[p][IF k < p THEN "left" ELSE "right"] = Nil}

(* A key that is not in the tree becomes a red leaf.                       *)
Insert(k) ==
    /\ pc = "idle" /\ ~Found(k)
    /\ \E p \in Place(k) :
          /\ Become([(IF p = Null THEN [Links EXCEPT !.root = k]
                      ELSE [Links EXCEPT
                        !.child[p][IF k < p THEN "left" ELSE "right"] = k])
                     EXCEPT !.child[k] = [s \in Side |-> Nil],
                            !.parent[k] = p])
    /\ color' = [color EXCEPT ![k] = "red"]
    /\ keys' = keys \cup {k}
    /\ pc' = "insert" /\ x' = k
    /\ UNCHANGED <<size, y, ret>>

RedRed == x # root /\ color[parent[x]] = "red"

Between(n, p, s) == n = child[p][Opposite(s)]

(* One round of the loop after an insertion. *)
RepairInsert ==
    /\ pc = "insert" /\ RedRed
    /\ UNCHANGED <<size, keys, pc, y, ret>>
    /\ LET p == parent[x]
           g == parent[p]
           s == IF p = child[g]["left"] THEN "left" ELSE "right"
           uncle == child[g][Opposite(s)]
       IN  IF color[uncle] = "red"
           THEN /\ color' = [color EXCEPT ![p] = "black", ![uncle] = "black",
                                          ![g] = "red"]
                /\ x' = g
                /\ UNCHANGED links
           ELSE LET inner == Between(x, p, s)
                    n  == IF inner THEN p ELSE x
                    t  == IF inner THEN Rotate(Links, p, s) ELSE Links
                    p1 == t.parent[n]
                    g1 == t.parent[p1]
                IN  /\ color' = [color EXCEPT ![p1] = "black", ![g1] = "red"]
                    /\ Become(Rotate(t, g1, Opposite(s)))
                    /\ x' = n

Counted == size + 1

InsertEnds ==
    /\ pc = "insert" /\ ~RedRed
    /\ color' = [color EXCEPT ![root] = "black"]
    /\ size' = Counted
    /\ pc' = "idle" /\ x' = Nil /\ ret' = 0
    /\ UNCHANGED <<links, keys, y>>

-----------------------------------------------------------------------------
Inner(n) == \A s \in Side : child[n][s] # Nil

(* The node that is taken out for n: meant to be the successor of one with *)
(* two children, but the search for it begins at n itself.                 *)
Spliced(n) == IF Inner(n) THEN Outermost(n, "left") ELSE n

(* The node that is spliced out takes the place of n, if it is another.    *)
TakePlace(t, n, m) ==
    IF m = n THEN t
    ELSE LET t1 == [t EXCEPT !.parent[m] = t.parent[n],
                             !.child[m] = t.child[n]]
             t2 == [t1 EXCEPT !.parent =
                      [c \in Node |-> IF /\ c # Nil
                                         /\ \E s \in Side : t1.child[m][s] = c
                                      THEN m ELSE @[c]]]
         IN  Hang(t2, t2.parent[m], n, m)

(* c_rbtree_node_delete *)
Delete(n) ==
    /\ pc = "idle" /\ n \in keys
    /\ Inner(n) => "inner" \in Features
    /\ y' = Spliced(n)
    /\ x' = IF child[y']["left"] # Nil THEN child[y']["left"]
                                       ELSE child[y']["right"]
    /\ LET p == parent[y']
           t == Hang([Links EXCEPT !.parent[x'] = p], p, y', x')
       IN  Become(TakePlace(t, n, y'))
    /\ keys' = keys \ {n}
    /\ pc' = IF color[y'] = "black" THEN "delete" ELSE "free"
    /\ UNCHANGED <<color, size, ret>>

BlackMissing == x # root /\ color[x] = "black"

(* Mutant: the colors stay. *)
BlackSiblingUncolored(p, s) ==
    LET w == child[p][Opposite(s)]
    IN  [t |-> IF color[w] = "red" THEN Rotate(Links, p, s) ELSE Links,
         color |-> color]

(* The part of a round that makes the sibling of x black. *)
BlackSibling(p, s) ==
    LET w == child[p][Opposite(s)]
    IN  IF color[w] = "red"
        THEN [t |-> Rotate(Links, p, s),
              color |-> [color EXCEPT ![w] = "black", ![p] = "red"]]
        ELSE [t |-> Links, color |-> color]

(* One round of the loop after a deletion. *)
RepairDelete ==
    /\ pc = "delete" /\ BlackMissing
    /\ UNCHANGED <<size, keys, pc, y, ret>>
    /\ LET p  == parent[x]
           s  == IF x = child[p]["left"] THEN "left" ELSE "right"
           o  == Opposite(s)
           b  == BlackSibling(p, s)
           p1 == b.t.parent[x]
           w  == b.t.child[p1][o]
           near == b.t.child[w][s]
           far  == b.t.child[w][o]
       IN  IF b.color[near] = "black" /\ b.color[far] = "black"
           THEN /\ color' = [b.color EXCEPT ![w] = "red"]
                /\ x' = p1
                /\ Become(b.t)
           ELSE LET turn == b.color[far] = "black"
                    t1 == IF turn THEN Rotate(b.t, w, o) ELSE b.t
                    c1 == IF turn THEN [b.color EXCEPT ![near] = "black",
                                                       ![w] = "red"]
                                  ELSE b.color
                    p2 == t1.parent[x]
                    w1 == t1.child[p2][o]
                    t2 == Rotate(t1, p2, s)
                IN  /\ color' = [[c1 EXCEPT ![w1] = c1[p2]] EXCEPT
                                    ![p2] = "black",
                                    ![t1.child[w1][o]] = "black"]
                    /\ Become(t2)
                    /\ x' = t2.root

DeleteRepaired ==
    /\ pc = "delete" /\ ~BlackMissing
    /\ color' = [color EXCEPT ![x] = "black"]
    /\ pc' = "free"
    /\ UNCHANGED <<links, size, keys, x, y, ret>>

(* What was in a node is forgotten when it is freed; one that took the     *)
(* place of another is freed all the same.                                 *)
DeleteEnds ==
    /\ pc = "free"
    /\ child' = [child EXCEPT ![y] = [s \in Side |-> Nil]]
    /\ parent' = [parent EXCEPT ![y] = Null]
    /\ color' = [color EXCEPT ![y] = "black"]
    /\ size' = size - 1
    /\ pc' = "idle" /\ x' = Nil /\ y' = Nil /\ ret' = 0
    /\ UNCHANGED <<root, keys>>

-----------------------------------------------------------------------------
Next ==
    \/ \E k \in Key : Insert(k) \/ InsertDuplicate(k) \/ Delete(k)
    \/ RepairInsert \/ InsertEnds
    \/ RepairDelete \/ DeleteRepaired \/ DeleteEnds

Spec == Init /\ [][Next]_vars

-----------------------------------------------------------------------------
(* Mutant: one step up instead of the loop. *)
BesideOneUp(n, s) == IF child[n][s] # Nil
                     THEN Outermost(child[n][s], Opposite(s)) ELSE parent[n]

(* c_rbtree_node_next (s = right) and c_rbtree_node_prev (s = left) *)
Beside(n, s) ==
    LET climb[m \in Node] ==
            IF parent[m] = Null \/ m # child[parent[m]][s] THEN parent[m]
            ELSE climb[parent[m]]
    IN  IF child[n][s] # Nil THEN Outermost(child[n][s], Opposite(s))
                             ELSE climb[n]

-----------------------------------------------------------------------------
(***************************************************************************)
(* Properties.                                                             *)
(***************************************************************************)

(* The numbers of black nodes on the ways from m, below p, to the leaves.  *)
(* While a deletion is repaired x counts twice.                            *)
BlackDepths(m, p) ==
    LET Blacks(c, u) == (IF color[c] = "black" THEN 1 ELSE 0)
                        + (IF pc = "delete" /\ c = x /\ u = parent[x]
                           THEN 1 ELSE 0)
        d[c \in Node, u \in Pointer] ==
            {b + Blacks(c, u) :
               b \in IF c = Nil THEN {0} ELSE UNION {d[child[c][s], c] : s \in Side}}
    IN  d[m, p]

(* "Every simple path from a node to a descendant leaf contains the same   *)
(* number of black nodes" and "both children of every red node are black"  *)
(* (c_rbtree.h), where the loops only ever leave one node to be repaired,  *)
(* and the sentinel, shared by all trees, stays a black leaf.              *)
RedBlack ==
    /\ Cardinality(BlackDepths(root, Null)) = 1
    /\ \A n \in keys : color[n] = "red" =>
          \/ pc \in {"insert", "delete"} /\ n = x
          \/ n # root /\ color[parent[n]] = "black"
          \/ n # root /\ parent[n] = x /\ pc = "delete"
    /\ color[Nil] = "black"
    /\ \A s \in Side : child[Nil][s] = Nil

Nearest(S, s) == IF S = {} THEN Null
                 ELSE CHOOSE k \in S : \A j \in S :
                         IF s = "right" THEN k <= j ELSE k >= j

(* At every moment the iterators lead through the keys in their order, and *)
(* the first and the last node are theirs; between operations the size is  *)
(* their number.                                                           *)
Walkable ==
    /\ \A k \in keys :
          /\ Beside(k, "right") = Nearest({j \in keys : j > k}, "right")
          /\ Beside(k, "left")  = Nearest({j \in keys : j < k}, "left")
    /\ keys # {} =>
          \A s \in Side : Outermost(root, s) = Nearest(keys, Opposite(s))
    /\ pc = "idle" => size = Cardinality(keys)

(* A search finds a key from the step that links it to the step that       *)
(* splices it out; no rotation and no other key in between changes that.   *)
Sorted  == INSTANCE SortedSet WITH content <- {k \in Key : Found(k)}
Promise == Sorted!Spec

=============================================================================
