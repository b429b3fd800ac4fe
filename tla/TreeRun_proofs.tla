---------------------------- MODULE TreeRun_proofs ----------------------------
(***************************************************************************)
(* Proofs about TreeRun for replicas of any size and depth, any moves of   *)
(* the users, any calls that fail and a process that dies anywhere: type   *)
(* correctness, what a run may remove, what undisturbed runs leave behind  *)
(* and that what they settled as deleted stays so.                         *)
(*                                                                         *)
(* The theorems suppose that rmdir removes empty directories only          *)
(* (~Collections); those about undisturbed runs suppose Settling, too.     *)
(* README.md says which properties the excluded cases break in the code.   *)
(*                                                                         *)
(* The invariant comes in four layers, each used to prove the next one:    *)
(* InvA is what a run knows of the disks, whoever disturbs it; InvB is     *)
(* what it knows of files whose contents nobody changes meanwhile; InvC is *)
(* what runs that nothing disturbs do, one after the other; InvD is what   *)
(* becomes of a deletion when everything was at rest.                      *)
(***************************************************************************)
EXTENDS TreeRun, FiniteSetTheorems, TLAPS

USE ConstantsAssumption

-----------------------------------------------------------------------------
(* The directories above a path.                                           *)

Sub(p) == {q \in Path : p \in UpTo[q]}

(* The way up from a path, UpTo, holds the path and is closed under        *)
(* Parent.                                                                 *)
LEMMA UpToGoesUp ==
  ASSUME NEW p \in Path
  PROVE  p \in UpTo[p] /\ UpTo[p] \subseteq Path /\ Upward(UpTo[p])
<1>1. p \in UpTo[p] /\ UpTo[p] \subseteq Path
  BY DEF UpTo
<1>2. ASSUME NEW d \in UpTo[p], Parent[d] # Top
      PROVE  Parent[d] \in UpTo[p]
  <2>1. d \in Path /\ Parent[d] \in Path
    BY <1>1, <1>2
  <2>2. ASSUME NEW P \in SUBSET Path, p \in P, Upward(P)
        PROVE  Parent[d] \in P
    <3>1. d \in P
      BY <2>2 DEF UpTo
    <3> QED BY <2>2, <3>1, <1>2 DEF Upward
  <2> QED BY <2>1, <2>2 DEF UpTo
<1> QED BY <1>1, <1>2 DEF Upward

(* UpTo[p] is the least upward closed set that holds p. *)
LEMMA UpToIsLeast ==
  ASSUME NEW p \in Path, NEW P \in SUBSET Path, p \in P, Upward(P)
  PROVE  UpTo[p] \subseteq P
BY DEF UpTo

(* The way up from a path holds the way up from each of its members. *)
LEMMA UpToNested ==
  ASSUME NEW p \in Path, NEW d \in UpTo[p]
  PROVE  d \in Path /\ UpTo[d] \subseteq UpTo[p]
<1>1. d \in Path /\ UpTo[p] \in SUBSET Path /\ Upward(UpTo[p])
  BY UpToGoesUp
<1> QED BY <1>1, UpToIsLeast

(* The way from a path up to a directory comes out of one of its children. *)
LEMMA WayDown ==
  ASSUME NEW p \in Path, NEW d \in UpTo[p], d # p
  PROVE  d \in Dir /\ \E q \in UpTo[p] : Parent[q] = d
<1>1. \E q \in UpTo[p] : Parent[q] = d
  <2> SUFFICES ASSUME \A q \in UpTo[p] : Parent[q] # d PROVE FALSE
    OBVIOUS
  <2> DEFINE P == UpTo[p] \ {d}
  <2>1. p \in P /\ P \in SUBSET Path
    BY UpToGoesUp
  <2>2. Upward(P)
    BY UpToGoesUp DEF Upward
  <2> HIDE DEF P
  <2>3. UpTo[p] \subseteq P
    BY <2>1, <2>2, UpToIsLeast
  <2> QED BY <2>3 DEF P
<1>2. PICK q \in UpTo[p] : Parent[q] = d
  BY <1>1
<1>3. q \in Path /\ d \in Path
  BY UpToGoesUp
<1>4. Parent[q] \in Dir \cup {Top}
  BY <1>3
<1> QED BY <1>2, <1>3, <1>4

(* Every way up ends in a path whose parent is the top. *)
LEMMA WayTop ==
  ASSUME NEW p \in Path
  PROVE  \E q \in UpTo[p] : Parent[q] = Top
<1> SUFFICES ASSUME \A q \in UpTo[p] : Parent[q] # Top PROVE FALSE
  OBVIOUS
<1>1. UpTo[p] \subseteq Path /\ p \in UpTo[p] /\ Upward(UpTo[p])
  BY UpToGoesUp
<1> DEFINE D == {Parent[q] : q \in UpTo[p]}
<1>2. \A q \in UpTo[p] : Parent[q] \in UpTo[p] /\ Parent[q] \in Dir
  BY <1>1 DEF Upward
<1>3. D \in SUBSET Dir /\ D # {}
  BY <1>1, <1>2
<1>4. \A d \in D : Parent[d] \in D
  BY <1>2
<1> HIDE DEF D
<1> QED BY <1>3, <1>4

(* One step of the way up: a path, then the way up from its parent. *)
LEMMA UpToParent ==
  ASSUME NEW p \in Path
  PROVE  /\ Parent[p] = Top => UpTo[p] = {p}
         /\ Parent[p] # Top => /\ Parent[p] \in Dir
                               /\ UpTo[p] = {p} \cup UpTo[Parent[p]]
<1>1. CASE Parent[p] = Top
  <2>1. Upward({p})
    BY <1>1 DEF Upward
  <2>2. UpTo[p] \subseteq {p}
    BY <2>1, UpToIsLeast
  <2> QED BY <1>1, <2>2, UpToGoesUp
<1>2. CASE Parent[p] # Top
  <2> DEFINE P == {p} \cup UpTo[Parent[p]]
  <2>1. Parent[p] \in Dir /\ Parent[p] \in Path
    BY <1>2
  <2>2. Parent[p] \in UpTo[Parent[p]] /\ UpTo[Parent[p]] \subseteq Path
        /\ Upward(UpTo[Parent[p]])
    BY <2>1, UpToGoesUp
  <2>3. p \in P /\ P \in SUBSET Path /\ Upward(P)
    BY <2>2 DEF Upward
  <2> HIDE DEF P
  <2>4. UpTo[p] \subseteq P
    BY <2>3, UpToIsLeast
  <2>5. Parent[p] \in UpTo[p]
    BY <1>2, UpToGoesUp DEF Upward
  <2>6. UpTo[Parent[p]] \subseteq UpTo[p]
    BY <2>5, UpToNested
  <2>7. p \in UpTo[p]
    BY UpToGoesUp
  <2> QED BY <1>2, <2>1, <2>4, <2>6, <2>7 DEF P
<1> QED BY <1>1, <1>2

(* Directories do not go in circles. *)
LEMMA NoCircle ==
  ASSUME NEW p \in Path, Parent[p] # Top
  PROVE  p \notin UpTo[Parent[p]]
<1> SUFFICES ASSUME p \in UpTo[Parent[p]] PROVE FALSE
  OBVIOUS
<1> DEFINE C == {q \in UpTo[p] : p \in UpTo[q]}
<1>0. Parent[p] \in Path /\ Parent[p] \in Dir
  BY UpToParent
<1>1. p \in C
  BY UpToGoesUp DEF C
<1>2. p \in Dir
  <2>1. CASE Parent[p] = p
    BY <2>1, <1>0
  <2>2. CASE Parent[p] # p
    BY <2>2, <1>0, WayDown
  <2> QED BY <2>1, <2>2
<1>3. C \subseteq Dir
  BY <1>2, WayDown DEF C
<1>4. ASSUME NEW q \in C PROVE Parent[q] \in C
  <2>1. q \in Path /\ q \in UpTo[p] /\ p \in UpTo[q]
    BY UpToGoesUp DEF C
  <2>2. Parent[q] # Top /\ p \in UpTo[Parent[q]]
    <3>1. CASE q = p
      BY <3>1
    <3>2. CASE q # p
      BY <2>1, <3>2, UpToParent
    <3> QED BY <3>1, <3>2
  <2>3. Parent[q] \in UpTo[p]
    BY <2>1, <2>2, UpToGoesUp DEF Upward
  <2> QED BY <2>2, <2>3 DEF C
<1> HIDE DEF C
<1> QED BY <1>1, <1>3, <1>4

(* No path is its own parent. *)
LEMMA ParentOther ==
  ASSUME NEW p \in Path
  PROVE  Parent[p] # p
<1>1. p # Top
  OBVIOUS
<1>2. ASSUME Parent[p] = p PROVE FALSE
  <2>1. p \in UpTo[p]
    BY UpToGoesUp
  <2> QED BY <1>1, <1>2, <2>1, NoCircle
<1> QED BY <1>2

(* The way up never comes back: the tree has no cycle. *)
LEMMA UpToStrict ==
  ASSUME NEW p \in Path, NEW d \in UpTo[p], d # p
  PROVE  p \notin UpTo[d]
<1>1. Parent[p] # Top /\ d \in UpTo[Parent[p]]
  BY UpToParent
<1>2. Parent[p] \in Path
  BY <1>1, UpToParent
<1>3. UpTo[d] \subseteq UpTo[Parent[p]]
  BY <1>1, <1>2, UpToNested
<1> QED BY <1>1, <1>3, NoCircle

-----------------------------------------------------------------------------
(* How deep a path is.                                                     *)
LEMMA Depths ==
  ASSUME NEW p \in Path
  PROVE  /\ IsFiniteSet(UpTo[p]) /\ Cardinality(UpTo[p]) \in Nat
         /\ Parent[p] = Top => Cardinality(UpTo[p]) = 1
         /\ Parent[p] # Top =>
               Cardinality(UpTo[p]) = Cardinality(UpTo[Parent[p]]) + 1
<1>1. \A q \in Path : IsFiniteSet(UpTo[q]) /\ Cardinality(UpTo[q]) \in Nat
  <2> TAKE q \in Path
  <2>1. UpTo[q] \subseteq Path
    BY UpToGoesUp
  <2> QED BY <2>1, FS_Subset, FS_CardinalityType
<1>2. ASSUME Parent[p] = Top PROVE Cardinality(UpTo[p]) = 1
  <2>1. UpTo[p] = {p}
    BY <1>2, UpToParent
  <2> QED BY <2>1, FS_Singleton
<1>3. ASSUME Parent[p] # Top
      PROVE  Cardinality(UpTo[p]) = Cardinality(UpTo[Parent[p]]) + 1
  <2>1. /\ Parent[p] \in Path /\ UpTo[p] = UpTo[Parent[p]] \cup {p}
        /\ p \notin UpTo[Parent[p]]
    BY <1>3, UpToParent, NoCircle
  <2>2. IsFiniteSet(UpTo[Parent[p]])
    BY <1>1, <2>1
  <2> QED BY <2>1, <2>2, FS_AddElement
<1> QED BY <1>1, <1>2, <1>3

(* What is on the way up is less deep. *)
LEMMA DepthBelow ==
  ASSUME NEW p \in Path, NEW d \in UpTo[p]
  PROVE  /\ d \in Path
         /\ Cardinality(UpTo[d]) <= Cardinality(UpTo[p])
         /\ d # p => Cardinality(UpTo[d]) < Cardinality(UpTo[p])
<1>1. d \in Path /\ UpTo[d] \subseteq UpTo[p]
  BY UpToNested
<1>2. Cardinality(UpTo[d]) <= Cardinality(UpTo[p])
  BY <1>1, Depths, FS_Subset
<1>3. ASSUME d # p PROVE Cardinality(UpTo[d]) < Cardinality(UpTo[p])
  <2>1. p \notin UpTo[d] /\ p \in UpTo[p]
    BY <1>3, UpToStrict, UpToGoesUp
  <2>2. IsFiniteSet(UpTo[p]) /\ UpTo[d] # UpTo[p]
    BY <2>1, Depths
  <2>3. Cardinality(UpTo[d]) # Cardinality(UpTo[p])
    BY <1>1, <2>2, FS_Subset
  <2>4. Cardinality(UpTo[d]) \in Nat /\ Cardinality(UpTo[p]) \in Nat
    BY <1>1, Depths
  <2> QED BY <1>2, <2>3, <2>4
<1> QED BY <1>1, <1>2, <1>3

(* What no walk comes to has nothing inside that one comes to.             *)
LEMMA WalkedUp ==
  ASSUME NEW p \in Path \ Unwalked, NEW d \in UpTo[p]
  PROVE  /\ d \in Path \ Unwalked /\ d \notin Excluded
         /\ d # p => Cardinality(UpTo[d]) <= MaxDepth
<1>1. /\ UpTo[p] \cap Excluded = {}
      /\ Cardinality(UpTo[p]) <= MaxDepth + 1
  BY Depths DEF Unwalked
<1>2. /\ d \in Path /\ UpTo[d] \subseteq UpTo[p]
      /\ Cardinality(UpTo[d]) <= Cardinality(UpTo[p])
      /\ d # p => Cardinality(UpTo[d]) < Cardinality(UpTo[p])
      /\ Cardinality(UpTo[p]) \in Nat /\ Cardinality(UpTo[d]) \in Nat
  BY UpToNested, DepthBelow, Depths
<1>3. MaxDepth \in Nat
  OBVIOUS
<1>4. /\ ~(Cardinality(UpTo[d]) > MaxDepth + 1)
      /\ d # p => Cardinality(UpTo[d]) <= MaxDepth
  BY <1>1, <1>2, <1>3
<1>5. UpTo[d] \cap Excluded = {} /\ d \notin Excluded
  BY <1>1, <1>2
<1> QED BY <1>2, <1>4, <1>5 DEF Unwalked

(* A walked directory above the depth limit has no unwalked child but the  *)
(* excluded ones.                                                          *)
LEMMA WalkedDown ==
  ASSUME NEW p \in Path \ Excluded,
         \/ Parent[p] = Top
         \/ /\ Parent[p] \notin Unwalked
            /\ Cardinality(UpTo[Parent[p]]) <= MaxDepth
  PROVE  p \notin Unwalked
<1>1. CASE Parent[p] = Top
  <2>1. UpTo[p] = {p} /\ Cardinality(UpTo[p]) = 1
    BY <1>1, UpToParent, Depths
  <2>2. ~(Cardinality(UpTo[p]) > MaxDepth + 1)
    BY <2>1
  <2>3. UpTo[p] \cap Excluded = {}
    BY <2>1
  <2> QED BY <2>2, <2>3 DEF Unwalked
<1>2. CASE Parent[p] # Top
  <2>1. /\ Parent[p] \in Path /\ UpTo[p] = {p} \cup UpTo[Parent[p]]
        /\ Cardinality(UpTo[p]) = Cardinality(UpTo[Parent[p]]) + 1
        /\ Cardinality(UpTo[Parent[p]]) \in Nat
    BY <1>2, UpToParent, Depths
  <2>2. Parent[p] \notin Unwalked /\ Cardinality(UpTo[Parent[p]]) <= MaxDepth
    BY <1>2
  <2>3. UpTo[Parent[p]] \cap Excluded = {}
    BY <2>1, <2>2 DEF Unwalked
  <2>4. Cardinality(UpTo[p]) <= MaxDepth + 1
    BY <2>1, <2>2
  <2>5. UpTo[p] \cap Excluded = {}
    BY <2>1, <2>3
  <2>6. ~(Cardinality(UpTo[p]) > MaxDepth + 1)
    BY <2>1, <2>4
  <2> QED BY <2>5, <2>6 DEF Unwalked
<1> QED BY <1>1, <1>2

HIDE ConstantsAssumption

(* What the constants are, without what they have been used for.           *)
LEMMA PathTypes ==
  /\ Dir \subseteq Path /\ Top \notin Path
  /\ \A p \in Path : Parent[p] \in Dir \cup {Top}
BY ConstantsAssumption

-----------------------------------------------------------------------------
(* The file systems.                                                       *)
USE PathTypes

Times == [Path -> Nat]

(* Whatever is there is in a directory that is there. *)
Grounded(m) ==
    \A p \in Path : m[p] # 0 => Parent[p] = Top \/ m[Parent[p]] # 0

(* On a grounded disk everything above an entry is there. *)
LEMMA GroundedUp ==
  ASSUME NEW m, Grounded(m), NEW p \in Path, m[p] # 0, NEW d \in UpTo[p]
  PROVE  m[d] # 0
<1> DEFINE P == {q \in UpTo[p] : m[q] # 0}
<1>1. UpTo[p] \subseteq Path /\ p \in UpTo[p] /\ Upward(UpTo[p])
  BY UpToGoesUp
<1>2. p \in P /\ P \in SUBSET Path
  BY <1>1
<1>3. Upward(P)
  BY <1>1 DEF Upward, Grounded
<1> HIDE DEF P
<1>4. UpTo[p] \subseteq P
  BY <1>2, <1>3, UpToIsLeast
<1> QED BY <1>4 DEF P

(* A directory with nothing inside has nothing below. *)
LEMMA NothingBelow ==
  ASSUME NEW m, Grounded(m), NEW d \in Path,
         \A q \in Path : Parent[q] = d => m[q] = 0,
         NEW p \in Sub(d), p # d
  PROVE  m[p] = 0
<1>1. p \in Path /\ d \in UpTo[p]
  BY DEF Sub
<1>2. PICK q \in UpTo[p] : Parent[q] = d
  BY <1>1, WayDown
<1>3. q \in Path
  BY <1>1, UpToNested
<1> QED BY <1>1, <1>2, <1>3, GroundedUp

(* The subtree of a path is the path and what lies below it. *)
LEMMA SubIsBelow ==
  ASSUME NEW d \in Path
  PROVE  /\ Sub(d) = {d} \cup Below(d) /\ d \in Sub(d) /\ Sub(d) \subseteq Path
         /\ d \notin Dir => Sub(d) = {d}
<1>1. d # Top
  OBVIOUS
<1>2. d \in Sub(d)
  BY UpToGoesUp DEF Sub
<1>3. Sub(d) = {d} \cup Below(d)
  BY <1>1, <1>2 DEF Sub, Below
<1>4. ASSUME d \notin Dir, NEW p \in Sub(d) PROVE p = d
  BY <1>4, WayDown DEF Sub
<1> QED BY <1>2, <1>3, <1>4 DEF Sub

(* Subtrees are nested. *)
LEMMA SubNested ==
  ASSUME NEW d \in Path, NEW p \in Sub(d)
  PROVE  p \in Path /\ Sub(p) \subseteq Sub(d)
<1>1. p \in Path /\ d \in UpTo[p]
  BY DEF Sub
<1>2. ASSUME NEW q \in Sub(p) PROVE q \in Sub(d)
  <2>1. q \in Path /\ p \in UpTo[q]
    BY DEF Sub
  <2> QED BY <1>1, <2>1, UpToNested DEF Sub
<1> QED BY <1>1, <1>2

(* What is below a findable path is findable, and its hash is not high.    *)
LEMMA FindableDown ==
  ASSUME NEW p \in Findable, NEW q \in Path, p \in UpTo[q]
  PROVE  q \in Findable /\ q \notin HighHash
<1>1. ASSUME NEW h \in HighHash, q \in UpTo[h] PROVE FALSE
  <2>1. h \in Path
    BY ConstantsAssumption
  <2>2. p \in UpTo[h]
    BY <1>1, <2>1, UpToNested
  <2> QED BY <2>2 DEF Findable
<1>2. q \in UpTo[q]
  BY UpToGoesUp
<1> QED BY <1>1, <1>2 DEF Findable

(* Touched dates the parents of P and changes nothing else. *)
LEMMA TouchedIs ==
  ASSUME NEW m \in Times, NEW P \in SUBSET Path, NEW t \in Nat, t > 0
  PROVE  /\ Touched(m, P, t) \in Times
         /\ \A q \in Path :
              /\ Touched(m, P, t)[q] = 0 <=> m[q] = 0
              /\ Touched(m, P, t)[q] \in {m[q], t}
              /\ Touched(m, P, t)[q] # m[q] => \E p \in P : Parent[p] = q
              /\ q \notin Dir => Touched(m, P, t)[q] = m[q]
<1>1. Touched(m, P, t) \in Times
  BY DEF Touched, Times
<1>2. ASSUME NEW q \in Path
      PROVE  /\ Touched(m, P, t)[q] = 0 <=> m[q] = 0
             /\ Touched(m, P, t)[q] \in {m[q], t}
             /\ Touched(m, P, t)[q] # m[q] => \E p \in P : Parent[p] = q
  BY DEF Touched, Times
<1>3. ASSUME NEW q \in Path, q \notin Dir PROVE Touched(m, P, t)[q] = m[q]
  BY <1>3 DEF Touched, Times
<1> QED BY <1>1, <1>2, <1>3

(* n is m with p and directories above it made, at the time t; only p may  *)
(* get another time.                                                       *)
Grows(m, n, p, t) ==
    /\ n \in Times
    /\ \A q \in Path :
         /\ m[q] # 0 => n[q] # 0
         /\ n[q] # 0 /\ m[q] = 0 => Parent[q] = Top \/ n[Parent[q]] # 0
         /\ q # p => n[q] \in {m[q], t} /\ (q \notin Dir => n[q] = m[q])
         /\ n[q] # m[q] => q \in UpTo[p]

(* MkDirs makes the missing directories on the way to p, and p. *)
LEMMA MkDirsIs ==
  ASSUME NEW m \in Times, NEW p \in Path, NEW t \in Nat, t > 0
  PROVE  /\ Grows(m, MkDirs(m, p, t), p, t)
         /\ \A d \in UpTo[p] : MkDirs(m, p, t)[d] # 0
         /\ MkDirs(m, p, t)[p] \in {m[p], t}
<1> DEFINE new == {d \in UpTo[p] : m[d] = 0}
           m1  == [d \in Path |-> IF d \in new THEN t ELSE m[d]]
           n   == MkDirs(m, p, t)
<1>0. n = Touched(m1, new, t)
  BY DEF MkDirs
<1>1. UpTo[p] \subseteq Path /\ Upward(UpTo[p])
  BY UpToGoesUp
<1>2. m1 \in Times /\ new \in SUBSET Path
  BY <1>1 DEF Times
<1>4. \A q \in Path : m1[q] = IF q \in UpTo[p] /\ m[q] = 0 THEN t ELSE m[q]
  OBVIOUS
<1>9. \A x \in new : x \in UpTo[p]
  OBVIOUS
<1> HIDE DEF m1, new, n
<1>3. /\ n \in Times
      /\ \A q \in Path :
              /\ n[q] = 0 <=> m1[q] = 0
              /\ n[q] \in {m1[q], t}
              /\ n[q] # m1[q] => \E x \in new : Parent[x] = q
              /\ q \notin Dir => n[q] = m1[q]
  BY <1>0, <1>2, TouchedIs
<1>5. \A x \in new : Parent[x] # Top => Parent[x] \in UpTo[p]
  BY <1>1, <1>9 DEF Upward
<1>6. p \in UpTo[p] /\ UpTo[p] \ {p} \subseteq Dir
  BY UpToGoesUp, WayDown
<1>7. \A q \in Path : m[q] \in Nat
  BY DEF Times
<1>8. ASSUME NEW q \in Path
      PROVE  /\ n[q] \in {m[q], t}
             /\ m[q] # 0 => n[q] # 0
             /\ q \notin Dir /\ q # p => n[q] = m[q]
             /\ q \in UpTo[p] => n[q] # 0
             /\ n[q] # m[q] => q \in UpTo[p]
  <2>1. n[q] # m1[q] => q \in UpTo[p]
    <3> SUFFICES ASSUME n[q] # m1[q] PROVE q \in UpTo[p]
      OBVIOUS
    <3>1. PICK x \in new : Parent[x] = q
      BY <1>3
    <3>2. q # Top
      OBVIOUS
    <3> QED BY <1>5, <3>1, <3>2
  <2> QED BY <2>1, <1>3, <1>4, <1>6, <1>7
<1>10. \A d \in UpTo[p] : n[d] # 0
  BY <1>1, <1>8
<1>11. \A q \in Path : n[q] # 0 /\ m[q] = 0 => Parent[q] = Top \/ n[Parent[q]] # 0
  BY <1>8, <1>10, <1>1 DEF Upward
<1> QED BY <1>3, <1>8, <1>10, <1>11, <1>6 DEF Grows, n

(* Touched, for one entry. *)
LEMMA TouchedOne ==
  ASSUME NEW m \in Times, NEW p \in Path, NEW t \in Nat, t > 0
  PROVE  /\ Touched(m, {p}, t) \in Times
         /\ \A q \in Path :
              /\ Touched(m, {p}, t)[q] = 0 <=> m[q] = 0
              /\ Touched(m, {p}, t)[q] \in {m[q], t}
              /\ Touched(m, {p}, t)[q] # m[q] => q = Parent[p]
              /\ q \notin Dir => Touched(m, {p}, t)[q] = m[q]
<1>1. ASSUME NEW P \in SUBSET Path, P = {p}
      PROVE  /\ Touched(m, P, t) \in Times
             /\ \A q \in Path :
                  /\ Touched(m, P, t)[q] = 0 <=> m[q] = 0
                  /\ Touched(m, P, t)[q] \in {m[q], t}
                  /\ Touched(m, P, t)[q] # m[q] => q = Parent[p]
                  /\ q \notin Dir => Touched(m, P, t)[q] = m[q]
  <2>1. \A q \in Path : (\E x \in P : Parent[x] = q) => q = Parent[p]
    BY <1>1
  <2> QED BY <2>1, TouchedIs
<1> QED BY <1>1

(* Put writes p and makes the directories it needs. *)
LEMMA PutIs ==
  ASSUME NEW m \in Times, NEW p \in Path, NEW s \in Nat,
         NEW t \in Nat, t > 0
  PROVE  /\ Put(m, p, s, t) \in Times
         /\ Put(m, p, s, t)[p] = s
         /\ \A d \in UpTo[p] \ {p} : Put(m, p, s, t)[d] # 0
         /\ (m[p] # 0 => s # 0) => Grows(m, Put(m, p, s, t), p, t)
<1> DEFINE m1 == IF Parent[p] = Top THEN m ELSE MkDirs(m, Parent[p], t)
           m2 == [m1 EXCEPT ![p] = s]
           n  == Put(m, p, s, t)
<1>0. n = Touched(m2, {p}, t)
  BY DEF Put
<1>1. /\ p \in UpTo[p] /\ UpTo[p] \subseteq Path /\ UpTo[p] \ {p} \subseteq Dir
      /\ Parent[p] # p
  BY UpToGoesUp, WayDown, ParentOther
<1>2. /\ m1 \in Times
      /\ \A q \in Path :
           /\ m1[q] \in {m[q], t}
           /\ m[q] # 0 => m1[q] # 0
           /\ m1[q] # m[q] => q \in UpTo[p] \ {p}
      /\ \A d \in UpTo[p] \ {p} : m1[d] # 0
  <2>1. CASE Parent[p] = Top
    <3>1. UpTo[p] \ {p} = {}
      BY <2>1, UpToParent
    <3> QED BY <2>1, <3>1
  <2>2. CASE Parent[p] # Top
    <3> DEFINE d == Parent[p]
    <3>1. d \in Path /\ d \in Dir /\ UpTo[p] = {p} \cup UpTo[d] /\ p \notin UpTo[d]
      BY <2>2, UpToParent, NoCircle
    <3>2. /\ Grows(m, MkDirs(m, d, t), d, t)
          /\ \A x \in UpTo[d] : MkDirs(m, d, t)[x] # 0
          /\ MkDirs(m, d, t)[d] \in {m[d], t}
      BY <3>1, MkDirsIs
    <3>3. m1 = MkDirs(m, d, t)
      BY <2>2
    <3> HIDE DEF m1, d
    <3> QED BY <3>1, <3>2, <3>3 DEF Grows
  <2> QED BY <2>1, <2>2
<1> HIDE DEF m1
<1>3. m2 \in Times
  BY <1>2 DEF Times
<1>4. \A q \in Path : m2[q] = IF q = p THEN s ELSE m1[q]
  BY <1>2 DEF Times
<1> HIDE DEF m2, n
<1>5. /\ n \in Times
      /\ \A q \in Path :
           /\ n[q] = 0 <=> m2[q] = 0
           /\ n[q] \in {m2[q], t}
           /\ n[q] # m2[q] => q = Parent[p]
           /\ q \notin Dir => n[q] = m2[q]
  <2> HIDE PathTypes
  <2>1. \A k \in Times :
          /\ Touched(k, {p}, t) \in Times
          /\ \A q \in Path :
              /\ Touched(k, {p}, t)[q] = 0 <=> k[q] = 0
              /\ Touched(k, {p}, t)[q] \in {k[q], t}
              /\ Touched(k, {p}, t)[q] # k[q] => q = Parent[p]
              /\ q \notin Dir => Touched(k, {p}, t)[q] = k[q]
    BY TouchedOne
  <2> QED BY <1>0, <1>3, <2>1
<1>6. n[p] = s
  BY <1>1, <1>4, <1>5
<1>7. Parent[p] \in Path => Parent[p] \in UpTo[p]
  BY <1>1, UpToGoesUp DEF Upward
<1>9. \A d \in UpTo[p] \ {p} : n[d] # 0
  BY <1>1, <1>2, <1>4, <1>5
<1>8. ASSUME m[p] # 0 => s # 0 PROVE Grows(m, n, p, t)
  <2>1. \A q \in UpTo[p] : Parent[q] = Top \/ n[Parent[q]] # 0
    <3> SUFFICES ASSUME NEW q \in UpTo[p], Parent[q] # Top PROVE n[Parent[q]] # 0
      OBVIOUS
    <3>1. q \in Path /\ Parent[q] \in UpTo[p]
      BY <1>1, UpToGoesUp DEF Upward
    <3>2. Parent[q] # p
      <4>1. CASE q = p
        BY <4>1, <1>1
      <4>2. CASE q # p
        <5>1. p \notin UpTo[q]
          BY <4>2, UpToStrict
        <5> QED BY <5>1, <3>1, UpToParent, UpToGoesUp
      <4> QED BY <4>1, <4>2
    <3> QED BY <3>1, <3>2, <1>9
  <2>2. ASSUME NEW q \in Path, q # p
        PROVE  /\ n[q] \in {m[q], t}
               /\ m[q] # 0 => n[q] # 0
               /\ n[q] # m[q] => q \in UpTo[p]
               /\ q \notin Dir => n[q] = m[q]
    <3>1. m2[q] = m1[q]
      BY <2>2, <1>4
    <3>2. n[q] # m[q] => q \in UpTo[p] \ {p}
      BY <2>2, <3>1, <1>2, <1>5, <1>7
    <3> QED BY <2>2, <3>1, <3>2, <1>1, <1>2, <1>5
  <2>3. m[p] # 0 => n[p] # 0
    BY <1>6, <1>8
  <2>4. \A q \in Path : n[q] # 0 /\ m[q] = 0 => q \in UpTo[p]
    BY <2>2, <1>1
  <2> QED BY <2>1, <2>2, <2>3, <2>4, <1>1, <1>5 DEF Grows
<1> QED BY <1>5, <1>6, <1>8, <1>9 DEF n

(* n is m without what is at the paths of P. *)
Shrinks(m, n, P, t) ==
    /\ n \in Times
    /\ \A q \in Path :
         /\ n[q] = 0 <=> m[q] = 0 \/ q \in P
         /\ n[q] \in {0, m[q], t}
         /\ q \notin Dir /\ q \notin P => n[q] = m[q]
         /\ n[q] # m[q] => q \in P \/ \E p \in P : Parent[p] = q

(* Without removes P and dates the directories it was in. *)
LEMMA WithoutIs ==
  ASSUME NEW m \in Times, NEW P \in SUBSET Path, NEW t \in Nat, t > 0
  PROVE  Shrinks(m, Without(m, P, t), P, t)
<1> DEFINE m1 == [p \in Path |-> IF p \in P THEN 0 ELSE m[p]]
           n  == Without(m, P, t)
<1>0. n = Touched(m1, P, t)
  BY DEF Without
<1>1. m1 \in Times
  BY DEF Times
<1>2. \A q \in Path : m1[q] = IF q \in P THEN 0 ELSE m[q]
  OBVIOUS
<1> HIDE DEF m1, n
<1>3. /\ n \in Times
      /\ \A q \in Path :
              /\ n[q] = 0 <=> m1[q] = 0
              /\ n[q] \in {m1[q], t}
              /\ n[q] # m1[q] => \E p \in P : Parent[p] = q
              /\ q \notin Dir => n[q] = m1[q]
  BY <1>0, <1>1, TouchedIs
<1>4. ASSUME NEW q \in Path
      PROVE  /\ n[q] = 0 <=> m[q] = 0 \/ q \in P
             /\ n[q] \in {0, m[q], t}
             /\ q \notin Dir /\ q \notin P => n[q] = m[q]
             /\ n[q] # m[q] => q \in P \/ \E p \in P : Parent[p] = q
  BY <1>2, <1>3
<1>5. Shrinks(m, n, P, t)
  BY <1>3, <1>4 DEF Shrinks
<1> QED BY <1>5 DEF n

(* A write keeps the disk grounded. *)
LEMMA GrowsGrounded ==
  ASSUME NEW m, NEW n, NEW p \in Path, NEW t, Grounded(m), Grows(m, n, p, t)
  PROVE  Grounded(n)
<1> SUFFICES ASSUME NEW q \in Path, n[q] # 0, Parent[q] # Top
             PROVE  n[Parent[q]] # 0
  BY DEF Grounded
<1>1. Parent[q] \in Path
  OBVIOUS
<1>2. CASE m[q] # 0
  BY <1>1, <1>2 DEF Grounded, Grows
<1>3. CASE m[q] = 0
  BY <1>3 DEF Grows
<1> QED BY <1>2, <1>3

(* A removal that leaves no child behind keeps the disk grounded. *)
LEMMA ShrinksGrounded ==
  ASSUME NEW m, NEW n, NEW P, NEW t, Grounded(m), Shrinks(m, n, P, t),
         \A p \in Path : Parent[p] \in P => m[p] = 0 \/ p \in P
  PROVE  Grounded(n)
<1> SUFFICES ASSUME NEW q \in Path, n[q] # 0, Parent[q] # Top
             PROVE  n[Parent[q]] # 0
  BY DEF Grounded
<1>1. Parent[q] \in Path
  OBVIOUS
<1> QED BY <1>1 DEF Grounded, Shrinks

(* With P everything below it goes. *)
LEMMA SubGoes ==
  ASSUME NEW d \in Path, NEW p \in Path, Parent[p] \in Sub(d)
  PROVE  p \in Sub(d) /\ p # d
<1>1. Parent[p] \in Path /\ d \in UpTo[Parent[p]]
  BY DEF Sub
<1>2. Parent[p] # Top
  BY <1>1
<1>3. UpTo[p] = {p} \cup UpTo[Parent[p]] /\ p \notin UpTo[Parent[p]]
  BY <1>2, UpToParent, NoCircle
<1> QED BY <1>1, <1>3 DEF Sub

HIDE PathTypes

-----------------------------------------------------------------------------
(* The decision table.                                                     *)
Word == Instruction \cup {"ABSENT"}

(* The reconciler's decision is a pair of instructions. *)
LEMMA VisitTypes ==
  ASSUME NEW c \in Node, NEW o \in Node
  PROVE  Visit(c, o, FALSE)[1] \in Word /\ Visit(c, o, FALSE)[2] \in Word
BY DEF Visit, Alone, BothNew, BothModified, NewAgainstModified, Win, Node, Word,
       Instruction

(* There are two replicas, each the other of the other. *)
LEMMA OtherIs ==
  ASSUME NEW r \in Replica
  PROVE  /\ Other(r) \in Replica /\ Other(r) # r /\ Other(Other(r)) = r
         /\ \A s \in Replica : s = r \/ s = Other(r)
BY DEF Replica, Other

Trees == [Replica -> [Path -> Node]]

(* One pass of the reconciler keeps the trees well formed. *)
LEMMA ReconciledTypes ==
  ASSUME NEW t \in Trees, NEW r \in Replica
  PROVE  Reconciled(t, r) \in Trees
<1>1. ASSUME NEW s \in Replica, NEW p \in Path
      PROVE  (LET v == Visit(t[r][p], t[Other(r)][p], FALSE)
              IN  IF t[r][p].instr = "ABSENT" THEN t[s][p]
                  ELSE [t[s][p] EXCEPT !.instr = v[IF s = r THEN 1 ELSE 2]])
             \in Node
  <2> DEFINE v == Visit(t[r][p], t[Other(r)][p], FALSE)
  <2>1. t[s][p] \in Node /\ t[r][p] \in Node /\ t[Other(r)][p] \in Node
    BY OtherIs DEF Trees
  <2>2. v[1] \in Word /\ v[2] \in Word
    BY <2>1, VisitTypes
  <2> HIDE DEF v
  <2>3. v[IF s = r THEN 1 ELSE 2] \in Word
    BY <2>2
  <2>4. [t[s][p] EXCEPT !.instr = v[IF s = r THEN 1 ELSE 2]] \in Node
    BY <2>1, <2>3 DEF Node, Word
  <2> QED BY <2>1, <2>4 DEF v
<1> QED BY <1>1 DEF Reconciled, Trees

-----------------------------------------------------------------------------
(* What the actions do.                                                    *)

(* The parts of the type invariant that the actions on disk need. *)
Clock == now \in Nat /\ now > 0

(* The destination of a pass is the other replica. *)
LEMMA DestIs ==
  ASSUME TypeOK
  PROVE  Dest \in Replica /\ Dest # current /\ Dest = Other(current)
BY OtherIs DEF TypeOK, Dest

(* A replica's disk is a table of times. *)
LEMMA DiskTimes ==
  ASSUME TypeOK, NEW r \in Replica
  PROVE  disk[r] \in Times
BY DEF TypeOK, Times

(* One replica changes. *)
LEMMA DiskChanges ==
  ASSUME NEW d \in [Replica -> Times], NEW r \in Replica, NEW m \in Times
  PROVE  /\ [d EXCEPT ![r] = m] \in [Replica -> Times]
         /\ [d EXCEPT ![r] = m][r] = m
         /\ \A s \in Replica : s # r => [d EXCEPT ![r] = m][s] = d[s]
OBVIOUS

(* What a user's write does to the disks. *)
LEMMA UserWritesIs ==
  ASSUME TypeOK, NEW r \in Replica, NEW p \in Path, UserWrites(r, p)
  PROVE  /\ disk' \in [Replica -> Times]
         /\ disk'[Other(r)] = disk[Other(r)]
         /\ Grows(disk[r], disk'[r], p, now + 1)
         /\ disk'[r][p] = now + 1
         /\ There(r, Parent[p])
<1> DEFINE t == now + 1
           m == disk[r]
           n1 == Put(m, p, t, t)
           n2 == [m EXCEPT ![p] = t]
<1>1. m \in Times /\ t \in Nat /\ t > 0 /\ disk \in [Replica -> Times]
  BY DEF TypeOK, Times
<1>2. There(r, Parent[p])
  BY DEF UserWrites
<1>3. /\ n1 \in Times /\ Grows(m, n1, p, t) /\ n1[p] = t
  BY <1>1, PutIs
<1>4. p \in UpTo[p]
  BY UpToGoesUp
<1>5. /\ n2 \in Times /\ n2[p] = t
      /\ Parent[p] = Top \/ m[Parent[p]] # 0 => Grows(m, n2, p, t)
  BY <1>1, <1>4 DEF Grows, Times
<1>6. disk' = [disk EXCEPT ![r] = n1] \/ disk' = [disk EXCEPT ![r] = n2]
  BY DEF UserWrites, TypeOK
<1>7. Grows(m, n2, p, t)
  BY <1>2, <1>5 DEF There
<1> HIDE DEF n1, n2, t
<1>8. /\ disk' \in [Replica -> Times]
      /\ disk'[Other(r)] = disk[Other(r)]
      /\ disk'[r] = n1 \/ disk'[r] = n2
  BY <1>1, <1>3, <1>5, <1>6, OtherIs
<1> QED BY <1>2, <1>3, <1>5, <1>7, <1>8 DEF t

Gone(r, p) == {q \in Sub(p) : There(r, q)}

(* What a user's deletion does to the disks and to the record of           *)
(* deletions.                                                              *)
LEMMA UserDeletesIs ==
  ASSUME TypeOK, NEW r \in Replica, NEW p \in Path, UserDeletes(r, p)
  PROVE  /\ disk' \in [Replica -> Times]
         /\ disk'[Other(r)] = disk[Other(r)]
         /\ Shrinks(disk[r], disk'[r], Gone(r, p), now + 1)
         /\ dead' = [q \in Path |-> IF q \in Gone(r, p) THEN CalmRuns
                                    ELSE IF q \in UpTo[p] THEN 0 ELSE dead[q]]
         /\ There(r, p)
<1> DEFINE t == now + 1
           m == disk[r]
           P == Gone(r, p)
           n == Without(m, P, t)
<1>1. m \in Times /\ t \in Nat /\ t > 0 /\ disk \in [Replica -> Times]
  BY DEF TypeOK, Times
<1>2. P = {q \in Below(p) \cup {p} : There(r, q)} /\ P \in SUBSET Path
  BY SubIsBelow DEF Gone
<1>3. Shrinks(m, n, P, t) /\ n \in Times
  BY <1>1, <1>2, WithoutIs DEF Shrinks
<1>4. disk' = [disk EXCEPT ![r] = n]
  BY <1>2 DEF UserDeletes
<1> HIDE DEF n
<1>5. /\ disk' \in [Replica -> Times]
      /\ disk'[Other(r)] = disk[Other(r)]
      /\ disk'[r] = n
  BY <1>1, <1>3, <1>4, OtherIs
<1>6. dead' = [q \in Path |-> IF q \in P THEN CalmRuns
                                    ELSE IF q \in UpTo[p] THEN 0 ELSE dead[q]]
  BY <1>2 DEF UserDeletes
<1>7. There(r, p)
  BY DEF UserDeletes
<1> QED BY <1>3, <1>5, <1>6, <1>7

USE PathTypes

Instr(r, p)   == tree[r][p].instr
Present(r, p) == Instr(r, p) # "ABSENT"

(* n is m, but that p, if it is there, has the time s. *)
LEMMA TimeSetIs ==
  ASSUME NEW m \in Times, NEW p \in Path, NEW s \in Nat, NEW t \in Nat
  PROVE  /\ TimeSet(m, p, s) \in Times
         /\ TimeSet(m, p, s)[p] = IF m[p] = 0 THEN 0 ELSE s
         /\ \A q \in Path : q # p => TimeSet(m, p, s)[q] = m[q]
         /\ s # 0 => Grows(m, TimeSet(m, p, s), p, t)
<1>1. /\ TimeSet(m, p, s) \in Times
      /\ TimeSet(m, p, s)[p] = IF m[p] = 0 THEN 0 ELSE s
      /\ \A q \in Path : q # p => TimeSet(m, p, s)[q] = m[q]
  BY DEF TimeSet, Times
<1>2. p \in UpTo[p]
  BY UpToGoesUp
<1>3. \A q \in Path : m[q] \in Nat
  BY DEF Times
<1> QED BY <1>1, <1>2, <1>3 DEF Grows

(* What the passes that send something, and those that remove, leave alone.*)
Sends(p) == PushFile(p) \/ PushFails(p) \/ NewDir(p) \/ SyncDir(p)

NodeEnds(p, x) == tree' = [tree EXCEPT ![current][p].instr = x]

(* An instruction that ends changes its own node only. *)
LEMMA NodeEndsIs ==
  ASSUME TypeOK, NEW p \in Path, NEW x \in Word, NodeEnds(p, x)
  PROVE  /\ tree' \in Trees
         /\ tree'[current][p].instr = x
         /\ tree'[current][p].mtime = tree[current][p].mtime
         /\ \A q \in Path : q # p => tree'[current][q] = tree[current][q]
         /\ tree'[Other(current)] = tree[Other(current)]
<1>1. /\ current \in Replica /\ tree \in [Replica -> [Path -> Node]]
      /\ Other(current) \in Replica /\ Other(current) # current
  BY OtherIs DEF TypeOK
<1>2. tree[current] \in [Path -> Node] /\ tree[current][p] \in Node
  BY <1>1
<1>3. [tree[current][p] EXCEPT !.instr = x] \in Node
  BY <1>2 DEF Node, Word
<1> DEFINE n == [tree[current] EXCEPT ![p] = [tree[current][p] EXCEPT !.instr = x]]
<1>4. n \in [Path -> Node] /\ n[p].instr = x /\ n[p].mtime = tree[current][p].mtime
      /\ \A q \in Path : q # p => n[q] = tree[current][q]
  BY <1>2, <1>3 DEF Node
<1>5. tree' = [tree EXCEPT ![current] = n]
  BY <1>1, <1>2 DEF NodeEnds
<1> HIDE DEF n
<1>6. tree' \in Trees /\ tree'[current] = n /\ tree'[Other(current)] = tree[Other(current)]
  BY <1>1, <1>4, <1>5 DEF Trees
<1> QED BY <1>4, <1>6

(* A propagation to the destination leaves everything but disk, tree and   *)
(* todo alone.                                                             *)
LEMMA SendsFrame ==
  ASSUME TypeOK, NEW p \in Path, Sends(p)
  PROVE  /\ step \in {"files", "dirs"} /\ p \in todo
         /\ Instr(current, p) \in {"NEW", "SYNC"}
         /\ todo' = todo \ {p}
         /\ \E x \in {"UPDATED", "ERROR"} : NodeEnds(p, x)
         /\ UNCHANGED <<journal, step, current, opening, list, now, writes, unseen>>
BY DEF Sends, PushFile, PushFails, NewDir, SyncDir, Visits, Ends, NodeEnds, Fault,
       NoFault, Instr

(* A propagation writes to the destination only. *)
LEMMA SendsDisk ==
  ASSUME TypeOK, now > 0, NEW p \in Path, Sends(p)
  PROVE  /\ disk' \in [Replica -> Times]
         /\ disk'[current] = disk[current]
         /\ tree[current][p].mtime # 0 => Grows(disk[Dest], disk'[Dest], p, now)
<1> DEFINE m == disk[Dest]
           s == tree[current][p].mtime
           made == MkDirs(m, p, now)
           n1 == Put(m, p, s, now)
           n2 == Put(m, p, m[p], now)
           n3 == TimeSet(made, p, s)
           n4 == TimeSet(m, p, s)
<1>1. /\ current \in Replica /\ Dest \in Replica /\ Dest # current
      /\ m \in Times /\ s \in Nat /\ now \in Nat /\ m[p] \in Nat
      /\ disk \in [Replica -> Times]
  BY DestIs DEF TypeOK, Times, Node
<1>2. n1 \in Times /\ (s # 0 => Grows(m, n1, p, now))
  BY <1>1, PutIs
<1>3. n2 \in Times /\ Grows(m, n2, p, now)
  BY <1>1, PutIs
<1>4. made \in Times /\ Grows(m, made, p, now) /\ made[p] # 0
  BY <1>1, MkDirsIs, UpToGoesUp DEF Grows
<1>5. n3 \in Times /\ (s # 0 => Grows(m, n3, p, now))
  <2> HIDE DEF made, m, s
  <2>1. n3 \in Times /\ n3[p] = s /\ \A q \in Path : q # p => n3[q] = made[q]
    BY <1>1, <1>4, TimeSetIs
  <2>2. \A q \in Path : made[q] # 0 /\ m[q] = 0 /\ Parent[q] # Top => made[Parent[q]] # 0
    BY <1>4 DEF Grows
  <2>3. p \in UpTo[p]
    BY UpToGoesUp
  <2> HIDE DEF n3
  <2> QED BY <2>1, <2>2, <2>3, <1>4 DEF Grows
<1>6. n4 \in Times /\ (s # 0 => Grows(m, n4, p, now))
  BY <1>1, TimeSetIs
<1>7. Grows(m, m, p, now)
  BY <1>1 DEF Grows, Times
<1>8. \/ disk' = disk \/ disk' = [disk EXCEPT ![Dest] = n1]
      \/ disk' = [disk EXCEPT ![Dest] = n2] \/ disk' = [disk EXCEPT ![Dest] = made]
      \/ disk' = [disk EXCEPT ![Dest] = n3] \/ disk' = [disk EXCEPT ![Dest] = n4]
  BY DEF Sends, PushFile, PushFails, NewDir, SyncDir
<1> HIDE DEF n1, n2, n3, n4, made
<1>9. \A n \in Times : disk' = [disk EXCEPT ![Dest] = n]
                    => /\ disk' \in [Replica -> Times]
                       /\ disk'[current] = disk[current]
                       /\ disk'[Dest] = n
  BY <1>1
<1>10. CASE disk' = disk
  BY <1>1, <1>7, <1>10
<1>11. CASE disk' # disk
  BY <1>2, <1>3, <1>4, <1>5, <1>6, <1>8, <1>9, <1>11
<1> QED BY <1>10, <1>11

HIDE PathTypes

(* What Grows leaves open: the time of the path itself.                    *)
LEMMA SendsTime ==
  ASSUME TypeOK, now > 0, NEW p \in Path, Sends(p)
  PROVE  disk'[Dest][p] \in {disk[Dest][p], tree[current][p].mtime, now}
<1> DEFINE m == disk[Dest]
           s == tree[current][p].mtime
           made == MkDirs(m, p, now)
           n1 == Put(m, p, s, now)
           n2 == Put(m, p, m[p], now)
           n3 == TimeSet(made, p, s)
           n4 == TimeSet(m, p, s)
<1>1. /\ current \in Replica /\ Dest \in Replica /\ Dest # current
      /\ m \in Times /\ s \in Nat /\ now \in Nat /\ m[p] \in Nat
      /\ disk \in [Replica -> Times]
  BY DestIs DEF TypeOK, Times, Node
<1>2. n1 \in Times /\ n1[p] = s /\ n2 \in Times /\ n2[p] = m[p]
  BY <1>1, PutIs
<1>3. made \in Times /\ made[p] \in {m[p], now}
  BY <1>1, MkDirsIs DEF Grows
<1>4. n3 \in Times /\ n3[p] \in {m[p], s, now}
  <2> HIDE DEF made, m, s
  <2> QED BY <1>1, <1>3, TimeSetIs DEF TimeSet
<1>5. n4 \in Times /\ n4[p] \in {m[p], s}
  BY <1>1, TimeSetIs DEF TimeSet
<1>6. \/ disk' = disk \/ disk' = [disk EXCEPT ![Dest] = n1]
      \/ disk' = [disk EXCEPT ![Dest] = n2] \/ disk' = [disk EXCEPT ![Dest] = made]
      \/ disk' = [disk EXCEPT ![Dest] = n3] \/ disk' = [disk EXCEPT ![Dest] = n4]
  BY DEF Sends, PushFile, PushFails, NewDir, SyncDir
<1> HIDE DEF n1, n2, n3, n4, made
<1> QED BY <1>1, <1>2, <1>3, <1>4, <1>5, <1>6

-----------------------------------------------------------------------------
(* The passes that remove.                                                 *)
Drops(p) == RemoveFile(p) \/ (p \in Dir /\ (RemoveDir(p) \/ Cleanup(p)))

(* A removal leaves everything but disks, tree, todo and the clean-up list *)
(* alone.                                                                  *)
LEMMA DropsFrame ==
  ASSUME TypeOK, NEW p \in Path, Drops(p)
  PROVE  /\ \/ /\ step \in {"files", "dirs"} /\ p \in todo
               /\ Instr(current, p) = "REMOVE" /\ todo' = todo \ {p}
            \/ /\ step = "cleanup" /\ p \in list /\ UNCHANGED todo
               /\ list \cap Below(p) = {}
         /\ \/ list' \in {list, list \ {p}}
            \/ step = "dirs" /\ p \in Dir /\ list' = list \cup {p}
         /\ step = "cleanup" => list' = list \ {p}
         /\ UNCHANGED <<journal, step, current, replica, opening, now, writes,
                        unseen>>
BY DEF Drops, RemoveFile, RemoveDir, Cleanup, Visits, NextInList, Ends, Instr

(* It is gone, it is put off, or it stays.                                 *)
Goes(p) ==
    /\ There(current, p)
    /\ disk' \in [Replica -> Times] /\ disk'[Other(current)] = disk[Other(current)]
    /\ Shrinks(disk[current], disk'[current], {p}, now)
    /\ \A q \in Path : Parent[q] = p => disk[current][q] = 0
    /\ NodeEnds(p, "DELETED")
    /\ NoFault /\ list' \in {list, list \ {p}}

PutOff(p) ==
    /\ step = "dirs" /\ p \in Dir /\ There(current, p)
    /\ \E q \in Path : Parent[q] = p /\ disk[current][q] # 0
    /\ NoFault /\ UNCHANGED <<disk, tree>> /\ list' = list \cup {p}

Stays(p) ==
    /\ UNCHANGED disk /\ NodeEnds(p, "NONE") /\ list' \in {list, list \ {p}}
    /\ \/ calm' = 0 /\ dead' = [q \in Path |-> 0]
       \/ NoFault /\ (~There(current, p) \/ replica # current
                      \/ (step = "cleanup" /\ ~Removable(p)))

(* A removal takes the entry away, puts it off to the clean-up, or leaves  *)
(* it.                                                                     *)
LEMMA DropsIs ==
  ASSUME TypeOK, now > 0, ~Collections, \A r \in Replica : Grounded(disk[r]),
         step = "files" => todo \cap Dir = {},
         NEW p \in Path, Drops(p)
  PROVE  Goes(p) \/ PutOff(p) \/ Stays(p)
<1>1. /\ current \in Replica /\ disk \in [Replica -> Times] /\ disk[current] \in Times
      /\ now \in Nat /\ p # Top
  BY PathTypes DEF TypeOK, Times
<1>2. Shrinks(disk[current], Without(disk[current], {p}, now), {p}, now)
  BY <1>1, WithoutIs
<1>3. ASSUME disk' = [disk EXCEPT ![current] = Without(@, {p}, now)]
      PROVE  /\ disk' \in [Replica -> Times]
             /\ disk'[Other(current)] = disk[Other(current)]
             /\ Shrinks(disk[current], disk'[current], {p}, now)
  <2> DEFINE n == Without(disk[current], {p}, now)
  <2>1. n \in Times /\ disk' = [disk EXCEPT ![current] = n]
    BY <1>2, <1>3 DEF Shrinks
  <2> HIDE DEF n
  <2>2. /\ disk' \in [Replica -> Times] /\ disk'[current] = n
        /\ disk'[Other(current)] = disk[Other(current)]
    BY <1>1, <2>1, OtherIs
  <2> QED BY <2>2, <1>2 DEF n
<1>4. CASE RemoveFile(p)
  <2>0. p \notin Dir
    BY <1>4 DEF RemoveFile, Visits
  <2>1. \A q \in Path : Parent[q] # p
    BY <1>1, <2>0, PathTypes
  <2>2. CASE /\ There(current, p) /\ NoFault /\ Ends(p, "DELETED")
             /\ disk' = [disk EXCEPT ![current] = Without(@, {p}, now)]
    BY <1>3, <1>4, <2>1, <2>2 DEF RemoveFile, Goes, Ends, NodeEnds
  <2>3. CASE ~There(current, p) /\ NoFault /\ Ends(p, "NONE") /\ UNCHANGED disk
    BY <1>4, <2>3 DEF RemoveFile, Stays, Ends, NodeEnds
  <2>4. CASE Fault("unlink") /\ Ends(p, "NONE") /\ UNCHANGED disk
    BY <1>4, <2>4 DEF RemoveFile, Stays, Ends, NodeEnds, Fault
  <2> QED BY <1>4, <2>2, <2>3, <2>4 DEF RemoveFile
<1>5. ASSUME p \in Dir, Removable(p), disk' = Removed(p), There(current, p)
      PROVE  /\ disk' \in [Replica -> Times]
             /\ disk'[Other(current)] = disk[Other(current)]
             /\ Shrinks(disk[current], disk'[current], {p}, now)
             /\ \A q \in Path : Parent[q] = p => disk[current][q] = 0
  <2>1. \A q \in Path : Parent[q] = p => disk[current][q] = 0
    BY <1>5 DEF Removable, Inside, Children
  <2> DEFINE P == {p} \cup Below(p)
             n == Without(disk[current], P, now)
  <2>2. P = Sub(p) /\ P \in SUBSET Path
    BY SubIsBelow
  <2>3. Shrinks(disk[current], n, P, now) /\ n \in Times
    <3> HIDE DEF P
    <3>1. Shrinks(disk[current], Without(disk[current], P, now), P, now)
      BY <1>1, <2>2, WithoutIs
    <3>2. Without(disk[current], P, now) \in Times
      BY <3>1 DEF Shrinks
    <3> QED BY <3>1, <3>2
  <2>4. disk' = [disk EXCEPT ![current] = n]
    BY <1>5 DEF Removed
  <2> HIDE DEF n
  <2>5. /\ disk' \in [Replica -> Times] /\ disk'[current] = n
        /\ disk'[Other(current)] = disk[Other(current)]
    BY <1>1, <2>3, <2>4, OtherIs
  <2>6. \A q \in P : q = p \/ disk[current][q] = 0
    <3> DEFINE m == disk[current]
    <3>1. Grounded(m) /\ \A q \in Path : Parent[q] = p => m[q] = 0
      BY <1>1, <2>1
    <3> HIDE DEF m, P
    <3>2. \A q \in Sub(p) : q # p => m[q] = 0
      BY <3>1, NothingBelow
    <3> QED BY <2>2, <3>2 DEF m
  <2>7. Shrinks(disk[current], n, {p}, now)
    <3>1. p \in P
      BY DEF P
    <3> HIDE DEF P
    <3>2. \A q \in Path : n[q] = 0 <=> disk[current][q] = 0 \/ q = p
      BY <2>3, <2>6, <3>1 DEF Shrinks
    <3>3. ASSUME NEW q \in Path, q \notin Dir, q # p
          PROVE  n[q] = disk[current][q]
      BY <2>3, <2>6, <3>3 DEF Shrinks
    <3>4. ASSUME NEW q \in Path, n[q] # disk[current][q]
          PROVE  q = p \/ Parent[p] = q
      <4> DEFINE t == Without(disk[current], P, now)
      <4>1. q = p \/ \E x \in P : Parent[x] = q
        BY <2>3, <2>6, <3>2, <3>4 DEF Shrinks
      <4>2. q # p => q \notin P
        BY <2>6, <2>3, <3>2, <3>4
      <4>3. ASSUME NEW x \in P, Parent[x] = q, x # p PROVE q = p \/ Parent[p] = q
        <5>1. x \in Path /\ p \in UpTo[x]
          BY <2>2 DEF Sub
        <5>2. Parent[x] # Top /\ UpTo[x] = {x} \cup UpTo[q]
          BY <4>3, <5>1, UpToParent, PathTypes
        <5>3. p \in UpTo[q]
          BY <5>1, <5>2, <4>3
        <5>4. q \in P
          BY <5>3, <2>2 DEF Sub
        <5> QED BY <5>4, <4>2
      <4> QED BY <4>1, <4>3
    <3> QED BY <2>3, <3>2, <3>3, <3>4 DEF Shrinks
  <2> QED BY <2>1, <2>5, <2>7
<1>6. CASE p \in Dir /\ RemoveDir(p)
  <2>1. CASE Reaches(p) /\ Removable(p) /\ disk' = Removed(p)
             /\ Ends(p, "DELETED") /\ UNCHANGED list /\ NoFault
    BY <2>1, <1>5, <1>6 DEF Reaches, Goes, Ends, NodeEnds
  <2>2. CASE Reaches(p) /\ ~Removable(p) /\ list' = list \cup {p}
             /\ NoFault /\ UNCHANGED <<disk, tree>>
    <3>1. \E q \in Path : Parent[q] = p /\ disk[current][q] # 0
      BY <2>2 DEF Removable, Inside, Children
    <3> QED BY <2>2, <3>1, <1>6 DEF Reaches, PutOff, RemoveDir, Visits
  <2>3. CASE /\ IF Reaches(p) THEN Fault("rmdir") ELSE NoFault
             /\ Ends(p, "NONE") /\ UNCHANGED <<disk, list>>
    BY <2>3 DEF Stays, Reaches, Ends, NodeEnds, Fault
  <2> QED BY <1>6, <2>1, <2>2, <2>3 DEF RemoveDir
<1>7. CASE p \in Dir /\ Cleanup(p)
  <2>1. CASE Reaches(p) /\ Removable(p) /\ disk' = Removed(p)
             /\ Ends(p, "DELETED") /\ NoFault
    BY <2>1, <1>5, <1>7 DEF Reaches, Goes, Ends, NodeEnds, Cleanup
  <2>2. CASE /\ IF Reaches(p) /\ Removable(p) THEN Fault("rmdir") ELSE NoFault
             /\ Ends(p, "NONE") /\ UNCHANGED disk
    BY <2>2, <1>7 DEF Stays, Reaches, Ends, NodeEnds, Fault, Cleanup
  <2> QED BY <1>7, <2>1, <2>2 DEF Cleanup
<1> QED BY <1>4, <1>6, <1>7 DEF Drops

-----------------------------------------------------------------------------
(* Type correctness.                                                       *)
Opens(d) == OpenDir(d) \/ OpenDenied(d)
Aborts   == Crash \/ \E d \in Dir \cup {Top} : OpenFails(d)

(* The steps of the specification by the part of the program that takes    *)
(* them.                                                                   *)
LEMMA Moves ==
  ASSUME [Next]_vars
  PROVE  \/ \E r \in Replica, p \in Path : UserWrites(r, p) \/ UserDeletes(r, p)
         \/ \E d \in Dir \cup {Top} : Opens(d)
         \/ \E p \in Path : DetectUpdate(p) \/ Sends(p) \/ Drops(p)
         \/ StartRun \/ NextReplica \/ Reconcile \/ NextPass \/ Commit \/ Aborts
         \/ UNCHANGED vars
<1>1. CASE User
  BY <1>1 DEF User
<1>2. CASE \E d \in Dir \cup {Top} : OpenDir(d) \/ OpenDenied(d) \/ OpenFails(d)
  BY <1>2 DEF Opens, Aborts
<1>3. CASE \E p \in Path :
              DetectUpdate(p) \/ PushFile(p) \/ PushFails(p) \/ RemoveFile(p)
  BY <1>3 DEF Sends, Drops
<1>4. CASE \E d \in Dir : NewDir(d) \/ SyncDir(d) \/ RemoveDir(d) \/ Cleanup(d)
  BY <1>4, PathTypes DEF Sends, Drops
<1> QED BY <1>1, <1>2, <1>3, <1>4 DEF Next, Program, Aborts

(* A fault, or nothing of the kind. *)
Histories ==
    \/ NoFault
    \/ faults' = faults + 1 /\ calm' = 0 /\ dead' = [p \in Path |-> 0]

(* What the history variables do in a step of the program. *)
LEMMA ProgramHistories ==
  ASSUME NEW p \in Path, NEW d,
         \/ Sends(p) \/ Drops(p) \/ DetectUpdate(p) \/ Opens(d) \/ Aborts
         \/ NextReplica \/ Reconcile \/ NextPass \/ Commit
  PROVE  Histories
BY DEF Histories, NoFault, Fault, Sends, PushFile, PushFails, NewDir, SyncDir,
       Drops, RemoveFile, RemoveDir, Cleanup, DetectUpdate, Opens, OpenDir,
       OpenDenied, Aborts, Crash, OpenFails, NextReplica, Reconcile, NextPass,
       Commit, bounds, history

(* A removal keeps the disks well formed. *)
LEMMA DropsDisk ==
  ASSUME TypeOK, now > 0, NEW p \in Path, Drops(p)
  PROVE  /\ disk' \in [Replica -> Times]
         /\ \E x \in {"DELETED", "NONE"} : NodeEnds(p, x) \/ UNCHANGED tree
<1>1. current \in Replica /\ disk \in [Replica -> Times] /\ now \in Nat
  BY DEF TypeOK, Times
<1>2. {p} \in SUBSET Path /\ ({p} \cup Below(p)) \in SUBSET Path
  BY SubIsBelow
<1>3. \A P \in SUBSET Path : Without(disk[current], P, now) \in Times
  BY <1>1, WithoutIs DEF Shrinks
<1>4. \A P \in SUBSET Path :
         [disk EXCEPT ![current] = Without(@, P, now)] \in [Replica -> Times]
  BY <1>1, <1>3
<1>5. \/ disk' = disk
      \/ disk' = [disk EXCEPT ![current] = Without(@, {p}, now)]
      \/ disk' = Removed(p)
  BY DEF Drops, RemoveFile, RemoveDir, Cleanup
<1>6. disk' \in [Replica -> Times]
  BY <1>1, <1>2, <1>4, <1>5 DEF Removed
<1>7. \E x \in {"DELETED", "NONE"} : NodeEnds(p, x) \/ UNCHANGED tree
  BY DEF Drops, RemoveFile, RemoveDir, Cleanup, Ends, NodeEnds
<1> QED BY <1>6, <1>7

(* The trees freed at the end of a run are well formed. *)
LEMMA EmptyTypes == EmptyTrees \in Trees
BY DEF EmptyTrees, Absent, Node, Trees

(* The history variables keep their types. *)
LEMMA HistoryTypes ==
  ASSUME TypeOK, Histories
  PROVE  faults' \in Nat /\ calm' \in 0 .. 3 /\ dead' \in [Path -> 0 .. 2]
BY DEF TypeOK, Histories, NoFault

(* Type correctness holds at the start ... *)
LEMMA InitTypeOK == Init => TypeOK /\ now > 0
<1> SUFFICES ASSUME Init PROVE TypeOK /\ now > 0
  OBVIOUS
<1>1. disk \in [Replica -> [Path -> Nat]] /\ journal \in [Path -> Nat]
  BY DEF Init
<1>2. tree \in Trees
  BY EmptyTypes DEF Init
<1>3. dead \in [Path -> 0 .. 2]
  BY DEF Init
<1> QED BY <1>1, <1>2, <1>3 DEF Init, TypeOK, Trees, Steps, Replica

(* What update detection may leave at a path.                              *)
Found == {"ABSENT", "NEW", "EVAL", "NONE", "RENAME"}

(* The row of p is in the journal and found by its hash.                   *)
FoundByHash(p) == journal[p] # 0 /\ p \notin HighHash

(* What update detection says of a path, by its instruction and its time.  *)
Tells(r, p, i, m) ==
    /\ i \in Found
    /\ i = "NEW" => ~FoundByHash(p)
    /\ i = "RENAME" => r = "local" /\ journal[p] # 0 /\ p \in HighHash
    /\ i = "EVAL" => FoundByHash(p) /\ m > journal[p]
    /\ i = "NONE" => FoundByHash(p) /\ m <= journal[p]

(* What visiting an entry does to the trees. *)
LEMMA DetectTree ==
  ASSUME TypeOK, NEW p \in Path, DetectUpdate(p)
  PROVE  \/ disk[current][p] = 0 /\ UNCHANGED <<tree, opening>>
         \/ /\ disk[current][p] # 0
            /\ \E n \in Node :
                  /\ n.instr # "ABSENT" /\ n.mtime = disk[current][p]
                  /\ Tells(current, p, n.instr, n.mtime)
                  /\ tree' = [tree EXCEPT ![current][p] = n]
            /\ opening' = IF p \in Dir /\ Cardinality(UpTo[p]) <= MaxDepth
                          THEN {p} ELSE {}
<1>1. There(current, p) <=> disk[current][p] # 0
  BY PathTypes DEF There
<1>2. CASE disk[current][p] = 0
  BY <1>1, <1>2 DEF DetectUpdate
<1>3. CASE disk[current][p] # 0
  <2>1. PICK i \in Detect(current, p) :
          tree' = [tree EXCEPT ![current][p] =
                     [instr |-> i, mtime |-> disk[current][p]]]
    BY <1>1, <1>3 DEF DetectUpdate
  <2>2. journal[p] \in Nat /\ disk[current][p] \in Nat /\ current \in Replica
    BY DEF TypeOK
  <2>3. Tells(current, p, i, disk[current][p]) /\ i # "ABSENT"
    <3>1. CASE journal[p] = 0
      <4>1. i = "NEW"
        BY <2>1, <3>1 DEF Detect
      <4> QED BY <3>1, <4>1 DEF Tells, Found, FoundByHash
    <3>2. CASE journal[p] # 0 /\ p \in HighHash
      <4>1. i = "NEW" \/ (i = "RENAME" /\ current = "local")
        BY <2>1, <3>2 DEF Detect
      <4> QED BY <3>2, <4>1 DEF Tells, Found, FoundByHash
    <3>3. CASE journal[p] # 0 /\ p \notin HighHash
      <4>1. \/ i = "EVAL" /\ disk[current][p] > journal[p]
            \/ i = "NONE" /\ disk[current][p] <= journal[p]
        BY <2>1, <2>2, <3>3 DEF Detect
      <4> QED BY <3>3, <4>1 DEF Tells, Found, FoundByHash
    <3> QED BY <3>1, <3>2, <3>3
  <2> DEFINE n == [instr |-> i, mtime |-> disk[current][p]]
  <2>4. n \in Node /\ n.instr = i /\ n.mtime = disk[current][p]
    BY <2>2, <2>3 DEF Node, Tells, Found, Instruction
  <2>5. tree' = [tree EXCEPT ![current][p] = n]
    BY <2>1
  <2> HIDE DEF n
  <2>6. opening' = IF p \in Dir /\ Cardinality(UpTo[p]) <= MaxDepth
                   THEN {p} ELSE {}
    BY <1>1, <1>3 DEF DetectUpdate
  <2> QED BY <1>3, <2>3, <2>4, <2>5, <2>6
<1> QED BY <1>2, <1>3

(* ... and every step keeps it. *)
LEMMA StepTypeOK == TypeOK /\ now > 0 /\ [Next]_vars => TypeOK' /\ now' > 0
<1> SUFFICES ASSUME TypeOK, now > 0, [Next]_vars PROVE TypeOK' /\ now' > 0
  OBVIOUS
<1>t. /\ disk \in [Replica -> Times] /\ journal \in [Path -> Nat]
      /\ tree \in Trees /\ step \in Steps
      /\ current \in Replica /\ replica \in Replica
      /\ opening \subseteq Dir \cup {Top} /\ todo \subseteq Path /\ list \subseteq Dir
      /\ now \in Nat /\ writes \in Nat /\ faults \in Nat
      /\ calm \in 0 .. 3 /\ dead \in [Path -> 0 .. 2] /\ unseen \subseteq Path
  BY DEF TypeOK, Trees, Times
<1>s. ASSUME /\ disk' \in [Replica -> Times] /\ journal' \in [Path -> Nat]
             /\ tree' \in Trees /\ step' \in Steps
             /\ current' \in Replica /\ replica' \in Replica
             /\ opening' \subseteq Dir \cup {Top} /\ todo' \subseteq Path
             /\ list' \subseteq Dir
             /\ now' \in Nat /\ writes' \in Nat /\ faults' \in Nat
             /\ calm' \in 0 .. 3 /\ dead' \in [Path -> 0 .. 2]
             /\ unseen' \subseteq Path /\ now' > 0
      PROVE  TypeOK' /\ now' > 0
  BY <1>s DEF TypeOK, Trees, Times
<1>h. Histories => faults' \in Nat /\ calm' \in 0 .. 3 /\ dead' \in [Path -> 0 .. 2]
  BY HistoryTypes
<1>i. /\ {"local", "remote"} = Replica /\ "local" \in Replica
      /\ {"idle", "update", "reconcile", "files", "dirs", "cleanup", "commit"} = Steps
      /\ \A d \in Path : UpTo[d] \subseteq Path
      /\ Top \in {Top} /\ Dir \subseteq Path
      /\ EmptyTrees \in Trees
  BY UpToGoesUp, EmptyTypes, PathTypes DEF Replica, Steps
<1>1. ASSUME NEW r \in Replica, NEW p \in Path, UserWrites(r, p)
      PROVE  TypeOK' /\ now' > 0
  <2>1. disk' \in [Replica -> Times]
    BY <1>1, UserWritesIs
  <2>2. dead' \in [Path -> 0 .. 2] /\ unseen' \subseteq Path
    BY <1>1, <1>t, <1>i DEF UserWrites, Meanwhile
  <2>3. /\ UNCHANGED <<journal, tree, step, current, replica, opening, todo, list>>
        /\ now' = now + 1 /\ writes' = writes + 1 /\ calm' = 0
        /\ faults' \in {faults, faults + 1}
    BY <1>1 DEF UserWrites, UserActs, ctxVars
  <2> HIDE DEF TypeOK
  <2> QED BY <1>s, <1>t, <2>1, <2>2, <2>3
<1>2. ASSUME NEW r \in Replica, NEW p \in Path, UserDeletes(r, p)
      PROVE  TypeOK' /\ now' > 0
  <2>1. disk' \in [Replica -> Times]
    BY <1>2, UserDeletesIs
  <2>2. CalmRuns \in 0 .. 2
    BY <1>t DEF CalmRuns
  <2>3. dead' \in [Path -> 0 .. 2]
    BY <1>2, <1>t, <2>2, UserDeletesIs
  <2>4. unseen' \subseteq Path
    BY <1>2, <1>t, <1>i DEF UserDeletes, Meanwhile
  <2>5. /\ UNCHANGED <<journal, tree, step, current, replica, opening, todo, list>>
        /\ now' = now + 1 /\ writes' = writes + 1 /\ calm' = 0
        /\ faults' \in {faults, faults + 1}
    BY <1>2 DEF UserDeletes, UserActs, ctxVars
  <2> QED BY <1>s, <1>t, <2>1, <2>3, <2>4, <2>5
<1>3. ASSUME NEW d \in Dir \cup {Top}, Opens(d) PROVE TypeOK' /\ now' > 0
  <2>1. Histories
    BY <1>3, ProgramHistories DEF Histories, NoFault, Fault, Opens, OpenDir, OpenDenied
  <2>2. /\ UNCHANGED <<disk, journal, tree, step, current, replica, list, now, writes>>
        /\ opening' = opening \ {d}
        /\ todo' \in {todo, todo \cup (Inside(current, d) \ Excluded)}
        /\ unseen' \in {unseen, unseen \cup Below(d)}
    BY <1>3 DEF Opens, OpenDir, OpenDenied
  <2>3. Inside(current, d) \subseteq Path /\ Below(d) \subseteq Path
    BY DEF Inside, Children, Below
  <2> QED BY <1>s, <1>t, <1>h, <2>1, <2>2, <2>3
<1>4. ASSUME NEW p \in Path, DetectUpdate(p) PROVE TypeOK' /\ now' > 0
  <2>1. tree' \in Trees
    <3>1. \/ UNCHANGED tree
          \/ \E n \in Node : tree' = [tree EXCEPT ![current][p] = n]
      BY <1>4, DetectTree
    <3> QED BY <1>t, <3>1 DEF Trees
  <2>2. /\ UNCHANGED <<disk, journal, step, current, replica, list, now, writes,
                       faults, calm, dead, unseen>>
        /\ todo' = todo \ {p}
    BY <1>4 DEF DetectUpdate, bounds, history
  <2>3. opening' \subseteq Dir \cup {Top}
    BY <1>4, <1>t DEF DetectUpdate
  <2> QED BY <1>s, <1>t, <2>1, <2>2, <2>3
<1>5. ASSUME NEW p \in Path, Sends(p) PROVE TypeOK' /\ now' > 0
  <2>1. disk' \in [Replica -> Times] /\ Dest \in Replica
    BY <1>5, SendsDisk, DestIs
  <2>2. PICK x \in {"UPDATED", "ERROR"} : NodeEnds(p, x)
    BY <1>5, SendsFrame
  <2>3. tree' \in Trees
    BY <2>2, NodeEndsIs DEF Word, Instruction
  <2>4. /\ UNCHANGED <<journal, step, current, opening, list, now, writes, unseen>>
        /\ todo' = todo \ {p}
    BY <1>5, SendsFrame
  <2>5. replica' \in {replica, Dest}
    BY <1>5 DEF Sends, PushFile, PushFails, NewDir, SyncDir
  <2>6. Histories
    BY <1>5, ProgramHistories
  <2> QED BY <1>s, <1>t, <1>h, <2>1, <2>3, <2>4, <2>5, <2>6
<1>6. ASSUME NEW p \in Path, Drops(p) PROVE TypeOK' /\ now' > 0
  <2>1. disk' \in [Replica -> Times]
    BY <1>6, DropsDisk
  <2>2. tree' \in Trees
    <3>1. PICK x \in {"DELETED", "NONE"} : NodeEnds(p, x) \/ UNCHANGED tree
      BY <1>6, DropsDisk
    <3>2. x \in Word
      BY DEF Word, Instruction
    <3> QED BY <1>t, <3>1, <3>2, NodeEndsIs
  <2>3. /\ UNCHANGED <<journal, step, current, replica, opening, now, writes, unseen>>
        /\ todo' \in {todo, todo \ {p}}
        /\ list' \in {list, list \ {p}} \/ (p \in Dir /\ list' = list \cup {p})
    BY <1>6, DropsFrame
  <2>4. Histories
    BY <1>6, ProgramHistories
  <2> QED BY <1>s, <1>t, <1>h, <2>1, <2>2, <2>3, <2>4
<1>7. CASE StartRun
  BY <1>7, <1>s, <1>t, <1>i DEF StartRun
<1>8. CASE NextReplica
  BY <1>8, <1>s, <1>t, <1>i DEF NextReplica, bounds, history
<1>9. CASE Reconcile
  <2>1. tree' \in Trees
    BY <1>9, <1>t, <1>i, ReconciledTypes DEF Reconcile
  <2>2. todo' \subseteq Path
    BY <1>9 DEF Reconcile, Due
  <2> QED BY <1>9, <1>s, <1>t, <1>i, <2>1, <2>2 DEF Reconcile, bounds, history
<1>10. CASE NextPass
  <2>1. todo' \subseteq Path
    BY <1>10, <1>i DEF NextPass, Due
  <2> QED BY <1>10, <1>s, <1>t, <1>i, <2>1 DEF NextPass, bounds, history
<1>11. CASE Commit
  <2>1. \A p \in Path : Merged(p).mtime \in Nat
    BY <1>t, <1>i DEF Merged, Trees, Times, Node
  <2>2. journal' \in [Path -> Nat]
    BY <1>11, <1>t, <2>1 DEF Commit
  <2> QED BY <1>11, <1>s, <1>t, <1>i, <2>2 DEF Commit, EndRun, NoFault
<1>12. CASE Aborts
  <2>1. Histories
    BY <1>12 DEF Aborts, Crash, OpenFails, Fault, NoFault, Histories
  <2>2. EndRun /\ UNCHANGED <<disk, journal, now, writes>>
    BY <1>12 DEF Aborts, Crash, OpenFails
  <2> QED BY <1>s, <1>t, <1>h, <1>i, <2>1, <2>2 DEF EndRun
<1>13. CASE UNCHANGED vars
  BY <1>13, <1>s, <1>t DEF vars
<1> HIDE DEF TypeOK
<1> QED
  BY Moves, <1>1, <1>2, <1>3, <1>4, <1>5, <1>6, <1>7, <1>8, <1>9, <1>10, <1>11,
     <1>12, <1>13

(* In every state of every run, whatever the constants are, the disks, the *)
(* trees, the lists of the walk and the histories have the types of TypeOK.*)
THEOREM TypeCorrect == Spec => []TypeOK
<1> DEFINE Typed == TypeOK /\ now > 0
<1>1. Init => Typed
  BY InitTypeOK
<1>2. Typed /\ [Next]_vars => Typed'
  BY StepTypeOK
<1>3. Typed => TypeOK
  OBVIOUS
<1> HIDE DEF Typed
<1> QED BY <1>1, <1>2, <1>3, PTL DEF Spec

-----------------------------------------------------------------------------
(* The directories above a path are above each other.                      *)
LEMMA UpToChain ==
  ASSUME NEW c \in Path, NEW d \in UpTo[c], NEW e \in UpTo[c]
  PROVE  d \in UpTo[e] \/ e \in UpTo[d]
<1> DEFINE P == {q \in UpTo[c] : d \in UpTo[q] \/ q \in UpTo[d]}
<1>1. /\ c \in UpTo[c] /\ UpTo[c] \subseteq Path /\ Upward(UpTo[c]) /\ d \in Path
  BY UpToGoesUp
<1>2. c \in P /\ P \in SUBSET Path
  BY <1>1
<1>3. ASSUME NEW q \in P, Parent[q] # Top PROVE Parent[q] \in P
  <2>1. q \in Path /\ q \in UpTo[c] /\ Parent[q] \in UpTo[c]
    BY <1>1, <1>3 DEF Upward
  <2>2. CASE q \in UpTo[d]
    <3>1. Parent[q] \in UpTo[d]
      BY <1>1, <1>3, <2>2, UpToGoesUp DEF Upward
    <3> QED BY <2>1, <3>1
  <2>3. CASE d \in UpTo[q] /\ q # d
    <3>1. d \in UpTo[Parent[q]]
      BY <1>3, <2>1, <2>3, UpToParent
    <3> QED BY <2>1, <3>1
  <2>4. CASE q = d
    BY <2>2, <2>4, <1>1, UpToGoesUp
  <2> QED BY <2>2, <2>3, <2>4
<1>4. Upward(P)
  <2> HIDE DEF P
  <2> QED BY <1>3 DEF Upward
<1> HIDE DEF P
<1>5. UpTo[c] \subseteq P
  BY <1>2, <1>4, UpToIsLeast
<1> QED BY <1>5 DEF P

-----------------------------------------------------------------------------
(* What the reconciler decides.                                            *)
Met(a, b) == Visit(a, b, FALSE)

(* One pass of the reconciler, seen at one path. *)
LEMMA ReconciledAt ==
  ASSUME NEW t \in Trees, NEW r \in Replica, NEW s \in Replica, s # r,
         NEW p \in Path, NEW T, T = Reconciled(t, r)
  PROVE  /\ T[r][p].mtime = t[r][p].mtime /\ T[s][p].mtime = t[s][p].mtime
         /\ t[r][p].instr = "ABSENT" =>
               T[r][p].instr = "ABSENT" /\ T[s][p].instr = t[s][p].instr
         /\ t[r][p].instr # "ABSENT" =>
               /\ T[r][p].instr = Met(t[r][p], t[s][p])[1]
               /\ T[s][p].instr = Met(t[r][p], t[s][p])[2]
<1> DEFINE v == Met(t[r][p], t[s][p])
<1>1. s = Other(r)
  BY OtherIs
<1>2. t[r][p] \in Node /\ t[s][p] \in Node
  BY <1>1 DEF Trees
<1>3. /\ T[r][p] = IF t[r][p].instr = "ABSENT" THEN t[r][p]
                   ELSE [t[r][p] EXCEPT !.instr = v[1]]
      /\ T[s][p] = IF t[r][p].instr = "ABSENT" THEN t[s][p]
                   ELSE [t[s][p] EXCEPT !.instr = v[2]]
  BY <1>1 DEF Reconciled, Met
<1> HIDE DEF v
<1>4. \A n \in Node : \A x : [n EXCEPT !.instr = x].mtime = n.mtime
                         /\ [n EXCEPT !.instr = x].instr = x
  BY DEF Node
<1>5. t[r][p].instr = "ABSENT" => T[r][p] = t[r][p] /\ T[s][p] = t[s][p]
  BY <1>3
<1>6. t[r][p].instr # "ABSENT" =>
         /\ T[r][p].mtime = t[r][p].mtime /\ T[s][p].mtime = t[s][p].mtime
         /\ T[r][p].instr = v[1] /\ T[s][p].instr = v[2]
  BY <1>2, <1>3, <1>4
<1> QED BY <1>5, <1>6 DEF v

(* The decision table, row by row, for the nodes that update detection     *)
(* leaves.                                                                 *)
LEMMA VisitIs ==
  ASSUME NEW a \in Node, NEW b \in Node
  PROVE  /\ b.instr = "ABSENT" =>
               /\ Met(a, b)[2] = "ABSENT"
               /\ a.instr \in {"NEW", "EVAL", "RENAME"} => Met(a, b)[1] = "NEW"
               /\ a.instr = "NONE" => Met(a, b)[1] = "REMOVE"
         /\ a.instr = "NEW" /\ b.instr = "NEW" =>
               /\ a.mtime > b.mtime => Met(a, b)[1] = "SYNC" /\ Met(a, b)[2] = "NONE"
               /\ a.mtime < b.mtime => Met(a, b)[1] = "NONE" /\ Met(a, b)[2] = "SYNC"
               /\ a.mtime = b.mtime => Met(a, b)[1] = "NONE" /\ Met(a, b)[2] = "NONE"
         /\ a.instr = "EVAL" /\ b.instr = "EVAL" =>
               /\ a.mtime > b.mtime => Met(a, b)[1] = "SYNC" /\ Met(a, b)[2] = "EVAL"
               /\ a.mtime <= b.mtime => Met(a, b)[1] = "NONE" /\ Met(a, b)[2] = "EVAL"
         /\ a.instr \in {"NEW", "EVAL"} /\ b.instr = "NONE" =>
               Met(a, b)[1] = "SYNC" /\ Met(a, b)[2] = "NONE"
         /\ \/ /\ a.instr \in {"NEW", "EVAL"}
               /\ b.instr \in {"SYNC", "REMOVE", "RENAME"}
            \/ /\ a.instr \in {"NONE", "SYNC", "REMOVE", "RENAME"}
               /\ b.instr # "ABSENT"
            => Met(a, b)[1] = a.instr /\ Met(a, b)[2] = b.instr
<1> USE DEF Met
<1>0. a.mtime \in Nat /\ b.mtime \in Nat
  BY DEF Node
<1>1. b.instr = "ABSENT" => /\ Met(a, b)[2] = "ABSENT"
                            /\ Met(a, b)[1] = Alone(a.instr)
  BY DEF Visit
<1>2. /\ a.instr \in {"NEW", "EVAL", "RENAME"} => Alone(a.instr) = "NEW"
      /\ a.instr = "NONE" => Alone(a.instr) = "REMOVE"
  BY DEF Alone
<1>3. a.instr = "NEW" /\ b.instr = "NEW" =>
         /\ a.mtime > b.mtime => Met(a, b)[1] = "SYNC" /\ Met(a, b)[2] = "NONE"
         /\ a.mtime < b.mtime => Met(a, b)[1] = "NONE" /\ Met(a, b)[2] = "SYNC"
         /\ a.mtime = b.mtime => Met(a, b)[1] = "NONE" /\ Met(a, b)[2] = "NONE"
  BY <1>0 DEF Visit, BothNew, Win
<1>4. a.instr = "EVAL" /\ b.instr = "EVAL" =>
         /\ a.mtime > b.mtime => Met(a, b)[1] = "SYNC" /\ Met(a, b)[2] = "EVAL"
         /\ a.mtime <= b.mtime => Met(a, b)[1] = "NONE" /\ Met(a, b)[2] = "EVAL"
  BY <1>0 DEF Visit, BothModified, Win
<1>5. a.instr \in {"NEW", "EVAL"} /\ b.instr = "NONE" =>
         Met(a, b)[1] = "SYNC" /\ Met(a, b)[2] = "NONE"
  BY DEF Visit
<1>6. a.instr \in {"NEW", "EVAL"} /\ b.instr \in {"SYNC", "REMOVE", "RENAME"} =>
         Met(a, b)[1] = a.instr /\ Met(a, b)[2] = b.instr
  BY DEF Visit
<1>7. a.instr \in {"NONE", "SYNC", "REMOVE", "RENAME"} /\ b.instr # "ABSENT" =>
         Met(a, b)[1] = a.instr /\ Met(a, b)[2] = b.instr
  BY DEF Visit
<1> HIDE DEF Met
<1> QED BY <1>1, <1>2, <1>3, <1>4, <1>5, <1>6, <1>7

(* The two nodes that were found, and what becomes of them.                *)
Verdict(a, b, i, j) ==
    \/ a.instr = "ABSENT" /\ b.instr = "ABSENT" /\ i = "ABSENT" /\ j = "ABSENT"
    \/ /\ a.instr \in {"NEW", "EVAL", "RENAME"} /\ b.instr = "ABSENT"
       /\ i = "NEW" /\ j = "ABSENT"
    \/ a.instr = "NONE" /\ b.instr = "ABSENT" /\ i = "REMOVE" /\ j = "ABSENT"
    \/ a.instr = "ABSENT" /\ b.instr \in {"NEW", "EVAL"} /\ i = "ABSENT" /\ j = "NEW"
    \/ a.instr = "ABSENT" /\ b.instr = "NONE" /\ i = "ABSENT" /\ j = "REMOVE"
    \/ /\ a.instr = "NEW" /\ b.instr = "NEW"
       /\ \/ a.mtime > b.mtime /\ i = "SYNC" /\ j = "NONE"
          \/ a.mtime < b.mtime /\ i = "NONE" /\ j = "SYNC"
          \/ a.mtime = b.mtime /\ i = "NONE" /\ j = "NONE"
    \/ /\ a.instr = "EVAL" /\ b.instr = "EVAL"
       /\ \/ a.mtime > b.mtime /\ i = "SYNC" /\ j = "EVAL"
          \/ a.mtime <= b.mtime /\ i = "NONE" /\ j = "SYNC"
    \/ a.instr \in {"NEW", "EVAL"} /\ b.instr = "NONE" /\ i = "SYNC" /\ j = "NONE"
    \/ a.instr = "NONE" /\ b.instr \in {"NEW", "EVAL"} /\ i = "NONE" /\ j = "SYNC"
    \/ a.instr = "NONE" /\ b.instr = "NONE" /\ i = "NONE" /\ j = "NONE"
    \/ a.instr = "RENAME" /\ b.instr = "NEW" /\ i = "RENAME" /\ j = "NEW"

(* The instructions that one path can have in the two trees.               *)
Matching(x, y) ==
    /\ x \in Found /\ y \in Found /\ y # "RENAME"
    /\ x = "NEW" => y \in {"ABSENT", "NEW"}
    /\ x = "RENAME" => y \in {"ABSENT", "NEW"}
    /\ x = "EVAL" => y # "NEW"
    /\ x = "NONE" => y # "NEW"

(* Both passes over one pair of nodes come to a verdict. *)
LEMMA VisitedTwice ==
  ASSUME NEW a \in Node, NEW b \in Node, NEW U \in Node, NEW V \in Node,
         NEW i, NEW j,
         Matching(a.instr, b.instr),
         U.mtime = a.mtime, V.mtime = b.mtime,
         a.instr = "ABSENT" => U.instr = "ABSENT" /\ V.instr = b.instr,
         a.instr # "ABSENT" => /\ U.instr = Met(a, b)[1]
                               /\ V.instr = Met(a, b)[2],
         V.instr = "ABSENT" => i = U.instr /\ j = "ABSENT",
         V.instr # "ABSENT" => /\ j = Met(V, U)[1]
                               /\ i = Met(V, U)[2]
  PROVE  Verdict(a, b, i, j)
<1>0. a.mtime \in Nat /\ b.mtime \in Nat
  BY DEF Node
<1>m. /\ a.instr \in Found /\ b.instr \in Found \ {"RENAME"}
      /\ a.instr \in {"NEW", "RENAME"} => b.instr \in {"ABSENT", "NEW"}
      /\ a.instr \in {"EVAL", "NONE"} => b.instr # "NEW"
  BY DEF Matching
<1>1. CASE a.instr = "ABSENT"
  <2>1. CASE b.instr = "ABSENT"
    BY <1>1, <2>1 DEF Verdict
  <2>2. CASE b.instr # "ABSENT"
    <3>1. i = "ABSENT" /\ (b.instr = "NONE" => j = "REMOVE")
          /\ (b.instr \in {"NEW", "EVAL"} => j = "NEW")
      BY <1>1, <2>2, VisitIs
    <3> QED BY <1>m, <1>1, <2>2, <3>1 DEF Verdict, Found
  <2> QED BY <2>1, <2>2
<1>2. CASE a.instr # "ABSENT" /\ b.instr = "ABSENT"
  <2>1. V.instr = "ABSENT" /\ i = U.instr /\ j = "ABSENT"
    BY <1>2, VisitIs
  <2>2. /\ a.instr \in {"NEW", "EVAL", "RENAME"} => U.instr = "NEW"
        /\ a.instr = "NONE" => U.instr = "REMOVE"
    BY <1>2, VisitIs
  <2> QED BY <1>m, <1>2, <2>1, <2>2 DEF Verdict, Found
<1>3. CASE a.instr = "NEW" /\ b.instr = "NEW"
  <2>1. CASE a.mtime > b.mtime
    <3>1. U.instr = "SYNC" /\ V.instr = "NONE"
      BY <1>3, <2>1, VisitIs
    <3>2. j = "NONE" /\ i = "SYNC"
      BY <3>1, VisitIs
    <3> QED BY <1>3, <2>1, <3>2 DEF Verdict
  <2>2. CASE a.mtime < b.mtime
    <3>1. U.instr = "NONE" /\ V.instr = "SYNC"
      BY <1>3, <2>2, VisitIs
    <3>2. j = "SYNC" /\ i = "NONE"
      BY <3>1, VisitIs
    <3> QED BY <1>3, <2>2, <3>2 DEF Verdict
  <2>3. CASE a.mtime = b.mtime
    <3>1. U.instr = "NONE" /\ V.instr = "NONE"
      BY <1>3, <2>3, VisitIs
    <3>2. j = "NONE" /\ i = "NONE"
      BY <3>1, VisitIs
    <3> QED BY <1>3, <2>3, <3>2 DEF Verdict
  <2> QED BY <1>0, <2>1, <2>2, <2>3
<1>4. CASE a.instr = "EVAL" /\ b.instr = "EVAL"
  <2>1. CASE a.mtime > b.mtime
    <3>1. U.instr = "SYNC" /\ V.instr = "EVAL"
      BY <1>4, <2>1, VisitIs
    <3>2. j = "EVAL" /\ i = "SYNC"
      BY <3>1, VisitIs
    <3> QED BY <1>4, <2>1, <3>2 DEF Verdict
  <2>2. CASE a.mtime <= b.mtime
    <3>1. U.instr = "NONE" /\ V.instr = "EVAL"
      BY <1>4, <2>2, VisitIs
    <3>2. j = "SYNC" /\ i = "NONE"
      BY <3>1, VisitIs
    <3> QED BY <1>4, <2>2, <3>2 DEF Verdict
  <2> QED BY <1>0, <2>1, <2>2
<1>5. CASE a.instr \in {"NEW", "EVAL"} /\ b.instr = "NONE"
  <2>1. U.instr = "SYNC" /\ V.instr = "NONE"
    BY <1>5, VisitIs
  <2>2. j = "NONE" /\ i = "SYNC"
    BY <2>1, VisitIs
  <2> QED BY <1>5, <2>2 DEF Verdict
<1>6. CASE a.instr = "NONE" /\ b.instr \in {"EVAL", "NONE"}
  <2>1. U.instr = "NONE" /\ V.instr = b.instr
    BY <1>6, VisitIs
  <2>2. /\ b.instr = "NONE" => j = "NONE" /\ i = "NONE"
        /\ b.instr = "EVAL" => j = "SYNC" /\ i = "NONE"
    BY <2>1, <1>6, VisitIs
  <2> QED BY <1>6, <2>2 DEF Verdict
<1>7. CASE a.instr = "RENAME" /\ b.instr = "NEW"
  <2>1. U.instr = "RENAME" /\ V.instr = "NEW"
    BY <1>7, VisitIs
  <2>2. j = "NEW" /\ i = "RENAME"
    BY <2>1, VisitIs
  <2> QED BY <1>7, <2>2 DEF Verdict
<1> QED BY <1>m, <1>1, <1>2, <1>3, <1>4, <1>5, <1>6, <1>7 DEF Found

(* Reconciling both trees gives every path its verdict. *)
LEMMA VerdictIs ==
  ASSUME NEW t \in Trees, NEW p \in Path,
         Matching(t["local"][p].instr, t["remote"][p].instr),
         NEW T, T = Reconciled(Reconciled(t, "local"), "remote")
  PROVE  /\ T["local"][p].mtime = t["local"][p].mtime
         /\ T["remote"][p].mtime = t["remote"][p].mtime
         /\ Verdict(t["local"][p], t["remote"][p],
                    T["local"][p].instr, T["remote"][p].instr)
<1> DEFINE u == Reconciled(t, "local")
<1>1. "local" \in Replica /\ "remote" \in Replica
  BY DEF Replica
<1>2. u \in Trees
  BY <1>1, ReconciledTypes
<1> DEFINE a == t["local"][p]
           b == t["remote"][p]
           U == u["local"][p]
           V == u["remote"][p]
<1>3. a \in Node /\ b \in Node /\ U \in Node /\ V \in Node
  BY <1>1, <1>2 DEF Trees
<1>4. /\ U.mtime = a.mtime /\ V.mtime = b.mtime
      /\ a.instr = "ABSENT" => U.instr = "ABSENT" /\ V.instr = b.instr
      /\ a.instr # "ABSENT" => /\ U.instr = Met(a, b)[1]
                               /\ V.instr = Met(a, b)[2]
  BY <1>1, ReconciledAt
<1>5. T = Reconciled(u, "remote")
  OBVIOUS
<1> HIDE DEF u
<1>6. /\ T["local"][p].mtime = U.mtime /\ T["remote"][p].mtime = V.mtime
      /\ V.instr = "ABSENT" => /\ T["local"][p].instr = U.instr
                               /\ T["remote"][p].instr = "ABSENT"
      /\ V.instr # "ABSENT" => /\ T["remote"][p].instr = Met(V, U)[1]
                               /\ T["local"][p].instr = Met(V, U)[2]
  BY <1>1, <1>2, <1>5, ReconciledAt
<1>7. Matching(a.instr, b.instr)
  OBVIOUS
<1> DEFINE i == T["local"][p].instr
           j == T["remote"][p].instr
<1> HIDE DEF a, b, U, V, i, j
<1>8. /\ V.instr = "ABSENT" => i = U.instr /\ j = "ABSENT"
      /\ V.instr # "ABSENT" => /\ j = Met(V, U)[1]
                               /\ i = Met(V, U)[2]
  BY <1>6 DEF i, j
<1>9. Verdict(a, b, i, j)
  BY <1>3, <1>4, <1>7, <1>8, VisitedTwice
<1> QED BY <1>4, <1>6, <1>9 DEF a, b, i, j

-----------------------------------------------------------------------------
(* The invariant behind the first theorem.                                 *)
Propagating == {"files", "dirs", "cleanup", "commit"}

(* Whatever is on a disk is in a directory.                                *)
Shape == \A r \in Replica : Grounded(disk[r])

(* Nothing has a time in the future. *)
Clocked ==
    /\ now > 0
    /\ \A p \in Path : journal[p] <= now
    /\ \A r \in Replica, p \in Path :
         disk[r][p] <= now /\ tree[r][p].mtime <= now

Resting ==
    step = "idle" => /\ tree = EmptyTrees /\ opening = {} /\ todo = {}
                     /\ list = {} /\ unseen = {} /\ current = "local"

(* The trees hold what walks come to, and the directories above it.        *)
Nodes ==
    \A r \in Replica, p \in Path : Present(r, p) =>
        /\ p \notin Unwalked /\ tree[r][p].mtime # 0
        /\ Parent[p] = Top \/ Present(r, Parent[p])

(* What update detection has found out, and what it is about to do.        *)
Walking ==
    step = "update" =>
      /\ \A r \in Replica, p \in Path :
           Tells(r, p, Instr(r, p), tree[r][p].mtime)
      /\ \A p \in todo : /\ p \notin Unwalked
                         /\ Parent[p] = Top \/ Present(current, Parent[p])
      /\ \A d \in opening \ {Top} :
            Present(current, d) /\ Cardinality(UpTo[d]) <= MaxDepth
      /\ list = {}
      /\ current = "local" => \A p \in Path : ~Present("remote", p)

(* The walk of a replica that is still to come to a path.                  *)
Pending(r, p) ==
    \/ current = "local" /\ r = "remote"
    \/ current = r /\ (Top \in opening \/ UpTo[p] \cap (todo \cup opening) # {})

(* What is on disk and was not missed is in the tree, or will be.          *)
Seen ==
    step = "update" =>
        \A r \in Replica, p \in Path \ (Unwalked \cup unseen) :
            disk[r][p] # 0 /\ ~Present(r, p) => Pending(r, p)

(* What is to be removed was in the journal, and is not in the other tree. *)
Removing ==
    \A r \in Replica, p \in Path : Instr(r, p) = "REMOVE" =>
        step \in Propagating /\ journal[p] # 0 /\ ~Present(Other(r), p)

Pushable == {"NEW", "EVAL", "RENAME", "SYNC", "UPDATED", "ERROR"}

(* Where nobody interfered, what is or was to be sent is still there, if   *)
(* what it is in is.                                                       *)
Kept ==
    \A r \in Replica, c \in Path : Instr(r, c) \in Pushable =>
        \A d \in UpTo[c] \ unseen :
            (step = "update" \/ ~Present(Other(r), d)) /\ disk[r][d] # 0 =>
                disk[r][c] # 0

(* A directory that is to be removed and is on the other replica none the  *)
(* less was made there for something that is in it here, which the other   *)
(* replica did not have.                                                   *)
Occupied ==
    \A r \in Replica, d \in Path \ unseen :
        Instr(r, d) = "REMOVE" /\ disk[r][d] # 0 /\ disk[Other(r)][d] # 0 =>
            \E c \in Sub(d) \ {d} :
                disk[r][c] # 0 /\ Instr(r, c) \in {"UPDATED", "ERROR"}

(* What is to be acted upon is still to be come to. *)
Ahead(r, p) ==
    \/ r = "remote" /\ current = "local" /\ step \in {"files", "dirs", "cleanup"}
    \/ /\ current = r
       /\ \/ step = "files" /\ (p \in Dir \/ p \in todo)
          \/ step = "dirs" /\ p \in Dir /\ p \in todo \cup list
          \/ step = "cleanup" /\ p \in list

Course ==
    step \in Propagating =>
      /\ \A r \in Replica, p \in Path : Instr(r, p) \in Acting => Ahead(r, p)
      /\ step = "files" => todo \subseteq Path \ Dir /\ list = {}
      /\ step = "dirs" => todo \subseteq Dir
      /\ step = "cleanup" => todo = {}
      /\ step = "commit" => todo = {} /\ list = {} /\ current = "local"
      /\ opening = {} /\ todo \cap list = {}
      /\ \A p \in list : Instr(current, p) = "REMOVE"
      /\ \A p \in todo : Instr(current, p) \in Acting

InvA == /\ TypeOK
        /\ Shape /\ Clocked /\ Resting /\ Nodes /\ Walking /\ Seen /\ Removing
        /\ Kept /\ Occupied /\ Course

-----------------------------------------------------------------------------
(* What it says of single steps.                                           *)
LEMMA PresentUp ==
  ASSUME Nodes, NEW r \in Replica, NEW p \in Path, Present(r, p),
         NEW d \in UpTo[p]
  PROVE  Present(r, d)
<1> DEFINE P == {q \in UpTo[p] : Present(r, q)}
<1>1. UpTo[p] \subseteq Path /\ p \in UpTo[p] /\ Upward(UpTo[p])
  BY UpToGoesUp
<1>2. p \in P /\ P \in SUBSET Path
  BY <1>1
<1>3. \A q \in P : Parent[q] = Top \/ Parent[q] \in P
  BY <1>1 DEF Upward, Nodes
<1>4. Upward(P)
  <2> HIDE DEF P
  <2> QED BY <1>3 DEF Upward
<1> HIDE DEF P
<1>5. UpTo[p] \subseteq P
  BY <1>2, <1>4, UpToIsLeast
<1> QED BY <1>5 DEF P

(* A user's step leaves the program's state alone. *)
LEMMA UserFrame ==
  ASSUME NEW r \in Replica, NEW p \in Path, UserWrites(r, p) \/ UserDeletes(r, p)
  PROVE  /\ UNCHANGED <<journal, tree, step, current, replica, opening, todo, list>>
         /\ now' = now + 1 /\ calm' = 0
         /\ unseen' = IF step = "idle" THEN {} ELSE unseen \cup UpTo[p]
BY DEF UserWrites, UserDeletes, UserActs, ctxVars, Meanwhile

(* A user's step grows or shrinks one disk. *)
LEMMA UserDisk ==
  ASSUME InvA, NEW r \in Replica, NEW p \in Path,
         UserWrites(r, p) \/ UserDeletes(r, p)
  PROVE  /\ disk' \in [Replica -> Times]
         /\ disk'[Other(r)] = disk[Other(r)]
         /\ \/ Grows(disk[r], disk'[r], p, now + 1) /\ disk'[r][p] = now + 1
            \/ Shrinks(disk[r], disk'[r], Gone(r, p), now + 1)
BY UserWritesIs, UserDeletesIs DEF InvA

(* A propagation, under the invariant: what it may write at the            *)
(* destination.                                                            *)
LEMMA SendsIs ==
  ASSUME InvA, NEW p \in Path, Sends(p)
  PROVE  /\ disk' \in [Replica -> Times] /\ disk'[current] = disk[current]
         /\ Grows(disk[Dest], disk'[Dest], p, now)
         /\ disk'[Dest][p] \in {disk[Dest][p], tree[current][p].mtime, now}
         /\ Present(current, p)
<1>1. current \in Replica /\ now > 0 /\ TypeOK
  BY DEF InvA, TypeOK, Clocked
<1>2. Present(current, p)
  BY <1>1, SendsFrame DEF Present
<1>3. tree[current][p].mtime # 0
  BY <1>1, <1>2 DEF InvA, Nodes
<1> QED BY <1>1, <1>2, <1>3, SendsDisk, SendsTime

(* A removal, under the invariant: where it stands and what it may do. *)
LEMMA DropsAre ==
  ASSUME InvA, ~Collections, NEW p \in Path, Drops(p)
  PROVE  /\ Goes(p) \/ PutOff(p) \/ Stays(p)
         /\ Instr(current, p) = "REMOVE" /\ p # Top
<1>1. step \in Propagating /\ TypeOK /\ Course
  BY DropsFrame DEF InvA, Propagating
<1>2. step = "files" => todo \cap Dir = {}
  BY <1>1 DEF Course
<1>3. Goes(p) \/ PutOff(p) \/ Stays(p)
  BY <1>1, <1>2, DropsIs DEF InvA, Shape, Clocked
<1>4. Instr(current, p) = "REMOVE"
  BY <1>1, DropsFrame DEF Course
<1> QED BY <1>3, <1>4, PathTypes

(* Everything else leaves the disks alone. *)
LEMMA DiskSteps ==
  ASSUME [Next]_vars
  PROVE  \/ \E r \in Replica, p \in Path : UserWrites(r, p) \/ UserDeletes(r, p)
         \/ \E p \in Path : Sends(p) \/ Drops(p)
         \/ UNCHANGED disk
BY Moves DEF Opens, OpenDir, OpenDenied, DetectUpdate, StartRun, NextReplica,
       Reconcile, NextPass, Commit, Aborts, Crash, OpenFails, vars

(* The trees change in few ways. *)
TreeMoves(p) == \E x \in {"UPDATED", "ERROR", "DELETED", "NONE"} : NodeEnds(p, x)

(* The steps that change the trees. *)
LEMMA TreeSteps ==
  ASSUME [Next]_vars, TypeOK
  PROVE  \/ UNCHANGED tree
         \/ EndRun
         \/ Reconcile
         \/ \E p \in Path : DetectUpdate(p)
         \/ \E p \in Path : Sends(p) /\ TreeMoves(p)
         \/ \E p \in Path : Drops(p) /\ TreeMoves(p)
<1>1. ASSUME NEW p \in Path, Sends(p) PROVE TreeMoves(p)
  BY <1>1, SendsFrame DEF TreeMoves
<1>2. ASSUME NEW p \in Path, Drops(p) PROVE TreeMoves(p) \/ UNCHANGED tree
  BY <1>2 DEF TreeMoves, Drops, RemoveFile, RemoveDir, Cleanup, Ends, NodeEnds
<1>3. ASSUME NEW r \in Replica, NEW p \in Path, UserWrites(r, p) \/ UserDeletes(r, p)
      PROVE  UNCHANGED tree
  BY <1>3, UserFrame
<1>4. ASSUME NEW d, Opens(d) PROVE UNCHANGED tree
  BY <1>4 DEF Opens, OpenDir, OpenDenied
<1>5. ASSUME StartRun \/ NextReplica \/ NextPass \/ UNCHANGED vars PROVE UNCHANGED tree
  BY <1>5 DEF StartRun, NextReplica, NextPass, vars
<1>6. ASSUME Commit \/ Aborts PROVE EndRun
  BY <1>6 DEF Commit, Aborts, Crash, OpenFails
<1> QED BY Moves, <1>1, <1>2, <1>3, <1>4, <1>5, <1>6

(* An instruction carried out ends in one of four words. *)
LEMMA TreeMovesIs ==
  ASSUME TypeOK, NEW p \in Path, TreeMoves(p)
  PROVE  /\ tree'[current][p].instr \in {"UPDATED", "ERROR", "DELETED", "NONE"}
         /\ tree'[current][p].mtime = tree[current][p].mtime
         /\ \A q \in Path : q # p => tree'[current][q] = tree[current][q]
         /\ tree'[Other(current)] = tree[Other(current)]
<1>1. PICK x \in {"UPDATED", "ERROR", "DELETED", "NONE"} : NodeEnds(p, x)
  BY DEF TreeMoves
<1>2. x \in Word
  BY DEF Word, Instruction
<1> QED BY <1>1, <1>2, NodeEndsIs

(* The parts of InvA that speak of one thing each.                         *)
LEMMA Parts ==
  ASSUME InvA
  PROVE  /\ TypeOK /\ current \in Replica /\ Dest \in Replica /\ Dest # current
         /\ Other(current) = Dest /\ Other(Dest) = current
         /\ \A r \in Replica : r = current \/ r = Dest
         /\ disk \in [Replica -> Times] /\ tree \in Trees /\ journal \in Times
         /\ now \in Nat /\ now > 0
         /\ \A r \in Replica, p \in Path : disk[r][p] \in Nat /\ tree[r][p].mtime \in Nat
         /\ \A p \in Path : journal[p] \in Nat
BY DestIs, OtherIs DEF InvA, TypeOK, Times, Trees, Clocked, Node

(* No step leaves a disk with a child that has no parent ... *)
LEMMA StepShape ==
  ASSUME InvA, ~Collections, [Next]_vars
  PROVE  Shape'
<1> SUFFICES ASSUME NEW s \in Replica PROVE Grounded(disk'[s])
  BY DEF Shape
<1>0. \A r \in Replica : Grounded(disk[r])
  BY DEF InvA, Shape
<1>1. ASSUME NEW r \in Replica, NEW p \in Path, UserWrites(r, p) \/ UserDeletes(r, p)
      PROVE  Grounded(disk'[s])
  <2>1. CASE s # r
    BY <1>0, <1>1, <2>1, UserDisk, OtherIs
  <2>2. CASE s = r /\ Grows(disk[r], disk'[r], p, now + 1)
    BY <1>0, <2>2, GrowsGrounded
  <2>3. CASE s = r /\ Shrinks(disk[r], disk'[r], Gone(r, p), now + 1)
    <3>1. \A q \in Path : Parent[q] \in Gone(r, p) => disk[r][q] = 0 \/ q \in Gone(r, p)
      BY SubGoes, PathTypes DEF Gone, There
    <3> QED BY <1>0, <2>3, <3>1, ShrinksGrounded
  <2> QED BY <1>1, <2>1, <2>2, <2>3, UserDisk
<1>2. ASSUME NEW p \in Path, Sends(p) PROVE Grounded(disk'[s])
  <2>1. Grounded(disk'[Dest])
    BY <1>0, <1>2, SendsIs, GrowsGrounded, Parts
  <2> QED BY <1>0, <1>2, <2>1, SendsIs, Parts
<1>3. ASSUME NEW p \in Path, Drops(p) PROVE Grounded(disk'[s])
  <2>1. CASE Goes(p)
    <3> DEFINE P == {p}
    <3>1. Shrinks(disk[current], disk'[current], P, now)
      BY <2>1 DEF Goes
    <3>2. \A q \in Path : Parent[q] \in P => disk[current][q] = 0 \/ q \in P
      BY <2>1 DEF Goes
    <3> HIDE DEF P
    <3>3. Grounded(disk'[current])
      BY <1>0, <3>1, <3>2, ShrinksGrounded, Parts
    <3> QED BY <1>0, <2>1, <3>3, Parts DEF Goes
  <2>2. CASE PutOff(p) \/ Stays(p)
    BY <1>0, <2>2 DEF PutOff, Stays
  <2> QED BY <1>3, <2>1, <2>2, DropsAre
<1> QED BY DiskSteps, <1>0, <1>1, <1>2, <1>3

(* The clock goes on. *)
LEMMA ClockGoesOn ==
  ASSUME InvA, [Next]_vars
  PROVE  /\ now' \in Nat /\ now' >= now
         /\ \A r \in Replica, p \in Path : UserWrites(r, p) \/ UserDeletes(r, p)
               => now' = now + 1
<1>1. ASSUME NEW r \in Replica, NEW p \in Path, UserWrites(r, p) \/ UserDeletes(r, p)
      PROVE  now' = now + 1
  BY <1>1, UserFrame
<1>2. ASSUME NEW d, Opens(d) PROVE now' = now
  BY <1>2 DEF Opens, OpenDir, OpenDenied
<1>3. ASSUME NEW p \in Path, DetectUpdate(p) \/ Sends(p) \/ Drops(p) PROVE now' = now
  <2>1. TypeOK
    BY Parts
  <2>2. CASE Sends(p)
    BY <2>1, <2>2, SendsFrame
  <2>3. CASE Drops(p)
    BY <2>1, <2>3, DropsFrame
  <2>4. CASE DetectUpdate(p)
    BY <2>4 DEF DetectUpdate, bounds
  <2> QED BY <1>3, <2>2, <2>3, <2>4
<1>4. ASSUME StartRun PROVE now' \in {now, now + 1}
  BY <1>4 DEF StartRun
<1>5. ASSUME NextReplica \/ Reconcile \/ NextPass \/ Commit \/ Aborts \/ UNCHANGED vars
      PROVE  now' = now
  BY <1>5 DEF NextReplica, Reconcile, NextPass, Commit, Aborts, Crash, OpenFails,
              bounds, vars
<1>6. now' \in {now, now + 1}
  BY Moves, <1>1, <1>2, <1>3, <1>4, <1>5
<1> QED BY <1>1, <1>6, Parts

(* ... nor an entry dated after the clock ... *)
LEMMA StepDiskClocked ==
  ASSUME InvA, ~Collections, [Next]_vars, NEW s \in Replica, NEW q \in Path
  PROVE  disk'[s][q] <= now'
<1>0. /\ disk[s][q] <= now /\ disk[s][q] \in Nat /\ now \in Nat
      /\ now' \in Nat /\ now' >= now
      /\ \A r \in Replica, p \in Path : tree[r][p].mtime <= now
  BY Parts, ClockGoesOn DEF InvA, Clocked
<1>1. ASSUME NEW r \in Replica, NEW p \in Path, UserWrites(r, p) \/ UserDeletes(r, p)
      PROVE  disk'[s][q] <= now'
  <2>1. now' = now + 1
    BY <1>1, UserFrame
  <2>2. CASE s # r
    BY <1>0, <1>1, <2>2, UserDisk, OtherIs
  <2>3. CASE s = r
    <3>1. disk'[s][q] \in {0, disk[s][q], now + 1}
      BY <1>1, <2>3, UserDisk DEF Grows, Shrinks
    <3> QED BY <1>0, <2>1, <3>1
  <2> QED BY <2>2, <2>3
<1>2. ASSUME NEW p \in Path, Sends(p) PROVE disk'[s][q] <= now'
  <2>1. CASE s = current
    BY <1>0, <1>2, <2>1, SendsIs
  <2>2. CASE s = Dest
    <3>1. disk'[s][q] \in {disk[s][q], tree[current][p].mtime, now}
      BY <1>2, <2>2, SendsIs DEF Grows
    <3>2. tree[current][p].mtime <= now /\ tree[current][p].mtime \in Nat
      BY <1>0, Parts
    <3> QED BY <1>0, <3>1, <3>2
  <2> QED BY <2>1, <2>2, Parts
<1>3. ASSUME NEW p \in Path, Drops(p) PROVE disk'[s][q] <= now'
  <2>1. CASE Goes(p)
    <3>1. s = current => disk'[s][q] \in {0, disk[s][q], now}
      BY <2>1 DEF Goes, Shrinks
    <3>2. s # current => disk'[s] = disk[s]
      BY <2>1, Parts DEF Goes
    <3> QED BY <1>0, <3>1, <3>2
  <2>2. CASE PutOff(p) \/ Stays(p)
    BY <1>0, <2>2 DEF PutOff, Stays
  <2> QED BY <1>3, <2>1, <2>2, DropsAre
<1>4. CASE UNCHANGED disk
  BY <1>0, <1>4
<1> QED BY DiskSteps, <1>1, <1>2, <1>3, <1>4

(* The times in the trees are those of the disks at some moment.           *)
LEMMA MtimeSteps ==
  ASSUME InvA, [Next]_vars, NEW s \in Replica, NEW q \in Path
  PROVE  \/ tree'[s][q].mtime = tree[s][q].mtime
         \/ tree'[s][q].mtime = 0 /\ EndRun
         \/ tree'[s][q].mtime = disk[s][q] /\ s = current /\ DetectUpdate(q)
<1>t. TypeOK
  BY Parts
<1>1. CASE UNCHANGED tree
  BY <1>1
<1>2. CASE EndRun
  BY <1>2 DEF EndRun, EmptyTrees, Absent
<1>3. CASE Reconcile
  <2>1. tree' = Reconciled(Reconciled(tree, "local"), "remote")
    BY <1>3 DEF Reconcile
  <2>2. /\ tree \in Trees /\ "local" \in Replica /\ "remote" \in Replica
        /\ "local" # "remote" /\ (s = "local" \/ s = "remote")
    BY Parts DEF Replica
  <2>3. Reconciled(tree, "local") \in Trees
    BY <2>2, ReconciledTypes
  <2> DEFINE u == Reconciled(tree, "local")
  <2>4. /\ u["local"][q].mtime = tree["local"][q].mtime
        /\ u["remote"][q].mtime = tree["remote"][q].mtime
    BY <2>2, ReconciledAt
  <2> HIDE DEF u
  <2>5. /\ tree'["local"][q].mtime = u["local"][q].mtime
        /\ tree'["remote"][q].mtime = u["remote"][q].mtime
    BY <2>1, <2>2, <2>3, ReconciledAt DEF u
  <2> QED BY <2>2, <2>4, <2>5
<1>4. ASSUME NEW p \in Path, DetectUpdate(p)
      PROVE  \/ tree'[s][q].mtime = tree[s][q].mtime
             \/ tree'[s][q].mtime = disk[s][q] /\ s = current /\ q = p
  <2>1. \/ UNCHANGED tree
        \/ \E n \in Node : /\ n.mtime = disk[current][p]
                           /\ tree' = [tree EXCEPT ![current][p] = n]
    BY <1>t, <1>4, DetectTree
  <2>2. tree \in Trees /\ current \in Replica
    BY Parts
  <2> QED BY <2>1, <2>2 DEF Trees
<1>5. ASSUME NEW p \in Path, TreeMoves(p) PROVE tree'[s][q].mtime = tree[s][q].mtime
  BY <1>t, <1>5, TreeMovesIs, Parts
<1> QED BY <1>t, TreeSteps, <1>1, <1>2, <1>3, <1>4, <1>5

(* ... nor a node or a journal row ... *)
LEMMA StepClocked ==
  ASSUME InvA, ~Collections, [Next]_vars
  PROVE  Clocked'
<1>0. now \in Nat /\ now' \in Nat /\ now' >= now /\ now > 0 /\ Clocked
  BY Parts, ClockGoesOn DEF InvA
<1>1. \A r \in Replica, p \in Path : disk'[r][p] <= now'
  BY StepDiskClocked
<1>2. ASSUME NEW r \in Replica, NEW p \in Path PROVE tree'[r][p].mtime <= now'
  <2>1. tree'[r][p].mtime \in {tree[r][p].mtime, 0, disk[r][p]}
    BY MtimeSteps
  <2>2. /\ tree[r][p].mtime \in Nat /\ disk[r][p] \in Nat
        /\ tree[r][p].mtime <= now /\ disk[r][p] <= now
    BY <1>0, Parts DEF Clocked
  <2> QED BY <1>0, <2>1, <2>2
<1>3. ASSUME NEW p \in Path PROVE journal'[p] <= now'
  <2>1. journal'[p] \in {0, journal[p], disk["local"][p], tree["local"][p].mtime}
    <3>1. CASE Commit
      BY <3>1 DEF Commit, Merged
    <3>2. CASE ~Commit
      <4>1. UNCHANGED journal
        BY <3>2, Moves, UserFrame, SendsFrame, DropsFrame, Parts
           DEF Opens, OpenDir, OpenDenied, DetectUpdate, StartRun, NextReplica,
               Reconcile, NextPass, Aborts, Crash, OpenFails, vars
      <4> QED BY <4>1
    <3> QED BY <3>1, <3>2
  <2>2. "local" \in Replica
    BY DEF Replica
  <2>3. /\ journal[p] \in Nat /\ disk["local"][p] \in Nat
        /\ tree["local"][p].mtime \in Nat /\ journal[p] <= now
        /\ disk["local"][p] <= now /\ tree["local"][p].mtime <= now
    BY <1>0, <2>2, Parts DEF Clocked
  <2> QED BY <1>0, <2>1, <2>3
<1> QED BY <1>0, <1>1, <1>2, <1>3 DEF Clocked

(* ... nor anything of a run when no run is going on. *)
LEMMA StepResting ==
  ASSUME InvA, ~Collections, [Next]_vars
  PROVE  Resting'
<1> SUFFICES ASSUME step' = "idle"
             PROVE  /\ tree' = EmptyTrees /\ opening' = {} /\ todo' = {}
                    /\ list' = {} /\ unseen' = {} /\ current' = "local"
  BY DEF Resting, EmptyTrees
<1>1. ASSUME step = "idle", UNCHANGED <<tree, step, current, opening, todo, list>>,
             unseen' = {}
      PROVE  /\ tree' = EmptyTrees /\ opening' = {} /\ todo' = {}
             /\ list' = {} /\ unseen' = {} /\ current' = "local"
  BY <1>1 DEF InvA, Resting
<1>2. ASSUME NEW r \in Replica, NEW p \in Path, UserWrites(r, p) \/ UserDeletes(r, p)
      PROVE  /\ tree' = EmptyTrees /\ opening' = {} /\ todo' = {}
             /\ list' = {} /\ unseen' = {} /\ current' = "local"
  BY <1>1, <1>2, UserFrame
<1>3. CASE UNCHANGED vars
  BY <1>1, <1>3 DEF vars, InvA, Resting
<1>4. CASE Commit \/ Aborts
  BY <1>4 DEF Commit, Aborts, Crash, OpenFails, EndRun
<1>5. ASSUME NEW d, Opens(d) PROVE FALSE
  BY <1>5 DEF Opens, OpenDir, OpenDenied
<1>6. ASSUME NEW p \in Path, DetectUpdate(p) \/ Sends(p) \/ Drops(p) PROVE FALSE
  BY <1>6, SendsFrame, DropsFrame, Parts DEF DetectUpdate
<1>7. CASE StartRun \/ NextReplica \/ Reconcile \/ NextPass
  BY <1>7 DEF StartRun, NextReplica, Reconcile, NextPass
<1> QED BY Moves, <1>2, <1>3, <1>4, <1>5, <1>6, <1>7

(* What Reconcile reads and what it leaves at every path. *)
LEMMA ReconcileIs ==
  ASSUME InvA, Reconcile, NEW p \in Path
  PROVE  /\ step = "update" /\ step' = "files"
         /\ tree["local"][p].instr \in Found /\ tree["remote"][p].instr \in Found
         /\ tree'["local"][p].mtime = tree["local"][p].mtime
         /\ tree'["remote"][p].mtime = tree["remote"][p].mtime
         /\ Verdict(tree["local"][p], tree["remote"][p],
                    tree'["local"][p].instr, tree'["remote"][p].instr)
<1>1. /\ tree \in Trees /\ "local" \in Replica /\ "remote" \in Replica
  BY Parts DEF Replica
<1>2. step = "update" /\ tree' = Reconciled(Reconciled(tree, "local"), "remote")
      /\ step' = "files"
  BY DEF Reconcile
<1>3. \A r \in Replica : Tells(r, p, tree[r][p].instr, tree[r][p].mtime)
  BY <1>2 DEF InvA, Walking, Instr
<1>4. /\ tree["local"][p].instr \in Found /\ tree["remote"][p].instr \in Found
      /\ Matching(tree["local"][p].instr, tree["remote"][p].instr)
  BY <1>1, <1>3 DEF Tells, Matching, FoundByHash, Found
<1> QED BY <1>1, <1>2, <1>4, VerdictIs

(* Where a run can go next, and what that leaves alone. *)
LEMMA Phases ==
  ASSUME InvA, [Next]_vars
  PROVE  \/ EndRun
         \/ /\ UNCHANGED journal
            /\ step \in Propagating => step' \in Propagating
            /\ step = "update" => step' = "update" \/ Reconcile
            /\ step = "idle" => step' \in {"idle", "update"} /\ UNCHANGED tree
<1> USE DEF Propagating
<1>t. TypeOK
  BY Parts
<1>1. ASSUME NEW r \in Replica, NEW p \in Path, UserWrites(r, p) \/ UserDeletes(r, p)
      PROVE  UNCHANGED <<journal, step, tree>>
  BY <1>1, UserFrame
<1>2. ASSUME NEW d, Opens(d)
      PROVE  UNCHANGED <<journal, step, tree>>
  BY <1>2 DEF Opens, OpenDir, OpenDenied
<1>3. ASSUME NEW p \in Path, DetectUpdate(p)
      PROVE  step = "update" /\ UNCHANGED <<journal, step>>
  BY <1>3 DEF DetectUpdate
<1>4. ASSUME NEW p \in Path, Sends(p) \/ Drops(p)
      PROVE  step \in Propagating /\ UNCHANGED <<journal, step>>
  BY <1>4, <1>t, SendsFrame, DropsFrame
<1>5. CASE StartRun
  BY <1>5 DEF StartRun
<1>6. CASE NextReplica \/ NextPass \/ Reconcile
  BY <1>6 DEF NextReplica, NextPass, Reconcile
<1>7. CASE Commit \/ Aborts
  BY <1>7 DEF Commit, Aborts, Crash, OpenFails
<1>8. CASE UNCHANGED vars
  BY <1>8 DEF vars
<1>9. "update" \notin Propagating /\ "idle" \notin Propagating
  OBVIOUS
<1> HIDE DEF Propagating
<1> QED BY Moves, <1>1, <1>2, <1>3, <1>4, <1>5, <1>6, <1>7, <1>8, <1>9

(* A node comes when an entry is visited, and goes with the trees.         *)
LEMMA Presence ==
  ASSUME InvA, [Next]_vars
  PROVE  \/ EndRun /\ \A r \in Replica, p \in Path : tree'[r][p].instr = "ABSENT"
         \/ \A r \in Replica, p \in Path :
              /\ Present(r, p) => tree'[r][p].instr # "ABSENT"
              /\ tree'[r][p].instr # "ABSENT" /\ ~Present(r, p) =>
                   DetectUpdate(p) /\ r = current /\ disk[r][p] # 0
<1> USE DEF Present, Instr
<1>t. TypeOK /\ tree \in Trees /\ current \in Replica
  BY Parts
<1>1. CASE EndRun
  BY <1>1 DEF EndRun, EmptyTrees, Absent
<1>2. CASE UNCHANGED tree
  BY <1>2
<1>3. ASSUME Reconcile, NEW r \in Replica, NEW p \in Path
      PROVE  Present(r, p) <=> tree'[r][p].instr # "ABSENT"
  <2>1. Verdict(tree["local"][p], tree["remote"][p],
                    tree'["local"][p].instr, tree'["remote"][p].instr)
    BY <1>3, ReconcileIs
  <2>2. r = "local" \/ r = "remote"
    BY DEF Replica
  <2> QED BY <2>1, <2>2 DEF Verdict
<1>4. ASSUME NEW p \in Path, DetectUpdate(p), NEW r \in Replica, NEW q \in Path
      PROVE  /\ Present(r, q) => tree'[r][q].instr # "ABSENT"
             /\ tree'[r][q].instr # "ABSENT" /\ ~Present(r, q) =>
                   DetectUpdate(q) /\ r = current /\ disk[r][q] # 0
  <2>1. \/ UNCHANGED tree
        \/ /\ disk[current][p] # 0
           /\ \E n \in Node : /\ n.instr # "ABSENT"
                              /\ tree' = [tree EXCEPT ![current][p] = n]
    BY <1>4, <1>t, DetectTree
  <2>2. (r = current /\ q = p) \/ tree'[r][q] = tree[r][q]
    BY <1>t, <2>1 DEF Trees
  <2>3. tree'[current][p] = tree[current][p] \/
        (tree'[current][p].instr # "ABSENT" /\ disk[current][p] # 0)
    BY <1>t, <2>1 DEF Trees
  <2> QED BY <1>4, <2>2, <2>3
<1>5. ASSUME NEW p \in Path, TreeMoves(p), Sends(p) \/ (Drops(p)), NEW r \in Replica, NEW q \in Path
      PROVE  Present(r, q) => tree'[r][q].instr # "ABSENT"
  BY <1>5, <1>t, TreeMovesIs, Parts
<1>6. ASSUME NEW p \in Path, TreeMoves(p), Present(current, p), NEW r \in Replica, NEW q \in Path
      PROVE  Present(r, q) <=> tree'[r][q].instr # "ABSENT"
  BY <1>6, <1>t, TreeMovesIs, Parts
<1>7. ASSUME NEW p \in Path, Sends(p) \/ Drops(p)
      PROVE  Present(current, p)
  <2>1. CASE Sends(p)
    BY <2>1, <1>t, SendsFrame
  <2>2. CASE Drops(p)
    <3>1. Course /\ step \in Propagating
      BY <2>2, <1>t, DropsFrame DEF InvA, Propagating
    <3> QED BY <2>2, <3>1, <1>t, DropsFrame DEF Course
  <2> QED BY <1>7, <2>1, <2>2
<1> HIDE DEF Present, Instr
<1>8. CASE Reconcile
  BY <1>8, <1>3
<1>9. CASE \E p \in Path : DetectUpdate(p)
  BY <1>9, <1>4
<1>10. CASE \E p \in Path : (Sends(p) \/ Drops(p)) /\ TreeMoves(p)
  BY <1>10, <1>6, <1>7
<1> QED BY <1>t, TreeSteps, <1>1, <1>2, <1>8, <1>9, <1>10

(* The nodes of the trees stay what the phase of the run allows. *)
LEMMA StepNodes ==
  ASSUME InvA, ~Collections, [Next]_vars
  PROVE  Nodes'
<1> SUFFICES ASSUME NEW r \in Replica, NEW p \in Path, tree'[r][p].instr # "ABSENT"
             PROVE  /\ p \notin Unwalked /\ tree'[r][p].mtime # 0
                    /\ Parent[p] = Top \/ tree'[r][Parent[p]].instr # "ABSENT"
  BY DEF Nodes, Present, Instr
<1>1. ~EndRun
  BY DEF EndRun, EmptyTrees, Absent
<1>2. \A s \in Replica, q \in Path :
         /\ Present(s, q) => tree'[s][q].instr # "ABSENT"
         /\ tree'[s][q].instr # "ABSENT" /\ ~Present(s, q) =>
              DetectUpdate(q) /\ s = current /\ disk[s][q] # 0
  BY <1>1, Presence
<1>3. Nodes /\ Walking
  BY DEF InvA
<1>4. Parent[p] # Top => Parent[p] \in Path
  BY PathTypes
<1>5. CASE Present(r, p)
  <2>1. tree[r][p].mtime # 0 /\ p \notin Unwalked
        /\ (Parent[p] = Top \/ Present(r, Parent[p]))
    BY <1>3, <1>5 DEF Nodes
  <2>2. tree'[r][p].mtime # 0
    <3>1. \/ tree'[r][p].mtime = tree[r][p].mtime
          \/ tree'[r][p].mtime = disk[r][p] /\ r = current /\ DetectUpdate(p)
      BY <1>1, MtimeSteps
    <3>2. CASE r = current /\ DetectUpdate(p)
      <4>1. disk[current][p] # 0 \/ tree'[r][p].mtime = tree[r][p].mtime
        BY <3>2, PathTypes DEF DetectUpdate, There
      <4> QED BY <2>1, <3>1, <3>2, <4>1
    <3> QED BY <2>1, <3>1, <3>2
  <2> QED BY <1>2, <1>4, <2>1, <2>2
<1>6. CASE ~Present(r, p)
  <2>1. DetectUpdate(p) /\ r = current /\ disk[r][p] # 0
    BY <1>2, <1>6
  <2>2. step = "update" /\ p \in todo
    BY <2>1 DEF DetectUpdate
  <2>3. p \notin Unwalked /\ (Parent[p] = Top \/ Present(r, Parent[p]))
    BY <1>3, <2>1, <2>2 DEF Walking
  <2>4. tree'[r][p].mtime = disk[r][p]
    <3>1. \E n \in Node : /\ n.mtime = disk[current][p]
                          /\ tree' = [tree EXCEPT ![current][p] = n]
      BY <2>1, DetectTree, Parts
    <3> QED BY <2>1, <3>1, Parts DEF Trees
  <2> QED BY <1>2, <1>4, <2>1, <2>3, <2>4
<1> QED BY <1>5, <1>6

(* An entry to be removed stays one the journal knows and the other side   *)
(* lacked.                                                                 *)
LEMMA StepRemoving ==
  ASSUME InvA, ~Collections, [Next]_vars
  PROVE  Removing'
<1> SUFFICES ASSUME NEW r \in Replica, NEW p \in Path, tree'[r][p].instr = "REMOVE"
             PROVE  /\ step' \in Propagating /\ journal'[p] # 0
                    /\ tree'[Other(r)][p].instr = "ABSENT"
  BY DEF Removing, Present, Instr
<1>t. TypeOK /\ Removing /\ Walking /\ Other(r) \in Replica /\ current \in Replica
      /\ tree \in Trees
  BY Parts, OtherIs DEF InvA
<1>1. ~EndRun
  BY DEF EndRun, EmptyTrees, Absent
<1>2. /\ UNCHANGED journal
      /\ step \in Propagating => step' \in Propagating
  BY <1>1, Phases
<1>3. ASSUME tree[r][p].instr = "REMOVE",
             \/ UNCHANGED tree
             \/ \E q \in Path : TreeMoves(q) /\ Present(current, q)
      PROVE  /\ step' \in Propagating /\ journal'[p] # 0
             /\ tree'[Other(r)][p].instr = "ABSENT"
  <2>1. /\ step \in Propagating /\ journal[p] # 0
        /\ tree[Other(r)][p].instr = "ABSENT"
    BY <1>t, <1>3 DEF Removing, Present, Instr
  <2>2. tree'[Other(r)][p].instr = "ABSENT"
    BY <1>3, <1>t, <2>1, TreeMovesIs, Parts DEF Present, Instr
  <2> QED BY <1>2, <2>1, <2>2
<1>4. CASE Reconcile
  <2>1. Verdict(tree["local"][p], tree["remote"][p],
                    tree'["local"][p].instr, tree'["remote"][p].instr)
        /\ step = "update" /\ step' = "files"
    BY <1>4, ReconcileIs
  <2>2. /\ r = "local" \/ r = "remote"
        /\ Other("local") = "remote" /\ Other("remote") = "local"
    BY DEF Replica, Other
  <2>3. tree[r][p].instr = "NONE" /\ tree'[Other(r)][p].instr = "ABSENT"
    BY <2>1, <2>2 DEF Verdict
  <2>4. journal[p] # 0
    <3>1. Tells(r, p, "NONE", tree[r][p].mtime)
      BY <1>t, <2>1, <2>3 DEF Walking, Instr
    <3> QED BY <3>1 DEF Tells, FoundByHash
  <2> QED BY <1>2, <2>1, <2>3, <2>4 DEF Propagating
<1>5. ASSUME NEW q \in Path, DetectUpdate(q) PROVE FALSE
  <2>1. \/ UNCHANGED tree
        \/ \E n \in Node : /\ Tells(current, q, n.instr, n.mtime)
                           /\ tree' = [tree EXCEPT ![current][q] = n]
    BY <1>t, <1>5, DetectTree
  <2>2. tree[r][p].instr = "REMOVE"
    <3>1. ASSUME NEW n \in Node, Tells(current, q, n.instr, n.mtime)
          PROVE  n.instr # "REMOVE"
      BY <3>1 DEF Tells, Found
    <3> QED BY <1>t, <2>1, <3>1 DEF Trees
  <2>3. step = "update"
    BY <1>5 DEF DetectUpdate
  <2> QED BY <1>t, <2>2, <2>3 DEF Removing, Propagating, Instr
<1>6. ASSUME NEW q \in Path, Sends(q) \/ Drops(q), TreeMoves(q)
      PROVE  tree[r][p].instr = "REMOVE" /\ Present(current, q)
  <2>1. tree[r][p].instr = "REMOVE"
    BY <1>6, <1>t, TreeMovesIs, Parts
  <2>2. Present(current, q)
    BY <1>6, <1>t, SendsFrame, DropsAre DEF Present
  <2> QED BY <2>1, <2>2
<1> QED BY <1>t, TreeSteps, <1>1, <1>3, <1>4, <1>5, <1>6

(* What visiting an entry does to the tree. *)
LEMMA DetectIs ==
  ASSUME InvA, NEW p \in Path, DetectUpdate(p)
  PROVE  /\ step = "update" /\ opening = {} /\ p \in todo /\ todo' = todo \ {p}
         /\ UNCHANGED <<disk, journal, step, current, replica, list, now, calm,
                        dead, unseen>>
         /\ \/ disk[current][p] = 0 /\ UNCHANGED <<tree, opening>>
            \/ /\ disk[current][p] # 0
               /\ tree' \in Trees
               /\ tree'[current][p].mtime = disk[current][p]
               /\ tree'[current][p].instr # "ABSENT"
               /\ Tells(current, p, tree'[current][p].instr, disk[current][p])
               /\ \A r \in Replica, q \in Path :
                    r # current \/ q # p => tree'[r][q] = tree[r][q]
               /\ opening' = IF p \in Dir /\ Cardinality(UpTo[p]) <= MaxDepth
                             THEN {p} ELSE {}
<1>t. /\ TypeOK /\ tree \in Trees /\ current \in Replica
      /\ disk[current][p] \in Nat
  BY Parts
<1>1. /\ step = "update" /\ opening = {} /\ p \in todo /\ todo' = todo \ {p}
      /\ UNCHANGED <<disk, journal, step, current, replica, list, now, calm,
                     dead, unseen>>
  BY DEF DetectUpdate, bounds, history
<1>2. CASE disk[current][p] = 0
  BY <1>t, <1>1, <1>2, DetectTree
<1>3. CASE disk[current][p] # 0
  <2>1. PICK n \in Node :
          /\ n.instr # "ABSENT" /\ n.mtime = disk[current][p]
          /\ Tells(current, p, n.instr, n.mtime)
          /\ tree' = [tree EXCEPT ![current][p] = n]
          /\ opening' = IF p \in Dir /\ Cardinality(UpTo[p]) <= MaxDepth
                        THEN {p} ELSE {}
    BY <1>t, <1>3, DetectTree
  <2>2. /\ tree' \in Trees /\ tree'[current][p] = n
        /\ \A r \in Replica, q \in Path :
             r # current \/ q # p => tree'[r][q] = tree[r][q]
    BY <1>t, <2>1 DEF Trees
  <2> QED BY <1>1, <1>3, <2>1, <2>2
<1> QED BY <1>2, <1>3

(* What the walk has still to visit stays in the directories it has        *)
(* opened.                                                                 *)
LEMMA StepWalking ==
  ASSUME InvA, ~Collections, [Next]_vars
  PROVE  Walking'
<1> SUFFICES ASSUME step' = "update" PROVE Walking'
  BY DEF Walking
<1>w. step = "update" =>
      /\ \A r \in Replica, p \in Path :
           Tells(r, p, tree[r][p].instr, tree[r][p].mtime)
      /\ \A p \in todo : /\ p \notin Unwalked
                         /\ Parent[p] = Top \/ tree[current][Parent[p]].instr # "ABSENT"
      /\ \A d \in opening \ {Top} :
            tree[current][d].instr # "ABSENT" /\ Cardinality(UpTo[d]) <= MaxDepth
      /\ list = {}
      /\ current = "local" => \A p \in Path : tree["remote"][p].instr = "ABSENT"
  BY DEF InvA, Walking, Present, Instr
<1>t. TypeOK /\ current \in Replica
  BY Parts
<1>1. ASSUME step = "update", UNCHANGED <<tree, journal, current, opening, todo, list>>
      PROVE  Walking'
  BY <1>1, <1>w DEF Walking, Present, Instr, Tells, FoundByHash
<1>2. ASSUME NEW r \in Replica, NEW p \in Path, UserWrites(r, p) \/ UserDeletes(r, p)
      PROVE  Walking'
  BY <1>1, <1>2, UserFrame
<1>3. ASSUME UNCHANGED vars PROVE Walking'
  BY <1>1, <1>3 DEF vars
<1>4. ASSUME StartRun PROVE Walking'
  <2>1. /\ tree' = EmptyTrees /\ todo' = {} /\ list' = {} /\ opening' = {Top}
    BY <1>4 DEF StartRun, InvA, Resting
  <2>2. \A r \in Replica, p \in Path : tree'[r][p].instr = "ABSENT"
    BY <2>1 DEF EmptyTrees, Absent
  <2> QED BY <2>1, <2>2 DEF Walking, Present, Instr, Tells, FoundByHash, Found, Replica
<1>5. ASSUME NEW d \in Dir \cup {Top}, Opens(d) PROVE Walking'
  <2>1. /\ step = "update" /\ d \in opening /\ UNCHANGED <<tree, journal, current, list>>
        /\ opening' = opening \ {d}
        /\ todo' \in {todo, todo \cup (Inside(current, d) \ Excluded)}
    BY <1>5 DEF Opens, OpenDir, OpenDenied
  <2>2. ASSUME NEW p \in Inside(current, d) \ Excluded
        PROVE  /\ p \notin Unwalked
               /\ Parent[p] = Top \/ tree[current][Parent[p]].instr # "ABSENT"
    <3>1. p \in Path /\ Parent[p] = d
      BY DEF Inside, Children
    <3>2. CASE d = Top
      BY <3>1, <3>2, WalkedDown
    <3>3. CASE d # Top
      <4>1. tree[current][d].instr # "ABSENT" /\ Cardinality(UpTo[d]) <= MaxDepth
        BY <1>w, <2>1, <3>3
      <4>2. d \in Path /\ d \notin Unwalked
        BY <3>3, <4>1, <1>t, PathTypes DEF InvA, Nodes, Present, Instr
      <4> QED BY <3>1, <4>1, <4>2, WalkedDown
    <3> QED BY <3>2, <3>3
  <2>3. \A p \in todo' : /\ p \notin Unwalked
                         /\ Parent[p] = Top \/ tree[current][Parent[p]].instr # "ABSENT"
    BY <1>w, <2>1, <2>2
  <2> QED BY <1>w, <2>1, <2>3 DEF Walking, Present, Instr, Tells, FoundByHash
<1>6. ASSUME NEW p \in Path, DetectUpdate(p) PROVE Walking'
  <2>1. /\ step = "update" /\ opening = {} /\ p \in todo /\ todo' = todo \ {p}
        /\ UNCHANGED <<journal, current, list>>
    BY <1>6, DetectIs
  <2>2. CASE UNCHANGED <<tree, opening>>
    BY <1>w, <2>1, <2>2 DEF Walking, Present, Instr, Tells, FoundByHash
  <2>3. CASE disk[current][p] # 0
    <3>1. /\ tree'[current][p].mtime = disk[current][p]
          /\ tree'[current][p].instr # "ABSENT"
          /\ Tells(current, p, tree'[current][p].instr, disk[current][p])
          /\ \A r \in Replica, q \in Path :
               r # current \/ q # p => tree'[r][q] = tree[r][q]
          /\ opening' = IF p \in Dir /\ Cardinality(UpTo[p]) <= MaxDepth
                        THEN {p} ELSE {}
      BY <1>6, <2>3, DetectIs
    <3>3. ASSUME NEW r \in Replica, NEW q \in Path
          PROVE  Tells(r, q, tree'[r][q].instr, tree'[r][q].mtime)
      <4>1. CASE r = current /\ q = p
        BY <3>1, <4>1
      <4>2. CASE ~(r = current /\ q = p)
        BY <1>w, <2>1, <3>1, <4>2
      <4> QED BY <4>1, <4>2
    <3>4. \A q \in Path : tree[current][q].instr # "ABSENT" => tree'[current][q].instr # "ABSENT"
      BY <1>t, <3>1
    <3>5. ASSUME NEW q \in todo'
          PROVE  /\ q \notin Unwalked
                 /\ Parent[q] = Top \/ tree'[current][Parent[q]].instr # "ABSENT"
      <4>1. q \in Path /\ (Parent[q] = Top \/ Parent[q] \in Path)
        BY <1>t, <2>1, PathTypes DEF TypeOK
      <4> QED BY <1>w, <2>1, <3>4, <4>1
    <3>6. \A d \in opening' \ {Top} :
             tree'[current][d].instr # "ABSENT" /\ Cardinality(UpTo[d]) <= MaxDepth
      BY <3>1
    <3>7. current = "local" => \A q \in Path : tree'["remote"][q].instr = "ABSENT"
      BY <1>w, <2>1, <3>1 DEF Replica
    <3> QED BY <1>w, <2>1, <3>3, <3>5, <3>6, <3>7 DEF Walking, Present, Instr, Tells, FoundByHash
  <2> QED BY <1>6, <2>2, <2>3, DetectIs
<1>7. ASSUME NextReplica PROVE Walking'
  BY <1>7, <1>w DEF NextReplica, Walking, Present, Instr, WalkDone, Tells, FoundByHash
<1>8. ASSUME Reconcile \/ NextPass \/ Commit \/ Aborts PROVE FALSE
  BY <1>8 DEF Reconcile, NextPass, Commit, Aborts, Crash, OpenFails, EndRun
<1>9. ASSUME NEW p \in Path, Sends(p) \/ Drops(p) PROVE FALSE
  BY <1>9, <1>t, SendsFrame, DropsFrame
<1>10. Walking'
  BY Moves, <1>2, <1>3, <1>4, <1>5, <1>6, <1>7, <1>8, <1>9
<1> QED BY <1>10

(* The lists of a pass stay lists of what that pass has to do. *)
LEMMA StepCourse ==
  ASSUME InvA, ~Collections, [Next]_vars
  PROVE  Course'
<1> SUFFICES ASSUME step' \in Propagating PROVE Course'
  BY DEF Course
<1> USE DEF Propagating
<1>t. /\ TypeOK /\ current \in Replica /\ Dest \in Replica /\ Dest # current
      /\ \A r \in Replica : r = current \/ r = Dest
      /\ Replica = {"local", "remote"} /\ todo \subseteq Path /\ list \subseteq Path
      /\ Dir \subseteq Path
  BY Parts, PathTypes DEF Replica, TypeOK
<1>c. step \in Propagating =>
      /\ \A r \in Replica, p \in Path : tree[r][p].instr \in Acting => Ahead(r, p)
      /\ step = "files" => todo \subseteq Path \ Dir /\ list = {}
      /\ step = "dirs" => todo \subseteq Dir
      /\ step = "cleanup" => todo = {}
      /\ step = "commit" => todo = {} /\ list = {} /\ current = "local"
      /\ opening = {} /\ todo \cap list = {}
      /\ \A p \in list : tree[current][p].instr = "REMOVE"
      /\ \A p \in todo : tree[current][p].instr \in Acting
  BY DEF InvA, Course, Instr
<1>1. ASSUME UNCHANGED <<tree, step, current, opening, todo, list>>
      PROVE  Course'
  BY <1>1, <1>c DEF Course, Instr, Ahead
<1>2. ASSUME NEW r \in Replica, NEW p \in Path, UserWrites(r, p) \/ UserDeletes(r, p)
      PROVE  Course'
  BY <1>1, <1>2, UserFrame
<1>3. ASSUME UNCHANGED vars PROVE Course'
  BY <1>1, <1>3 DEF vars
<1>4. ASSUME NEW d, Opens(d) PROVE FALSE
  BY <1>4 DEF Opens, OpenDir, OpenDenied
<1>5. ASSUME NEW p \in Path, DetectUpdate(p) PROVE FALSE
  BY <1>5 DEF DetectUpdate
<1>6. ASSUME StartRun \/ NextReplica \/ Commit \/ Aborts PROVE FALSE
  BY <1>6 DEF StartRun, NextReplica, Commit, Aborts, Crash, OpenFails, EndRun
<1>7. ASSUME Reconcile PROVE Course'
  <2>1. /\ step' = "files" /\ current' = "local" /\ todo' = Due(tree', "local", Path \ Dir)
        /\ opening' = {} /\ list' = {}
    BY <1>7 DEF Reconcile, WalkDone
  <2>2. \A p \in Path : p \in todo' <=> p \notin Dir /\ tree'["local"][p].instr \in Acting
    BY <2>1 DEF Due
  <2>3. todo' \subseteq Path \ Dir
    BY <2>1 DEF Due
  <2>4. \A r \in Replica, p \in Path : tree'[r][p].instr \in Acting => Ahead(r, p)'
    BY <1>t, <2>1, <2>2 DEF Ahead
  <2> QED BY <2>1, <2>2, <2>3, <2>4 DEF Course, Instr
<1>8. ASSUME NextPass PROVE Course'
  <2>0. todo = {} /\ UNCHANGED <<tree, opening, list>>
    BY <1>8 DEF NextPass
  <2>1. CASE /\ step = "files" /\ step' = "dirs" /\ todo' = Due(tree, current, Dir)
             /\ UNCHANGED current
    <3>1. \A p \in Path : p \in todo' <=> p \in Dir /\ tree[current][p].instr \in Acting
      BY <1>t, <2>1 DEF Due
    <3>2. todo' \subseteq Dir
      BY <2>1 DEF Due
    <3>3. ASSUME NEW r \in Replica, NEW p \in Path, tree[r][p].instr \in Acting
          PROVE  Ahead(r, p)'
      <4>1. Ahead(r, p)
        BY <1>c, <2>1, <3>3
      <4> QED BY <2>0, <2>1, <3>1, <3>3, <4>1 DEF Ahead
    <3> QED BY <1>c, <1>t, <2>0, <2>1, <3>1, <3>2, <3>3 DEF Course, Instr
  <2>2. CASE /\ step = "dirs" /\ step' = "cleanup" /\ UNCHANGED <<current, todo>>
    <3>3. ASSUME NEW r \in Replica, NEW p \in Path, tree[r][p].instr \in Acting
          PROVE  Ahead(r, p)'
      <4>1. Ahead(r, p)
        BY <1>c, <2>2, <3>3
      <4> QED BY <2>0, <2>2, <3>3, <4>1 DEF Ahead
    <3> QED BY <1>c, <2>0, <2>2, <3>3 DEF Course, Instr
  <2>3. CASE /\ step = "cleanup" /\ list = {} /\ current = "local"
             /\ step' = "files" /\ current' = "remote"
             /\ todo' = Due(tree, "remote", Path \ Dir)
    <3>1. \A p \in Path : p \in todo' <=> p \notin Dir /\ tree["remote"][p].instr \in Acting
      BY <2>3 DEF Due
    <3>2. todo' \subseteq Path \ Dir
      BY <2>3 DEF Due
    <3>3. ASSUME NEW r \in Replica, NEW p \in Path, tree[r][p].instr \in Acting
          PROVE  Ahead(r, p)'
      <4>1. Ahead(r, p)
        BY <1>c, <2>3, <3>3
      <4>2. r = "remote"
        BY <2>3, <4>1 DEF Ahead
      <4> QED BY <2>3, <3>1, <3>3, <4>2 DEF Ahead
    <3> QED BY <1>c, <2>0, <2>3, <3>1, <3>2, <3>3 DEF Course, Instr
  <2>4. CASE /\ step = "cleanup" /\ list = {} /\ current = "remote"
             /\ step' = "commit" /\ current' = "local" /\ UNCHANGED todo
    <3>3. ASSUME NEW r \in Replica, NEW p \in Path, tree[r][p].instr \in Acting
          PROVE  FALSE
      <4>1. Ahead(r, p)
        BY <1>c, <2>4, <3>3
      <4> QED BY <2>4, <4>1 DEF Ahead
    <3> QED BY <1>c, <2>0, <2>4, <3>3 DEF Course, Instr
  <2> QED BY <1>8, <2>1, <2>2, <2>3, <2>4 DEF NextPass
(* A visit takes one path from todo or from list. *)
<1>9. ASSUME NEW p \in Path, step \in {"files", "dirs", "cleanup"},
             UNCHANGED <<step, current, opening>>,
             TreeMoves(p), todo' = todo \ {p}, list' = list \ {p}
      PROVE  Course'
  <2>1. /\ tree'[current][p].instr \in {"UPDATED", "ERROR", "DELETED", "NONE"}
        /\ \A q \in Path : q # p => tree'[current][q] = tree[current][q]
        /\ tree'[Dest] = tree[Dest]
    BY <1>9, <1>t, TreeMovesIs, Parts
  <2>2. tree'[current][p].instr \notin Acting
    BY <2>1 DEF Acting, Pushing
  <2>3. \A q \in todo' \cup list' : q \in Path /\ q # p /\ tree'[current][q] = tree[current][q]
    BY <1>9, <1>t, <2>1
  <2>4. ASSUME NEW r \in Replica, NEW q \in Path, tree'[r][q].instr \in Acting
        PROVE  Ahead(r, q)'
    <3>1. ~(r = current /\ q = p) /\ tree[r][q].instr \in Acting
      BY <1>t, <2>1, <2>2, <2>4
    <3>2. Ahead(r, q)
      BY <1>c, <1>9, <3>1
    <3> QED BY <1>9, <3>1, <3>2 DEF Ahead
  <2> QED BY <1>c, <1>9, <2>3, <2>4 DEF Course, Instr
<1>10. ASSUME NEW p \in Path, Sends(p) PROVE Course'
  <2>1. /\ step \in {"files", "dirs"} /\ p \in todo
        /\ todo' = todo \ {p}
        /\ UNCHANGED <<step, current, opening, list>>
        /\ TreeMoves(p)
    BY <1>10, <1>t, SendsFrame DEF TreeMoves
  <2>2. list' = list \ {p}
    BY <1>c, <2>1
  <2> QED BY <1>9, <2>1, <2>2
<1>11. ASSUME NEW p \in Path, Drops(p) PROVE Course'
  <2>1. /\ \/ /\ step \in {"files", "dirs"} /\ p \in todo
               /\ todo' = todo \ {p}
            \/ /\ step = "cleanup" /\ p \in list /\ UNCHANGED todo
               /\ list' = list \ {p}
        /\ UNCHANGED <<step, current, opening>>
    BY <1>11, <1>t, DropsFrame
  <2>2. Instr(current, p) = "REMOVE"
    BY <1>11, DropsAre
  <2>3. CASE Goes(p) \/ Stays(p)
    <3>1. TreeMoves(p) /\ list' \in {list, list \ {p}}
      BY <2>3 DEF Goes, Stays, TreeMoves
    <3>2. todo' = todo \ {p} /\ list' = list \ {p}
      BY <1>c, <2>1, <3>1
    <3> QED BY <1>9, <2>1, <3>1, <3>2
  <2>4. CASE PutOff(p)
    <3>1. /\ step = "dirs" /\ p \in Dir /\ UNCHANGED tree /\ list' = list \cup {p}
          /\ p \in todo /\ todo' = todo \ {p}
      BY <2>1, <2>4 DEF PutOff
    <3>2. ASSUME NEW r \in Replica, NEW q \in Path, tree'[r][q].instr \in Acting
          PROVE  Ahead(r, q)'
      <4>1. Ahead(r, q)
        BY <1>c, <3>1, <3>2
      <4> QED BY <2>1, <3>1, <4>1 DEF Ahead
    <3> QED BY <1>c, <2>1, <2>2, <3>1, <3>2 DEF Course, Instr
  <2> QED BY <1>11, <2>3, <2>4, DropsAre
<1> HIDE DEF Propagating
<1> QED
  BY Moves, <1>2, <1>3, <1>4, <1>5, <1>6, <1>7, <1>8, <1>10, <1>11

(* What the walk found stays on the disk, or the user touched it. *)
LEMMA StepSeen ==
  ASSUME InvA, ~Collections, [Next]_vars
  PROVE  Seen'
<1> SUFFICES ASSUME step' = "update", NEW r \in Replica, NEW p \in Path,
                    p \notin Unwalked, p \notin unseen',
                    disk'[r][p] # 0, tree'[r][p].instr = "ABSENT"
             PROVE  Pending(r, p)'
  BY DEF Seen, Present, Instr
<1>t. TypeOK /\ current \in Replica /\ Walking /\ Resting /\ Shape /\ Nodes
  BY Parts DEF InvA
<1>s. ASSUME step = "update", p \notin unseen, disk[r][p] # 0, ~Present(r, p)
      PROVE  Pending(r, p)
  BY <1>s DEF InvA, Seen
<1>p. p \in UpTo[p]
  BY UpToGoesUp
<1>1. ASSUME step = "update", p \notin unseen, disk[r][p] # 0, UNCHANGED <<tree, current, opening, todo>>
      PROVE  Pending(r, p)'
  BY <1>1, <1>s DEF Pending, Present, Instr
<1>2. ASSUME NEW s \in Replica, NEW q \in Path, UserWrites(s, q) \/ UserDeletes(s, q)
      PROVE  Pending(r, p)'
  <2>1. /\ UNCHANGED <<tree, step, current, opening, todo>>
        /\ p \notin unseen /\ p \notin UpTo[q]
    BY <1>2, UserFrame
  <2>2. disk[r][p] # 0
    <3>1. CASE r # s
      BY <1>2, <3>1, UserDisk, OtherIs
    <3>2. CASE r = s /\ Grows(disk[s], disk'[s], q, now + 1)
      BY <2>1, <3>2 DEF Grows
    <3>3. CASE r = s /\ Shrinks(disk[s], disk'[s], Gone(s, q), now + 1)
      BY <3>3 DEF Shrinks
    <3> QED BY <1>2, <3>1, <3>2, <3>3, UserDisk
  <2> QED BY <1>1, <2>1, <2>2
<1>3. ASSUME StartRun PROVE Pending(r, p)'
  <2>1. current' = "local" /\ opening' = {Top}
    BY <1>3, <1>t DEF StartRun, Resting
  <2> QED BY <2>1 DEF Pending, Replica
<1>4. ASSUME NextReplica PROVE Pending(r, p)'
  <2>1. /\ step = "update" /\ current = "local" /\ todo = {} /\ opening = {}
        /\ current' = "remote" /\ opening' = {Top}
        /\ UNCHANGED <<disk, tree, unseen>>
    BY <1>4 DEF NextReplica, WalkDone, history
  <2>2. r = "remote"
    <3>1. Pending(r, p)
      BY <1>s, <2>1 DEF Present, Instr
    <3> QED BY <2>1, <3>1 DEF Pending
  <2> QED BY <2>1, <2>2 DEF Pending
<1>5. ASSUME NEW d \in Dir \cup {Top}, Opens(d) PROVE Pending(r, p)'
  <2>1. /\ step = "update" /\ d \in opening /\ UNCHANGED <<disk, tree, current>>
        /\ opening' = opening \ {d}
        /\ \/ todo' = todo \cup (Inside(current, d) \ Excluded) /\ UNCHANGED unseen
           \/ todo' = todo /\ unseen' = unseen \cup Below(d)
    BY <1>5 DEF Opens, OpenDir, OpenDenied
  <2>2. Pending(r, p)
    BY <1>s, <2>1 DEF Present, Instr
  <2>3. CASE current = "local" /\ r = "remote"
    BY <2>1, <2>3 DEF Pending
  <2>4. CASE current = r /\ d # Top /\ (Top \in opening \/
                \E q \in UpTo[p] \cap (todo \cup opening) : q # d)
    BY <2>1, <2>4 DEF Pending
  <2>5. CASE current = r /\ (d = Top \/ d \in UpTo[p])
    <3>1. CASE unseen' = unseen \cup Below(d)
      <4>1. p \in Below(d) \/ p = d
        BY <2>5, <3>1 DEF Below
      <4>2. p = d /\ d # Top
        BY <3>1, <4>1, PathTypes
      <4>3. Present(current, d)
        BY <1>t, <2>1, <4>2 DEF Walking
      <4> QED BY <2>1, <2>5, <4>2, <4>3 DEF Present, Instr
    <3>2. CASE todo' = todo \cup (Inside(current, d) \ Excluded)
      <4>1. \E q \in UpTo[p] : Parent[q] = d
        <5>1. CASE d = Top
          BY <5>1, WayTop
        <5>2. CASE d # Top
          <6>1. Present(current, d)
            BY <1>t, <2>1, <5>2 DEF Walking
          <6>2. p # d
            BY <2>1, <2>5, <6>1 DEF Present, Instr
          <6> QED BY <2>5, <5>2, <6>2, WayDown
        <5> QED BY <5>1, <5>2
      <4>2. PICK q \in UpTo[p] : Parent[q] = d
        BY <4>1
      <4>3. q \in Path /\ q \notin Excluded
        BY WalkedUp
      <4>4. disk[r][q] # 0
        BY <1>t, <2>1, GroundedUp DEF Shape
      <4>5. q \in todo'
        BY <2>5, <3>2, <4>2, <4>3, <4>4 DEF Inside, Children
      <4> QED BY <2>1, <2>5, <4>5 DEF Pending
    <3> QED BY <2>1, <3>1, <3>2
  <2> QED BY <2>2, <2>3, <2>4, <2>5 DEF Pending
<1>6. ASSUME NEW q \in Path, DetectUpdate(q) PROVE Pending(r, p)'
  <2>1. /\ step = "update" /\ opening = {} /\ q \in todo /\ todo' = todo \ {q}
        /\ UNCHANGED <<disk, current, unseen>>
    BY <1>6, DetectIs
  <2>2. ~Present(r, p)
    <3>1. \/ EndRun /\ \A x \in Replica, y \in Path : tree'[x][y].instr = "ABSENT"
          \/ \A x \in Replica, y \in Path :
               Present(x, y) => tree'[x][y].instr # "ABSENT"
      BY Presence
    <3>2. ~EndRun
      BY DEF EndRun
    <3> QED BY <3>1, <3>2
  <2>3. Pending(r, p)
    BY <1>s, <2>1, <2>2
  <2>4. CASE current = "local" /\ r = "remote"
    BY <2>1, <2>4 DEF Pending
  <2>5. CASE current = r /\ \E x \in UpTo[p] \cap todo : x # q
    BY <2>1, <2>5 DEF Pending
  <2>6. CASE current = r /\ q \in UpTo[p]
    <3>1. disk[r][q] # 0
      BY <1>t, <2>1, <2>6, GroundedUp DEF Shape
    <3>2. /\ tree'[current][q].instr # "ABSENT"
          /\ opening' = IF q \in Dir /\ Cardinality(UpTo[q]) <= MaxDepth
                        THEN {q} ELSE {}
      BY <1>6, <2>6, <3>1, DetectIs
    <3>3. q # p
      BY <2>6, <3>2
    <3>4. q \in Dir /\ Cardinality(UpTo[q]) <= MaxDepth
      BY <2>6, <3>3, WayDown, WalkedUp
    <3> QED BY <2>1, <2>6, <3>2, <3>4 DEF Pending
  <2> QED BY <2>1, <2>3, <2>4, <2>5, <2>6 DEF Pending
<1>7. ASSUME Reconcile \/ NextPass \/ Commit \/ Aborts PROVE FALSE
  BY <1>7 DEF Reconcile, NextPass, Commit, Aborts, Crash, OpenFails, EndRun
<1>8. ASSUME NEW q \in Path, Sends(q) \/ Drops(q) PROVE FALSE
  BY <1>8, <1>t, SendsFrame, DropsFrame
<1>9. ASSUME UNCHANGED vars PROVE Pending(r, p)'
  BY <1>1, <1>9 DEF vars
<1> QED
  BY Moves, <1>2, <1>3, <1>4, <1>5, <1>6, <1>7, <1>8, <1>9

(* Within a run the record of the user's touches only grows. *)
LEMMA UnseenGrows ==
  ASSUME InvA, [Next]_vars, ~EndRun
  PROVE  unseen \subseteq unseen'
<1>t. TypeOK
  BY Parts
<1>1. ASSUME NEW r \in Replica, NEW p \in Path, UserWrites(r, p) \/ UserDeletes(r, p)
      PROVE  unseen \subseteq unseen'
  BY <1>1, UserFrame DEF InvA, Resting
<1>2. ASSUME NEW d, Opens(d) PROVE unseen \subseteq unseen'
  BY <1>2 DEF Opens, OpenDir, OpenDenied
<1>3. ASSUME NEW p \in Path, DetectUpdate(p) PROVE unseen' = unseen
  BY <1>3, DetectIs
<1>4. ASSUME NEW p \in Path, Sends(p) \/ Drops(p) PROVE unseen' = unseen
  BY <1>t, <1>4, SendsFrame, DropsFrame
<1>5. ASSUME StartRun \/ NextReplica \/ Reconcile \/ NextPass \/ UNCHANGED vars
      PROVE  unseen' = unseen
  BY <1>5 DEF StartRun, NextReplica, Reconcile, NextPass, history, vars
<1>6. ~Commit /\ ~Aborts
  BY DEF Commit, Aborts, Crash, OpenFails
<1> QED BY Moves, <1>1, <1>2, <1>3, <1>4, <1>5, <1>6

(* No node is in the trees when a run begins. *)
LEMMA IdleAbsent ==
  ASSUME InvA, step = "idle", NEW r \in Replica, NEW p \in Path
  PROVE  tree[r][p].instr = "ABSENT"
BY DEF InvA, Resting, EmptyTrees, Absent

(* Only update detection makes a node that will be pushed. *)
LEMMA PushableComes ==
  ASSUME InvA, ~Collections, [Next]_vars, ~EndRun, NEW r \in Replica, NEW c \in Path,
         tree'[r][c].instr \in Pushable
  PROVE  \/ tree[r][c].instr \in Pushable
         \/ DetectUpdate(c) /\ r = current /\ disk[r][c] # 0
<1>t. TypeOK /\ current \in Replica
  BY Parts
<1>1. CASE UNCHANGED tree
  BY <1>1
<1>2. CASE Reconcile
  <2>1. Verdict(tree["local"][c], tree["remote"][c],
                    tree'["local"][c].instr, tree'["remote"][c].instr)
    BY <1>2, ReconcileIs
  <2>2. r = "local" \/ r = "remote"
    BY DEF Replica
  <2> QED BY <2>1, <2>2 DEF Verdict, Pushable
<1>3. ASSUME NEW p \in Path, DetectUpdate(p)
      PROVE  \/ tree[r][c].instr \in Pushable
             \/ DetectUpdate(c) /\ r = current /\ disk[r][c] # 0
  BY <1>3, DetectIs
<1>4. ASSUME NEW p \in Path, TreeMoves(p), ~(r = current /\ c = p)
      PROVE  tree[r][c].instr \in Pushable
  BY <1>4, <1>t, TreeMovesIs, Parts
<1>5. ASSUME NEW p \in Path, Sends(p) PROVE tree[current][p].instr \in Pushable
  BY <1>5, <1>t, SendsFrame DEF Instr, Pushable
<1>6. ASSUME NEW p \in Path, Drops(p), TreeMoves(p)
      PROVE  tree'[current][p].instr \notin Pushable
  <2>1. CASE Goes(p) \/ Stays(p)
    <3>1. PICK x \in {"DELETED", "NONE"} : NodeEnds(p, x)
      BY <2>1 DEF Goes, Stays
    <3>2. x \in Word
      BY DEF Word, Instruction
    <3> QED BY <1>t, <3>1, <3>2, NodeEndsIs DEF Pushable
  <2>2. CASE PutOff(p)
    <3>1. tree'[current][p].instr = "REMOVE"
      BY <1>6, <2>2, DropsAre DEF PutOff, Instr
    <3> QED BY <3>1 DEF Pushable
  <2> QED BY <1>6, <2>1, <2>2, DropsAre
<1> QED BY <1>t, TreeSteps, <1>1, <1>2, <1>3, <1>4, <1>5, <1>6

(* A node above one that will be pushed is not removed, unless a user was  *)
(* there.                                                                  *)
LEMMA StepKept ==
  ASSUME InvA, ~Collections, [Next]_vars
  PROVE  Kept'
<1> SUFFICES ASSUME NEW r \in Replica, NEW c \in Path, tree'[r][c].instr \in Pushable,
                    NEW d \in UpTo[c], d \notin unseen', disk'[r][d] # 0,
                    step' = "update" \/ tree'[Other(r)][d].instr = "ABSENT"
             PROVE  disk'[r][c] # 0
  BY DEF Kept, Present, Instr
<1>t. TypeOK /\ current \in Replica /\ Nodes /\ Kept /\ Other(r) \in Replica
  BY Parts, OtherIs DEF InvA
<1>d. d \in Path /\ c \in UpTo[c]
  BY UpToGoesUp
<1>e. ~EndRun
  BY DEF EndRun, EmptyTrees, Absent, Pushable
<1>u. d \notin unseen
  BY <1>e, UnseenGrows
<1>1. ASSUME DetectUpdate(c), r = current, disk[r][c] # 0 PROVE disk'[r][c] # 0
  BY <1>1, DetectIs
<1>2. ASSUME tree[r][c].instr \in Pushable
      PROVE  /\ step = "update" \/ tree[Other(r)][d].instr = "ABSENT"
             /\ disk[r][d] # 0 => disk[r][c] # 0
  <2>1. step # "idle"
    BY <1>2, IdleAbsent DEF Pushable
  <2>2. step' = "update" => step = "update"
    BY <2>1, Moves, UserFrame, SendsFrame, DropsFrame, <1>t
       DEF Opens, OpenDir, OpenDenied, DetectUpdate, StartRun, NextReplica,
           Reconcile, NextPass, Commit, Aborts, Crash, OpenFails, EndRun, vars
  <2>3. tree'[Other(r)][d].instr = "ABSENT" => tree[Other(r)][d].instr = "ABSENT"
    BY <1>d, <1>e, <1>t, Presence DEF Present, Instr
  <2>4. step = "update" \/ tree[Other(r)][d].instr = "ABSENT"
    BY <2>2, <2>3
  <2> QED BY <1>2, <1>t, <1>u, <2>4 DEF Kept, Present, Instr
<1>3. ASSUME tree[r][c].instr \in Pushable PROVE disk'[r][c] # 0
  <2>0. /\ step = "update" \/ tree[Other(r)][d].instr = "ABSENT"
        /\ disk[r][d] # 0 => disk[r][c] # 0
    BY <1>2, <1>3
  <2>1. ASSUME NEW s \in Replica, NEW q \in Path, UserWrites(s, q) \/ UserDeletes(s, q)
        PROVE  disk'[r][c] # 0
    <3>1. d \notin UpTo[q]
      <4>1. step # "idle"
        BY <1>3, IdleAbsent DEF Pushable
      <4> QED BY <2>1, <4>1, UserFrame
    <3>2. CASE s # r
      <4>1. disk'[r] = disk[r]
        BY <2>1, <3>2, UserDisk, OtherIs
      <4> QED BY <2>0, <4>1
    <3>3. CASE s = r /\ Grows(disk[r], disk'[r], q, now + 1)
      BY <1>d, <2>0, <3>1, <3>3 DEF Grows
    <3>4. CASE s = r /\ Shrinks(disk[r], disk'[r], Gone(r, q), now + 1)
      <4>1. disk[r][d] # 0 /\ d \notin Gone(r, q)
        BY <1>d, <3>4 DEF Shrinks
      <4>2. q \notin UpTo[d]
        BY <1>d, <4>1, PathTypes DEF Gone, Sub, There
      <4>3. q \notin UpTo[c]
        BY <3>1, <4>2, UpToChain
      <4>4. c \notin Gone(r, q)
        BY <4>3 DEF Gone, Sub
      <4> QED BY <2>0, <3>4, <4>1, <4>4 DEF Shrinks
    <3> QED BY <2>1, <3>2, <3>3, <3>4, UserDisk
  <2>2. ASSUME NEW p \in Path, Sends(p) PROVE disk'[r][c] # 0
    <3>1. CASE r = current
      <4>1. disk'[r] = disk[r]
        BY <2>2, <3>1, SendsIs
      <4> QED BY <2>0, <4>1
    <3>2. CASE r = Dest
      <4>1. Grows(disk[r], disk'[r], p, now) /\ Present(current, p) /\ step # "update"
        BY <2>2, <3>2, SendsIs, <1>t, SendsFrame
      <4>2. disk[r][d] # 0
        <5> SUFFICES ASSUME disk[r][d] = 0 PROVE FALSE
          OBVIOUS
        <5>1. d \in UpTo[p]
          BY <1>d, <4>1 DEF Grows
        <5>2. Present(current, d)
          BY <1>t, <4>1, <5>1, PresentUp
        <5>3. Other(r) = current
          BY <3>2, Parts
        <5> QED BY <2>0, <4>1, <5>2, <5>3 DEF Present, Instr
      <4> QED BY <2>0, <4>1, <4>2 DEF Grows
    <3> QED BY <3>1, <3>2, Parts
  <2>3. ASSUME NEW p \in Path, Drops(p) PROVE disk'[r][c] # 0
    <3>1. CASE Goes(p)
      <4>1. r # current => disk'[r] = disk[r]
        BY <3>1, Parts DEF Goes
      <4>2. r = current => /\ disk[r][d] # 0
                           /\ c # p
        BY <1>3, <1>d, <2>3, <3>1, DropsAre DEF Goes, Shrinks, Pushable, Instr
      <4>3. r = current => disk'[r][c] # 0
        BY <2>0, <3>1, <4>2 DEF Goes, Shrinks
      <4> QED BY <2>0, <4>1, <4>3
    <3>2. CASE PutOff(p) \/ Stays(p)
      BY <2>0, <3>2 DEF PutOff, Stays
    <3> QED BY <2>3, <3>1, <3>2, DropsAre
  <2>4. CASE UNCHANGED disk
    BY <2>0, <2>4
  <2> QED BY DiskSteps, <2>1, <2>2, <2>3, <2>4
<1> QED BY <1>e, <1>1, <1>3, PushableComes

(* A directory that is put off or left keeps what stops its removal. *)
LEMMA StepOccupied ==
  ASSUME InvA, ~Collections, [Next]_vars
  PROVE  Occupied'
<1> SUFFICES ASSUME NEW r \in Replica, NEW d \in Path, d \notin unseen',
                    tree'[r][d].instr = "REMOVE", disk'[r][d] # 0,
                    disk'[Other(r)][d] # 0
             PROVE  \E c \in Sub(d) \ {d} :
                       disk'[r][c] # 0 /\ tree'[r][c].instr \in {"UPDATED", "ERROR"}
  BY DEF Occupied, Instr
<1>t. /\ TypeOK /\ current \in Replica /\ Nodes /\ Kept /\ Other(r) \in Replica
      /\ Other(r) # r /\ \A s \in Replica : s = r \/ s = Other(r)
  BY Parts, OtherIs DEF InvA
<1>e. ~EndRun
  BY DEF EndRun, EmptyTrees, Absent
<1>u. d \notin unseen
  BY <1>e, UnseenGrows
<1>s. Sub(d) \subseteq Path
  BY DEF Sub
<1>o. ASSUME tree[r][d].instr = "REMOVE", disk[r][d] # 0, disk[Other(r)][d] # 0
      PROVE  \E c \in Sub(d) \ {d} :
                disk[r][c] # 0 /\ tree[r][c].instr \in {"UPDATED", "ERROR"}
  BY <1>o, <1>u DEF InvA, Occupied, Instr
<1>r. ASSUME tree[r][d].instr = "REMOVE"
      PROVE  step \in Propagating /\ tree[Other(r)][d].instr = "ABSENT"
  BY <1>r DEF InvA, Removing, Present, Instr
<1>1. CASE Reconcile
  <2>1. /\ step = "update" /\ current = "remote" /\ todo = {} /\ opening = {}
        /\ UNCHANGED disk
    BY <1>1 DEF Reconcile, WalkDone
  <2>2. Verdict(tree["local"][d], tree["remote"][d],
                    tree'["local"][d].instr, tree'["remote"][d].instr)
    BY <1>1, ReconcileIs
  <2>3. /\ r = "local" \/ r = "remote"
        /\ Other("local") = "remote" /\ Other("remote") = "local"
    BY DEF Replica, Other
  <2>4. tree[r][d].instr = "NONE" /\ tree[Other(r)][d].instr = "ABSENT"
    BY <2>2, <2>3 DEF Verdict
  <2>5. d \notin Unwalked
    BY <1>t, <2>4 DEF Nodes, Present, Instr
  <2>6. Pending(Other(r), d)
    BY <1>t, <1>u, <2>1, <2>4, <2>5 DEF InvA, Seen, Present, Instr
  <2> QED BY <2>1, <2>6 DEF Pending
<1>2. ASSUME ~Reconcile PROVE tree[r][d].instr = "REMOVE"
  <2>1. ASSUME NEW p \in Path, TreeMoves(p) PROVE tree[r][d].instr = "REMOVE"
    BY <2>1, <1>t, TreeMovesIs, Parts
  <2>2. ASSUME NEW p \in Path, DetectUpdate(p) PROVE tree[r][d].instr = "REMOVE"
    BY <2>2, <1>t, DetectIs DEF Tells, Found
  <2> QED BY <1>2, <1>e, <1>t, <2>1, <2>2, TreeSteps
<1>3. ASSUME ~Reconcile, UNCHANGED tree, UNCHANGED disk
      PROVE  \E c \in Sub(d) \ {d} :
                disk'[r][c] # 0 /\ tree'[r][c].instr \in {"UPDATED", "ERROR"}
  BY <1>2, <1>3, <1>o
<1>4. ASSUME ~Reconcile, NEW q \in Path, DetectUpdate(q) PROVE FALSE
  BY <1>2, <1>4, <1>r, DetectIs DEF Propagating
<1>5. ASSUME ~Reconcile, NEW s \in Replica, NEW q \in Path, UserWrites(s, q) \/ UserDeletes(s, q)
      PROVE  \E c \in Sub(d) \ {d} :
                disk'[r][c] # 0 /\ tree'[r][c].instr \in {"UPDATED", "ERROR"}
  <2>1. UNCHANGED tree /\ d \notin UpTo[q]
    <3>1. step # "idle"
      BY <1>2, <1>5, <1>r DEF Propagating
    <3> QED BY <1>5, <3>1, UserFrame
  <2>2. CASE Grows(disk[s], disk'[s], q, now + 1)
    <3>0. disk'[Other(s)] = disk[Other(s)]
      BY <1>5, UserDisk
    <3>1. /\ \A x \in Path : disk[s][x] # 0 => disk'[s][x] # 0
          /\ disk'[s][d] = disk[s][d]
      BY <2>1, <2>2 DEF Grows
    <3>2. disk[r][d] # 0 /\ disk[Other(r)][d] # 0
      BY <3>0, <3>1, <1>t, OtherIs
    <3>3. PICK c \in Sub(d) \ {d} :
                disk[r][c] # 0 /\ tree[r][c].instr \in {"UPDATED", "ERROR"}
      BY <1>2, <1>5, <1>o, <3>2
    <3>4. disk'[r][c] # 0
      BY <1>s, <3>0, <3>1, <3>3, <1>t, OtherIs
    <3> QED BY <2>1, <3>3, <3>4
  <2>3. CASE Shrinks(disk[s], disk'[s], Gone(s, q), now + 1)
    <3>0. disk'[Other(s)] = disk[Other(s)]
      BY <1>5, UserDisk
    <3>1. \A x \in Path : disk'[s][x] = 0 <=> disk[s][x] = 0 \/ x \in Gone(s, q)
      BY <2>3 DEF Shrinks
    <3>2. disk[r][d] # 0 /\ disk[Other(r)][d] # 0
      BY <3>0, <3>1, <1>t, OtherIs
    <3>3. PICK c \in Sub(d) \ {d} :
                disk[r][c] # 0 /\ tree[r][c].instr \in {"UPDATED", "ERROR"}
      BY <1>2, <1>5, <1>o, <3>2
    <3>4. disk'[r][c] # 0
      <4>1. CASE s # r
        BY <3>0, <3>3, <4>1, <1>t, OtherIs
      <4>2. CASE s = r
        <5>1. d \notin Gone(r, q)
          BY <3>1, <4>2
        <5>2. q \notin UpTo[d]
          BY <3>2, <5>1, PathTypes DEF Gone, Sub, There
        <5>3. c \in Path /\ d \in UpTo[c]
          BY DEF Sub
        <5>4. q \notin UpTo[c]
          BY <2>1, <5>2, <5>3, UpToChain
        <5>5. c \notin Gone(r, q)
          BY <5>4 DEF Gone, Sub
        <5> QED BY <3>1, <3>3, <4>2, <5>3, <5>5
      <4> QED BY <4>1, <4>2
    <3> QED BY <2>1, <3>3, <3>4
  <2> QED BY <1>5, <2>2, <2>3, UserDisk
<1>6. ASSUME ~Reconcile, NEW p \in Path, Sends(p)
      PROVE  \E c \in Sub(d) \ {d} :
                disk'[r][c] # 0 /\ tree'[r][c].instr \in {"UPDATED", "ERROR"}
  <2>0. /\ disk'[current] = disk[current] /\ Grows(disk[Dest], disk'[Dest], p, now)
        /\ Present(current, p)
    BY <1>6, SendsIs
  <2>1. /\ Instr(current, p) \in {"NEW", "SYNC"}
        /\ tree'[current][p].instr \in {"UPDATED", "ERROR"}
        /\ \A q \in Path : q # p => tree'[current][q] = tree[current][q]
        /\ tree'[Other(current)] = tree[Other(current)]
    <3>1. /\ Instr(current, p) \in {"NEW", "SYNC"}
          /\ \E x \in {"UPDATED", "ERROR"} : NodeEnds(p, x)
      BY <1>6, <1>t, SendsFrame
    <3>2. {"UPDATED", "ERROR"} \subseteq Word
      BY DEF Word, Instruction
    <3> QED BY <1>t, <3>1, <3>2, NodeEndsIs
  <2>2. tree[r][d].instr = "REMOVE"
    BY <1>2, <1>6
  <2>3. ASSUME disk[r][d] # 0, disk[Other(r)][d] # 0
        PROVE  \E c \in Sub(d) \ {d} :
                  disk'[r][c] # 0 /\ tree'[r][c].instr \in {"UPDATED", "ERROR"}
    <3>1. PICK c \in Sub(d) \ {d} :
                disk[r][c] # 0 /\ tree[r][c].instr \in {"UPDATED", "ERROR"}
      BY <2>2, <2>3, <1>o
    <3>2. disk'[r][c] # 0
      BY <1>s, <3>1, <2>0, Parts DEF Grows
    <3>3. tree'[r][c].instr \in {"UPDATED", "ERROR"}
      BY <1>s, <3>1, <2>1, Parts
    <3> QED BY <3>1, <3>2, <3>3
  <2>4. ASSUME disk[Dest][d] = 0, disk'[Dest][d] # 0
        PROVE  \E c \in Sub(d) \ {d} :
                  disk'[r][c] # 0 /\ tree'[r][c].instr \in {"UPDATED", "ERROR"}
    <3>1. d \in UpTo[p]
      BY <2>0, <2>4 DEF Grows
    <3>2. Present(current, d)
      BY <1>t, <2>0, <3>1, PresentUp
    <3>3. r = current
      <4>1. tree[Other(r)][d].instr = "ABSENT"
        BY <2>2, <1>r
      <4> QED BY <3>2, <4>1, <1>t, Parts DEF Present, Instr
    <3>4. p # d
      BY <2>1, <2>2, <3>3 DEF Instr
    <3>5. disk[r][d] # 0
      BY <2>0, <3>3
    <3>6. disk[r][p] # 0
      <4>1. ~Present(Other(r), d)
        BY <2>2, <1>r DEF Present, Instr
      <4>2. Instr(r, p) \in Pushable
        BY <2>1, <3>3 DEF Pushable
      <4> QED BY <1>t, <1>u, <3>1, <3>5, <4>1, <4>2 DEF Kept
    <3>7. p \in Sub(d) \ {d}
      BY <3>1, <3>4 DEF Sub
    <3> QED BY <2>0, <2>1, <3>3, <3>6, <3>7
  <2> QED BY <2>0, <2>3, <2>4, Parts
<1>7. ASSUME ~Reconcile, NEW p \in Path, Drops(p)
      PROVE  \E c \in Sub(d) \ {d} :
                disk'[r][c] # 0 /\ tree'[r][c].instr \in {"UPDATED", "ERROR"}
  <2>1. tree[r][d].instr = "REMOVE" /\ Instr(current, p) = "REMOVE"
    BY <1>2, <1>7, DropsAre
  <2>2. /\ \A s \in Replica : s # current => disk'[s] = disk[s]
        /\ \A q \in Path : disk'[current][q] # 0 => disk[current][q] # 0
        /\ \A q \in Path : q # p /\ disk[current][q] # 0 => disk'[current][q] # 0
    <3>1. CASE Goes(p)
      <4>1. Shrinks(disk[current], disk'[current], {p}, now)
            /\ disk'[Other(current)] = disk[Other(current)]
        BY <3>1 DEF Goes
      <4> QED BY <4>1, Parts DEF Shrinks
    <3>2. CASE PutOff(p) \/ Stays(p)
      BY <3>2 DEF PutOff, Stays
    <3> QED BY <1>7, <3>1, <3>2, DropsAre
  <2>3. disk[r][d] # 0 /\ disk[Other(r)][d] # 0
    BY <2>2, <1>t
  <2>4. PICK c \in Sub(d) \ {d} :
                disk[r][c] # 0 /\ tree[r][c].instr \in {"UPDATED", "ERROR"}
    BY <2>1, <2>3, <1>o
  <2>5. ~(r = current /\ c = p)
    BY <2>1, <2>4 DEF Instr
  <2>6. disk'[r][c] # 0
    BY <1>s, <2>2, <2>4, <2>5
  <2>7. tree'[r][c] = tree[r][c]
    <3>1. CASE UNCHANGED tree
      BY <3>1
    <3>2. CASE TreeMoves(p)
      BY <1>s, <1>t, <2>4, <2>5, <3>2, TreeMovesIs, Parts
    <3>3. TreeMoves(p) \/ UNCHANGED tree
      BY <1>7, DropsAre DEF Goes, PutOff, Stays, TreeMoves
    <3> QED BY <3>1, <3>2, <3>3
  <2> QED BY <2>4, <2>6, <2>7
<1>8. \/ Reconcile \/ (UNCHANGED tree /\ UNCHANGED disk)
      \/ \E q \in Path : DetectUpdate(q) \/ Sends(q) \/ Drops(q)
      \/ \E s \in Replica, q \in Path : UserWrites(s, q) \/ UserDeletes(s, q)
  BY <1>e, Moves DEF Opens, OpenDir, OpenDenied, StartRun, NextReplica, NextPass,
     Commit, Aborts, Crash, OpenFails, vars
<1> QED BY <1>1, <1>3, <1>4, <1>5, <1>6, <1>7, <1>8

(* The first layer holds at the start ... *)
LEMMA InitInvA == Init => InvA
<1> SUFFICES ASSUME Init PROVE InvA
  OBVIOUS
<1>0. PICK P \in Rest :
         /\ journal = [p \in Path |-> IF p \in P \ Unwalked THEN 1 ELSE 0]
         /\ disk = [r \in Replica |-> [p \in Path |-> IF p \in P THEN 1 ELSE 0]]
  BY DEF Init
<1>1. TypeOK /\ now = 1 /\ step = "idle" /\ tree = EmptyTrees
  BY InitTypeOK DEF Init
<1>2. \A p \in Path : p \in P => Parent[p] \in P \cup {Top}
  BY <1>0, ConstantsAssumption DEF ConstantsAssumption
<1>3. Shape
  BY <1>0, <1>2, PathTypes DEF Shape, Grounded
<1>4. \A r \in Replica, p \in Path : tree[r][p] = Absent
  BY <1>1 DEF EmptyTrees
<1>5. Clocked
  BY <1>0, <1>1, <1>4 DEF Clocked, Absent
<1>6. Resting
  BY DEF Resting, Init
<1>7. Nodes /\ Removing /\ Kept /\ Occupied
  BY <1>4 DEF Nodes, Removing, Kept, Occupied, Present, Instr, Absent, Pushable
<1>8. Walking /\ Seen /\ Course
  BY <1>1 DEF Walking, Seen, Course, Propagating
<1> QED BY <1>1, <1>3, <1>5, <1>6, <1>7, <1>8 DEF InvA

(* ... and every step keeps it. *)
LEMMA StepInvA ==
  ASSUME ~Collections, InvA, [Next]_vars
  PROVE  InvA'
<1>1. TypeOK'
  BY StepTypeOK DEF InvA, Clocked
<1> QED
  BY <1>1, StepShape, StepClocked, StepResting, StepNodes, StepWalking, StepSeen,
     StepRemoving, StepKept, StepOccupied, StepCourse DEF InvA

(* An entry the program takes away is one the journal knew and the other   *)
(* side had lost.                                                          *)
LEMMA StepRemoves ==
  ASSUME ~Collections, InvA, [Next]_vars, ByProgram, NEW r \in Replica, NEW p \in Path,
         There(r, p), disk'[r][p] = 0
  PROVE  journal[p] # 0 /\ (There(Other(r), p) => p \in unseen)
<1>t. TypeOK /\ Other(r) \in Replica /\ Shape
  BY Parts, OtherIs DEF InvA
<1>0. disk[r][p] # 0 /\ p # Top /\ (There(Other(r), p) <=> disk[Other(r)][p] # 0)
  BY PathTypes DEF There
<1>1. ASSUME NEW s \in Replica, NEW q \in Path, UserWrites(s, q) \/ UserDeletes(s, q)
      PROVE  FALSE
  BY <1>1 DEF UserWrites, UserDeletes, UserActs, ByProgram
<1>2. ASSUME NEW q \in Path, Sends(q) PROVE FALSE
  BY <1>0, <1>2, SendsIs, Parts DEF Grows
<1>3. ASSUME NEW q \in Path, Drops(q)
      PROVE  journal[p] # 0 /\ (There(Other(r), p) => p \in unseen)
  <2>1. CASE Goes(q)
    <3>1. r = current /\ p = q
      BY <1>0, <2>1, Parts DEF Goes, Shrinks
    <3>2. Instr(r, p) = "REMOVE"
      BY <1>3, <3>1, DropsAre
    <3>3. journal[p] # 0
      BY <3>2 DEF InvA, Removing
    <3>4. ASSUME disk[Other(r)][p] # 0, p \notin unseen PROVE FALSE
      <4>1. PICK c \in Sub(p) \ {p} : disk[r][c] # 0
        BY <1>0, <3>2, <3>4 DEF InvA, Occupied
      <4> DEFINE m == disk[r]
      <4>2. Grounded(m) /\ \A x \in Path : Parent[x] = p => m[x] = 0
        BY <1>t, <2>1, <3>1 DEF Shape, Goes
      <4> HIDE DEF m
      <4>3. m[c] = 0
        BY <4>2, NothingBelow
      <4> QED BY <4>1, <4>3 DEF m
    <3> QED BY <1>0, <3>3, <3>4
  <2>2. CASE PutOff(q) \/ Stays(q)
    BY <1>0, <2>2 DEF PutOff, Stays
  <2> QED BY <1>3, <2>1, <2>2, DropsAre
<1> QED BY DiskSteps, <1>0, <1>1, <1>2, <1>3

(* What a run removes is in the journal, and was not on the other replica, *)
(* where a walk of that run looked: whatever the directories, whatever the *)
(* users do during runs and whichever calls fail, no removal takes the     *)
(* last copy of anything that the run has seen changed.                    *)
THEOREM RemovesOnlyRemoved ==
  ASSUME ~Collections
  PROVE  Spec => RemoveOnlyRemoved
<1>1. Init => InvA
  BY InitInvA
<1>2. InvA /\ [Next]_vars => InvA'
  BY StepInvA
<1>3. InvA /\ [Next]_vars =>
        [ByProgram =>
          \A r \in Replica, p \in Path :
             There(r, p) /\ disk'[r][p] = 0 =>
                journal[p] # 0 /\ (There(Other(r), p) => p \in unseen)]_vars
  BY StepRemoves
<1> QED BY <1>1, <1>2, <1>3, PTL DEF Spec, RemoveOnlyRemoved

-----------------------------------------------------------------------------
(* Files.  No user changes one during a run, and what no walk comes to is  *)
(* in no directory that a walk comes to.                                   *)
Settling ==
    /\ ~Collections
    /\ "filesDuringRun" \notin UserMoves
    /\ \A p \in Unwalked : Parent[p] \in Unwalked \cup {Top}

(* A file is pushed as it was detected, and is the same on both replicas.  *)
LEMMA PushFileIs ==
  ASSUME InvA, NEW p \in Path, PushFile(p)
  PROVE  /\ p \notin Dir /\ step = "files" /\ p \in todo
         /\ Instr(current, p) \in {"NEW", "SYNC"}
         /\ NodeEnds(p, "UPDATED")
         /\ disk[current][p] = tree[current][p].mtime
         /\ disk'[current] = disk[current]
         /\ disk'[Dest][p] = tree[current][p].mtime
         /\ UNCHANGED <<journal, step, current, replica, list, now, calm, dead>>
<1>1. /\ step = "files" /\ p \in todo /\ Instr(current, p) \in {"NEW", "SYNC"}
      /\ disk[current][p] = tree[current][p].mtime /\ NodeEnds(p, "UPDATED")
      /\ UNCHANGED <<journal, step, current, replica, list, now, calm, dead>>
      /\ disk' = [disk EXCEPT ![Dest] = Put(@, p, tree[current][p].mtime, now)]
  BY DEF PushFile, Visits, NoFault, Ends, NodeEnds, Instr
<1>2. p \notin Dir
  BY <1>1 DEF InvA, Course, Propagating
<1> DEFINE n == Put(disk[Dest], p, tree[current][p].mtime, now)
<1>3. n \in Times /\ n[p] = tree[current][p].mtime
  BY Parts, PutIs
<1>4. disk' = [disk EXCEPT ![Dest] = n]
  BY <1>1
<1> HIDE DEF n
<1>5. disk'[Dest] = n /\ disk'[current] = disk[current]
  BY <1>3, <1>4, Parts
<1> QED BY <1>1, <1>2, <1>3, <1>5

(* One that could not be pushed is what it was on both.                    *)
LEMMA PushFailsIs ==
  ASSUME InvA, NEW p \in Path, PushFails(p)
  PROVE  /\ p \notin Dir /\ step = "files" /\ p \in todo
         /\ Instr(current, p) \in {"NEW", "SYNC"}
         /\ NodeEnds(p, "ERROR")
         /\ disk'[current] = disk[current] /\ disk'[Dest][p] = disk[Dest][p]
         /\ UNCHANGED <<journal, step, current, replica, list, now>>
         /\ disk[current][p] = tree[current][p].mtime => calm' = 0
<1>1. /\ step = "files" /\ p \in todo /\ Instr(current, p) \in {"NEW", "SYNC"}
      /\ NodeEnds(p, "ERROR")
      /\ UNCHANGED <<journal, step, current, replica, list, now>>
      /\ disk[current][p] = tree[current][p].mtime => calm' = 0
      /\ \/ UNCHANGED disk
         \/ disk' = [disk EXCEPT ![Dest] = Put(@, p, @[p], now)]
  BY DEF PushFails, Visits, Fault, Ends, NodeEnds, Instr
<1>2. p \notin Dir
  BY <1>1 DEF InvA, Course, Propagating
<1> DEFINE n == Put(disk[Dest], p, disk[Dest][p], now)
<1>3. n \in Times /\ n[p] = disk[Dest][p]
  BY Parts, PutIs
<1>4. UNCHANGED disk \/ disk' = [disk EXCEPT ![Dest] = n]
  BY <1>1
<1> HIDE DEF n
<1>5. disk'[Dest][p] = disk[Dest][p] /\ disk'[current] = disk[current]
  BY <1>3, <1>4, Parts
<1> QED BY <1>1, <1>2, <1>5

(* What a user does during a run removes files at most.                    *)
LEMMA UserFiles ==
  ASSUME InvA, Settling, step # "idle", NEW r \in Replica, NEW p \in Path,
         UserWrites(r, p) \/ UserDeletes(r, p),
         NEW s \in Replica, NEW q \in Path \ Dir
  PROVE  disk'[s][q] \in {0, disk[s][q]}
<1>1. p \in Dir
  BY DEF UserWrites, UserDeletes, UserActs, Settling
<1>2. disk'[Other(r)] = disk[Other(r)]
  BY UserDisk
<1>3. disk'[r][q] \in {0, disk[r][q]}
  BY <1>1, UserDisk DEF Grows, Shrinks
<1> QED BY <1>2, <1>3, OtherIs

(* What happens to a file and its nodes in one step of a run.              *)
LEMMA FileSteps ==
  ASSUME InvA, Settling, [Next]_vars, step # "idle", ~EndRun, NEW q \in Path \ Dir
  PROVE  \/ /\ \A r \in Replica : tree'[r][q] = tree[r][q]
            /\ \A r \in Replica :
                 \/ disk'[r][q] = disk[r][q]
                 \/ disk'[r][q] = 0 /\ calm' = 0
            /\ step' = step \/ (step \in Propagating /\ step' \in Propagating)
         \/ DetectUpdate(q) \/ Reconcile
         \/ PushFile(q) \/ PushFails(q) \/ RemoveFile(q)
<1>t. TypeOK /\ ~Collections
  BY Parts DEF Settling
<1>1. ASSUME NEW r \in Replica, NEW p \in Path, UserWrites(r, p) \/ UserDeletes(r, p)
      PROVE  /\ UNCHANGED <<tree, step>> /\ calm' = 0
             /\ \A s \in Replica : disk'[s][q] \in {0, disk[s][q]}
  BY <1>1, UserFrame, UserFiles
<1>2. ASSUME NEW p \in Path, Sends(p), p # q
      PROVE  /\ \A s \in Replica : disk'[s][q] = disk[s][q]
             /\ \A s \in Replica : tree'[s][q] = tree[s][q]
             /\ step' = step
  <2>1. /\ disk'[current] = disk[current] /\ Grows(disk[Dest], disk'[Dest], p, now)
    BY <1>2, SendsIs
  <2>2. TreeMoves(p) /\ step' = step
    BY <1>2, <1>t, SendsFrame DEF TreeMoves
  <2>3. disk'[Dest][q] = disk[Dest][q]
    BY <1>2, <2>1 DEF Grows
  <2> QED BY <1>t, <1>2, <2>1, <2>2, <2>3, Parts, TreeMovesIs
<1>3. ASSUME NEW p \in Path, Drops(p), p # q
      PROVE  /\ \A s \in Replica : disk'[s][q] = disk[s][q]
             /\ \A s \in Replica : tree'[s][q] = tree[s][q]
             /\ step' = step
  <2>1. step' = step
    BY <1>t, <1>3, DropsFrame
  <2>2. CASE Goes(p)
    <3>1. TreeMoves(p) /\ Shrinks(disk[current], disk'[current], {p}, now)
          /\ disk'[Dest] = disk[Dest]
      BY <2>2, Parts DEF Goes, TreeMoves
    <3>2. disk'[current][q] = disk[current][q]
      BY <1>3, <3>1 DEF Shrinks
    <3> QED BY <1>t, <1>3, <2>1, <3>1, <3>2, Parts, TreeMovesIs
  <2>3. CASE PutOff(p)
    BY <2>1, <2>3 DEF PutOff
  <2>4. CASE Stays(p)
    <3>1. TreeMoves(p) /\ disk' = disk
      BY <2>4 DEF Stays, TreeMoves
    <3> QED BY <1>t, <1>3, <2>1, <3>1, Parts, TreeMovesIs
  <2> QED BY <1>t, <1>3, <2>2, <2>3, <2>4, DropsAre
<1>4. ASSUME NEW p \in Path, DetectUpdate(p), p # q
      PROVE  /\ UNCHANGED <<disk, step>>
             /\ \A s \in Replica : tree'[s][q] = tree[s][q]
  BY <1>4, DetectIs
<1>5. ASSUME Sends(q) \/ Drops(q)
      PROVE  PushFile(q) \/ PushFails(q) \/ RemoveFile(q)
  <2>1. q \notin Dir
    OBVIOUS
  <2>2. Course
    BY DEF InvA
  <2>3. NewDir(q) \/ SyncDir(q) => step = "dirs" /\ q \in todo
    BY DEF NewDir, SyncDir, Visits
  <2>4. ~NewDir(q) /\ ~SyncDir(q)
    BY <2>1, <2>2, <2>3 DEF Course, Propagating
  <2> QED BY <1>5, <2>1, <2>4 DEF Sends, Drops
<1>6. ASSUME NEW d, Opens(d) PROVE UNCHANGED <<disk, tree, step>>
  BY <1>6 DEF Opens, OpenDir, OpenDenied
<1>7. ASSUME NextReplica \/ UNCHANGED vars PROVE UNCHANGED <<disk, tree, step>>
  BY <1>7 DEF NextReplica, vars
<1>8. ASSUME NextPass
      PROVE  UNCHANGED <<disk, tree>> /\ step \in Propagating /\ step' \in Propagating
  BY <1>8 DEF NextPass, Propagating
<1>9. ~StartRun /\ ~Commit /\ ~Aborts
  BY DEF StartRun, Commit, Aborts, Crash, OpenFails
<1> DEFINE Same == /\ \A r \in Replica : tree'[r][q] = tree[r][q]
                   /\ \A r \in Replica :
                        \/ disk'[r][q] = disk[r][q]
                        \/ disk'[r][q] = 0 /\ calm' = 0
                   /\ step' = step \/ (step \in Propagating /\ step' \in Propagating)
<1>10. ASSUME \/ UNCHANGED <<disk, tree, step>>
              \/ /\ UNCHANGED <<disk, tree>>
                 /\ step \in Propagating /\ step' \in Propagating
       PROVE  Same
  BY <1>10
<1>11. ASSUME NEW r \in Replica, NEW p \in Path, UserWrites(r, p) \/ UserDeletes(r, p)
       PROVE  Same
  BY <1>1, <1>11
<1>12. ASSUME /\ \A s \in Replica : disk'[s][q] = disk[s][q]
              /\ \A s \in Replica : tree'[s][q] = tree[s][q]
              /\ step' = step
       PROVE  Same
  BY <1>12
<1>13. ASSUME NEW p \in Path, DetectUpdate(p), p # q PROVE Same
  BY <1>4, <1>13, <1>12
<1>14. ASSUME NEW p \in Path, Sends(p) \/ Drops(p), p # q PROVE Same
  BY <1>2, <1>3, <1>14, <1>12
<1> HIDE DEF Same
<1>15. \/ Same \/ DetectUpdate(q) \/ Reconcile
       \/ PushFile(q) \/ PushFails(q) \/ RemoveFile(q)
  BY Moves, <1>5, <1>6, <1>7, <1>8, <1>9, <1>10, <1>11, <1>13, <1>14
<1> QED BY <1>15 DEF Same

(* What is in the journal is not newer than what is on disk.               *)
NotOlder ==
    \A r \in Replica, p \in Path \ Dir :
        /\ disk[r][p] # 0 => disk[r][p] >= journal[p]
        /\ Present(r, p) => tree[r][p].mtime >= journal[p]

(* What was detected is still there, or was deleted.                       *)
AsFound ==
    step = "update" =>
        \A r \in Replica, p \in Path \ Dir :
            Present(r, p) /\ disk[r][p] # 0 => disk[r][p] = tree[r][p].mtime

Acted   == {"NEW", "SYNC", "REMOVE", "UPDATED", "ERROR", "DELETED"}
Passive == {"ABSENT", "NONE", "EVAL", "RENAME"}

(* What the nodes of a file say of what is on the disks: n and d are the   *)
(* nodes and the times of one path.                                        *)
Row(n, d, j) ==
    \A r \in Replica :
        /\ n[r].instr \in Acted \cup Passive
        /\ n[r].instr \in Acted => n[Other(r)].instr \in Passive
        /\ n[r].instr \in {"NEW", "SYNC"} /\ d[r] # 0 => d[r] = n[r].mtime
        /\ n[r].instr = "UPDATED" /\ d[r] # 0 /\ d[Other(r)] # 0 =>
              d[r] = d[Other(r)]
        /\ n["local"].instr \in {"NONE", "UPDATED"} /\ d[r] # 0 =>
              d[r] >= n["local"].mtime
        /\ n[r].instr = "REMOVE" => n[r].mtime = j

NodesAt(p) == [r \in Replica |-> tree[r][p]]
TimesAt(p) == [r \in Replica |-> disk[r][p]]

FileRows ==
    step \in Propagating =>
        \A p \in Path \ Dir : Row(NodesAt(p), TimesAt(p), journal[p])

InvB == InvA /\ NotOlder /\ AsFound /\ FileRows

(* The nodes and times of one path, in both states. *)
LEMMA AtIs ==
  ASSUME NEW p \in Path, NEW r \in Replica
  PROVE  /\ NodesAt(p)[r] = tree[r][p] /\ NodesAt(p)'[r] = tree'[r][p]
         /\ TimesAt(p)[r] = disk[r][p] /\ TimesAt(p)'[r] = disk'[r][p]
BY DEF NodesAt, TimesAt

(* A run ends with or without a new journal. *)
LEMMA RunEnds ==
  ASSUME InvA, [Next]_vars, EndRun
  PROVE  /\ \A r \in Replica, p \in Path : tree'[r][p].instr = "ABSENT"
         /\ step' = "idle"
         /\ \/ UNCHANGED <<disk, journal>>
            \/ Commit /\ UNCHANGED disk
            \/ \E r \in Replica, p \in Path :
                  step = "idle" /\ (UserWrites(r, p) \/ UserDeletes(r, p))
<1>1. /\ \A r \in Replica, p \in Path : tree'[r][p].instr = "ABSENT"
      /\ step' = "idle"
  BY DEF EndRun, EmptyTrees, Absent
<1>2. ASSUME NEW r \in Replica, NEW p \in Path, UserWrites(r, p) \/ UserDeletes(r, p)
      PROVE  step = "idle"
  BY <1>1, <1>2, UserFrame
<1>3. ASSUME NEW d, Opens(d) PROVE FALSE
  BY <1>1, <1>3 DEF Opens, OpenDir, OpenDenied
<1>4. ASSUME NEW p \in Path, DetectUpdate(p) \/ Sends(p) \/ Drops(p) PROVE FALSE
  BY <1>1, <1>4, SendsFrame, DropsFrame, Parts DEF DetectUpdate
<1>5. ~StartRun /\ ~NextReplica /\ ~Reconcile /\ ~NextPass
  BY <1>1 DEF StartRun, NextReplica, Reconcile, NextPass
<1>6. Commit => UNCHANGED disk
  BY DEF Commit
<1>7. Aborts \/ UNCHANGED vars => UNCHANGED <<disk, journal>>
  BY DEF Aborts, Crash, OpenFails, vars
<1> QED BY Moves, <1>1, <1>2, <1>3, <1>4, <1>5, <1>6, <1>7

(* Between runs the user and StartRun are alone. *)
LEMMA IdleSteps ==
  ASSUME InvA, [Next]_vars, step = "idle"
  PROVE  /\ UNCHANGED <<journal, tree>>
         /\ \/ \E r \in Replica, p \in Path : UserWrites(r, p) \/ UserDeletes(r, p)
            \/ UNCHANGED disk
         /\ \/ UNCHANGED step
            \/ StartRun
<1>1. ASSUME NEW r \in Replica, NEW p \in Path, UserWrites(r, p) \/ UserDeletes(r, p)
      PROVE  UNCHANGED <<journal, tree, step>>
  BY <1>1, UserFrame
<1>2. ASSUME NEW d, Opens(d) PROVE FALSE
  BY <1>2 DEF Opens, OpenDir, OpenDenied
<1>3. ASSUME NEW p \in Path, DetectUpdate(p) \/ Sends(p) \/ Drops(p) PROVE FALSE
  BY <1>3, SendsFrame, DropsFrame, Parts DEF DetectUpdate
<1>4. ~NextReplica /\ ~Reconcile /\ ~NextPass /\ ~Commit
  BY DEF NextReplica, Reconcile, NextPass, Commit
<1>5. ~Aborts
  BY DEF Aborts, Crash, OpenFails
<1>6. StartRun \/ UNCHANGED vars => UNCHANGED <<journal, tree, disk>>
  BY DEF StartRun, vars
<1>7. UNCHANGED vars => UNCHANGED step
  BY DEF vars
<1> QED BY Moves, <1>1, <1>2, <1>3, <1>4, <1>5, <1>6, <1>7

(* No file on a disk becomes older than its journal row. *)
LEMMA StepNotOlder ==
  ASSUME InvB, Settling, [Next]_vars
  PROVE  NotOlder'
<1> SUFFICES ASSUME NEW r \in Replica, NEW q \in Path \ Dir
             PROVE  /\ disk'[r][q] # 0 => disk'[r][q] >= journal'[q]
                    /\ tree'[r][q].instr # "ABSENT" =>
                          tree'[r][q].mtime >= journal'[q]
  BY DEF NotOlder, Present, Instr
<1>i. InvA
  BY DEF InvB
<1>n. /\ \A s \in Replica : disk[s][q] # 0 => disk[s][q] >= journal[q]
      /\ \A s \in Replica : tree[s][q].instr # "ABSENT" => tree[s][q].mtime >= journal[q]
  BY DEF InvB, NotOlder, Present, Instr
<1>t. /\ TypeOK /\ journal[q] \in Nat /\ now \in Nat /\ journal[q] <= now
      /\ \A s \in Replica : disk[s][q] \in Nat /\ tree[s][q].mtime \in Nat
      /\ current \in Replica /\ Dest \in Replica /\ Other(current) = Dest
      /\ \A s \in Replica : s = current \/ s = Dest
  BY <1>i, Parts DEF InvA, Clocked
<1>1. CASE step = "idle"
  <2>1. UNCHANGED <<journal, tree>>
    BY <1>1, <1>i, IdleSteps
  <2>2. CASE UNCHANGED disk
    BY <1>n, <2>1, <2>2
  <2>3. ASSUME NEW s \in Replica, NEW p \in Path, UserWrites(s, p) \/ UserDeletes(s, p)
        PROVE  disk'[r][q] \in {0, disk[r][q], now + 1}
    BY <1>i, <2>3, UserDisk, OtherIs DEF Grows, Shrinks
  <2>4. disk'[r][q] \in {0, disk[r][q], now + 1}
    BY <1>1, <1>i, <2>3, IdleSteps
  <2> QED BY <1>n, <1>t, <2>1, <2>4
<1>2. CASE EndRun /\ step # "idle"
  <2>1. tree'[r][q].instr = "ABSENT"
    BY <1>2, <1>i, RunEnds
  <2>2. CASE UNCHANGED <<disk, journal>>
    BY <1>n, <2>1, <2>2
  <2>3. CASE Commit /\ UNCHANGED disk
    <3>1. step = "commit"
      BY <2>3 DEF Commit
    <3> DEFINE n == NodesAt(q)
               d == TimesAt(q)
    <3>2. Row(n, d, journal[q])
      BY <3>1 DEF InvB, FileRows, Propagating
    <3>3. /\ "local" \in Replica /\ "remote" \in Replica
          /\ Other("remote") = "local" /\ (r = "local" \/ r = "remote")
      BY DEF Replica, Other
    <3>4. /\ n["local"] = tree["local"][q] /\ n["remote"] = tree["remote"][q]
          /\ d["local"] = disk["local"][q] /\ d["remote"] = disk["remote"][q]
          /\ d[r] = disk[r][q]
      BY <3>3, AtIs
    <3> HIDE DEF n, d
    <3>5. /\ tree["remote"][q].instr = "UPDATED" /\ disk[r][q] # 0
                /\ disk["local"][q] # 0 => disk[r][q] = disk["local"][q]
          /\ tree["local"][q].instr \in {"NONE", "UPDATED"} /\ disk[r][q] # 0 =>
                disk[r][q] >= tree["local"][q].mtime
          /\ tree["local"][q].instr # "CONFLICT"
      BY <3>2, <3>3, <3>4 DEF Row, Acted, Passive
    <3>6. There("local", q) <=> disk["local"][q] # 0
      BY PathTypes DEF There
    <3>7. CASE journal' = journal
      BY <1>n, <2>1, <2>3, <3>7
    <3>8. CASE /\ ~(tree["remote"][q].instr = "UPDATED" /\ ~There("local", q))
               /\ journal'[q] = IF Written(Merged(q)) THEN Merged(q).mtime ELSE 0
      <4>1. CASE tree["remote"][q].instr = "UPDATED"
        <5>1. journal'[q] = disk["local"][q] /\ disk["local"][q] # 0
          BY <3>6, <3>8, <4>1 DEF Merged, Written
        <5> QED BY <1>t, <2>1, <2>3, <3>5, <4>1, <5>1
      <4>2. CASE tree["remote"][q].instr # "UPDATED"
        <5>1. \/ journal'[q] = 0
              \/ /\ tree["local"][q].instr \in {"NONE", "UPDATED"}
                 /\ journal'[q] = tree["local"][q].mtime
          BY <3>5, <3>8, <4>2 DEF Merged, Written
        <5> QED BY <1>t, <2>1, <2>3, <3>5, <5>1
      <4> QED BY <4>1, <4>2
    <3> QED BY <2>3, <3>7, <3>8 DEF Commit
  <2> QED BY <1>2, <1>i, <2>2, <2>3, RunEnds
<1>3. CASE ~EndRun /\ step # "idle"
  <2>1. UNCHANGED journal
    BY <1>3, <1>i, Phases
  <2>2. CASE tree'[r][q] = tree[r][q] /\ disk'[r][q] \in {0, disk[r][q]}
    BY <1>n, <2>1, <2>2
  <2>3. CASE DetectUpdate(q)
    <3>1. /\ UNCHANGED disk
          /\ \/ tree'[r][q] = tree[r][q]
             \/ r = current /\ disk[r][q] # 0 /\ tree'[r][q].mtime = disk[r][q]
      BY <1>i, <1>t, <2>3, DetectIs
    <3> QED BY <1>n, <2>1, <3>1
  <2>4. CASE Reconcile
    <3>1. UNCHANGED disk
      BY <2>4 DEF Reconcile
    <3>2. tree'[r][q].mtime = tree[r][q].mtime
      BY <1>i, <2>4, ReconcileIs DEF Replica
    <3>3. tree'[r][q].instr # "ABSENT" => tree[r][q].instr # "ABSENT"
      <4>1. ~DetectUpdate(q)
        BY <2>4 DEF DetectUpdate, Reconcile
      <4> QED BY <1>3, <1>i, <4>1, Presence DEF Present, Instr
    <3> QED BY <1>n, <2>1, <3>1, <3>2, <3>3
  <2>5. ASSUME disk'[r][q] \in {0, disk[r][q], tree[current][q].mtime},
               tree[current][q].instr # "ABSENT",
               tree'[r][q].mtime = tree[r][q].mtime,
               tree'[r][q].instr # "ABSENT" => tree[r][q].instr # "ABSENT"
        PROVE  /\ disk'[r][q] # 0 => disk'[r][q] >= journal'[q]
               /\ tree'[r][q].instr # "ABSENT" => tree'[r][q].mtime >= journal'[q]
    BY <1>n, <1>t, <2>1, <2>5
  <2>6. ASSUME NEW x \in Word, NodeEnds(q, x), tree[current][q].instr # "ABSENT"
        PROVE  /\ tree'[r][q].mtime = tree[r][q].mtime
               /\ tree'[r][q].instr # "ABSENT" => tree[r][q].instr # "ABSENT"
    BY <1>t, <2>6, NodeEndsIs
  <2>7. {"UPDATED", "ERROR", "DELETED", "NONE"} \subseteq Word
    BY DEF Word, Instruction
  <2>8. CASE PushFile(q)
    <3>1. /\ NodeEnds(q, "UPDATED") /\ Instr(current, q) \in {"NEW", "SYNC"}
          /\ disk'[current] = disk[current]
          /\ disk'[Dest][q] = tree[current][q].mtime
      BY <1>i, <2>8, PushFileIs
    <3> QED BY <1>t, <2>5, <2>6, <2>7, <3>1 DEF Instr
  <2>9. CASE PushFails(q)
    <3>1. /\ NodeEnds(q, "ERROR") /\ Instr(current, q) \in {"NEW", "SYNC"}
          /\ disk'[current] = disk[current] /\ disk'[Dest][q] = disk[Dest][q]
      BY <1>i, <2>9, PushFailsIs
    <3> QED BY <1>t, <2>5, <2>6, <2>7, <3>1 DEF Instr
  <2>10. CASE RemoveFile(q)
    <3>0. Drops(q) /\ ~Collections
      BY <2>10 DEF Drops, Settling
    <3>1. /\ Goes(q) \/ PutOff(q) \/ Stays(q)
          /\ Instr(current, q) = "REMOVE"
      BY <1>i, <3>0, DropsAre
    <3>2. CASE Goes(q)
      <4>1. disk'[r][q] \in {0, disk[r][q]} /\ NodeEnds(q, "DELETED")
        BY <1>t, <3>2 DEF Goes, Shrinks
      <4> QED BY <2>5, <2>6, <2>7, <3>1, <4>1 DEF Instr
    <3>3. CASE Stays(q)
      <4>1. UNCHANGED disk /\ NodeEnds(q, "NONE")
        BY <3>3 DEF Stays
      <4> QED BY <2>5, <2>6, <2>7, <3>1, <4>1 DEF Instr
    <3> QED BY <3>1, <3>2, <3>3 DEF PutOff
  <2> QED BY <1>3, <1>i, <2>2, <2>3, <2>4, <2>8, <2>9, <2>10, FileSteps
<1> QED BY <1>1, <1>2, <1>3

(* A file's node keeps the time its disk has. *)
LEMMA StepAsFound ==
  ASSUME InvB, Settling, [Next]_vars
  PROVE  AsFound'
<1> SUFFICES ASSUME step' = "update", NEW r \in Replica, NEW q \in Path \ Dir,
                    tree'[r][q].instr # "ABSENT", disk'[r][q] # 0
             PROVE  disk'[r][q] = tree'[r][q].mtime
  BY DEF AsFound, Present, Instr
<1>i. InvA
  BY DEF InvB
<1>1. step # "idle"
  <2> SUFFICES ASSUME step = "idle" PROVE FALSE
    OBVIOUS
  <2>1. UNCHANGED tree
    BY <1>i, IdleSteps
  <2> QED BY <1>i, <2>1, IdleAbsent
<1>2. ~EndRun
  BY DEF EndRun
<1>3. CASE /\ tree'[r][q] = tree[r][q] /\ disk'[r][q] \in {0, disk[r][q]}
           /\ step' = step \/ (step \in Propagating /\ step' \in Propagating)
  <2>1. step = "update"
    BY <1>3 DEF Propagating
  <2> QED BY <1>3, <2>1 DEF InvB, AsFound, Present, Instr
<1>4. CASE DetectUpdate(q)
  <2>1. /\ UNCHANGED disk /\ step = "update"
        /\ \/ tree'[r][q] = tree[r][q]
           \/ tree'[r][q].mtime = disk[r][q]
    BY <1>i, <1>4, DetectIs, Parts
  <2> QED BY <2>1 DEF InvB, AsFound, Present, Instr
<1>5. ~Reconcile /\ ~PushFile(q) /\ ~PushFails(q) /\ ~RemoveFile(q)
  BY DEF Reconcile, PushFile, PushFails, RemoveFile, Visits
<1> QED BY <1>1, <1>2, <1>3, <1>4, <1>5, <1>i, FileSteps

-----------------------------------------------------------------------------
(* What becomes of a row: a file is pushed, or it is not; one replica loses*)
(* it, or it stays.  c is the replica that is walked, o the other one.     *)
LEMMA RowPushed ==
  ASSUME NEW n, NEW d, NEW m, NEW e, NEW j, NEW c \in Replica, Row(n, d, j),
         \A r \in Replica : d[r] \in Nat /\ n[r].mtime \in Nat,
         n[c].instr \in {"NEW", "SYNC"}, d[c] = n[c].mtime, d[c] # 0,
         m[c].instr = "UPDATED", m[c].mtime = n[c].mtime, m[Other(c)] = n[Other(c)],
         e[c] = d[c], e[Other(c)] = n[c].mtime
  PROVE  Row(m, e, j)
<1>1. PICK o \in Replica : o = Other(c) /\ o # c /\ Other(o) = c
                           /\ \A r \in Replica : r = c \/ r = o
  BY OtherIs
<1>2. /\ m[o] = n[o] /\ n[o].instr \in Passive /\ "UPDATED" \in Acted \ Passive
      /\ e[o] = d[c] /\ e[c] = d[c]
  BY <1>1 DEF Row, Acted, Passive
<1>3. \A r \in Replica :
        /\ m[r].instr \in Acted \cup Passive
        /\ m[r].instr \in Acted => m[Other(r)].instr \in Passive
        /\ m[r].instr \in {"NEW", "SYNC"} /\ e[r] # 0 => e[r] = m[r].mtime
        /\ m[r].instr = "UPDATED" /\ e[r] # 0 /\ e[Other(r)] # 0 =>
              e[r] = e[Other(r)]
        /\ m[r].instr = "REMOVE" => m[r].mtime = j
  BY <1>1, <1>2 DEF Row, Acted, Passive
<1>4. "local" \in Replica
  BY DEF Replica
<1>5. m["local"].instr \in {"NONE", "UPDATED"} => d[c] >= m["local"].mtime
  <2>1. CASE "local" = c
    BY <2>1
  <2>2. CASE "local" = o
    BY <1>2, <2>2 DEF Row, Passive
  <2> QED BY <1>1, <1>4, <2>1, <2>2
<1>6. \A r \in Replica : m["local"].instr \in {"NONE", "UPDATED"} /\ e[r] # 0 =>
              e[r] >= m["local"].mtime
  BY <1>1, <1>2, <1>5
<1> QED BY <1>3, <1>6 DEF Row

(* The row of a file survives the end of one of its instructions. *)
LEMMA RowEnds ==
  ASSUME NEW n, NEW d, NEW m, NEW e, NEW j, NEW c \in Replica, Row(n, d, j),
         \A r \in Replica : d[r] \in Nat /\ n[r].mtime \in Nat /\ e[r] \in {0, d[r]},
         \/ m[c].instr = n[c].instr
         \/ n[c].instr \in Acted /\ m[c].instr \in {"ERROR", "DELETED"}
         \/ n[c].instr = "REMOVE" /\ m[c].instr = "NONE" /\ n[Other(c)].instr = "ABSENT",
         m[c].mtime = n[c].mtime, m[Other(c)] = n[Other(c)],
         \A r \in Replica : e[r] # 0 => e[r] >= j
  PROVE  Row(m, e, j)
<1>1. PICK o \in Replica : o = Other(c) /\ o # c /\ Other(o) = c
                           /\ \A r \in Replica : r = c \/ r = o
  BY OtherIs
<1>2. /\ m[o] = n[o] /\ (n[c].instr \in Acted => n[o].instr \in Passive)
      /\ (n[o].instr \in Acted => n[c].instr \in Passive)
  BY <1>1 DEF Row
<1>3. \A r \in Replica :
        /\ n[r].instr \in Acted \cup Passive
        /\ n[r].instr \in {"NEW", "SYNC"} /\ d[r] # 0 => d[r] = n[r].mtime
        /\ n[r].instr = "UPDATED" /\ d[r] # 0 /\ d[Other(r)] # 0 =>
              d[r] = d[Other(r)]
        /\ n[r].instr = "REMOVE" => n[r].mtime = j
  BY DEF Row
<1>4. "local" \in Replica
  BY DEF Replica
<1>5. \A r \in Replica : n["local"].instr \in {"NONE", "UPDATED"} /\ d[r] # 0 =>
              d[r] >= n["local"].mtime
  BY DEF Row
<1>6. \A r \in Replica :
        /\ m[r].instr \in Acted \cup Passive
        /\ m[r].instr \in Acted => m[Other(r)].instr \in Passive
        /\ m[r].instr \in {"NEW", "SYNC"} /\ e[r] # 0 => e[r] = m[r].mtime
        /\ m[r].instr = "UPDATED" /\ e[r] # 0 /\ e[Other(r)] # 0 =>
              e[r] = e[Other(r)]
        /\ m[r].instr = "REMOVE" => m[r].mtime = j
  <2>1. ASSUME m[c].instr = n[c].instr
        PROVE  /\ m[c].instr \in Acted \cup Passive
               /\ m[c].instr \in Acted => m[o].instr \in Passive
               /\ m[o].instr \in Acted => m[c].instr \in Passive
               /\ m[c].instr \in {"NEW", "SYNC"} /\ e[c] # 0 => e[c] = m[c].mtime
               /\ m[c].instr = "UPDATED" /\ e[c] # 0 /\ e[o] # 0 => e[c] = e[o]
               /\ m[c].instr = "REMOVE" => m[c].mtime = j
    BY <1>1, <1>2, <1>3, <2>1
  <2>2. ASSUME n[c].instr \in Acted /\ m[c].instr \in {"ERROR", "DELETED"}
        PROVE  /\ m[c].instr \in Acted \cup Passive
               /\ m[c].instr \in Acted => m[o].instr \in Passive
               /\ m[o].instr \in Acted => m[c].instr \in Passive
               /\ m[c].instr \in {"NEW", "SYNC"} /\ e[c] # 0 => e[c] = m[c].mtime
               /\ m[c].instr = "UPDATED" /\ e[c] # 0 /\ e[o] # 0 => e[c] = e[o]
               /\ m[c].instr = "REMOVE" => m[c].mtime = j
    BY <1>1, <1>2, <1>3, <2>2 DEF Acted, Passive
  <2>3. ASSUME n[c].instr = "REMOVE", m[c].instr = "NONE"
        PROVE  /\ m[c].instr \in Acted \cup Passive
               /\ m[c].instr \in Acted => m[o].instr \in Passive
               /\ m[o].instr \in Acted => m[c].instr \in Passive
               /\ m[c].instr \in {"NEW", "SYNC"} /\ e[c] # 0 => e[c] = m[c].mtime
               /\ m[c].instr = "UPDATED" /\ e[c] # 0 /\ e[o] # 0 => e[c] = e[o]
               /\ m[c].instr = "REMOVE" => m[c].mtime = j
    BY <1>1, <1>2, <1>3, <2>3 DEF Acted, Passive
  <2>4. /\ m[c].instr \in Acted \cup Passive
        /\ m[c].instr \in Acted => m[o].instr \in Passive
        /\ m[o].instr \in Acted => m[c].instr \in Passive
        /\ m[c].instr \in {"NEW", "SYNC"} /\ e[c] # 0 => e[c] = m[c].mtime
        /\ m[c].instr = "UPDATED" /\ e[c] # 0 /\ e[o] # 0 => e[c] = e[o]
        /\ m[c].instr = "REMOVE" => m[c].mtime = j
    BY <2>1, <2>2, <2>3
  <2>5. /\ m[o].instr \in Acted \cup Passive
        /\ m[o].instr \in {"NEW", "SYNC"} /\ e[o] # 0 => e[o] = m[o].mtime
        /\ m[o].instr = "UPDATED" /\ e[o] # 0 /\ e[c] # 0 => e[o] = e[c]
        /\ m[o].instr = "REMOVE" => m[o].mtime = j
    BY <1>1, <1>2, <1>3
  <2> QED BY <1>1, <2>4, <2>5
<1>7. \A r \in Replica : m["local"].instr \in {"NONE", "UPDATED"} /\ e[r] # 0 =>
              e[r] >= m["local"].mtime
  <2>1. CASE m["local"].instr = n["local"].instr /\ m["local"].mtime = n["local"].mtime
    BY <1>5, <2>1
  <2>2. CASE "local" = c /\ m[c].instr \in {"ERROR", "DELETED"}
    BY <2>2
  <2>3. CASE "local" = c /\ n[c].instr = "REMOVE" /\ m[c].instr = "NONE"
    BY <1>1, <1>3, <2>3
  <2> QED BY <1>1, <1>2, <1>4, <2>1, <2>2, <2>3
<1> QED BY <1>6, <1>7 DEF Row

(* The row of a file holds when the reconciler has given its verdict. *)
LEMMA RowFound ==
  ASSUME NEW n, NEW m, NEW d, NEW j \in Nat,
         \A r \in Replica : /\ d[r] \in Nat /\ n[r].mtime \in Nat
                            /\ m[r].mtime = n[r].mtime
                            /\ d[r] # 0 => d[r] >= j
                            /\ n[r].instr # "ABSENT" => n[r].mtime >= j
                            /\ n[r].instr # "ABSENT" /\ d[r] # 0 => d[r] = n[r].mtime
                            /\ n[r].instr = "NONE" => n[r].mtime <= j,
         Verdict(n["local"], n["remote"], m["local"].instr, m["remote"].instr)
  PROVE  Row(m, d, j)
<1>1. /\ "local" \in Replica /\ "remote" \in Replica
      /\ Other("remote") = "local" /\ Other("local") = "remote"
      /\ \A r \in Replica : r = "local" \/ r = "remote"
  BY DEF Replica, Other
<1> DEFINE a == n["local"]  b == n["remote"]
           i == m["local"].instr  k == m["remote"].instr
<1>2. /\ i \in Acted \cup Passive /\ k \in Acted \cup Passive
      /\ i \in Acted => k \in Passive
      /\ k \in Acted => i \in Passive
      /\ i # "UPDATED" /\ k # "UPDATED"
      /\ i \in {"NEW", "SYNC", "REMOVE"} => a.instr # "ABSENT"
      /\ k \in {"NEW", "SYNC", "REMOVE"} => b.instr # "ABSENT"
      /\ i = "REMOVE" => a.instr = "NONE"
      /\ k = "REMOVE" => b.instr = "NONE"
  BY DEF Verdict, Acted, Passive
<1>3. i = "NONE" => /\ a.instr # "ABSENT" /\ b.instr # "ABSENT"
                    /\ a.mtime <= b.mtime \/ a.mtime <= j
  BY <1>1 DEF Verdict
<1>4. /\ d["local"] \in Nat /\ d["remote"] \in Nat /\ a.mtime \in Nat /\ b.mtime \in Nat
      /\ m["local"].mtime = a.mtime /\ m["remote"].mtime = b.mtime
      /\ a.instr # "ABSENT" => a.mtime >= j
      /\ b.instr # "ABSENT" => b.mtime >= j
      /\ a.instr # "ABSENT" /\ d["local"] # 0 => d["local"] = a.mtime
      /\ b.instr # "ABSENT" /\ d["remote"] # 0 => d["remote"] = b.mtime
      /\ a.instr = "NONE" => a.mtime <= j
      /\ b.instr = "NONE" => b.mtime <= j
      /\ d["local"] # 0 => d["local"] >= j
      /\ d["remote"] # 0 => d["remote"] >= j
  BY <1>1
<1> HIDE DEF a, b
<1>5. i = "NONE" /\ d["local"] # 0 => d["local"] >= m["local"].mtime
  BY <1>3, <1>4
<1>6. i = "NONE" /\ d["remote"] # 0 => d["remote"] >= m["local"].mtime
  BY <1>3, <1>4
<1>7. /\ i = "REMOVE" => m["local"].mtime = j
      /\ k = "REMOVE" => m["remote"].mtime = j
  BY <1>2, <1>4
<1>8. /\ i \in {"NEW", "SYNC"} /\ d["local"] # 0 => d["local"] = m["local"].mtime
      /\ k \in {"NEW", "SYNC"} /\ d["remote"] # 0 => d["remote"] = m["remote"].mtime
  BY <1>2, <1>4
<1> QED BY <1>1, <1>2, <1>5, <1>6, <1>7, <1>8 DEF Row

(* The rows of files survive every step. *)
LEMMA StepFileRows ==
  ASSUME InvB, Settling, [Next]_vars, NotOlder'
  PROVE  FileRows'
<1> SUFFICES ASSUME step' \in Propagating, NEW q \in Path \ Dir
             PROVE  Row(NodesAt(q)', TimesAt(q)', journal'[q])
  BY DEF FileRows, Propagating
<1>i. InvA
  BY DEF InvB
<1>1. ~EndRun /\ step # "idle"
  BY <1>i, Phases DEF EndRun, Propagating
<1>2. UNCHANGED journal
  BY <1>1, <1>i, Phases
<1>t. /\ current \in Replica /\ Dest \in Replica /\ Dest # current /\ Other(current) = Dest
      /\ \A r \in Replica : r = current \/ r = Dest
      /\ \A r \in Replica : disk[r][q] \in Nat /\ tree[r][q].mtime \in Nat
      /\ journal[q] \in Nat
      /\ TypeOK
  BY <1>i, Parts
<1>a. \A r \in Replica : /\ NodesAt(q)[r] = tree[r][q] /\ NodesAt(q)'[r] = tree'[r][q]
                         /\ TimesAt(q)[r] = disk[r][q] /\ TimesAt(q)'[r] = disk'[r][q]
  BY AtIs
<1>o. \A r \in Replica : disk'[r][q] # 0 => disk'[r][q] >= journal[q]
  BY <1>2 DEF NotOlder
<1>r. step \in Propagating => Row(NodesAt(q), TimesAt(q), journal[q])
  BY DEF InvB, FileRows
<1>s. /\ "local" \in Replica /\ "remote" \in Replica
  BY DEF Replica
<1> DEFINE n == NodesAt(q)  d == TimesAt(q)  m == NodesAt(q)'  e == TimesAt(q)'
<1> HIDE DEF n, d, m, e
<1>b. \A r \in Replica : /\ n[r] = tree[r][q] /\ m[r] = tree'[r][q]
                         /\ d[r] = disk[r][q] /\ e[r] = disk'[r][q]
  BY <1>a DEF n, d, m, e
<1>c. step \in Propagating => Row(n, d, journal[q])
  BY <1>r DEF n, d
<1>g. SUFFICES Row(m, e, journal[q])
  BY <1>2 DEF m, e
<1>d. \A r \in Replica : /\ d[r] \in Nat /\ n[r].mtime \in Nat
                         /\ e[r] # 0 => e[r] >= journal[q]
  BY <1>b, <1>o, <1>t
<1>e. ASSUME step \in Propagating, \A r \in Replica : e[r] \in {0, d[r]},
             \/ m[current].instr = n[current].instr
             \/ n[current].instr \in Acted /\ m[current].instr \in {"ERROR", "DELETED"}
             \/ n[current].instr = "REMOVE" /\ m[current].instr = "NONE"
                /\ n[Dest].instr = "ABSENT",
             m[current].mtime = n[current].mtime, m[Dest] = n[Dest]
      PROVE  Row(m, e, journal[q])
  <2>1. Row(n, d, journal[q]) /\ current \in Replica /\ Dest = Other(current)
    BY <1>e, <1>c, <1>t
  <2> HIDE DEF Dest
  <2>2. /\ \A r \in Replica : d[r] \in Nat /\ n[r].mtime \in Nat /\ e[r] \in {0, d[r]}
        /\ m[Other(current)] = n[Other(current)]
        /\ \A r \in Replica : e[r] # 0 => e[r] >= journal[q]
    BY <1>e, <1>d, <2>1
  <2>3. \/ m[current].instr = n[current].instr
        \/ n[current].instr \in Acted /\ m[current].instr \in {"ERROR", "DELETED"}
        \/ n[current].instr = "REMOVE" /\ m[current].instr = "NONE"
           /\ n[Other(current)].instr = "ABSENT"
    BY <1>e, <2>1
  <2> QED BY <1>e, <2>1, <2>2, <2>3, RowEnds
<1>3. CASE /\ \A r \in Replica : tree'[r][q] = tree[r][q]
           /\ \A r \in Replica : disk'[r][q] \in {0, disk[r][q]}
           /\ step' = step \/ (step \in Propagating /\ step' \in Propagating)
  <2>1. step \in Propagating
    BY <1>3
  <2>2. m[current] = n[current] /\ m[Dest] = n[Dest] /\ \A r \in Replica : e[r] \in {0, d[r]}
    BY <1>3, <1>b, <1>t
  <2> QED BY <2>1, <2>2, <1>e
<1>4. ~DetectUpdate(q)
  BY DEF DetectUpdate, Propagating
<1>5. CASE Reconcile
  <2>1. UNCHANGED disk
    BY <1>5 DEF Reconcile
  <2>2. /\ step = "update"
        /\ \A r \in Replica : tree'[r][q].mtime = tree[r][q].mtime
        /\ Verdict(tree["local"][q], tree["remote"][q],
                   tree'["local"][q].instr, tree'["remote"][q].instr)
    BY <1>i, <1>5, ReconcileIs DEF Replica
  <2>3. \A r \in Replica :
          /\ disk[r][q] # 0 => disk[r][q] >= journal[q]
          /\ tree[r][q].instr # "ABSENT" => tree[r][q].mtime >= journal[q]
          /\ tree[r][q].instr # "ABSENT" /\ disk[r][q] # 0 => disk[r][q] = tree[r][q].mtime
          /\ tree[r][q].instr = "NONE" => tree[r][q].mtime <= journal[q]
    BY <2>2, <1>i DEF InvB, NotOlder, AsFound, InvA, Walking, Tells, Present, Instr
  <2>4. \A r \in Replica : e[r] = disk[r][q]
    BY <1>b, <2>1
  <2>5. Verdict(n["local"], n["remote"], m["local"].instr, m["remote"].instr)
    BY <1>b, <1>s, <2>2
  <2>6. \A r \in Replica : /\ e[r] \in Nat /\ n[r].mtime \in Nat
                           /\ m[r].mtime = n[r].mtime
                           /\ e[r] # 0 => e[r] >= journal[q]
                           /\ n[r].instr # "ABSENT" => n[r].mtime >= journal[q]
                           /\ n[r].instr # "ABSENT" /\ e[r] # 0 => e[r] = n[r].mtime
                           /\ n[r].instr = "NONE" => n[r].mtime <= journal[q]
    BY <1>b, <2>2, <2>3, <2>4, <1>t
  <2> QED BY <2>5, <2>6, <1>t, RowFound
<1>6. ASSUME NEW x \in Word, NodeEnds(q, x)
      PROVE  /\ m[current].instr = x
             /\ m[current].mtime = n[current].mtime /\ m[Dest] = n[Dest]
  BY <1>6, <1>t, <1>b, NodeEndsIs
<1>7. {"UPDATED", "ERROR", "DELETED", "NONE"} \subseteq Word
  BY DEF Word, Instruction
<1>8. CASE PushFile(q)
  <2>1. /\ step = "files" /\ Instr(current, q) \in {"NEW", "SYNC"}
        /\ NodeEnds(q, "UPDATED")
        /\ disk[current][q] = tree[current][q].mtime
        /\ disk'[current] = disk[current]
        /\ disk'[Dest][q] = tree[current][q].mtime
    BY <1>i, <1>8, PushFileIs
  <2>2. tree[current][q].mtime # 0
    BY <2>1, <1>i, <1>t DEF InvA, Nodes, Present, Instr
  <2>3. Row(n, d, journal[q])
    BY <2>1, <1>c DEF Propagating
  <2>4. /\ n[current].instr \in {"NEW", "SYNC"} /\ d[current] = n[current].mtime
        /\ d[current] # 0 /\ e[current] = d[current] /\ e[Dest] = n[current].mtime
    BY <2>1, <2>2, <1>b, <1>t DEF Instr
  <2>5. m[current].instr = "UPDATED" /\ m[current].mtime = n[current].mtime /\ m[Dest] = n[Dest]
    BY <2>1, <1>6, <1>7
  <2> QED BY <2>3, <2>4, <2>5, <1>b, <1>t, RowPushed
<1>9. CASE PushFails(q)
  <2>1. /\ step = "files" /\ Instr(current, q) \in {"NEW", "SYNC"}
        /\ NodeEnds(q, "ERROR")
        /\ disk'[current] = disk[current] /\ disk'[Dest][q] = disk[Dest][q]
    BY <1>i, <1>9, PushFailsIs
  <2>3. step \in Propagating
    BY <2>1 DEF Propagating
  <2>4. n[current].instr \in Acted /\ \A r \in Replica : e[r] \in {0, d[r]}
    BY <2>1, <1>b, <1>t DEF Instr, Acted
  <2>5. m[current].instr = "ERROR" /\ m[current].mtime = n[current].mtime /\ m[Dest] = n[Dest]
    BY <2>1, <1>6, <1>7
  <2> QED BY <2>3, <2>4, <2>5, <1>e
<1>10. CASE RemoveFile(q)
  <2>0. Drops(q) /\ ~Collections /\ step = "files"
    BY <1>10 DEF Drops, Settling, RemoveFile, Visits
  <2>1. /\ Goes(q) \/ PutOff(q) \/ Stays(q)
        /\ Instr(current, q) = "REMOVE"
    BY <1>i, <2>0, DropsAre
  <2>2. tree[Dest][q].instr = "ABSENT"
    BY <2>1, <1>i, <1>t DEF InvA, Removing, Present, Instr
  <2>3. step \in Propagating
    BY <2>0 DEF Propagating
  <2>4. n[current].instr = "REMOVE" /\ "REMOVE" \in Acted /\ n[Dest].instr = "ABSENT"
    BY <2>1, <2>2, <1>b, <1>t DEF Instr, Acted
  <2>5. CASE Goes(q)
    <3>1. /\ disk'[Dest] = disk[Dest] /\ disk'[current][q] \in {0, disk[current][q]}
          /\ NodeEnds(q, "DELETED")
      BY <1>t, <2>5 DEF Goes, Shrinks
    <3>2. \A r \in Replica : e[r] \in {0, d[r]}
      BY <3>1, <1>b, <1>t
    <3>3. m[current].instr = "DELETED" /\ m[current].mtime = n[current].mtime /\ m[Dest] = n[Dest]
      BY <3>1, <1>6, <1>7
    <3> QED BY <2>3, <2>4, <3>2, <3>3, <1>e
  <2>6. CASE Stays(q)
    <3>1. UNCHANGED disk /\ NodeEnds(q, "NONE")
      BY <2>6 DEF Stays
    <3>2. \A r \in Replica : e[r] \in {0, d[r]}
      BY <3>1, <1>b, <1>t
    <3>3. m[current].instr = "NONE" /\ m[current].mtime = n[current].mtime /\ m[Dest] = n[Dest]
      BY <3>1, <1>6, <1>7
    <3> QED BY <2>3, <2>4, <3>2, <3>3, <1>e
  <2> QED BY <2>0, <2>1, <2>5, <2>6 DEF PutOff
<1> QED BY <1>1, <1>3, <1>4, <1>5, <1>8, <1>9, <1>10, <1>i, FileSteps

(* Every step keeps the second layer ... *)
LEMMA StepInvB ==
  ASSUME InvB, Settling, [Next]_vars
  PROVE  InvB'
<1>1. InvA /\ ~Collections
  BY DEF InvB, Settling
<1>2. InvA'
  BY <1>1, StepInvA
<1> QED BY <1>2, StepNotOlder, StepAsFound, StepFileRows DEF InvB

(* ... which holds at the start. *)
LEMMA InitInvB == Init => InvB
<1> SUFFICES ASSUME Init PROVE InvB
  OBVIOUS
<1>1. InvA
  BY InitInvA
<1>2. /\ step = "idle" /\ tree = EmptyTrees
      /\ \A r \in Replica, p \in Path : disk[r][p] # 0 => disk[r][p] = 1
      /\ \A p \in Path : journal[p] \in {0, 1}
  BY DEF Init
<1>3. \A r \in Replica, p \in Path : ~Present(r, p)
  BY <1>2 DEF EmptyTrees, Absent, Present, Instr
<1>4. NotOlder
  <2> SUFFICES ASSUME NEW r \in Replica, NEW p \in Path \ Dir
               PROVE  /\ disk[r][p] # 0 => disk[r][p] >= journal[p]
                      /\ Present(r, p) => tree[r][p].mtime >= journal[p]
    BY DEF NotOlder
  <2> QED BY <1>2, <1>3
<1> QED BY <1>1, <1>2, <1>4 DEF InvB, AsFound, FileRows, Propagating

-----------------------------------------------------------------------------
(* Runs that nothing disturbs.                                             *)
Undisturbed ==
    step = "idle" \/ calm > 0 => replica = current /\ unseen = {}

(* What was detected is what is on disk. *)
Scanned ==
    step = "update" /\ calm > 0 =>
        \A r \in Replica, p \in Path :
            Present(r, p) => disk[r][p] = tree[r][p].mtime

(* A file, and a directory, of a run that nothing disturbs: n and d are its*)
(* nodes and its times.                                                    *)
CalmFile(n, d) ==
    \/ \A r \in Replica : n[r].instr \in {"ABSENT", "DELETED"} /\ d[r] = 0
    \/ \A r \in Replica : n[r].instr = "NONE" /\ d[r] = n["local"].mtime
    \/ \E r \in Replica :
         \/ /\ n[r].instr \in {"NEW", "SYNC"} /\ n[Other(r)].instr \in Passive
            /\ d[r] = n[r].mtime
         \/ /\ n[r].instr = "UPDATED" /\ n[Other(r)].instr \in Passive
            /\ d[r] = n[r].mtime /\ d[Other(r)] = n[r].mtime
         \/ /\ n[r].instr = "REMOVE" /\ n[Other(r)].instr = "ABSENT"
            /\ d[r] # 0 /\ d[Other(r)] = 0

CalmDir(n, d) ==
    \/ \A r \in Replica : n[r].instr \in {"ABSENT", "DELETED"} /\ d[r] = 0
    \/ \A r \in Replica : n[r].instr = "NONE" /\ d[r] # 0
    \/ \E r \in Replica :
         /\ d[r] # 0
         /\ \/ n[r].instr = "NEW" /\ n[Other(r)].instr = "ABSENT"
            \/ /\ n[r].instr = "NEW" /\ n[Other(r)].instr = "RENAME"
               /\ d[Other(r)] # 0
            \/ n[r].instr = "REMOVE" /\ n[Other(r)].instr = "ABSENT"
            \/ /\ d[Other(r)] # 0
               /\ \/ n[r].instr = "SYNC" /\ n[Other(r)].instr \in {"NONE", "EVAL"}
                  \/ n[r].instr = "UPDATED" /\ n[Other(r)].instr \in Passive
                  \/ n[r].instr = "NONE" /\ n[Other(r)].instr = "ABSENT"

CalmRows ==
    step \in Propagating /\ calm > 0 =>
        \A p \in Path \ Unwalked :
            IF p \in Dir THEN CalmDir(NodesAt(p), TimesAt(p))
                         ELSE CalmFile(NodesAt(p), TimesAt(p))

(* Nothing makes a directory older but what was synchronized to it. *)
Ageing ==
    step \in Propagating /\ calm > 0 =>
        \A d \in Dir :
            /\ Present("local", d) /\ disk["local"][d] # 0
            /\ Instr("remote", d) # "UPDATED"
            => disk["local"][d] >= tree["local"][d].mtime

(* What one undisturbed run leaves behind, and what two of them do.        *)
Synced(p) ==
    /\ disk["local"][p] = 0 <=> disk["remote"][p] = 0
    /\ p \notin Dir =>
         disk["local"][p] = journal[p] /\ disk["remote"][p] = journal[p]
    /\ disk["local"][p] # 0 => disk["local"][p] >= journal[p]

AtRest(p) ==
    /\ disk["local"][p] # 0 => disk["local"][p] = journal[p]
    /\ disk["remote"][p] <= journal[p]

Settled ==
    /\ step = "idle" /\ calm > 0 => \A p \in Path \ Unwalked : Synced(p)
    /\ step = "update" /\ calm > 1 => \A p \in Path \ Unwalked : Synced(p)
    /\ step = "idle" /\ calm > 1 => \A p \in Findable \ Unwalked : AtRest(p)
    /\ step = "update" /\ calm > 2 => \A p \in Findable \ Unwalked : AtRest(p)

(* From the second of them on, at most the times of directories are set.   *)
Still(n, d) ==
    \/ \A r \in Replica : n[r].instr = "ABSENT" /\ d[r] = 0
    \/ /\ \A r \in Replica : n[r].instr = "NONE" /\ d[r] # 0
       /\ d["local"] = n["local"].mtime /\ d["remote"] <= d["local"]

Levelled(n, d) ==
    \E r \in Replica :
        /\ n[Other(r)].instr \in {"NONE", "EVAL"}
        /\ d[r] # 0 /\ d[Other(r)] # 0 /\ d[r] = n[r].mtime
        /\ \/ n[r].instr = "SYNC"
           \/ n[r].instr = "UPDATED" /\ d[Other(r)] = d[r]

Quiet ==
    step \in Propagating /\ calm > 1 =>
        \A p \in Findable \ Unwalked :
            \/ Still(NodesAt(p), TimesAt(p))
            \/ calm = 2 /\ p \in Dir /\ Levelled(NodesAt(p), TimesAt(p))

(* ... and nothing is removed, whatever is found by its hash.              *)
NoneGoes ==
    step \in Propagating /\ calm > 1 =>
        \A r \in Replica, p \in Path : Instr(r, p) # "REMOVE"

InvC == /\ InvB
        /\ Undisturbed /\ Scanned /\ CalmRows /\ Ageing /\ Settled
        /\ Quiet /\ NoneGoes

(* A run that goes on undisturbed, and one that begins.                    *)
LEMMA CalmSteps ==
  ASSUME InvA, [Next]_vars, calm' > 0, step # "idle"
  PROVE  /\ calm' = calm /\ dead' = dead
         /\ \/ Commit \/ NextReplica \/ NextPass \/ Reconcile \/ UNCHANGED vars
            \/ \E d \in Dir \cup {Top} : OpenDir(d) \/ OpenFails(d)
            \/ \E p \in Path : DetectUpdate(p) \/ Sends(p) \/ Drops(p)
<1>1. ASSUME NEW r \in Replica, NEW p \in Path, UserWrites(r, p) \/ UserDeletes(r, p)
      PROVE  FALSE
  BY <1>1, UserFrame
<1>2. ~StartRun
  BY DEF StartRun
<1>3. ASSUME Histories PROVE calm' = calm /\ dead' = dead
  BY <1>3 DEF Histories, NoFault
<1>4. UNCHANGED vars => calm' = calm /\ dead' = dead
  BY DEF vars
<1>5. ASSUME NEW d, Opens(d) PROVE OpenDir(d)
  BY <1>5 DEF Opens, OpenDenied, Fault
<1>6. Aborts => \E d \in Dir \cup {Top} : OpenFails(d)
  BY DEF Aborts, Crash, Fault
<1>8. \/ Commit \/ NextReplica \/ NextPass \/ Reconcile \/ UNCHANGED vars
      \/ \E d \in Dir \cup {Top} : OpenDir(d) \/ OpenFails(d)
      \/ \E p \in Path : DetectUpdate(p) \/ Sends(p) \/ Drops(p)
  BY <1>1, <1>2, <1>5, <1>6, Moves
<1>9. Commit \/ NextReplica \/ NextPass \/ Reconcile => Histories
  BY DEF Commit, NextReplica, NextPass, Reconcile, history, Histories, NoFault, bounds
<1>10. ASSUME NEW d, OpenDir(d) \/ OpenFails(d) PROVE Histories
  BY <1>10 DEF OpenDir, OpenFails, Histories
<1>11. ASSUME NEW p \in Path, DetectUpdate(p) \/ Sends(p) \/ Drops(p) PROVE Histories
  BY <1>11, ProgramHistories
<1>12. Histories \/ UNCHANGED vars
  BY <1>8, <1>9, <1>10, <1>11
<1> QED BY <1>3, <1>4, <1>8, <1>12

(* What may happen between two runs that nothing disturbs. *)
LEMMA CalmIdle ==
  ASSUME InvA, [Next]_vars, calm' > 0, step = "idle"
  PROVE  /\ UNCHANGED <<disk, journal, tree, current, replica, unseen, dead>>
         /\ \/ UNCHANGED <<step, calm>>
            \/ step' = "update" /\ (calm' = calm + 1 \/ (calm = 3 /\ calm' = 3))
<1>1. ASSUME NEW r \in Replica, NEW p \in Path, UserWrites(r, p) \/ UserDeletes(r, p)
      PROVE  FALSE
  BY <1>1, UserFrame
<1>2. ASSUME NEW d, Opens(d) PROVE FALSE
  BY <1>2 DEF Opens, OpenDir, OpenDenied
<1>3. ASSUME NEW p \in Path, DetectUpdate(p) \/ Sends(p) \/ Drops(p) PROVE FALSE
  BY <1>3, SendsFrame, DropsFrame, Parts DEF DetectUpdate
<1>4. ~NextReplica /\ ~Reconcile /\ ~NextPass /\ ~Commit
  BY DEF NextReplica, Reconcile, NextPass, Commit
<1>5. ~Aborts
  BY DEF Aborts, Crash, OpenFails
<1>6. UNCHANGED vars =>
        UNCHANGED <<disk, journal, tree, current, replica, unseen, dead, step, calm>>
  BY DEF vars
<1>7. calm \in 0 .. 3
  BY Parts DEF TypeOK
<1>8. StartRun => /\ UNCHANGED <<disk, journal, tree, current, replica, unseen, dead>>
                  /\ step' = "update" /\ (calm' = calm + 1 \/ (calm = 3 /\ calm' = 3))
  BY <1>7 DEF StartRun
<1> QED BY Moves, <1>1, <1>2, <1>3, <1>4, <1>5, <1>6, <1>8

(* What becomes of the decision for a file and for a directory when all    *)
(* that is on disk was found.                                              *)
AllFound(n, d) ==
    \A r \in Replica :
        /\ d[r] \in Nat /\ n[r].mtime \in Nat /\ n[r].instr \in Found
        /\ n[r].instr = "ABSENT" => d[r] = 0
        /\ n[r].instr # "ABSENT" => d[r] # 0 /\ d[r] = n[r].mtime

(* The verdict on a file that both walks found as it is. *)
LEMMA CalmFileFound ==
  ASSUME NEW n, NEW m, NEW d, NEW j \in Nat, AllFound(n, d),
         \A r \in Replica : m[r].mtime = n[r].mtime,
         \A r \in Replica : n[r].instr = "NONE" => n[r].mtime = j,
         Verdict(n["local"], n["remote"], m["local"].instr, m["remote"].instr)
  PROVE  CalmFile(m, d)
<1>1. /\ "local" \in Replica /\ "remote" \in Replica
      /\ Other("remote") = "local" /\ Other("local") = "remote"
      /\ \A r \in Replica : r = "local" \/ r = "remote"
  BY DEF Replica, Other
<1> QED BY <1>1 DEF AllFound, CalmFile, Verdict, Passive

(* The verdict on a directory that both walks found as it is. *)
LEMMA CalmDirFound ==
  ASSUME NEW n, NEW m, NEW d, AllFound(n, d),
         \A r \in Replica : m[r].mtime = n[r].mtime,
         Verdict(n["local"], n["remote"], m["local"].instr, m["remote"].instr)
  PROVE  CalmDir(m, d)
<1>1. /\ "local" \in Replica /\ "remote" \in Replica
      /\ Other("remote") = "local" /\ Other("local") = "remote"
      /\ \A r \in Replica : r = "local" \/ r = "remote"
  BY DEF Replica, Other
<1> QED BY <1>1 DEF AllFound, CalmDir, Verdict, Passive

(* The verdict on a path whose replicas agreed: nothing moves, or only its *)
(* time.                                                                   *)
LEMMA QuietFound ==
  ASSUME NEW n, NEW m, NEW d, NEW j \in Nat, AllFound(n, d),
         d["local"] = 0 <=> d["remote"] = 0, d["local"] # 0 => d["local"] >= j,
         \A r \in Replica :
            /\ m[r].mtime = n[r].mtime
            /\ n[r].instr = "NEW" => j = 0
            /\ n[r].instr # "RENAME"
            /\ n[r].instr = "EVAL" => j # 0 /\ n[r].mtime > j
            /\ n[r].instr = "NONE" => j # 0 /\ n[r].mtime <= j,
         Verdict(n["local"], n["remote"], m["local"].instr, m["remote"].instr)
  PROVE  /\ Still(m, d) \/ Levelled(m, d)
         /\ (\A r \in Replica : d[r] # 0 => d[r] <= j) => Still(m, d)
<1>1. /\ "local" \in Replica /\ "remote" \in Replica
      /\ Other("remote") = "local" /\ Other("local") = "remote"
      /\ \A r \in Replica : r = "local" \/ r = "remote"
  BY DEF Replica, Other
<1> DEFINE a == n["local"]  b == n["remote"]
           i == m["local"].instr  k == m["remote"].instr
<1>2. /\ d["local"] \in Nat /\ d["remote"] \in Nat /\ a.mtime \in Nat /\ b.mtime \in Nat
      /\ m["local"].mtime = a.mtime /\ m["remote"].mtime = b.mtime
      /\ a.instr = "ABSENT" <=> d["local"] = 0
      /\ b.instr = "ABSENT" <=> d["remote"] = 0
      /\ a.instr # "ABSENT" => d["local"] = a.mtime
      /\ b.instr # "ABSENT" => d["remote"] = b.mtime
      /\ a.instr \in Found /\ b.instr \in Found
      /\ a.instr # "RENAME" /\ b.instr # "RENAME"
      /\ a.instr = "NEW" => j = 0
      /\ a.instr = "EVAL" => j # 0 /\ a.mtime > j
      /\ a.instr = "NONE" => j # 0 /\ a.mtime <= j
      /\ b.instr = "NEW" => j = 0
      /\ b.instr = "EVAL" => j # 0 /\ b.mtime > j
      /\ b.instr = "NONE" => j # 0 /\ b.mtime <= j
  BY <1>1 DEF AllFound
<1>3. Verdict(a, b, i, k)
  OBVIOUS
<1> HIDE DEF a, b
<1>4. CASE a.instr = "ABSENT"
  <2>1. i = "ABSENT" /\ k = "ABSENT" /\ d["local"] = 0 /\ d["remote"] = 0
    BY <1>2, <1>3, <1>4 DEF Verdict
  <2> QED BY <1>1, <2>1 DEF Still
<1>5. CASE a.instr # "ABSENT"
  <2>1. /\ b.instr # "ABSENT" /\ d["local"] # 0 /\ d["remote"] # 0
        /\ d["local"] = a.mtime /\ d["remote"] = b.mtime
    BY <1>2, <1>5
  <2>2. CASE i = "NONE" /\ k = "NONE"
    <3>1. b.mtime <= a.mtime
      BY <1>2, <1>3, <2>1, <2>2 DEF Verdict
    <3> QED BY <1>1, <1>2, <2>1, <2>2, <3>1 DEF Still
  <2>3. CASE i = "SYNC" /\ k \in {"NONE", "EVAL"} /\ a.mtime > j
    BY <1>1, <1>2, <2>1, <2>3 DEF Levelled
  <2>4. CASE i \in {"NONE", "EVAL"} /\ k = "SYNC" /\ b.mtime > j
    BY <1>1, <1>2, <2>1, <2>4 DEF Levelled
  <2>5. \/ i = "NONE" /\ k = "NONE"
        \/ i = "SYNC" /\ k \in {"NONE", "EVAL"} /\ a.mtime > j
        \/ i \in {"NONE", "EVAL"} /\ k = "SYNC" /\ b.mtime > j
    <3>1. /\ a.instr = "NEW" => j = 0 /\ a.mtime > j
          /\ b.instr = "NEW" => j = 0 /\ b.mtime > j
      BY <1>2, <2>1
    <3> QED BY <1>2, <1>3, <2>1, <3>1 DEF Verdict, Found
  <2> QED BY <2>2, <2>3, <2>4, <2>5
<1> QED BY <1>4, <1>5

(* In an undisturbed run both walks have found every path as it is. *)
LEMMA AllIsFound ==
  ASSUME InvC, Reconcile, calm > 0, NEW p \in Path \ Unwalked
  PROVE  /\ AllFound(NodesAt(p), TimesAt(p))
         /\ \A r \in Replica :
              /\ NodesAt(p)'[r].mtime = NodesAt(p)[r].mtime
              /\ Tells(r, p, NodesAt(p)[r].instr, NodesAt(p)[r].mtime)
              /\ p \notin Dir /\ NodesAt(p)[r].instr # "ABSENT" =>
                   NodesAt(p)[r].mtime >= journal[p]
         /\ TimesAt(p)' = TimesAt(p)
         /\ Verdict(NodesAt(p)["local"], NodesAt(p)["remote"],
                    NodesAt(p)'["local"].instr, NodesAt(p)'["remote"].instr)
<1>i. InvA
  BY DEF InvC, InvB
<1>1. /\ step = "update" /\ current = "remote" /\ todo = {} /\ opening = {}
      /\ UNCHANGED disk
  BY DEF Reconcile, WalkDone
<1>2. /\ tree'["local"][p].mtime = tree["local"][p].mtime
      /\ tree'["remote"][p].mtime = tree["remote"][p].mtime
      /\ Verdict(tree["local"][p], tree["remote"][p],
                 tree'["local"][p].instr, tree'["remote"][p].instr)
  BY <1>i, ReconcileIs
<1>3. \A r \in Replica : ~Present(r, p) => disk[r][p] = 0
  <2> SUFFICES ASSUME NEW r \in Replica, ~Present(r, p), disk[r][p] # 0 PROVE FALSE
    OBVIOUS
  <2>1. p \notin unseen
    BY <1>1 DEF InvC, Undisturbed
  <2>2. Pending(r, p)
    BY <1>i, <1>1, <2>1 DEF InvA, Seen
  <2> QED BY <1>1, <2>2 DEF Pending
<1>4. \A r \in Replica : Present(r, p) => disk[r][p] # 0 /\ disk[r][p] = tree[r][p].mtime
  BY <1>i, <1>1 DEF InvC, Scanned, InvA, Nodes
<1>5. \A r \in Replica :
        /\ disk[r][p] \in Nat /\ tree[r][p].mtime \in Nat
        /\ tree[r][p].instr \in Found
        /\ Tells(r, p, tree[r][p].instr, tree[r][p].mtime)
  BY <1>i, <1>1, Parts DEF InvA, Walking, Instr, Tells
<1>6. \A r \in Replica : p \notin Dir /\ Present(r, p) => tree[r][p].mtime >= journal[p]
  BY DEF InvC, InvB, NotOlder
<1>a. \A r \in Replica : /\ NodesAt(p)[r] = tree[r][p] /\ NodesAt(p)'[r] = tree'[r][p]
                         /\ TimesAt(p)[r] = disk[r][p] /\ TimesAt(p)'[r] = disk'[r][p]
  BY AtIs
<1>7. TimesAt(p)' = TimesAt(p)
  BY <1>1 DEF TimesAt
<1>8. "local" \in Replica /\ "remote" \in Replica
      /\ \A r \in Replica : r = "local" \/ r = "remote"
  BY DEF Replica
<1>9. AllFound(NodesAt(p), TimesAt(p))
  BY <1>3, <1>4, <1>5, <1>a DEF AllFound, Present, Instr
<1>10. Verdict(NodesAt(p)["local"], NodesAt(p)["remote"],
               NodesAt(p)'["local"].instr, NodesAt(p)'["remote"].instr)
  BY <1>2, <1>8, <1>a
<1> QED BY <1>2, <1>5, <1>6, <1>7, <1>8, <1>9, <1>10, <1>a DEF Present, Instr

-----------------------------------------------------------------------------
(* What an undisturbed run sends, it sends as it found it.                 *)
LEMMA RowAt ==
  ASSUME InvC, calm > 0, step \in Propagating, NEW p \in Path, Present(current, p)
  PROVE  /\ p \notin Unwalked
         /\ p \in Dir => CalmDir(NodesAt(p), TimesAt(p))
         /\ p \notin Dir => CalmFile(NodesAt(p), TimesAt(p))
         /\ current \in Replica /\ Dest \in Replica /\ Other(current) = Dest
         /\ Other(Dest) = current /\ \A r \in Replica : r = current \/ r = Dest
         /\ \A r \in Replica : NodesAt(p)[r] = tree[r][p] /\ TimesAt(p)[r] = disk[r][p]
<1>1. InvA
  BY DEF InvC, InvB
<1>2. p \notin Unwalked
  BY <1>1, Parts DEF InvA, Nodes
<1> QED BY <1>1, <1>2, Parts, AtIs DEF InvC, CalmRows

(* A propagation of an undisturbed run succeeds. *)
LEMMA CalmSends ==
  ASSUME InvC, calm' > 0, calm > 0, NEW p \in Path, Sends(p)
  PROVE  /\ UNCHANGED <<calm, dead, replica>>
         /\ NodeEnds(p, "UPDATED")
         /\ disk' \in [Replica -> Times] /\ disk'[current] = disk[current]
         /\ Grows(disk[Dest], disk'[Dest], p, now)
         /\ disk'[Dest][p] = tree[current][p].mtime
         /\ p \notin Unwalked /\ disk[current][p] # 0
         /\ Instr(current, p) = "SYNC" /\ p \in Dir =>
              \A q \in Path : q # p => disk'[Dest][q] = disk[Dest][q]
         /\ p \notin Dir => PushFile(p)
<1>1. InvA
  BY DEF InvC, InvB
<1>2. /\ step \in {"files", "dirs"} /\ Instr(current, p) \in {"NEW", "SYNC"}
      /\ Present(current, p) /\ step \in Propagating
  BY <1>1, Parts, SendsFrame DEF Present, Propagating
<1>3. /\ disk' \in [Replica -> Times] /\ disk'[current] = disk[current]
      /\ Grows(disk[Dest], disk'[Dest], p, now)
  BY <1>1, SendsIs
<1>n. tree[current][p].mtime # 0 /\ tree[current][p].mtime \in Nat
  BY <1>1, <1>2, Parts DEF InvA, Nodes
<1>t. disk[Dest] \in Times /\ now \in Nat /\ now > 0 /\ disk \in [Replica -> Times]
      /\ Dest \in Replica
  BY <1>1, Parts
<1>4. CASE p \notin Dir
  <2>1. CalmFile(NodesAt(p), TimesAt(p))
    BY <1>2, <1>4, RowAt
  <2>2. disk[current][p] = tree[current][p].mtime
    BY <2>1, <1>2, RowAt DEF CalmFile, Passive, Instr
  <2>3. ~PushFails(p)
    BY <2>2 DEF PushFails, Fault
  <2>4. PushFile(p)
    BY <1>4, <2>3, <1>1, <1>2 DEF Sends, NewDir, SyncDir, Visits, InvA, Course
  <2> QED BY <1>1, <1>2, <1>3, <1>4, <1>n, <2>2, <2>4, PushFileIs, RowAt
<1>5. CASE p \in Dir
  <2>1. CalmDir(NodesAt(p), TimesAt(p))
    BY <1>2, <1>5, RowAt
  <2>2. /\ disk[current][p] # 0
        /\ Instr(current, p) = "SYNC" => disk[Dest][p] # 0
    BY <2>1, <1>2, RowAt DEF CalmDir, Passive, Instr
  <2>3. ~PushFile(p) /\ ~PushFails(p)
    BY <1>1, <1>5 DEF PushFile, PushFails, Visits, InvA, Course, Propagating
  <2>4. CASE NewDir(p)
    <3> DEFINE made == MkDirs(disk[Dest], p, now)
               n == TimeSet(made, p, tree[current][p].mtime)
    <3>1. /\ Instr(current, p) = "NEW" /\ NoFault /\ NodeEnds(p, "UPDATED")
          /\ UNCHANGED replica /\ disk' = [disk EXCEPT ![Dest] = n]
      BY <2>4 DEF NewDir, Visits, Fault, Ends, NodeEnds, Instr
    <3>2. made \in Times /\ made[p] # 0
      BY <1>t, MkDirsIs, UpToGoesUp DEF Grows
    <3>3. n \in Times /\ n[p] = tree[current][p].mtime
      BY <1>n, <1>t, <3>2, TimeSetIs
    <3> HIDE DEF n, made
    <3>4. disk'[Dest][p] = tree[current][p].mtime
      BY <1>t, <3>1, <3>3
    <3> QED BY <1>2, <1>3, <1>5, <2>2, <3>1, <3>4, RowAt DEF NoFault
  <2>5. CASE SyncDir(p)
    <3> DEFINE n == TimeSet(disk[Dest], p, tree[current][p].mtime)
    <3>1. /\ Instr(current, p) = "SYNC" /\ NoFault /\ NodeEnds(p, "UPDATED")
          /\ UNCHANGED replica /\ disk' = [disk EXCEPT ![Dest] = n]
      BY <2>5 DEF SyncDir, Visits, Fault, Ends, NodeEnds, Instr
    <3>2. /\ n \in Times /\ n[p] = tree[current][p].mtime
          /\ \A q \in Path : q # p => n[q] = disk[Dest][q]
      BY <1>n, <1>t, <2>2, <3>1, TimeSetIs
    <3> HIDE DEF n
    <3>3. disk'[Dest] = n
      BY <1>t, <3>1
    <3> QED BY <1>2, <1>3, <1>5, <2>2, <3>1, <3>2, <3>3, RowAt DEF NoFault
  <2> QED BY <2>3, <2>4, <2>5 DEF Sends
<1> QED BY <1>4, <1>5

(* What an undisturbed run removes is on no other replica by then; what it *)
(* leaves has something inside that was sent.                              *)
LEMMA StaysOccupied ==
  ASSUME InvC, Settling, calm > 0, step = "cleanup", NEW p \in Path,
         Instr(current, p) = "REMOVE", list \cap Below(p) = {},
         NEW c \in Path, Parent[c] = p, disk[current][c] # 0
  PROVE  disk[Dest][p] # 0
<1>i. InvA
  BY DEF InvC, InvB
<1>t. /\ current \in Replica /\ Dest \in Replica /\ Other(current) = Dest
      /\ \A r \in Replica : r = current \/ r = Dest
  BY <1>i, Parts
<1>1. p \notin Unwalked /\ p # Top /\ ~Present(Dest, p)
  <2>1. Present(current, p)
    BY DEF Present
  <2>2. p \notin Unwalked /\ p # Top
    BY <1>i, <1>t, <2>1, PathTypes DEF InvA, Nodes
  <2>3. ~Present(Other(current), p)
    BY <1>i, <1>t DEF InvA, Removing
  <2> QED BY <1>t, <2>2, <2>3
<1>2. c \notin Unwalked
  BY <1>1 DEF Settling
<1>3. p \in UpTo[c] /\ c # p
  BY <1>1, UpToParent, UpToGoesUp, ParentOther
<1>4. c \notin list
  BY <1>1, <1>3 DEF Below
<1>5. ~Present(Dest, c)
  BY <1>1, <1>3, <1>i, <1>t, PresentUp DEF InvA
<1>6. Instr(current, c) \notin Acting
  BY <1>4, <1>i, <1>t DEF InvA, Course, Ahead, Propagating
<1>7. SUFFICES ASSUME disk[Dest][c] = 0 PROVE FALSE
  BY <1>1, <1>i, <1>t DEF InvA, Shape, Grounded
<1>8. /\ NodesAt(c)[current] = tree[current][c] /\ NodesAt(c)[Dest] = tree[Dest][c]
      /\ TimesAt(c)[current] = disk[current][c] /\ TimesAt(c)[Dest] = disk[Dest][c]
  BY <1>t, AtIs
<1>9. "local" = current \/ "local" = Dest
  BY <1>t DEF Replica
<1>10. CASE c \in Dir
  <2>1. CalmDir(NodesAt(c), TimesAt(c))
    BY <1>2, <1>10 DEF InvC, CalmRows, Propagating
  <2> QED BY <2>1, <1>5, <1>6, <1>7, <1>8, <1>t DEF CalmDir, Present, Instr, Acting,
     Pushing, Passive
<1>11. CASE c \notin Dir
  <2>1. CalmFile(NodesAt(c), TimesAt(c))
    BY <1>2, <1>11 DEF InvC, CalmRows, Propagating
  <2> QED BY <2>1, <1>5, <1>6, <1>7, <1>8, <1>t DEF CalmFile, Present, Instr, Acting,
     Pushing, Passive
<1> QED BY <1>10, <1>11

(* A removal of an undisturbed run: what it did, or why the directory      *)
(* stays.                                                                  *)
LEMMA CalmDrops ==
  ASSUME InvC, Settling, calm > 0, calm' > 0, NEW p \in Path, Drops(p)
  PROVE  /\ UNCHANGED <<replica, step>>
         /\ Instr(current, p) = "REMOVE" /\ disk[current][p] # 0
         /\ Instr(Dest, p) = "ABSENT"
         /\ \/ Goes(p) /\ disk[Dest][p] = 0
            \/ PutOff(p)
            \/ Stays(p) /\ step = "cleanup" /\ p \in Dir /\ disk[Dest][p] # 0
<1>i. InvA /\ ~Collections
  BY DEF InvC, InvB, Settling
<1>t. /\ current \in Replica /\ Dest \in Replica /\ Other(current) = Dest
      /\ \A r \in Replica : r = current \/ r = Dest
      /\ disk \in [Replica -> Times] /\ TypeOK
  BY <1>i, Parts
<1>1. /\ Goes(p) \/ PutOff(p) \/ Stays(p)
      /\ Instr(current, p) = "REMOVE"
  BY <1>i, DropsAre
<1>2. /\ UNCHANGED <<replica, step>> /\ step \in Propagating
      /\ step = "cleanup" => list \cap Below(p) = {}
  BY <1>t, DropsFrame DEF Propagating
<1>3. Present(current, p) /\ Instr(Dest, p) = "ABSENT"
  BY <1>1, <1>i, <1>t DEF InvA, Removing, Present
<1>4. disk[current][p] # 0 /\ (p \notin Dir => disk[Dest][p] = 0)
  <2>1. CASE p \in Dir
    <3>1. CalmDir(NodesAt(p), TimesAt(p))
      BY <1>2, <1>3, <2>1, RowAt
    <3> QED BY <3>1, <2>1, <1>1, <1>2, <1>3, RowAt DEF CalmDir, Passive, Instr
  <2>2. CASE p \notin Dir
    <3>1. CalmFile(NodesAt(p), TimesAt(p))
      BY <1>2, <1>3, <2>2, RowAt
    <3> QED BY <3>1, <2>2, <1>1, <1>2, <1>3, RowAt DEF CalmFile, Passive, Instr
  <2> QED BY <2>1, <2>2
<1>5. ASSUME Goes(p), disk[Dest][p] # 0 PROVE FALSE
  <2>1. p \notin unseen
    BY DEF InvC, Undisturbed
  <2>2. PICK c \in Sub(p) \ {p} : disk[current][c] # 0
    BY <1>1, <1>4, <1>5, <1>i, <1>t, <2>1 DEF InvA, Occupied
  <2>3. Grounded(disk[current])
    BY <1>i, <1>t DEF InvA, Shape
  <2>4. \A q \in Path : Parent[q] = p => disk[current][q] = 0
    BY <1>5 DEF Goes
  <2> QED BY <2>2, <2>3, <2>4, NothingBelow
<1>6. ASSUME Stays(p)
      PROVE  step = "cleanup" /\ p \in Dir /\ disk[Dest][p] # 0
  <2>1. replica = current
    BY DEF InvC, Undisturbed
  <2>2. There(current, p)
    BY <1>4 DEF There
  <2>3. step = "cleanup" /\ ~Removable(p)
    BY <1>6, <2>1, <2>2 DEF Stays
  <2>4. p \in Dir
    BY <2>3 DEF Drops, RemoveFile, Visits
  <2>5. PICK c \in Path : Parent[c] = p /\ disk[current][c] # 0
    BY <2>3 DEF Removable, Inside, Children
  <2> QED BY <1>1, <1>2, <2>3, <2>4, <2>5, StaysOccupied
<1> QED BY <1>1, <1>2, <1>3, <1>4, <1>5, <1>6

-----------------------------------------------------------------------------
(* Nobody touches what an undisturbed run has found. *)
LEMMA StepUndisturbed ==
  ASSUME InvC, Settling, [Next]_vars
  PROVE  Undisturbed'
<1>i. InvA /\ ~Collections
  BY DEF InvC, InvB, Settling
<1>1. CASE step = "idle"
  <2>1. replica = current /\ unseen = {}
    BY <1>1 DEF InvC, Undisturbed
  <2>2. ASSUME NEW r \in Replica, NEW p \in Path, UserWrites(r, p) \/ UserDeletes(r, p)
        PROVE  UNCHANGED <<replica, current>> /\ unseen' = {}
    BY <1>1, <2>2, UserFrame
  <2>3. ~(\A r \in Replica, p \in Path : ~UserWrites(r, p) /\ ~UserDeletes(r, p))
         \/ UNCHANGED <<replica, current, unseen>>
    <3>1. ASSUME NEW d, Opens(d) PROVE FALSE
      BY <1>1, <3>1 DEF Opens, OpenDir, OpenDenied
    <3>2. ASSUME NEW p \in Path, DetectUpdate(p) \/ Sends(p) \/ Drops(p) PROVE FALSE
      BY <1>1, <1>i, <3>2, SendsFrame, DropsFrame, Parts DEF DetectUpdate
    <3>3. ~NextReplica /\ ~Reconcile /\ ~NextPass /\ ~Commit /\ ~Aborts
      BY <1>1 DEF NextReplica, Reconcile, NextPass, Commit, Aborts, Crash, OpenFails
    <3>4. StartRun \/ UNCHANGED vars => UNCHANGED <<replica, current, unseen>>
      BY DEF StartRun, vars
    <3> QED BY Moves, <3>1, <3>2, <3>3, <3>4
  <2> QED BY <2>1, <2>2, <2>3 DEF Undisturbed
<1>2. CASE step # "idle" /\ EndRun
  BY <1>2 DEF EndRun, Undisturbed
<1>3. CASE step # "idle" /\ ~EndRun
  <2>1. step' # "idle"
    <3>1. ASSUME NEW r \in Replica, NEW p \in Path, UserWrites(r, p) \/ UserDeletes(r, p)
          PROVE  step' = step
      BY <3>1, UserFrame
    <3>2. ASSUME NEW d, Opens(d) PROVE step' = step
      BY <3>2 DEF Opens, OpenDir, OpenDenied
    <3>3. ASSUME NEW p \in Path, DetectUpdate(p) \/ Sends(p) \/ Drops(p) PROVE step' = step
      BY <1>i, <3>3, SendsFrame, DropsFrame, Parts DEF DetectUpdate
    <3>4. NextReplica \/ Reconcile \/ NextPass \/ UNCHANGED vars => step' # "idle"
      BY <1>3 DEF NextReplica, Reconcile, NextPass, vars
    <3>5. ~StartRun /\ ~Commit /\ ~Aborts
      BY <1>3 DEF StartRun, Commit, Aborts, Crash, OpenFails
    <3> QED BY <1>3, Moves, <3>1, <3>2, <3>3, <3>4, <3>5
  <2> SUFFICES ASSUME calm' > 0 PROVE replica' = current' /\ unseen' = {}
    BY <2>1 DEF Undisturbed
  <2>2. /\ calm' = calm
        /\ \/ NextReplica \/ NextPass \/ Reconcile \/ UNCHANGED vars
           \/ \E d \in Dir \cup {Top} : OpenDir(d)
           \/ \E p \in Path : DetectUpdate(p) \/ Sends(p) \/ Drops(p)
    BY <1>3, <1>i, CalmSteps DEF Commit, OpenFails
  <2>3. replica = current /\ unseen = {} /\ calm > 0
    BY <2>2 DEF InvC, Undisturbed
  <2>4. NextReplica \/ NextPass \/ Reconcile \/ UNCHANGED vars =>
          replica' = current' /\ unseen' = unseen
    BY <2>3 DEF NextReplica, NextPass, Reconcile, history, vars
  <2>5. ASSUME NEW d, OpenDir(d) PROVE UNCHANGED <<replica, current, unseen>>
    BY <2>5 DEF OpenDir
  <2>6. ASSUME NEW p \in Path, DetectUpdate(p) \/ Sends(p) \/ Drops(p)
        PROVE  UNCHANGED <<replica, current, unseen>>
    <3>1. DetectUpdate(p) => UNCHANGED <<replica, current, unseen>>
      BY DEF DetectUpdate, history
    <3>2. Sends(p) => UNCHANGED <<replica, current, unseen>>
      BY <1>i, <2>3, CalmSends, SendsFrame, Parts
    <3>3. Drops(p) => UNCHANGED <<replica, current, unseen>>
      BY <1>i, DropsFrame, Parts
    <3> QED BY <2>6, <3>1, <3>2, <3>3
  <2> QED BY <2>2, <2>3, <2>4, <2>5, <2>6
<1> QED BY <1>1, <1>2, <1>3

(* An undisturbed walk finds everything that is there. *)
LEMMA StepScanned ==
  ASSUME InvC, Settling, [Next]_vars
  PROVE  Scanned'
<1> SUFFICES ASSUME step' = "update", calm' > 0, NEW r \in Replica, NEW q \in Path,
                    tree'[r][q].instr # "ABSENT"
             PROVE  disk'[r][q] = tree'[r][q].mtime
  BY DEF Scanned, Present, Instr
<1>i. InvA
  BY DEF InvC, InvB
<1>1. step # "idle"
  <2> SUFFICES ASSUME step = "idle" PROVE FALSE
    OBVIOUS
  <2>1. UNCHANGED tree
    BY <1>i, CalmIdle
  <2> QED BY <1>i, <2>1, IdleAbsent
<1>2. calm' = calm /\ calm > 0
  BY <1>1, <1>i, CalmSteps
<1>3. CASE UNCHANGED <<disk, tree, step>>
  BY <1>2, <1>3 DEF InvC, Scanned, Present, Instr
<1>4. ASSUME NEW p \in Path, DetectUpdate(p)
      PROVE  disk'[r][q] = tree'[r][q].mtime
  <2>1. /\ UNCHANGED disk /\ step = "update"
        /\ \/ UNCHANGED tree
           \/ /\ tree'[current][p].mtime = disk[current][p]
              /\ \A s \in Replica, x \in Path :
                    s # current \/ x # p => tree'[s][x] = tree[s][x]
    BY <1>i, <1>4, DetectIs
  <2>2. CASE tree'[r][q] = tree[r][q]
    BY <1>2, <2>1, <2>2 DEF InvC, Scanned, Present, Instr
  <2> QED BY <2>1, <2>2
<1>5. ~Commit /\ ~Reconcile /\ ~NextPass
  BY DEF Commit, EndRun, Reconcile, NextPass
<1>6. ASSUME NEW d, OpenDir(d) \/ OpenFails(d) PROVE UNCHANGED <<disk, tree, step>>
  BY <1>6 DEF OpenDir, OpenFails, EndRun
<1>7. ASSUME NEW p \in Path, Sends(p) \/ Drops(p) PROVE FALSE
  BY <1>i, <1>7, SendsFrame, DropsFrame, Parts
<1>8. NextReplica \/ UNCHANGED vars => UNCHANGED <<disk, tree, step>>
  BY DEF NextReplica, vars
<1> QED BY <1>1, <1>i, <1>3, <1>4, <1>5, <1>6, <1>7, <1>8, CalmSteps

-----------------------------------------------------------------------------
(* A directory that neither comes nor goes, or that comes where it was to. *)
LEMMA DirGrows ==
  ASSUME NEW n, NEW d, NEW m, NEW e, CalmDir(n, d),
         \A r \in Replica : m[r] = n[r] /\ (d[r] # 0 => e[r] # 0),
         (\A r \in Replica : d[r] = 0) => \A r \in Replica : e[r] = 0
  PROVE  CalmDir(m, e)
<1>1. \A r \in Replica : Other(r) \in Replica
  BY OtherIs
<1>2. CASE \A r \in Replica : d[r] = 0
  BY <1>2 DEF CalmDir, Replica
<1>3. CASE \A r \in Replica : n[r].instr = "NONE" /\ d[r] # 0
  BY <1>3 DEF CalmDir
<1>4. CASE \E r \in Replica :
         /\ d[r] # 0
         /\ \/ n[r].instr = "NEW" /\ n[Other(r)].instr = "ABSENT"
            \/ /\ n[r].instr = "NEW" /\ n[Other(r)].instr = "RENAME"
               /\ d[Other(r)] # 0
            \/ n[r].instr = "REMOVE" /\ n[Other(r)].instr = "ABSENT"
            \/ /\ d[Other(r)] # 0
               /\ \/ n[r].instr = "SYNC" /\ n[Other(r)].instr \in {"NONE", "EVAL"}
                  \/ n[r].instr = "UPDATED" /\ n[Other(r)].instr \in Passive
                  \/ n[r].instr = "NONE" /\ n[Other(r)].instr = "ABSENT"
  BY <1>1, <1>4 DEF CalmDir
<1> QED BY <1>2, <1>3, <1>4 DEF CalmDir

(* Propagating one path leaves the rows of the others as they were. *)
LEMMA CalmOthers ==
  ASSUME InvC, Settling, calm > 0, calm' > 0, NEW p \in Path, Sends(p) \/ Drops(p),
         NEW q \in Path \ Unwalked, q # p
  PROVE  IF q \in Dir THEN CalmDir(NodesAt(q)', TimesAt(q)')
                      ELSE CalmFile(NodesAt(q)', TimesAt(q)')
<1>i. InvA
  BY DEF InvC, InvB
<1>t. /\ current \in Replica /\ Dest \in Replica /\ Other(current) = Dest
      /\ \A r \in Replica : r = current \/ r = Dest
      /\ disk \in [Replica -> Times] /\ TypeOK
  BY <1>i, Parts
<1>a. \A r \in Replica : /\ NodesAt(q)[r] = tree[r][q] /\ NodesAt(q)'[r] = tree'[r][q]
                         /\ TimesAt(q)[r] = disk[r][q] /\ TimesAt(q)'[r] = disk'[r][q]
  BY AtIs
<1>w. {"UPDATED", "ERROR", "DELETED", "NONE"} \subseteq Word
  BY DEF Word, Instruction
<1>1. step \in Propagating
  BY <1>t, SendsFrame, DropsFrame DEF Propagating
<1>2. \A r \in Replica : tree'[r][q] = tree[r][q]
  <2>1. ASSUME NEW x \in Word, NodeEnds(p, x)
        PROVE  \A r \in Replica : tree'[r][q] = tree[r][q]
    BY <1>t, <2>1, NodeEndsIs
  <2>2. CASE Sends(p)
    BY <2>1, <2>2, <1>w, CalmSends
  <2>3. CASE Drops(p)
    <3>1. NodeEnds(p, "DELETED") \/ NodeEnds(p, "NONE") \/ UNCHANGED tree
      BY <2>3, CalmDrops DEF Goes, PutOff, Stays
    <3> QED BY <2>1, <3>1, <1>w
  <2> QED BY <2>2, <2>3
<1>3. NodesAt(q)' = NodesAt(q)
  BY <1>2 DEF NodesAt
<1>4. ASSUME \A r \in Replica : disk'[r][q] = disk[r][q]
      PROVE  IF q \in Dir THEN CalmDir(NodesAt(q)', TimesAt(q)')
                          ELSE CalmFile(NodesAt(q)', TimesAt(q)')
  <2>1. TimesAt(q)' = TimesAt(q)
    BY <1>4 DEF TimesAt
  <2> QED BY <1>1, <1>3, <2>1 DEF InvC, CalmRows
<1>5. CASE q \notin Dir
  <2>1. CASE Sends(p)
    <3>1. disk'[current] = disk[current] /\ Grows(disk[Dest], disk'[Dest], p, now)
      BY <2>1, CalmSends
    <3>2. disk'[Dest][q] = disk[Dest][q]
      BY <1>5, <3>1 DEF Grows
    <3> QED BY <1>4, <1>t, <3>1, <3>2
  <2>2. CASE Drops(p)
    <3>1. CASE UNCHANGED disk
      BY <1>4, <3>1
    <3>2. CASE Goes(p)
      <4>1. disk'[Dest] = disk[Dest] /\ Shrinks(disk[current], disk'[current], {p}, now)
        BY <3>2, <1>t DEF Goes
      <4>2. disk'[current][q] = disk[current][q]
        BY <1>5, <4>1 DEF Shrinks
      <4> QED BY <1>4, <1>t, <4>1, <4>2
    <3> QED BY <2>2, <3>1, <3>2, CalmDrops DEF PutOff, Stays
  <2> QED BY <2>1, <2>2
<1>6. CASE q \in Dir
  <2>1. CalmDir(NodesAt(q), TimesAt(q))
    BY <1>1, <1>6 DEF InvC, CalmRows
  <2>2. \A r \in Replica : disk[r][q] # 0 => disk'[r][q] # 0
    <3>1. CASE Sends(p)
      <4>1. disk'[current] = disk[current] /\ Grows(disk[Dest], disk'[Dest], p, now)
        BY <3>1, CalmSends
      <4> QED BY <1>t, <4>1 DEF Grows
    <3>2. CASE Drops(p)
      <4>1. CASE Goes(p)
        <5>1. disk'[Dest] = disk[Dest] /\ Shrinks(disk[current], disk'[current], {p}, now)
          BY <4>1, <1>t DEF Goes
        <5> QED BY <1>t, <5>1 DEF Shrinks
      <4> QED BY <3>2, <4>1, CalmDrops DEF PutOff, Stays
    <3> QED BY <3>1, <3>2
  <2>3. (\A r \in Replica : disk[r][q] = 0) => \A r \in Replica : disk'[r][q] = 0
    <3> SUFFICES ASSUME \A r \in Replica : disk[r][q] = 0 PROVE \A r \in Replica : disk'[r][q] = 0
      OBVIOUS
    <3>1. CASE Sends(p)
      <4>1. /\ disk'[current] = disk[current] /\ Grows(disk[Dest], disk'[Dest], p, now)
            /\ disk[current][p] # 0
        BY <3>1, CalmSends
      <4>2. Grounded(disk[current])
        BY <1>i, <1>t DEF InvA, Shape
      <4>3. q \notin UpTo[p]
        BY <4>1, <4>2, <1>t, GroundedUp
      <4>4. disk'[Dest][q] = disk[Dest][q]
        BY <4>1, <4>3 DEF Grows
      <4> QED BY <1>t, <4>1, <4>4
    <3>2. CASE Drops(p)
      <4>1. CASE Goes(p)
        <5>1. disk'[Dest] = disk[Dest] /\ Shrinks(disk[current], disk'[current], {p}, now)
          BY <4>1, <1>t DEF Goes
        <5> QED BY <1>t, <5>1 DEF Shrinks
      <4> QED BY <3>2, <4>1, CalmDrops DEF PutOff, Stays
    <3> QED BY <3>1, <3>2
  <2> DEFINE n == NodesAt(q)  d == TimesAt(q)  m == NodesAt(q)'  e == TimesAt(q)'
  <2>4. \A r \in Replica : m[r] = n[r] /\ (d[r] # 0 => e[r] # 0)
    BY <1>2, <1>a, <2>2
  <2>5. (\A r \in Replica : d[r] = 0) => \A r \in Replica : e[r] = 0
    BY <1>a, <2>3
  <2>6. CalmDir(n, d)
    BY <2>1
  <2> HIDE DEF n, d, m, e
  <2>7. CalmDir(m, e)
    BY <2>4, <2>5, <2>6, DirGrows
  <2> QED BY <1>6, <2>7 DEF m, e
<1> QED BY <1>5, <1>6

(* What is sent is on both replicas, what is removed on none.              *)
LEMMA CalmVisited ==
  ASSUME InvC, Settling, calm > 0, calm' > 0, NEW q \in Path, Sends(q) \/ Drops(q)
  PROVE  IF q \in Dir THEN CalmDir(NodesAt(q)', TimesAt(q)')
                      ELSE CalmFile(NodesAt(q)', TimesAt(q)')
<1>i. InvA
  BY DEF InvC, InvB
<1>t. /\ current \in Replica /\ Dest \in Replica /\ Other(current) = Dest
      /\ Other(Dest) = current
      /\ \A r \in Replica : r = current \/ r = Dest
      /\ disk \in [Replica -> Times] /\ TypeOK
  BY <1>i, Parts
<1>w. {"UPDATED", "ERROR", "DELETED", "NONE"} \subseteq Word
  BY DEF Word, Instruction
<1>1. step \in Propagating
  BY <1>t, SendsFrame, DropsFrame DEF Propagating
<1> DEFINE n == NodesAt(q)  d == TimesAt(q)  m == NodesAt(q)'  e == TimesAt(q)'
<1>2. \A r \in Replica : /\ n[r] = tree[r][q] /\ m[r] = tree'[r][q]
                         /\ d[r] = disk[r][q] /\ e[r] = disk'[r][q]
  BY AtIs
<1>3. n[current].instr # "ABSENT" =>
        IF q \in Dir THEN CalmDir(n, d) ELSE CalmFile(n, d)
  BY <1>1, <1>2, <1>t, RowAt DEF Present, Instr
<1> HIDE DEF n, d, m, e
<1>g. SUFFICES IF q \in Dir THEN CalmDir(m, e) ELSE CalmFile(m, e)
  BY DEF m, e
<1>4. ASSUME NEW x \in Word, NodeEnds(q, x)
      PROVE  m[current].instr = x /\ m[current].mtime = n[current].mtime /\ m[Dest] = n[Dest]
  BY <1>4, <1>t, <1>2, NodeEndsIs
<1>5. CASE Sends(q)
  <2>1. /\ NodeEnds(q, "UPDATED") /\ disk'[current] = disk[current]
        /\ disk'[Dest][q] = tree[current][q].mtime /\ disk[current][q] # 0
        /\ q \notin Dir => PushFile(q)
    BY <1>5, CalmSends
  <2>2. n[current].instr \in {"NEW", "SYNC"}
    BY <1>5, <1>2, <1>t, SendsFrame DEF Instr
  <2>3. /\ m[current].instr = "UPDATED" /\ m[current].mtime = n[current].mtime /\ m[Dest] = n[Dest]
        /\ e[current] = d[current] /\ e[Dest] = n[current].mtime /\ d[current] # 0
    BY <2>1, <1>2, <1>4, <1>t, <1>w
  <2>4. n[current].mtime # 0
    BY <1>2, <2>2, <1>i, <1>t DEF InvA, Nodes, Present, Instr
  <2>5. CASE q \in Dir
    <3>1. CalmDir(n, d)
      BY <1>3, <2>2, <2>5
    <3>2. n[Dest].instr \in Passive
      BY <3>1, <2>2, <1>t DEF CalmDir, Passive
    <3> QED BY <2>3, <2>4, <2>5, <3>2, <1>t DEF CalmDir
  <2>6. CASE q \notin Dir
    <3>1. CalmFile(n, d)
      BY <1>3, <2>2, <2>6
    <3>2. n[Dest].instr \in Passive /\ d[current] = n[current].mtime
      BY <3>1, <2>2, <1>t DEF CalmFile, Passive
    <3> QED BY <2>3, <2>6, <3>2, <1>t DEF CalmFile
  <2> QED BY <2>5, <2>6
<1>6. CASE Drops(q)
  <2>1. /\ Instr(current, q) = "REMOVE" /\ disk[current][q] # 0 /\ Instr(Dest, q) = "ABSENT"
        /\ \/ Goes(q) /\ disk[Dest][q] = 0
           \/ PutOff(q)
           \/ Stays(q) /\ step = "cleanup" /\ q \in Dir /\ disk[Dest][q] # 0
    BY <1>6, CalmDrops
  <2>2. CASE Goes(q) /\ disk[Dest][q] = 0
    <3>1. NodeEnds(q, "DELETED") /\ Shrinks(disk[current], disk'[current], {q}, now)
          /\ disk'[Dest] = disk[Dest]
      BY <2>2, <1>t DEF Goes
    <3>2. disk'[current][q] = 0 /\ disk'[Dest][q] = 0
      BY <3>1, <2>2 DEF Shrinks
    <3>3. \A r \in Replica : m[r].instr \in {"ABSENT", "DELETED"} /\ e[r] = 0
      BY <2>1, <3>1, <3>2, <1>2, <1>4, <1>t, <1>w DEF Instr
    <3> QED BY <3>3 DEF CalmDir, CalmFile
  <2>3. CASE PutOff(q)
    <3>1. m = n /\ e = d
      BY <2>3 DEF PutOff, NodesAt, TimesAt, m, n, e, d
    <3> QED BY <1>3, <3>1, <2>1, <1>2, <1>t DEF Instr
  <2>4. CASE Stays(q) /\ q \in Dir /\ disk[Dest][q] # 0
    <3>1. UNCHANGED disk /\ NodeEnds(q, "NONE")
      BY <2>4 DEF Stays
    <3>2. /\ m[current].instr = "NONE" /\ m[Dest].instr = "ABSENT"
          /\ e[current] # 0 /\ e[Dest] # 0
      BY <2>1, <2>4, <3>1, <1>2, <1>4, <1>t, <1>w DEF Instr
    <3> QED BY <3>2, <2>4, <1>t DEF CalmDir
  <2> QED BY <2>1, <2>2, <2>3, <2>4
<1> QED BY <1>5, <1>6

(* The verdicts of an undisturbed run make calm rows. *)
LEMMA CalmReconciled ==
  ASSUME InvC, Reconcile, calm > 0, NEW q \in Path \ Unwalked
  PROVE  IF q \in Dir THEN CalmDir(NodesAt(q)', TimesAt(q)')
                      ELSE CalmFile(NodesAt(q)', TimesAt(q)')
<1> DEFINE n == NodesAt(q)  d == TimesAt(q)  m == NodesAt(q)'  e == TimesAt(q)'
<1>1. /\ AllFound(n, d) /\ e = d /\ \A r \in Replica : m[r].mtime = n[r].mtime
      /\ Verdict(n["local"], n["remote"], m["local"].instr, m["remote"].instr)
      /\ \A r \in Replica : n[r].mtime \in Nat
      /\ \A r \in Replica :
           /\ n[r].instr = "NONE" => n[r].mtime <= journal[q]
           /\ q \notin Dir /\ n[r].instr # "ABSENT" => n[r].mtime >= journal[q]
  BY AllIsFound DEF AllFound, Tells
<1>2. journal[q] \in Nat
  BY Parts DEF InvC, InvB
<1> HIDE DEF n, d, m, e
<1>3. CalmDir(m, d)
  BY <1>1, CalmDirFound
<1>4. ASSUME q \notin Dir PROVE CalmFile(m, d)
  <2>1. \A r \in Replica : n[r].instr = "NONE" => n[r].mtime = journal[q]
    BY <1>1, <1>2, <1>4
  <2> QED BY <1>1, <1>2, <2>1, CalmFileFound
<1>5. IF q \in Dir THEN CalmDir(m, e) ELSE CalmFile(m, e)
  BY <1>1, <1>3, <1>4
<1> QED BY <1>5 DEF m, e

(* A step of an undisturbed propagation. *)
LEMMA CalmPropagates ==
  ASSUME InvC, [Next]_vars, step' \in Propagating, calm' > 0
  PROVE  /\ calm' = calm /\ calm > 0 /\ step # "idle" /\ UNCHANGED journal
         /\ \/ Reconcile
            \/ step \in Propagating /\ UNCHANGED <<disk, tree>>
            \/ step \in Propagating /\ \E p \in Path : Sends(p) \/ Drops(p)
<1>i. InvA
  BY DEF InvC, InvB
<1>1. step # "idle"
  BY <1>i, Phases DEF Propagating, EndRun
<1>2. ~EndRun
  BY DEF Propagating, EndRun
<1>3. calm' = calm /\ calm > 0
  BY <1>1, <1>i, CalmSteps
<1>4. ~Commit /\ ~NextReplica
  BY <1>2 DEF Commit, NextReplica, Propagating
<1>5. ASSUME NEW d, OpenDir(d) \/ OpenFails(d) PROVE FALSE
  BY <1>2, <1>5 DEF OpenDir, OpenFails, Propagating
<1>6. ASSUME NEW p \in Path PROVE ~DetectUpdate(p)
  BY DEF DetectUpdate, Propagating
<1>7. NextPass => step \in Propagating /\ UNCHANGED <<disk, tree>>
  BY DEF NextPass, Propagating
<1>8. UNCHANGED vars => step \in Propagating /\ UNCHANGED <<disk, tree>>
  BY DEF vars
<1>9. ASSUME NEW p \in Path, Sends(p) \/ Drops(p) PROVE step \in Propagating
  BY <1>9, <1>i, Parts, SendsFrame, DropsFrame DEF Propagating
<1>10. UNCHANGED journal
  BY <1>i, <1>2, Phases
<1> QED BY <1>1, <1>i, <1>3, <1>4, <1>5, <1>6, <1>7, <1>8, <1>9, <1>10, CalmSteps

(* The rows of an undisturbed run survive every step. *)
LEMMA StepCalmRows ==
  ASSUME InvC, Settling, [Next]_vars
  PROVE  CalmRows'
<1> DEFINE Calmly(q) == IF q \in Dir THEN CalmDir(NodesAt(q)', TimesAt(q)')
                                     ELSE CalmFile(NodesAt(q)', TimesAt(q)')
<1> SUFFICES ASSUME step' \in Propagating, calm' > 0, NEW q \in Path \ Unwalked
             PROVE  Calmly(q)
  BY DEF CalmRows, Propagating
<1>1. CASE Reconcile
  BY <1>1, CalmPropagates, CalmReconciled
<1>2. CASE step \in Propagating /\ UNCHANGED <<disk, tree>>
  <2>1. NodesAt(q)' = NodesAt(q) /\ TimesAt(q)' = TimesAt(q)
    BY <1>2 DEF NodesAt, TimesAt
  <2>2. calm > 0
    BY CalmPropagates
  <2> QED BY <1>2, <2>1, <2>2 DEF InvC, CalmRows
<1>3. ASSUME NEW p \in Path, Sends(p) \/ Drops(p) PROVE Calmly(q)
  <2>1. calm > 0
    BY CalmPropagates
  <2>2. CASE p = q
    BY <1>3, <2>1, <2>2, CalmVisited
  <2>3. CASE p # q
    BY <1>3, <2>1, <2>3, CalmOthers
  <2> QED BY <2>2, <2>3
<1> HIDE DEF Calmly
<1> QED BY <1>1, <1>2, <1>3, CalmPropagates

(* The time of a directory moves only as an undisturbed run lets it. *)
LEMMA StepAgeing ==
  ASSUME InvC, Settling, [Next]_vars
  PROVE  Ageing'
<1> SUFFICES ASSUME step' \in Propagating, calm' > 0, NEW q \in Dir,
                    tree'["local"][q].instr # "ABSENT", disk'["local"][q] # 0,
                    tree'["remote"][q].instr # "UPDATED"
             PROVE  disk'["local"][q] >= tree'["local"][q].mtime
  BY DEF Ageing, Propagating, Present, Instr
<1>i. InvA
  BY DEF InvC, InvB
<1>t. /\ current \in Replica /\ Dest \in Replica /\ Other(current) = Dest /\ Dest # current
      /\ \A r \in Replica : r = current \/ r = Dest
      /\ disk \in [Replica -> Times] /\ TypeOK /\ q \in Path
      /\ "local" \in Replica /\ "remote" \in Replica
      /\ \A r \in Replica : disk[r][q] \in Nat /\ tree[r][q].mtime \in Nat
      /\ now \in Nat
  BY <1>i, Parts, PathTypes DEF Replica
<1>c. calm > 0 /\ step # "idle" /\ calm' = calm
  BY CalmPropagates
<1>n. tree["local"][q].mtime <= now
  BY <1>i, <1>t DEF InvA, Clocked
<1>o. step \in Propagating /\ tree["local"][q].instr # "ABSENT" /\ disk["local"][q] # 0
      /\ tree["remote"][q].instr # "UPDATED"
      => disk["local"][q] >= tree["local"][q].mtime
  BY <1>c DEF InvC, Ageing, Present, Instr
<1>1. CASE Reconcile
  <2>1. UNCHANGED disk /\ tree'["local"][q].mtime = tree["local"][q].mtime /\ step = "update"
    BY <1>i, <1>1, <1>t, ReconcileIs DEF Reconcile
  <2>2. Present("local", q)
    <3>1. ~DetectUpdate(q)
      BY <1>1 DEF DetectUpdate, Reconcile
    <3>2. ~EndRun
      BY DEF EndRun, Propagating
    <3> QED BY <1>i, <1>t, <3>1, <3>2, Presence
  <2>3. disk["local"][q] = tree["local"][q].mtime
    BY <2>1, <2>2, <1>c, <1>t DEF InvC, Scanned
  <2> QED BY <2>1, <2>3, <1>t
<1>2. CASE step \in Propagating /\ UNCHANGED <<disk, tree>>
  BY <1>2, <1>o
<1>3. ASSUME NEW p \in Path, Sends(p) \/ Drops(p), step \in Propagating
      PROVE  disk'["local"][q] >= tree'["local"][q].mtime
  <2>w. {"UPDATED", "ERROR", "DELETED", "NONE"} \subseteq Word
    BY DEF Word, Instruction
  <2>1. ASSUME NEW x \in Word, NodeEnds(p, x)
        PROVE  /\ tree'["local"][q].mtime = tree["local"][q].mtime
               /\ tree'["local"][q].instr # "ABSENT" =>
                    tree["local"][q].instr # "ABSENT" \/ (p = q /\ current = "local")
               /\ tree'["remote"][q] = tree["remote"][q]
                  \/ (p = q /\ current = "remote" /\ tree'["remote"][q].instr = x)
    BY <1>t, <2>1, NodeEndsIs
  <2>2. CASE Sends(p)
    <3>1. /\ NodeEnds(p, "UPDATED") /\ disk'[current] = disk[current]
          /\ Grows(disk[Dest], disk'[Dest], p, now)
          /\ disk[current][p] # 0
      BY <2>2, <1>c, CalmSends
    <3>2. Instr(current, p) \in {"NEW", "SYNC"} /\ Present(current, p)
      BY <2>2, <1>t, SendsFrame DEF Present
    <3>3. /\ tree'["local"][q].mtime = tree["local"][q].mtime
          /\ tree["local"][q].instr # "ABSENT"
          /\ tree["remote"][q].instr # "UPDATED" /\ (p = q => current = "local")
      <4>1. tree'[current][p].instr = "UPDATED"
        BY <2>w, <3>1, <1>t, NodeEndsIs
      <4>2. current = "local" \/ current = "remote"
        BY <1>t DEF Replica
      <4> QED BY <2>1, <2>w, <3>1, <3>2, <4>1, <4>2 DEF Present, Instr
    <3>4. CASE current = "local"
      BY <1>3, <1>o, <3>1, <3>3, <3>4
    <3>5. CASE Dest = "local"
      <4>1. p # q
        BY <3>3, <3>5, <1>t
      <4>2. disk'["local"][q] \in {disk["local"][q], now}
        BY <3>1, <3>5, <4>1, <1>t DEF Grows
      <4> QED BY <1>3, <1>n, <1>o, <1>t, <3>3, <4>2
    <3> QED BY <1>t, <3>4, <3>5
  <2>3. CASE Drops(p)
    <3>1. /\ Instr(current, p) = "REMOVE" /\ Instr(Dest, p) = "ABSENT"
          /\ Goes(p) \/ PutOff(p) \/ Stays(p)
      BY <2>3, <1>c, CalmDrops
    <3>2. \A r \in Replica : disk'[r][q] \in {0, disk[r][q], now}
      <4>1. CASE Goes(p)
        <5>1. disk'[Dest] = disk[Dest] /\ Shrinks(disk[current], disk'[current], {p}, now)
          BY <4>1, <1>t DEF Goes
        <5>2. disk'[current][q] \in {0, disk[current][q], now}
          BY <1>t, <5>1 DEF Shrinks
        <5> QED BY <1>t, <5>1, <5>2
      <4> QED BY <3>1, <4>1 DEF PutOff, Stays
    <3>3. /\ tree'["local"][q].mtime = tree["local"][q].mtime
          /\ tree["local"][q].instr # "ABSENT"
          /\ tree["remote"][q].instr # "UPDATED"
      <4>1. NodeEnds(p, "DELETED") \/ NodeEnds(p, "NONE") \/ UNCHANGED tree
        BY <3>1 DEF Goes, PutOff, Stays
      <4> QED BY <4>1, <2>1, <2>w, <3>1 DEF Instr
    <3>4. disk["local"][q] # 0
      <4>1. CASE Goes(p)
        <5>1. disk'[Dest] = disk[Dest] /\ Shrinks(disk[current], disk'[current], {p}, now)
          BY <4>1, <1>t DEF Goes
        <5> QED BY <1>t, <5>1 DEF Shrinks
      <4> QED BY <3>1, <4>1 DEF PutOff, Stays
    <3> QED BY <1>3, <1>n, <1>o, <1>t, <3>2, <3>3, <3>4
  <2> QED BY <1>3, <2>2, <2>3
<1> QED BY <1>1, <1>2, <1>3, CalmPropagates

(* What a run that nothing disturbed writes into the journal: n and d are  *)
(* the nodes and the times of a path at the end, with nothing left to do.  *)
WrittenRow(n, d) == IF n["remote"].instr = "UPDATED" THEN d["local"]
              ELSE IF n["local"].instr \in {"NONE", "UPDATED", "CONFLICT"}
                   THEN n["local"].mtime ELSE 0

(* When nothing is left to do on a file, both disks hold what the journal  *)
(* will say.                                                               *)
LEMMA FileWritten ==
  ASSUME NEW n, NEW d, CalmFile(n, d), \A r \in Replica : n[r].instr \notin Acting
  PROVE  d["local"] = WrittenRow(n, d) /\ d["remote"] = WrittenRow(n, d)
<1>1. /\ "local" \in Replica /\ "remote" \in Replica
      /\ Other("remote") = "local" /\ Other("local") = "remote"
      /\ \A r \in Replica : r = "local" \/ r = "remote"
  BY DEF Replica, Other
<1> QED BY <1>1 DEF CalmFile, WrittenRow, Acting, Pushing, Passive

(* When nothing is left to do on a directory, both replicas have it or     *)
(* neither.                                                                *)
LEMMA DirWritten ==
  ASSUME NEW n, NEW d, CalmDir(n, d), \A r \in Replica : n[r].instr \notin Acting,
         \A r \in Replica : d[r] \in Nat,
         (n["local"].instr # "ABSENT" /\ d["local"] # 0 /\ n["remote"].instr # "UPDATED")
            => d["local"] >= n["local"].mtime
  PROVE  /\ d["local"] = 0 <=> d["remote"] = 0
         /\ d["local"] # 0 => d["local"] >= WrittenRow(n, d)
<1>1. /\ "local" \in Replica /\ "remote" \in Replica
      /\ Other("remote") = "local" /\ Other("local") = "remote"
      /\ \A r \in Replica : r = "local" \/ r = "remote"
  BY DEF Replica, Other
<1>2. d["local"] = 0 <=> d["remote"] = 0
  BY <1>1 DEF CalmDir, Acting, Pushing
<1>3. d["local"] # 0 => d["local"] >= WrittenRow(n, d)
  BY <1>1 DEF WrittenRow
<1> QED BY <1>2, <1>3

(* When nothing is left to do at a resting path, the journal catches up    *)
(* with it.                                                                *)
LEMMA RestWritten ==
  ASSUME NEW n, NEW d, Still(n, d) \/ Levelled(n, d),
         \A r \in Replica : n[r].instr \notin Acting, \A r \in Replica : d[r] \in Nat
  PROVE  /\ d["local"] # 0 => d["local"] = WrittenRow(n, d)
         /\ d["remote"] <= WrittenRow(n, d)
<1>1. /\ "local" \in Replica /\ "remote" \in Replica
      /\ Other("remote") = "local" /\ Other("local") = "remote"
      /\ \A r \in Replica : r = "local" \/ r = "remote"
  BY DEF Replica, Other
<1>2. CASE Still(n, d)
  BY <1>1, <1>2 DEF Still, WrittenRow
<1>3. CASE Levelled(n, d)
  BY <1>1, <1>3 DEF Levelled, WrittenRow, Acting, Pushing
<1> QED BY <1>2, <1>3

(* The commit of an undisturbed run leaves every path synced, after the    *)
(* second at rest.                                                         *)
LEMMA CalmCommits ==
  ASSUME InvC, Commit, calm > 0, NEW p \in Path \ Unwalked
  PROVE  Synced(p)' /\ (calm > 1 /\ p \in Findable => AtRest(p)')
<1>i. InvA
  BY DEF InvC, InvB
<1>1. /\ step = "commit" /\ UNCHANGED disk
      /\ journal' = IF \E q \in Path : /\ tree["remote"][q].instr = "UPDATED"
                                       /\ ~There("local", q)
                    THEN journal
                    ELSE [q \in Path |-> IF Written(Merged(q))
                                         THEN Merged(q).mtime ELSE 0]
  BY DEF Commit
<1>2. \A r \in Replica, q \in Path : tree[r][q].instr \notin Acting
  BY <1>1, <1>i DEF InvA, Course, Ahead, Propagating, Instr
<1>s. /\ "local" \in Replica /\ "remote" \in Replica
      /\ Other("remote") = "local" /\ Other("local") = "remote"
      /\ \A r \in Replica : r = "local" \/ r = "remote"
  BY DEF Replica, Other
<1>t. \A r \in Replica, q \in Path : disk[r][q] \in Nat /\ tree[r][q].mtime \in Nat
  BY <1>i, Parts
<1>3. ASSUME NEW q \in Path, tree["remote"][q].instr = "UPDATED"
      PROVE  disk["local"][q] # 0
  <2>1. q \notin Unwalked /\ tree["remote"][q].mtime # 0
    BY <1>3, <1>i, <1>s DEF InvA, Nodes, Present, Instr
  <2>2. /\ NodesAt(q)["local"] = tree["local"][q] /\ NodesAt(q)["remote"] = tree["remote"][q]
        /\ TimesAt(q)["local"] = disk["local"][q] /\ TimesAt(q)["remote"] = disk["remote"][q]
    BY <1>s, AtIs
  <2>3. CASE q \in Dir
    <3>1. CalmDir(NodesAt(q), TimesAt(q))
      BY <1>1, <2>1, <2>3 DEF InvC, CalmRows, Propagating
    <3> QED BY <1>3, <1>s, <2>2, <3>1 DEF CalmDir, Passive
  <2>4. CASE q \notin Dir
    <3>1. CalmFile(NodesAt(q), TimesAt(q))
      BY <1>1, <2>1, <2>4 DEF InvC, CalmRows, Propagating
    <3> QED BY <1>3, <1>s, <2>1, <2>2, <3>1 DEF CalmFile, Passive
  <2> QED BY <2>3, <2>4
<1>4. journal'[p] = IF Written(Merged(p)) THEN Merged(p).mtime ELSE 0
  <2>1. ~\E q \in Path : tree["remote"][q].instr = "UPDATED" /\ ~There("local", q)
    BY <1>3 DEF There
  <2> QED BY <1>1, <2>1
<1> DEFINE n == NodesAt(p)  d == TimesAt(p)
<1>5. /\ n["local"] = tree["local"][p] /\ n["remote"] = tree["remote"][p]
      /\ d["local"] = disk["local"][p] /\ d["remote"] = disk["remote"][p]
  BY <1>s, AtIs
<1>6. /\ p \in Dir => CalmDir(n, d)
      /\ p \notin Dir => CalmFile(n, d)
      /\ calm > 1 /\ p \in Findable => Still(n, d) \/ Levelled(n, d)
  BY <1>1 DEF InvC, CalmRows, Quiet, Propagating
<1> HIDE DEF n, d
<1>7. /\ \A r \in Replica : n[r].instr \notin Acting
      /\ \A r \in Replica : d[r] \in Nat
  BY <1>2, <1>5, <1>s, <1>t
<1>8. journal'[p] = WrittenRow(n, d)
  BY <1>4, <1>5 DEF WrittenRow, Written, Merged
<1>9. CASE p \in Dir
  <2>1. (n["local"].instr # "ABSENT" /\ d["local"] # 0 /\ n["remote"].instr # "UPDATED")
           => d["local"] >= n["local"].mtime
    BY <1>1, <1>5, <1>9 DEF InvC, Ageing, Propagating, Present, Instr
  <2>2. /\ d["local"] = 0 <=> d["remote"] = 0
        /\ d["local"] # 0 => d["local"] >= WrittenRow(n, d)
    BY <1>6, <1>7, <1>9, <2>1, DirWritten
  <2>3. calm > 1 /\ p \in Findable =>
          /\ d["local"] # 0 => d["local"] = WrittenRow(n, d)
          /\ d["remote"] <= WrittenRow(n, d)
    BY <1>6, <1>7, RestWritten
  <2>4. /\ disk'["local"][p] = d["local"] /\ disk'["remote"][p] = d["remote"]
    BY <1>1, <1>5
  <2>5. Synced(p)'
    BY <1>8, <1>9, <2>2, <2>4 DEF Synced
  <2>6. calm > 1 /\ p \in Findable => AtRest(p)'
    BY <1>8, <2>3, <2>4 DEF AtRest
  <2> QED BY <2>5, <2>6
<1>10. CASE p \notin Dir
  <2>1. d["local"] = WrittenRow(n, d) /\ d["remote"] = WrittenRow(n, d)
    BY <1>6, <1>7, <1>10, FileWritten
  <2>2. d["local"] \in Nat /\ d["remote"] \in Nat
    BY <1>7, <1>s
  <2> QED BY <1>1, <1>5, <1>8, <2>1, <2>2 DEF Synced, AtRest
<1> QED BY <1>9, <1>10

(* What an undisturbed run has settled stays settled. *)
LEMMA StepSettled ==
  ASSUME InvC, Settling, [Next]_vars
  PROVE  Settled'
<1>i. InvA
  BY DEF InvC, InvB
<1> DEFINE Good(p) == /\ step' = "idle" /\ calm' > 0 => Synced(p)'
                      /\ step' = "update" /\ calm' > 1 => Synced(p)'
                      /\ p \in Findable =>
                           /\ step' = "idle" /\ calm' > 1 => AtRest(p)'
                           /\ step' = "update" /\ calm' > 2 => AtRest(p)'
<1> SUFFICES ASSUME NEW p \in Path \ Unwalked PROVE Good(p)
  BY DEF Settled, Findable
<1>t. calm \in 0 .. 3
  BY <1>i, Parts DEF TypeOK
<1>1. ASSUME UNCHANGED <<disk, journal>>
      PROVE  (Synced(p) => Synced(p)') /\ (AtRest(p) => AtRest(p)')
  BY <1>1 DEF Synced, AtRest
<1>2. ASSUME UNCHANGED <<disk, journal, step, calm>> PROVE Good(p)
  BY <1>1, <1>2 DEF InvC, Settled
<1>3. CASE step = "idle" /\ calm' > 0
  <2>1. CASE UNCHANGED <<step, calm>>
    BY <1>2, <1>3, <1>i, <2>1, CalmIdle
  <2>2. CASE step' = "update" /\ (calm' = calm + 1 \/ (calm = 3 /\ calm' = 3))
    <3>1. (calm' > 1 => calm > 0) /\ (calm' > 2 => calm > 1)
      BY <1>t, <2>2
    <3>2. UNCHANGED <<disk, journal>>
      BY <1>3, <1>i, CalmIdle
    <3> QED BY <1>1, <1>3, <2>2, <3>1, <3>2 DEF InvC, Settled
  <2> QED BY <1>3, <1>i, <2>1, <2>2, CalmIdle
<1>4. CASE step # "idle" /\ calm' > 0
  <2>0. calm' = calm /\ calm > 0
    BY <1>4, <1>i, CalmSteps
  <2>1. CASE Commit
    <3>1. step' = "idle"
      BY <2>1 DEF Commit, EndRun
    <3> QED BY <2>0, <2>1, <3>1, CalmCommits
  <2>2. CASE \E d \in Dir \cup {Top} : OpenFails(d)
    <3>1. PICK d \in Dir \cup {Top} : step = "update" /\ d \in opening /\ ~There(current, d)
      BY <2>2 DEF OpenFails
    <3>2. d \in Dir /\ disk[current][d] = 0
      BY <3>1 DEF There
    <3>3. Present(current, d) /\ d \in Path
      BY <1>i, <3>1, <3>2, PathTypes DEF InvA, Walking
    <3>4. disk[current][d] = tree[current][d].mtime /\ tree[current][d].mtime # 0
      BY <1>i, <2>0, <3>1, <3>3, Parts DEF InvC, Scanned, InvA, Nodes
    <3> QED BY <3>2, <3>4
  <2>3. NextPass \/ Reconcile => Good(p)
    BY DEF NextPass, Reconcile
  <2>4. NextReplica \/ UNCHANGED vars => UNCHANGED <<disk, journal, step, calm>>
    BY <2>0 DEF NextReplica, vars
  <2>5. ASSUME NEW d, OpenDir(d) PROVE UNCHANGED <<disk, journal, step, calm>>
    BY <2>0, <2>5 DEF OpenDir
  <2>6. ASSUME NEW q \in Path, DetectUpdate(q)
        PROVE  UNCHANGED <<disk, journal, step, calm>>
    BY <1>i, <2>6, DetectIs
  <2>7. ASSUME NEW q \in Path, Sends(q) \/ Drops(q) PROVE Good(p)
    <3>1. step' \notin {"idle", "update"}
      BY <1>i, <2>7, SendsFrame, DropsFrame, Parts
    <3> QED BY <3>1
  <2> HIDE DEF Good
  <2> QED BY <1>2, <1>4, <1>i, <2>1, <2>2, <2>3, <2>4, <2>5, <2>6, <2>7, CalmSteps
<1>5. CASE ~(calm' > 0)
  <2>1. ~(calm' > 1) /\ ~(calm' > 2)
    <3>1. calm' \in 0 .. 3
      BY <1>i, Parts, StepTypeOK DEF TypeOK
    <3> QED BY <1>5, <3>1
  <2> QED BY <1>5, <2>1
<1> QED BY <1>3, <1>4, <1>5

(* After two undisturbed runs, nothing but the time of directories is left *)
(* to copy.                                                                *)
LEMMA StepQuiet ==
  ASSUME InvC, Settling, [Next]_vars
  PROVE  Quiet'
<1> DEFINE Calmer(p) == \/ Still(NodesAt(p)', TimesAt(p)')
                        \/ /\ calm' = 2 /\ p \in Dir
                           /\ Levelled(NodesAt(p)', TimesAt(p)')
<1> SUFFICES ASSUME step' \in Propagating, calm' > 1, NEW p \in Findable \ Unwalked
             PROVE  Calmer(p)
  BY DEF Quiet, Propagating
<1>f. p \in Path \ Unwalked /\ p \notin HighHash
  BY UpToGoesUp DEF Findable
<1>i. InvA
  BY DEF InvC, InvB
<1>t. /\ current \in Replica /\ Dest \in Replica /\ Other(current) = Dest
      /\ Other(Dest) = current
      /\ \A r \in Replica : r = current \/ r = Dest
      /\ disk \in [Replica -> Times] /\ TypeOK /\ calm \in 0 .. 3
      /\ \A q \in Path : journal[q] \in Nat
  BY <1>i, Parts DEF TypeOK
<1>0. calm' > 0
  <2>1. calm' \in 0 .. 3
    BY <1>i, Parts, StepTypeOK DEF TypeOK
  <2> QED BY <2>1
<1>1. /\ calm' = calm /\ calm > 0 /\ step # "idle" /\ UNCHANGED journal
      /\ \/ Reconcile
         \/ step \in Propagating /\ UNCHANGED <<disk, tree>>
         \/ step \in Propagating /\ \E q \in Path : Sends(q) \/ Drops(q)
  BY <1>0, CalmPropagates
<1>2. CASE Reconcile
  <2> DEFINE n == NodesAt(p)  d == TimesAt(p)  m == NodesAt(p)'  e == TimesAt(p)'
  <2>1. /\ AllFound(n, d) /\ e = d
        /\ \A r \in Replica :
             /\ m[r].mtime = n[r].mtime
             /\ n[r].instr = "NEW" => journal[p] = 0
             /\ n[r].instr # "RENAME"
             /\ n[r].instr = "EVAL" => journal[p] # 0 /\ n[r].mtime > journal[p]
             /\ n[r].instr = "NONE" => journal[p] # 0 /\ n[r].mtime <= journal[p]
        /\ Verdict(n["local"], n["remote"], m["local"].instr, m["remote"].instr)
    <3>1. \A r \in Replica : Tells(r, p, n[r].instr, n[r].mtime)
      BY <1>1, <1>2, <1>f, AllIsFound
    <3>2. \A r \in Replica :
             /\ n[r].instr = "NEW" => journal[p] = 0
             /\ n[r].instr # "RENAME"
             /\ n[r].instr = "EVAL" => journal[p] # 0 /\ n[r].mtime > journal[p]
             /\ n[r].instr = "NONE" => journal[p] # 0 /\ n[r].mtime <= journal[p]
      BY <1>f, <3>1 DEF Tells, FoundByHash
    <3> QED BY <1>1, <1>2, <1>f, <3>2, AllIsFound
  <2>2. d["local"] = disk["local"][p] /\ d["remote"] = disk["remote"][p]
    BY <1>f, AtIs DEF Replica
  <2>3. step = "update"
    BY <1>2 DEF Reconcile
  <2>4. /\ Synced(p)
        /\ calm > 2 => AtRest(p)
    <3>1. Settled
      BY DEF InvC
    <3> QED BY <1>1, <1>f, <2>3, <3>1 DEF Settled
  <2> HIDE DEF n, d, m, e
  <2>5. /\ d["local"] = 0 <=> d["remote"] = 0
        /\ d["local"] # 0 => d["local"] >= journal[p]
    BY <2>2, <2>4 DEF Synced
  <2>6. /\ Still(m, d) \/ Levelled(m, d)
        /\ (\A r \in Replica : d[r] # 0 => d[r] <= journal[p]) => Still(m, d)
    BY <1>f, <1>t, <2>1, <2>5, QuietFound
  <2>7. \A r \in Replica : r = "local" \/ r = "remote"
    BY DEF Replica
  <2>8. ASSUME p \notin Dir \/ calm > 2 PROVE Still(m, d)
    <3>1. \A r \in Replica : d[r] # 0 => d[r] <= journal[p]
      BY <1>t, <2>2, <2>4, <2>7, <2>8 DEF Synced, AtRest
    <3> QED BY <2>6, <3>1
  <2>9. Still(m, e) \/ (calm' = 2 /\ p \in Dir /\ Levelled(m, e))
    BY <1>1, <1>t, <2>1, <2>6, <2>8
  <2> QED BY <2>9 DEF m, e
<1>3. CASE step \in Propagating /\ UNCHANGED <<disk, tree>>
  <2>1. NodesAt(p)' = NodesAt(p) /\ TimesAt(p)' = TimesAt(p)
    BY <1>3 DEF NodesAt, TimesAt
  <2> QED BY <1>1, <1>3, <2>1 DEF InvC, Quiet
<1>4. ASSUME step \in Propagating, NEW q \in Path, Sends(q) \/ Drops(q)
      PROVE  Calmer(p)
  <2>1. Present(current, q)
    BY <1>4, <1>0, <1>1, <1>t, SendsFrame, CalmDrops DEF Present
  <2>2. /\ q \notin Unwalked
        /\ NodesAt(q)[current] = tree[current][q] /\ NodesAt(q)[Dest] = tree[Dest][q]
        /\ TimesAt(q)[current] = disk[current][q] /\ TimesAt(q)[Dest] = disk[Dest][q]
    BY <1>1, <1>4, <1>t, <2>1, RowAt
  <2>3. Sends(q) /\ Instr(current, q) \in {"NEW", "SYNC"}
    <3>1. Instr(current, q) # "REMOVE"
      BY <1>1, <1>4, <1>t DEF InvC, NoneGoes
    <3> QED BY <1>0, <1>1, <1>4, <1>t, <3>1, SendsFrame, CalmDrops
  <2>4. /\ NodeEnds(q, "UPDATED") /\ disk'[current] = disk[current]
        /\ Grows(disk[Dest], disk'[Dest], q, now)
        /\ disk'[Dest][q] = tree[current][q].mtime
        /\ Instr(current, q) = "SYNC" /\ q \in Dir =>
             \A x \in Path : x # q => disk'[Dest][x] = disk[Dest][x]
    BY <1>0, <1>1, <2>3, CalmSends
  <2>5. /\ tree'[current][q].instr = "UPDATED"
        /\ tree'[current][q].mtime = tree[current][q].mtime
        /\ \A x \in Path : x # q => tree'[current][x] = tree[current][x]
        /\ tree'[Dest] = tree[Dest]
    BY <1>t, <2>4, NodeEndsIs DEF Word, Instruction
  <2>6. ASSUME p # q, disk'[Dest][p] = disk[Dest][p] PROVE Calmer(p)
    <3>1. \A r \in Replica : tree'[r][p] = tree[r][p] /\ disk'[r][p] = disk[r][p]
      BY <1>f, <1>t, <2>4, <2>5, <2>6
    <3>2. NodesAt(p)' = NodesAt(p) /\ TimesAt(p)' = TimesAt(p)
      BY <3>1 DEF NodesAt, TimesAt
    <3> QED BY <1>1, <1>4, <3>2 DEF InvC, Quiet
  <2>7. CASE q \notin Findable
    <3>1. p \notin UpTo[q]
      BY <2>7, FindableDown
    <3>2. p # q /\ disk'[Dest][p] = disk[Dest][p]
      BY <1>f, <2>4, <2>7, <3>1 DEF Grows
    <3> QED BY <2>6, <3>2
  <2>8. CASE q \in Findable
    <3>1. Still(NodesAt(q), TimesAt(q)) \/ (calm = 2 /\ q \in Dir /\ Levelled(NodesAt(q), TimesAt(q)))
      BY <1>1, <1>4, <2>2, <2>8 DEF InvC, Quiet
    <3>2. /\ calm = 2 /\ q \in Dir /\ Instr(current, q) = "SYNC"
          /\ tree[Dest][q].instr \in {"NONE", "EVAL"} /\ disk[current][q] # 0
          /\ disk[current][q] = tree[current][q].mtime
      BY <1>t, <2>2, <2>3, <3>1 DEF Still, Levelled, Instr
    <3>3. CASE p = q
      <4>1. /\ NodesAt(q)'[current] = tree'[current][q] /\ NodesAt(q)'[Dest] = tree'[Dest][q]
            /\ TimesAt(q)'[current] = disk'[current][q] /\ TimesAt(q)'[Dest] = disk'[Dest][q]
        BY <1>t, AtIs
      <4>2. Levelled(NodesAt(q)', TimesAt(q)')
        BY <1>t, <2>4, <2>5, <3>2, <4>1 DEF Levelled
      <4> QED BY <1>1, <3>2, <3>3, <4>2
    <3>4. CASE p # q
      BY <1>f, <2>4, <2>6, <3>2, <3>4
    <3> QED BY <3>3, <3>4
  <2> QED BY <2>7, <2>8
<1> HIDE DEF Calmer
<1> QED BY <1>1, <1>2, <1>3, <1>4

(* A run over synced replicas does not remove anything. *)
LEMMA StepNoneGoes ==
  ASSUME InvC, Settling, [Next]_vars
  PROVE  NoneGoes'
<1> SUFFICES ASSUME step' \in Propagating, calm' > 1, NEW r \in Replica, NEW p \in Path,
                    tree'[r][p].instr = "REMOVE"
             PROVE  FALSE
  BY DEF NoneGoes, Instr, Propagating
<1>i. InvA /\ ~Collections
  BY DEF InvC, InvB, Settling
<1>0. calm' > 0 /\ calm \in 0 .. 3
  <2>1. calm' \in 0 .. 3
    BY <1>i, Parts, StepTypeOK DEF TypeOK
  <2> QED BY <1>i, <2>1, Parts DEF TypeOK
<1>1. /\ calm' = calm /\ calm > 0
      /\ \/ Reconcile
         \/ step \in Propagating /\ UNCHANGED <<disk, tree>>
         \/ step \in Propagating /\ \E q \in Path : Sends(q) \/ Drops(q)
  BY <1>0, CalmPropagates
<1>2. ASSUME step \in Propagating PROVE tree[r][p].instr # "REMOVE"
  BY <1>1, <1>2 DEF InvC, NoneGoes, Instr
<1>3. CASE Reconcile
  <2>1. p \notin Unwalked
    <3>1. InvA'
      BY <1>i, StepInvA
    <3> QED BY <3>1 DEF InvA, Nodes, Present, Instr
  <2>2. /\ AllFound(NodesAt(p), TimesAt(p))
        /\ Verdict(NodesAt(p)["local"], NodesAt(p)["remote"],
                   NodesAt(p)'["local"].instr, NodesAt(p)'["remote"].instr)
    BY <1>1, <1>3, <2>1, AllIsFound
  <2>3. Synced(p)
    BY <1>1, <1>3, <2>1 DEF InvC, Settled, Reconcile
  <2>4. \A s \in Replica : /\ NodesAt(p)[s] = tree[s][p] /\ NodesAt(p)'[s] = tree'[s][p]
                           /\ TimesAt(p)[s] = disk[s][p]
    BY AtIs
  <2>5. (r = "local" \/ r = "remote") /\ "local" \in Replica /\ "remote" \in Replica
    BY DEF Replica
  <2>6. tree["local"][p].instr = "ABSENT" <=> tree["remote"][p].instr = "ABSENT"
    BY <2>2, <2>3, <2>4, <2>5 DEF AllFound, Synced
  <2> QED BY <2>2, <2>4, <2>5, <2>6 DEF Verdict
<1>4. CASE step \in Propagating /\ UNCHANGED <<disk, tree>>
  BY <1>2, <1>4
<1>5. ASSUME step \in Propagating, NEW q \in Path, Sends(q) \/ Drops(q) PROVE FALSE
  <2>1. TypeOK
    BY <1>i, Parts
  <2>2. ASSUME NEW x \in Word, x # "REMOVE", NodeEnds(q, x) PROVE FALSE
    BY <1>2, <1>5, <2>1, <2>2, NodeEndsIs, Parts, <1>i
  <2>3. {"UPDATED", "DELETED", "NONE"} \subseteq Word
    BY DEF Word, Instruction
  <2>4. CASE Sends(q)
    BY <1>0, <1>1, <2>2, <2>3, <2>4, CalmSends
  <2>5. CASE Drops(q)
    <3>1. NodeEnds(q, "DELETED") \/ NodeEnds(q, "NONE") \/ UNCHANGED tree
      BY <1>0, <1>1, <2>5, CalmDrops DEF Goes, PutOff, Stays
    <3> QED BY <1>2, <1>5, <2>2, <2>3, <3>1
  <2> QED BY <1>5, <2>4, <2>5
<1> QED BY <1>1, <1>3, <1>4, <1>5

-----------------------------------------------------------------------------
(* The third layer holds at the start ... *)
LEMMA InitInvC == Init => InvC
<1> SUFFICES ASSUME Init PROVE InvC
  OBVIOUS
<1>1. InvB
  BY InitInvB
<1>2. PICK P \in Rest :
        /\ journal = [p \in Path |-> IF p \in P \ Unwalked THEN 1 ELSE 0]
        /\ disk = [r \in Replica |-> [p \in Path |-> IF p \in P THEN 1 ELSE 0]]
  BY DEF Init
<1>3. step = "idle" /\ calm = 2 /\ replica = "local" /\ current = "local" /\ unseen = {}
  BY DEF Init
<1>4. \A p \in Path \ Unwalked : Synced(p) /\ AtRest(p)
  <2> SUFFICES ASSUME NEW p \in Path \ Unwalked PROVE Synced(p) /\ AtRest(p)
    OBVIOUS
  <2>1. /\ disk["local"][p] = journal[p] /\ disk["remote"][p] = journal[p]
        /\ journal[p] \in Nat
    BY <1>2 DEF Replica
  <2> QED BY <2>1 DEF Synced, AtRest
<1> QED BY <1>1, <1>3, <1>4 DEF InvC, Undisturbed, Scanned, CalmRows, Ageing, Settled,
                                Quiet, NoneGoes, Propagating, Findable

(* ... and every step keeps it. *)
LEMMA StepInvC ==
  ASSUME Settling, InvC, [Next]_vars
  PROVE  InvC'
<1>1. InvB'
  BY StepInvB DEF InvC
<1> QED BY <1>1, StepUndisturbed, StepScanned, StepCalmRows, StepAgeing, StepSettled,
           StepQuiet, StepNoneGoes DEF InvC

(* After every undisturbed run, over any directories, files and modes of   *)
(* failure, both replicas have the same files and the same directories     *)
(* wherever walks come.                                                    *)
THEOREM CalmRunsConverge ==
  ASSUME Settling
  PROVE  Spec => []CalmRunConverges
<1>1. InvC => CalmRunConverges
  <2> SUFFICES ASSUME InvC, step = "idle", calm > 0, NEW p \in Path \ Unwalked
               PROVE  Equal(p)
    BY DEF CalmRunConverges
  <2>1. Synced(p)
    BY DEF InvC, Settled
  <2> QED BY <2>1, PathTypes DEF Synced, Equal, There
<1>2. Settling
  OBVIOUS
<1> QED BY <1>1, <1>2, InitInvC, StepInvC, PTL DEF Spec

(* A third undisturbed run finds nothing to do where the rows of a path    *)
(* and of what is below it can be found: the times that the first one left *)
(* different on directories are level after the second, whichever replica  *)
(* was walked first, and whatever both do where rows are not found.        *)
THEOREM ThirdRunsAreQuiet ==
  ASSUME Settling
  PROVE  Spec => []ThirdRunIsQuiet
<1>1. InvC => ThirdRunIsQuiet
  <2> SUFFICES ASSUME InvC, calm = 3, step \in {"files", "dirs", "cleanup"},
                      NEW r \in Replica, NEW p \in Findable
               PROVE  tree[r][p].instr \in {"NONE", "ABSENT"}
    BY DEF ThirdRunIsQuiet
  <2>0. p \in Path
    BY DEF Findable
  <2>1. step \in Propagating /\ calm > 1 /\ calm # 2
    BY DEF Propagating
  <2>2. CASE p \in Unwalked
    BY <2>0, <2>2 DEF InvC, InvB, InvA, Nodes, Present, Instr
  <2>3. CASE p \notin Unwalked
    <3>1. Still(NodesAt(p), TimesAt(p))
      BY <2>1, <2>3 DEF InvC, Quiet
    <3> QED BY <2>0, <3>1, AtIs DEF Still
  <2> QED BY <2>2, <2>3
<1>2. Settling
  OBVIOUS
<1> QED BY <1>1, <1>2, InitInvC, StepInvC, PTL DEF Spec

-----------------------------------------------------------------------------
(* What was deleted when everything was at rest: r is the replica where it *)
(* was, the other one loses it in the next run.                            *)
Emptied(p, r) ==
    \A c \in Sub(p) :
        /\ disk[r][c] = 0 /\ tree[r][c].instr = "ABSENT" /\ c \notin unseen
        /\ step \in {"idle", "update"} =>
             /\ disk[Other(r)][c] <= journal[c]
             /\ tree[Other(r)][c].instr \in {"ABSENT", "NONE"}
        /\ step \in Propagating =>
             /\ tree[Other(r)][c].instr \in {"ABSENT", "NONE", "REMOVE", "DELETED"}
             /\ disk[Other(r)][c] # 0 => tree[Other(r)][c].instr = "REMOVE"

Vacated ==
    \A p \in Findable \ Unwalked : dead[p] = 2 =>
        replica = current /\ \E r \in Replica : Emptied(p, r)

InvD == InvC /\ Vacated

(* Walks come to all of a directory, or to nothing of it. *)
LEMMA WalkedBelow ==
  ASSUME Settling, NEW p \in Path \ Unwalked, NEW c \in Sub(p)
  PROVE  c \in Path \ Unwalked
<1>1. c \in Path /\ p \in UpTo[c]
  BY DEF Sub
<1>2. ASSUME c \in Unwalked PROVE FALSE
  <2>1. Unwalked \in SUBSET Path
    BY DEF Unwalked
  <2>2. Upward(Unwalked)
    BY DEF Settling, Upward
  <2>3. UpTo[c] \subseteq Unwalked
    BY <1>1, <1>2, <2>1, <2>2, UpToIsLeast
  <2> QED BY <1>1, <2>3
<1> QED BY <1>1, <1>2

(* Nothing of it changes. *)
LEMMA EmptiedFrame ==
  ASSUME NEW p \in Path, NEW r \in Replica, Emptied(p, r),
         UNCHANGED <<journal, step>>,
         \A c \in Sub(p) :
            /\ c \notin unseen'
            /\ \A s \in Replica : disk'[s][c] = disk[s][c] /\ tree'[s][c] = tree[s][c]
  PROVE  Emptied(p, r)'
<1>1. Other(r) \in Replica
  BY OtherIs
<1> SUFFICES ASSUME NEW c \in Sub(p)
             PROVE  /\ disk'[r][c] = 0 /\ tree'[r][c].instr = "ABSENT" /\ c \notin unseen'
                    /\ step' \in {"idle", "update"} =>
                         /\ disk'[Other(r)][c] <= journal'[c]
                         /\ tree'[Other(r)][c].instr \in {"ABSENT", "NONE"}
                    /\ step' \in Propagating =>
                         /\ tree'[Other(r)][c].instr \in {"ABSENT", "NONE", "REMOVE", "DELETED"}
                         /\ disk'[Other(r)][c] # 0 => tree'[Other(r)][c].instr = "REMOVE"
  BY DEF Emptied, Sub, Propagating
<1> QED BY <1>1 DEF Emptied

(* A user somewhere else.                                                  *)
LEMMA UserElsewhere ==
  ASSUME InvA, NEW q \in Path, NEW s \in Replica, NEW r \in Replica, NEW p \in Path,
         UserWrites(s, q) \/ UserDeletes(s, q), p \notin UpTo[q], Emptied(p, r),
         UserDeletes(s, q) => p \notin Gone(s, q)
  PROVE  Emptied(p, r)'
<1>1. /\ UNCHANGED <<journal, tree, step>>
      /\ unseen' = IF step = "idle" THEN {} ELSE unseen \cup UpTo[q]
  BY UserFrame
<1>2. ASSUME NEW c \in Sub(p) PROVE c \notin UpTo[q]
  BY UpToNested DEF Sub
<1>3. /\ disk' \in [Replica -> Times]
      /\ disk'[Other(s)] = disk[Other(s)]
  BY UserDisk
<1>4. ASSUME NEW c \in Sub(p) PROVE disk'[s][c] = disk[s][c]
  <2>1. c \in Path /\ p \in UpTo[c] /\ c \notin UpTo[q]
    BY <1>2 DEF Sub
  <2>2. CASE UserWrites(s, q)
    BY <2>1, <2>2, Parts, UserWritesIs DEF Grows
  <2>3. CASE UserDeletes(s, q)
    <3>1. Shrinks(disk[s], disk'[s], Gone(s, q), now + 1)
      BY <2>3, Parts, UserDeletesIs
    <3>2. CASE c \in Sub(q)
      <4>1. p \in Sub(q)
        <5>1. q \in UpTo[c] /\ q \in Path
          BY <3>2 DEF Sub
        <5>2. p \in UpTo[q] \/ q \in UpTo[p]
          BY <2>1, <5>1, UpToChain
        <5> QED BY <5>2 DEF Sub
      <4>2. disk[s][p] = 0
        BY <2>3, <4>1, PathTypes DEF Gone, There
      <4>3. disk[s][c] = 0
        <5>1. Grounded(disk[s])
          BY DEF InvA, Shape
        <5> QED BY <2>1, <4>2, <5>1, GroundedUp
      <4> QED BY <2>1, <3>1, <4>3 DEF Shrinks
    <3>3. CASE c \notin Sub(q)
      <4>1. c \notin Gone(s, q)
        BY <3>3 DEF Gone
      <4>2. ASSUME NEW x \in Gone(s, q), Parent[x] = c PROVE FALSE
        <5>1. x \in Path /\ q \in UpTo[x]
          BY DEF Gone, Sub
        <5>2. UpTo[x] = {x} \cup UpTo[c]
          BY <2>1, <4>2, <5>1, UpToParent, PathTypes
        <5>3. x = q
          BY <2>1, <3>3, <5>1, <5>2 DEF Sub
        <5> QED BY <2>1, <5>2, <5>3, UpToGoesUp
      <4> QED BY <2>1, <3>1, <4>1, <4>2 DEF Shrinks
    <3> QED BY <3>2, <3>3
  <2> QED BY <2>2, <2>3
<1>5. \A c \in Sub(p) :
        /\ c \notin unseen'
        /\ \A x \in Replica : disk'[x][c] = disk[x][c] /\ tree'[x][c] = tree[x][c]
  BY <1>1, <1>2, <1>3, <1>4, OtherIs DEF Emptied
<1> QED BY <1>1, <1>5, EmptiedFrame

(* A user deletes something when the replicas are at rest. *)
LEMMA UserEmpties ==
  ASSUME InvC, Settling, NEW q \in Path, NEW s \in Replica, UserDeletes(s, q),
         step = "idle", calm > 1, NEW p \in Findable \ Unwalked, p \in Gone(s, q)
  PROVE  Emptied(p, s)'
<1>i. InvA
  BY DEF InvC, InvB
<1>f. p \in Path \ Unwalked
  BY DEF Findable
<1>1. /\ UNCHANGED <<journal, tree, step>> /\ unseen' = {}
      /\ disk'[Other(s)] = disk[Other(s)]
      /\ Shrinks(disk[s], disk'[s], Gone(s, q), now + 1)
  BY <1>i, UserFrame, UserDeletesIs, Parts
<1>2. Other(s) \in Replica
  BY OtherIs
<1> SUFFICES ASSUME NEW c \in Sub(p)
             PROVE  /\ disk'[s][c] = 0 /\ tree'[s][c].instr = "ABSENT" /\ c \notin unseen'
                    /\ disk'[Other(s)][c] <= journal'[c]
                    /\ tree'[Other(s)][c].instr \in {"ABSENT", "NONE"}
  BY <1>1 DEF Emptied, Sub, Propagating
<1>3. c \in Path \ Unwalked /\ c \in Findable
  <2>1. c \in Path \ Unwalked
    BY <1>f, WalkedBelow
  <2>2. p \in UpTo[c]
    BY DEF Sub
  <2> QED BY <2>1, <2>2, FindableDown
<1>4. \A r \in Replica : tree[r][c].instr = "ABSENT"
  BY <1>i, <1>3, IdleAbsent
<1>5. AtRest(c)
  BY <1>3 DEF InvC, Settled
<1>6. \A r \in Replica : disk[r][c] <= journal[c]
  <2>1. /\ disk["local"][c] \in Nat /\ journal[c] \in Nat
        /\ \A r \in Replica : r = "local" \/ r = "remote"
    BY <1>i, <1>3, Parts DEF Replica
  <2>2. disk["local"][c] <= journal[c] /\ disk["remote"][c] <= journal[c]
    BY <1>5, <2>1 DEF AtRest
  <2> QED BY <2>1, <2>2
<1>7. disk'[s][c] = 0
  <2>1. c \in Sub(q)
    BY <1>f, SubNested DEF Gone
  <2>2. c \in Gone(s, q) \/ disk[s][c] = 0
    BY <1>3, <2>1, PathTypes DEF Gone, There
  <2> QED BY <1>1, <1>3, <2>2 DEF Shrinks
<1> QED BY <1>1, <1>2, <1>4, <1>6, <1>7

(* A step of the program that is no fault.                                 *)
LEMMA DeadSteps ==
  ASSUME InvA, [Next]_vars, NEW p \in Path, dead'[p] = 2,
         \A r \in Replica, q \in Path : ~UserWrites(r, q) /\ ~UserDeletes(r, q)
  PROVE  /\ dead' = dead
         /\ \/ StartRun \/ Commit \/ NextReplica \/ NextPass \/ Reconcile \/ UNCHANGED vars
            \/ \E d \in Dir \cup {Top} : OpenDir(d) \/ OpenFails(d)
            \/ \E q \in Path : DetectUpdate(q) \/ Sends(q) \/ Drops(q)
<1>1. ASSUME Histories PROVE dead' = dead
  BY <1>1 DEF Histories, NoFault
<1>2. ASSUME NEW d, Opens(d) PROVE OpenDir(d)
  BY <1>2 DEF Opens, OpenDenied, Fault
<1>3. Aborts => \E d \in Dir \cup {Top} : OpenFails(d)
  BY DEF Aborts, Crash, Fault
<1>4. \/ StartRun \/ Commit \/ NextReplica \/ NextPass \/ Reconcile \/ UNCHANGED vars
      \/ \E d \in Dir \cup {Top} : OpenDir(d) \/ OpenFails(d)
      \/ \E q \in Path : DetectUpdate(q) \/ Sends(q) \/ Drops(q)
  BY <1>2, <1>3, Moves
<1>5. StartRun \/ UNCHANGED vars => dead' = dead
  BY DEF StartRun, vars
<1>6. Commit \/ NextReplica \/ NextPass \/ Reconcile => Histories
  BY DEF Commit, NextReplica, NextPass, Reconcile, history, Histories, NoFault, bounds
<1>7. ASSUME NEW d, OpenDir(d) \/ OpenFails(d) PROVE Histories
  BY <1>7 DEF OpenDir, OpenFails, Histories
<1>8. ASSUME NEW q \in Path, DetectUpdate(q) \/ Sends(q) \/ Drops(q) PROVE Histories
  BY <1>8, ProgramHistories
<1> QED BY <1>1, <1>4, <1>5, <1>6, <1>7, <1>8

(* Update detection finds nothing at an emptied path. *)
LEMMA DetectEmptied ==
  ASSUME InvA, NEW x \in Path, DetectUpdate(x), NEW p \in Findable, NEW r \in Replica,
         Emptied(p, r)
  PROVE  Emptied(p, r)'
<1>f. p \in Path
  BY DEF Findable
<1>1. /\ step = "update" /\ UNCHANGED <<disk, journal, step, unseen>>
      /\ \/ UNCHANGED tree
         \/ /\ disk[current][x] # 0
            /\ tree'[current][x].instr # "ABSENT"
            /\ Tells(current, x, tree'[current][x].instr, disk[current][x])
            /\ \A s \in Replica, q \in Path :
                 s # current \/ q # x => tree'[s][q] = tree[s][q]
  BY DetectIs DEF DetectUpdate, history
<1>2. /\ Other(r) \in Replica /\ (current = r \/ current = Other(r)) /\ current \in Replica
      /\ disk[current][x] \in Nat /\ journal[x] \in Nat
  BY OtherIs, Parts
<1>3. CASE UNCHANGED tree
  BY <1>f, <1>1, <1>3, EmptiedFrame DEF Emptied
<1>4. CASE x \notin Sub(p)
  <2>1. \A c \in Sub(p) : c # x /\ c \in Path
    BY <1>4 DEF Sub
  <2>2. \A c \in Sub(p) : /\ c \notin unseen'
                          /\ \A s \in Replica : disk'[s][c] = disk[s][c] /\ tree'[s][c] = tree[s][c]
    BY <1>1, <2>1 DEF Emptied
  <2> QED BY <1>f, <1>1, <2>2, EmptiedFrame
<1>5. CASE x \in Sub(p) /\ ~UNCHANGED tree
  <2>1. disk[current][x] # 0
    BY <1>1, <1>5
  <2>2. current = Other(r) /\ disk[current][x] <= journal[x]
    BY <1>1, <1>2, <1>5, <2>1 DEF Emptied
  <2>3. tree'[current][x].instr = "NONE"
    <3>1. x \in Path /\ x \notin HighHash
      BY <1>5, FindableDown DEF Sub
    <3>2. Tells(current, x, tree'[current][x].instr, disk[current][x])
          /\ tree'[current][x].instr # "ABSENT"
      BY <1>1, <1>5
    <3>3. journal[x] # 0
      BY <1>2, <2>1, <2>2
    <3> QED BY <1>2, <2>2, <3>1, <3>2, <3>3 DEF Tells, Found, FoundByHash
  <2> SUFFICES ASSUME NEW c \in Sub(p)
               PROVE  /\ disk'[r][c] = 0 /\ tree'[r][c].instr = "ABSENT" /\ c \notin unseen'
                      /\ disk'[Other(r)][c] <= journal'[c]
                      /\ tree'[Other(r)][c].instr \in {"ABSENT", "NONE"}
    BY <1>1 DEF Emptied, Sub, Propagating
  <2>4. c \in Path /\ r # current
    BY <2>2, OtherIs DEF Sub
  <2>5. tree'[r][c] = tree[r][c]
    BY <1>1, <1>5, <2>4
  <2>6. c # x => tree'[Other(r)][c] = tree[Other(r)][c]
    BY <1>1, <1>2, <1>5, <2>4
  <2> QED BY <1>1, <2>2, <2>3, <2>4, <2>5, <2>6 DEF Emptied
<1> QED BY <1>1, <1>3, <1>4, <1>5

(* The reconciler orders nothing for an emptied path. *)
LEMMA ReconcileEmptied ==
  ASSUME InvA, Settling, Reconcile, NEW p \in Path \ Unwalked, NEW r \in Replica, Emptied(p, r)
  PROVE  Emptied(p, r)'
<1>1. /\ step = "update" /\ step' = "files" /\ UNCHANGED <<disk, journal, unseen>>
      /\ current = "remote" /\ todo = {} /\ opening = {}
  BY DEF Reconcile, WalkDone, history
<1>2. Other(r) \in Replica
  BY OtherIs
<1> SUFFICES ASSUME NEW c \in Sub(p)
             PROVE  /\ disk'[r][c] = 0 /\ tree'[r][c].instr = "ABSENT" /\ c \notin unseen'
                    /\ tree'[Other(r)][c].instr \in {"ABSENT", "NONE", "REMOVE", "DELETED"}
                    /\ disk'[Other(r)][c] # 0 => tree'[Other(r)][c].instr = "REMOVE"
  BY <1>1 DEF Emptied, Sub, Propagating
<1>3. c \in Path \ Unwalked
  BY WalkedBelow
<1>4. Verdict(tree["local"][c], tree["remote"][c],
              tree'["local"][c].instr, tree'["remote"][c].instr)
  BY <1>3, ReconcileIs
<1>5. /\ disk[r][c] = 0 /\ tree[r][c].instr = "ABSENT" /\ c \notin unseen
      /\ tree[Other(r)][c].instr \in {"ABSENT", "NONE"}
  BY <1>1 DEF Emptied
<1>6. tree[Other(r)][c].instr = "ABSENT" => disk[Other(r)][c] = 0
  <2> SUFFICES ASSUME tree[Other(r)][c].instr = "ABSENT", disk[Other(r)][c] # 0 PROVE FALSE
    OBVIOUS
  <2>1. Pending(Other(r), c)
    BY <1>1, <1>2, <1>3, <1>5 DEF InvA, Seen, Present, Instr
  <2> QED BY <1>1, <2>1 DEF Pending
<1>7. CASE r = "local"
  <2>1. Other(r) = "remote"
    BY <1>7 DEF Other
  <2>2. /\ tree'["local"][c].instr = "ABSENT"
        /\ tree["remote"][c].instr = "ABSENT" => tree'["remote"][c].instr = "ABSENT"
        /\ tree["remote"][c].instr = "NONE" => tree'["remote"][c].instr = "REMOVE"
    BY <1>4, <1>5, <1>7, <2>1 DEF Verdict
  <2> QED BY <1>1, <1>5, <1>6, <1>7, <2>1, <2>2
<1>8. CASE r = "remote"
  <2>1. Other(r) = "local"
    BY <1>8 DEF Other
  <2>2. /\ tree'["remote"][c].instr = "ABSENT"
        /\ tree["local"][c].instr = "ABSENT" => tree'["local"][c].instr = "ABSENT"
        /\ tree["local"][c].instr = "NONE" => tree'["local"][c].instr = "REMOVE"
    BY <1>4, <1>5, <1>8, <2>1 DEF Verdict
  <2> QED BY <1>1, <1>5, <1>6, <1>8, <2>1, <2>2
<1> QED BY <1>7, <1>8 DEF Replica

(* No propagation fills an emptied path. *)
LEMMA SendsEmptied ==
  ASSUME InvA, NEW x \in Path, Sends(x), NEW p \in Path, NEW r \in Replica, Emptied(p, r)
  PROVE  Emptied(p, r)'
<1>t. /\ current \in Replica /\ Dest \in Replica /\ Other(current) = Dest
      /\ \A s \in Replica : s = current \/ s = Dest
      /\ TypeOK /\ Other(r) \in Replica
      /\ \A s \in Replica : s = r \/ s = Other(r)
  BY Parts, OtherIs
<1>1. /\ step \in Propagating /\ Instr(current, x) \in {"NEW", "SYNC"}
      /\ UNCHANGED <<journal, step, unseen>>
      /\ TreeMoves(x)
  BY <1>t, SendsFrame DEF Propagating, TreeMoves
<1>2. x \notin Sub(p)
  BY <1>1, <1>t DEF Emptied, Instr
<1>3. disk'[current] = disk[current] /\ Grows(disk[Dest], disk'[Dest], x, now)
  BY SendsIs
<1>4. ASSUME NEW c \in Sub(p)
      PROVE  /\ c \notin unseen'
             /\ \A s \in Replica : disk'[s][c] = disk[s][c] /\ tree'[s][c] = tree[s][c]
  <2>1. c \in Path /\ p \in UpTo[c] /\ c # x
    BY <1>2 DEF Sub
  <2>2. c \notin UpTo[x]
    BY <1>2, <2>1, UpToNested DEF Sub
  <2>3. disk'[Dest][c] = disk[Dest][c]
    BY <1>3, <2>1, <2>2 DEF Grows
  <2>4. tree'[current][c] = tree[current][c] /\ tree'[Dest] = tree[Dest]
    BY <1>1, <1>t, <2>1, TreeMovesIs
  <2> QED BY <1>1, <1>3, <1>t, <2>3, <2>4 DEF Emptied
<1> QED BY <1>1, <1>4, EmptiedFrame

(* No removal fills an emptied path. *)
LEMMA DropsEmptied ==
  ASSUME InvA, Settling, NEW x \in Path, Drops(x), NEW p \in Path \ Unwalked, NEW r \in Replica,
         Emptied(p, r), dead'[p] = 2, replica = current
  PROVE  Emptied(p, r)'
<1>t. /\ current \in Replica /\ Dest \in Replica /\ Other(current) = Dest
      /\ \A s \in Replica : s = current \/ s = Dest
      /\ disk \in [Replica -> Times] /\ TypeOK /\ ~Collections
  BY Parts DEF Settling
<1>u. /\ Other(r) \in Replica /\ Other(r) # r
      /\ \A s \in Replica : s = r \/ s = Other(r)
  BY OtherIs
<1>1. /\ step \in Propagating /\ UNCHANGED <<journal, step, unseen>>
      /\ Instr(current, x) = "REMOVE"
      /\ Goes(x) \/ PutOff(x) \/ Stays(x)
      /\ step = "cleanup" => list \cap Below(x) = {}
  BY <1>t, DropsFrame, DropsAre DEF Propagating
<1>2. CASE PutOff(x)
  BY <1>1, <1>2, EmptiedFrame DEF PutOff, Emptied
<1>3. CASE ~PutOff(x)
  <2>1. TreeMoves(x)
    BY <1>1, <1>3 DEF Goes, Stays, TreeMoves
  <2>2. /\ tree'[current][x].instr \in {"UPDATED", "ERROR", "DELETED", "NONE"}
        /\ \A q \in Path : q # x => tree'[current][q] = tree[current][q]
        /\ tree'[Dest] = tree[Dest]
    BY <1>t, <2>1, TreeMovesIs
  <2>3. /\ disk'[Dest] = disk[Dest]
        /\ \A q \in Path : q # x => (disk'[current][q] = 0 <=> disk[current][q] = 0)
    <3>1. CASE Goes(x)
      BY <3>1, <1>t DEF Goes, Shrinks
    <3>2. CASE Stays(x)
      BY <3>2 DEF Stays
    <3> QED BY <1>1, <1>3, <3>1, <3>2
  <2>4. x \in Sub(p) => current = Other(r)
    BY <1>1, <1>t, <1>u DEF Emptied, Instr
  <2>5. x \in Sub(p) => disk'[current][x] = 0 /\ tree'[current][x].instr \in {"DELETED", "NONE"}
    <3> SUFFICES ASSUME x \in Sub(p)
                 PROVE  disk'[current][x] = 0 /\ tree'[current][x].instr \in {"DELETED", "NONE"}
      OBVIOUS
    <3>w. {"DELETED", "NONE"} \subseteq Word
      BY DEF Word, Instruction
    <3>1. CASE Goes(x)
      <4>1. NodeEnds(x, "DELETED") /\ Shrinks(disk[current], disk'[current], {x}, now)
        BY <3>1 DEF Goes
      <4>2. tree'[current][x].instr = "DELETED"
        BY <1>t, <3>w, <4>1, NodeEndsIs
      <4> QED BY <4>1, <4>2 DEF Shrinks
    <3>2. CASE Stays(x)
      <4>0. dead' # [q \in Path |-> 0]
        OBVIOUS
      <4>1. /\ NodeEnds(x, "NONE") /\ UNCHANGED disk
            /\ ~There(current, x) \/ (step = "cleanup" /\ ~Removable(x))
        BY <3>2, <4>0 DEF Stays
      <4>2. tree'[current][x].instr = "NONE"
        BY <1>t, <3>w, <4>1, NodeEndsIs
      <4>3. ASSUME step = "cleanup", ~Removable(x) PROVE FALSE
        <5>1. PICK y \in Path : Parent[y] = x /\ disk[current][y] # 0
          BY <4>3 DEF Removable, Inside, Children
        <5>2. UpTo[y] = {y} \cup UpTo[x] /\ x \in UpTo[x] /\ y # x
          BY <5>1, UpToParent, UpToGoesUp, ParentOther, PathTypes
        <5>3. y \in Sub(p) /\ y \in Below(x)
          BY <5>2, PathTypes DEF Sub, Below
        <5>4. tree[current][y].instr = "REMOVE"
          BY <1>1, <2>4, <5>1, <5>3 DEF Emptied
        <5>5. y \in list
          BY <1>t, <4>3, <5>4 DEF InvA, Course, Propagating, Ahead, Acting, Instr
        <5> QED BY <1>1, <4>3, <5>3, <5>5
      <4> QED BY <4>1, <4>2, <4>3, PathTypes DEF There
    <3> QED BY <1>1, <1>3, <3>1, <3>2
  <2> SUFFICES ASSUME NEW c \in Sub(p)
               PROVE  /\ disk'[r][c] = 0 /\ tree'[r][c].instr = "ABSENT" /\ c \notin unseen'
                      /\ tree'[Other(r)][c].instr \in {"ABSENT", "NONE", "REMOVE", "DELETED"}
                      /\ disk'[Other(r)][c] # 0 => tree'[Other(r)][c].instr = "REMOVE"
    BY <1>1 DEF Emptied, Sub, Propagating
  <2>6. c \in Path
    BY DEF Sub
  <2>7. CASE c # x
    <3>1. \A s \in Replica : /\ tree'[s][c] = tree[s][c]
                             /\ disk'[s][c] = 0 <=> disk[s][c] = 0
      BY <1>t, <2>2, <2>3, <2>6, <2>7
    <3> QED BY <1>1, <1>u, <3>1 DEF Emptied
  <2>8. CASE c = x
    <3>1. Dest = r
      BY <1>t, <1>u, <2>4, <2>8
    <3> QED BY <1>1, <2>2, <2>3, <2>4, <2>5, <2>8, <3>1 DEF Emptied
  <2> QED BY <2>7, <2>8
<1> QED BY <1>2, <1>3

(* The end of a run leaves an emptied path emptied. *)
LEMMA EndEmptied ==
  ASSUME InvA, Settling, [Next]_vars, NEW p \in Path \ Unwalked, NEW r \in Replica, Emptied(p, r),
         Commit \/ \E d \in Dir \cup {Top} : OpenFails(d)
  PROVE  Emptied(p, r)'
<1>1. Other(r) \in Replica
  BY OtherIs
<1>2. EndRun /\ UNCHANGED disk
  BY DEF Commit, OpenFails
<1>3. /\ step' = "idle" /\ unseen' = {}
      /\ \A s \in Replica, c \in Path : tree'[s][c].instr = "ABSENT"
  BY <1>2 DEF EndRun, EmptyTrees, Absent
<1> SUFFICES ASSUME NEW c \in Sub(p)
             PROVE  disk[r][c] = 0 /\ disk[Other(r)][c] <= journal'[c]
  BY <1>1, <1>2, <1>3 DEF Emptied, Sub, Propagating
<1>4. disk[r][c] = 0 /\ c \in Path
  BY DEF Emptied, Sub
<1>5. CASE Commit
  <2>1. step = "commit"
    BY <1>5 DEF Commit
  <2>2. tree[Other(r)][c].instr # "REMOVE"
    BY <1>1, <1>4, <2>1 DEF InvA, Course, Ahead, Propagating, Acting, Instr
  <2>3. disk[Other(r)][c] = 0
    BY <2>1, <2>2 DEF Emptied, Propagating
  <2>4. journal'[c] \in Nat
    BY <1>4, Parts, StepTypeOK DEF TypeOK
  <2> QED BY <1>4, <2>3, <2>4
<1>6. CASE \E d \in Dir \cup {Top} : OpenFails(d)
  <2>1. step = "update" /\ UNCHANGED journal
    BY <1>6 DEF OpenFails
  <2> QED BY <1>4, <2>1 DEF Emptied
<1> QED BY <1>5, <1>6

(* Where the tree and the disks do not change. *)
LEMMA RestEmptied ==
  ASSUME InvA, [Next]_vars, NEW p \in Path, NEW r \in Replica, Emptied(p, r),
         \/ StartRun \/ NextReplica \/ NextPass \/ UNCHANGED vars
         \/ \E d \in Dir \cup {Top} : OpenDir(d)
  PROVE  Emptied(p, r)'
<1>1. UNCHANGED <<disk, journal, tree, unseen>>
  BY DEF StartRun, NextReplica, NextPass, OpenDir, vars, history
<1>2. \/ step \in {"idle", "update"} /\ step' \in {"idle", "update"}
      \/ step \in Propagating /\ step' \in Propagating
      \/ step' = step
  BY DEF StartRun, NextReplica, NextPass, OpenDir, vars, Propagating
<1> SUFFICES ASSUME NEW c \in Sub(p)
             PROVE  /\ disk'[r][c] = 0 /\ tree'[r][c].instr = "ABSENT" /\ c \notin unseen'
                    /\ step' \in {"idle", "update"} =>
                         /\ disk'[Other(r)][c] <= journal'[c]
                         /\ tree'[Other(r)][c].instr \in {"ABSENT", "NONE"}
                    /\ step' \in Propagating =>
                         /\ tree'[Other(r)][c].instr \in {"ABSENT", "NONE", "REMOVE", "DELETED"}
                         /\ disk'[Other(r)][c] # 0 => tree'[Other(r)][c].instr = "REMOVE"
  BY DEF Emptied, Sub, Propagating
<1>3. /\ step' \in {"idle", "update"} => step \in {"idle", "update"}
      /\ step' \in Propagating => step \in Propagating
  BY <1>2 DEF Propagating
<1> QED BY <1>1, <1>3 DEF Emptied

(* When a replica's pass begins, the record of it follows. *)
LEMMA StepReplica ==
  ASSUME InvA, [Next]_vars, NEW p \in Path, dead'[p] = 2, replica = current,
         \A r \in Replica, q \in Path : ~UserWrites(r, q) /\ ~UserDeletes(r, q)
  PROVE  replica' = current'
<1>1. StartRun \/ UNCHANGED vars => replica' = current'
  BY DEF StartRun, vars
<1>2. Commit \/ NextReplica \/ NextPass \/ Reconcile => replica' = current'
  BY DEF Commit, EndRun, NextReplica, NextPass, Reconcile
<1>3. ASSUME NEW d, OpenDir(d) \/ OpenFails(d) PROVE replica' = current'
  BY <1>3 DEF OpenDir, OpenFails, EndRun
<1>4. ASSUME NEW q \in Path, DetectUpdate(q) PROVE replica' = current'
  BY <1>4, DetectIs
<1>5. ASSUME NEW q \in Path, Drops(q) PROVE replica' = current'
  BY <1>5, DropsFrame, Parts
<1>6. ASSUME NEW q \in Path, Sends(q) PROVE replica' = current'
  <2>1. current' = current
    BY <1>6, SendsFrame, Parts
  <2>2. ASSUME NEW k PROVE ~Fault(k)
    <3> SUFFICES ASSUME dead' = [x \in Path |-> 0] PROVE FALSE
      BY DEF Fault
    <3> QED OBVIOUS
  <2>3. replica' = replica
    BY <1>6, <2>2 DEF Sends, PushFile, PushFails, NewDir, SyncDir
  <2> QED BY <2>1, <2>3
<1> QED BY DeadSteps, <1>1, <1>2, <1>3, <1>4, <1>5, <1>6

(* What was deleted before two undisturbed runs stays away from both       *)
(* replicas.                                                               *)
LEMMA StepVacated ==
  ASSUME InvD, Settling, [Next]_vars
  PROVE  Vacated'
<1> DEFINE Empty(p) == replica' = current' /\ \E r \in Replica : Emptied(p, r)'
<1> SUFFICES ASSUME NEW p \in Findable \ Unwalked, dead'[p] = 2
             PROVE  Empty(p)
  BY DEF Vacated
<1>f. p \in Path
  BY DEF Findable
<1>i. InvC /\ InvA
  BY DEF InvD, InvC, InvB
<1>1. ASSUME dead[p] = 2
      PROVE  replica = current /\ \E r \in Replica : Emptied(p, r)
  BY <1>1 DEF InvD, Vacated
<1>2. ASSUME NEW s \in Replica, NEW q \in Path, UserWrites(s, q) \/ UserDeletes(s, q)
      PROVE  Empty(p)
  <2>1. UNCHANGED <<replica, current>>
    BY <1>2, UserFrame
  <2>2. ASSUME dead[p] = 2, p \notin UpTo[q], UserDeletes(s, q) => p \notin Gone(s, q)
        PROVE  Empty(p)
    BY <1>i, <1>f, <1>1, <1>2, <2>1, <2>2, UserElsewhere
  <2>3. CASE UserWrites(s, q) /\ ~UserDeletes(s, q)
    <3>1. dead' = [x \in Path |-> IF x \in UpTo[q] THEN 0 ELSE dead[x]]
      BY <2>3 DEF UserWrites
    <3> QED BY <1>f, <2>2, <2>3, <3>1
  <2>4. CASE UserDeletes(s, q)
    <3>1. dead' = [x \in Path |-> IF x \in Gone(s, q) THEN CalmRuns
                                  ELSE IF x \in UpTo[q] THEN 0 ELSE dead[x]]
      BY <1>i, <1>f, <2>4, UserDeletesIs, Parts
    <3>2. CASE p \in Gone(s, q)
      <4>1. CalmRuns = 2
        BY <1>f, <3>1, <3>2
      <4>2. step = "idle" /\ calm > 1
        <5>1. calm \in 0 .. 3
          BY <1>i, <1>f, Parts DEF TypeOK
        <5> QED BY <4>1, <5>1 DEF CalmRuns
      <4>3. replica = current
        BY <1>i, <1>f, <4>2 DEF InvC, Undisturbed
      <4>4. Emptied(p, s)'
        BY <1>i, <1>f, <2>4, <3>2, <4>2, UserEmpties
      <4> QED BY <2>1, <4>3, <4>4
    <3>3. CASE p \notin Gone(s, q)
      BY <1>f, <2>2, <3>1, <3>3
    <3> QED BY <3>2, <3>3
  <2> QED BY <1>2, <2>3, <2>4
<1>3. CASE \A s \in Replica, q \in Path : ~UserWrites(s, q) /\ ~UserDeletes(s, q)
  <2>1. dead[p] = 2
    BY <1>i, <1>f, <1>3, DeadSteps
  <2>2. replica' = current' /\ replica = current
    BY <1>i, <1>f, <1>1, <1>3, <2>1, StepReplica
  <2>3. PICK r \in Replica : Emptied(p, r)
    BY <1>1, <2>1
  <2>4. ASSUME NEW q \in Path, DetectUpdate(q) \/ Sends(q) \/ Drops(q)
        PROVE  Emptied(p, r)'
    BY <1>i, <1>f, <2>2, <2>3, <2>4, DetectEmptied, SendsEmptied, DropsEmptied
  <2>5. Emptied(p, r)'
    BY <1>i, <1>f, <1>3, <2>3, <2>4, DeadSteps, ReconcileEmptied, EndEmptied, RestEmptied
  <2> QED BY <2>2, <2>5
<1> HIDE DEF Empty
<1> QED BY <1>2, <1>3

(* The fourth layer holds at the start ... *)
LEMMA InitInvD == Init => InvD
<1>1. Init => Vacated
  BY DEF Init, Vacated, Findable
<1> QED BY <1>1, InitInvC DEF InvD

(* ... and every step keeps it. *)
LEMMA StepInvD ==
  ASSUME Settling, InvD, [Next]_vars
  PROVE  InvD'
BY StepInvC, StepVacated DEF InvD

(* No step of the program brings back what two undisturbed runs saw        *)
(* deleted.                                                                *)
LEMMA StepStays ==
  ASSUME Settling, InvD, [Next]_vars
  PROVE  StaysDeleted(2)
<1> SUFFICES ASSUME ByProgram, NEW r \in Replica, NEW p \in Findable, Comes(r, p), dead[p] = 2
             PROVE  FALSE
  <2>1. \A p \in Findable : dead[p] \in 0 .. 2
    BY Parts DEF InvD, InvC, InvB, TypeOK, Findable
  <2> QED BY <2>1 DEF StaysDeleted
<1>f. p \in Path
  BY DEF Findable
<1>i. InvC /\ InvA /\ ~Collections
  BY DEF InvD, InvC, InvB, Settling
<1>t. /\ current \in Replica /\ Dest \in Replica /\ Other(current) = Dest
      /\ \A s \in Replica : s = current \/ s = Dest
      /\ disk \in [Replica -> Times] /\ TypeOK
  BY <1>i, Parts
<1>1. disk[r][p] = 0 /\ disk'[r][p] # 0
  BY <1>f, PathTypes DEF Comes, There
<1>2. ASSUME NEW s \in Replica, NEW q \in Path, UserWrites(s, q) \/ UserDeletes(s, q)
      PROVE  FALSE
  BY <1>2 DEF UserWrites, UserDeletes, UserActs, ByProgram
<1>3. ASSUME NEW x \in Path, Sends(x) PROVE FALSE
  <2>1. /\ disk'[current] = disk[current] /\ Grows(disk[Dest], disk'[Dest], x, now)
        /\ Instr(current, x) \in {"NEW", "SYNC"} /\ Present(current, x)
        /\ step \in Propagating
    BY <1>i, <1>t, <1>3, SendsIs, SendsFrame DEF Propagating
  <2>2. p \in UpTo[x]
    BY <1>f, <1>1, <1>t, <2>1 DEF Grows
  <2>3. p \in Path \ Unwalked
    <3>1. x \in Path \ Unwalked
      BY <1>i, <1>t, <2>1 DEF InvA, Nodes
    <3> QED BY <1>f, <2>2, <3>1, WalkedUp
  <2>4. PICK s \in Replica : Emptied(p, s)
    BY <2>3 DEF InvD, Vacated
  <2>5. x \in Sub(p)
    BY <2>2 DEF Sub
  <2>6. \A c \in Replica : c = s \/ c = Other(s)
    BY OtherIs
  <2> QED BY <1>t, <2>1, <2>4, <2>5, <2>6 DEF Emptied, Instr
<1>4. ASSUME NEW x \in Path, Drops(x) PROVE FALSE
  <2>1. CASE Goes(x)
    <3>1. disk'[Dest] = disk[Dest] /\ Shrinks(disk[current], disk'[current], {x}, now)
      BY <2>1, <1>t DEF Goes
    <3> QED BY <1>f, <1>1, <1>t, <3>1 DEF Shrinks
  <2>2. CASE PutOff(x) \/ Stays(x)
    BY <1>1, <2>2 DEF PutOff, Stays
  <2> QED BY <1>i, <1>4, <2>1, <2>2, DropsAre
<1> QED BY <1>f, <1>1, <1>2, <1>3, <1>4, DiskSteps

(* What a user deletes after two undisturbed runs, and what was in it, if  *)
(* their rows can be found, does not come back, on whichever replica, in   *)
(* whatever runs follow, until somebody changes something there or a call  *)
(* fails.                                                                  *)
THEOREM SettledDeletionsStay ==
  ASSUME Settling
  PROVE  Spec => SettledStaysDeleted
<1>1. Settling
  OBVIOUS
<1>2. InvD /\ [Next]_vars => InvD'
  BY StepInvD
<1>3. InvD /\ [Next]_vars => [StaysDeleted(2)]_vars
  BY StepStays
<1> QED BY <1>2, <1>3, InitInvD, PTL DEF Spec, SettledStaysDeleted

(* A step of the program leaves an unwalked path as it is. *)
LEMMA StepUntouched ==
  ASSUME ~Collections, InvA, [Next]_vars, ByProgram, NEW r \in Replica, NEW p \in Unwalked
  PROVE  disk'[r][p] = disk[r][p]
<1>t. /\ current \in Replica /\ Dest \in Replica /\ Other(current) = Dest
      /\ \A s \in Replica : s = current \/ s = Dest
      /\ disk \in [Replica -> Times] /\ TypeOK /\ p \in Path
  BY Parts DEF Unwalked
<1>1. ASSUME NEW s \in Replica, NEW q \in Path, UserWrites(s, q) \/ UserDeletes(s, q)
      PROVE  FALSE
  BY <1>1 DEF UserWrites, UserDeletes, UserActs, ByProgram
<1>2. ASSUME NEW x \in Path, Present(current, x)
      PROVE  p \notin UpTo[x] /\ p # x /\ p # Parent[x]
  <2>1. x \in Path \ Unwalked
    BY <1>2, <1>t DEF InvA, Nodes
  <2>2. \A d \in UpTo[x] : d \notin Unwalked
    BY <2>1, WalkedUp
  <2>3. x \in UpTo[x] /\ (Parent[x] \in Path => Parent[x] \in UpTo[x])
    BY PathTypes, UpToGoesUp, UpToParent
  <2> QED BY <1>t, <2>2, <2>3
<1>3. ASSUME NEW x \in Path, Sends(x) PROVE disk'[r][p] = disk[r][p]
  <2>1. /\ disk'[current] = disk[current] /\ Grows(disk[Dest], disk'[Dest], x, now)
        /\ Present(current, x)
    BY <1>3, SendsIs
  <2>2. disk'[Dest][p] = disk[Dest][p]
    BY <1>2, <1>t, <2>1 DEF Grows
  <2> QED BY <1>t, <2>1, <2>2
<1>4. ASSUME NEW x \in Path, Drops(x) PROVE disk'[r][p] = disk[r][p]
  <2>1. Present(current, x) /\ (Goes(x) \/ PutOff(x) \/ Stays(x))
    BY <1>4, DropsAre DEF Present
  <2>2. CASE Goes(x)
    <3>1. disk'[Dest] = disk[Dest] /\ Shrinks(disk[current], disk'[current], {x}, now)
      BY <2>2, <1>t DEF Goes
    <3>2. disk'[current][p] = disk[current][p]
      BY <1>2, <1>t, <2>1, <3>1 DEF Shrinks
    <3> QED BY <1>t, <3>1, <3>2
  <2>3. CASE PutOff(x) \/ Stays(x)
    BY <2>3 DEF PutOff, Stays
  <2> QED BY <2>1, <2>2, <2>3
<1> QED BY <1>1, <1>3, <1>4, DiskSteps

(* What is excluded or too deep for a walk is no concern of the program:   *)
(* nothing that it makes or removes, not even a directory's new time, is   *)
(* there.                                                                  *)
THEOREM UnwalkedStayUntouched ==
  ASSUME ~Collections
  PROVE  Spec => UnwalkedUntouched
<1>1. InvA /\ [Next]_vars => InvA'
  BY StepInvA
<1>2. InvA /\ [Next]_vars =>
        [ByProgram =>
          \A r \in Replica, p \in Unwalked : disk'[r][p] = disk[r][p]]_vars
  BY StepUntouched
<1> QED BY <1>1, <1>2, InitInvA, PTL DEF Spec, UnwalkedUntouched
=============================================================================
