--------------------------- MODULE OwnCloud_proofs ---------------------------
(***************************************************************************)
(* Proofs about OwnCloud, for any tree of paths, any names, buffer and     *)
(* client, and any number of faults and of acts of other users: type       *)
(* correctness, and that walks are true and transfers whole.               *)
(***************************************************************************)
EXTENDS OwnCloud, SequenceTheorems, TLAPS

USE ConstantsAssumption

-----------------------------------------------------------------------------
(***************************************************************************)
(* Blocks.                                                                 *)
(***************************************************************************)

(* What the client hands over are blocks.                                  *)
LEMMA HandedOver ==
  ASSUME NEW k \in Nat, NEW n \in Nat, k + n <= MaxBlocks
  PROVE  /\ [i \in 1 .. n |-> k + i] \in Content
         /\ Len([i \in 1 .. n |-> k + i]) = n
<1> DEFINE b == [i \in 1 .. n |-> k + i]
<1>1. \A i \in 1 .. n : k + i \in 0 .. MaxBlocks
  OBVIOUS
<1>2. b \in [1 .. n -> 0 .. MaxBlocks]
  BY <1>1
<1>3. b \in Content
  BY <1>2, SeqDef DEF Content
<1> QED BY <1>3

(* The first part of a sequence.                                           *)
LEMMA FirstPart ==
  ASSUME NEW S, NEW b \in Seq(S), NEW n \in 0 .. Len(b)
  PROVE  /\ SubSeq(b, 1, n) \in Seq(S) /\ Len(SubSeq(b, 1, n)) = n
         /\ \A i \in 1 .. n : SubSeq(b, 1, n)[i] = b[i]
<1>1. Len(b) \in Nat /\ \A i \in 1 .. n : b[i] \in S
  BY LenProperties, ElementOfSeq
<1> QED BY <1>1, SubSeqProperties

(* What a short write leaves are blocks.                                   *)
LEMMA ShorterType ==
  ASSUME NEW b \in Content, NEW c \in Shorter(b)
  PROVE  c \in Content
<1>1. Len(b) \in Nat
  BY LenProperties DEF Content
<1>2. PICK n \in 0 .. Len(b) - 1 : c = SubSeq(b, 1, n)
  BY DEF Shorter
<1>3. n \in 0 .. Len(b)
  BY <1>1
<1> QED BY <1>2, <1>3, FirstPart DEF Content

(* Writing on after what was written joins the two.                        *)
LEMMA Joined ==
  ASSUME NEW a \in Content, NEW b \in Content
  PROVE  /\ a \o b \in Content /\ Len(a \o b) = Len(a) + Len(b)
         /\ a \o <<>> = a /\ <<>> \o a = a
         /\ <<>> \in Content /\ Len(<<>>) = 0
BY ConcatProperties, ConcatEmptySeq, EmptySeq DEF Content

(* Either part of a join is what it was.                                   *)
LEMMA JoinedParts ==
  ASSUME NEW a \in Content, NEW b \in Content
  PROVE  \A i \in 1 .. Len(a) + Len(b) :
            (a \o b)[i] = IF i <= Len(a) THEN a[i] ELSE b[i - Len(a)]
BY ConcatProperties DEF Content

(* Three parts can be joined in either order.                              *)
LEMMA JoinedThree ==
  ASSUME NEW a \in Content, NEW b \in Content, NEW c \in Content
  PROVE  (a \o b) \o c = a \o (b \o c)
BY ConcatAssociative DEF Content

-----------------------------------------------------------------------------
(***************************************************************************)
(* The walk.                                                               *)
(***************************************************************************)

Listed == [dir : Dir \cup {Top}, rest : SUBSET Path, sizes : [Path -> Nat]]

(* Every directory of the walk is inside the one before it and has nothing *)
(* left but what is inside of it; an entry is inside the innermost one,    *)
(* and until it has been stat'ed it is the one in the cache.  No file is   *)
(* open meanwhile.                                                         *)
WalkInv ==
    /\ \A i \in 1 .. Len(walk) : \A p \in walk[i].rest : Parent[p] = walk[i].dir
    /\ entry.of # None => walk # <<>> /\ Parent[entry.of] = Innermost.dir
    /\ entry.fresh = TRUE => entry.of # None /\ fs = Filled(entry.of)
    /\ transfer # None => walk = <<>>

ServerType  == dirs \subseteq Dir /\ files \in [File -> {NoFile} \cup Content]
WalkType    == /\ walk \in Seq(Listed)
               /\ \A i \in 2 .. Len(walk) : Parent[walk[i].dir] = walk[i - 1].dir
EntryType   == entry \in [of : Path \cup {None}, fresh : BOOLEAN]
CacheType   == fs \in [of : Path \cup {None}, size : Nat, live : BOOLEAN]
ContextType == /\ transfer \in {None} \cup Context
               /\ transfer # None => Len(transfer.buffer) <= Buffer

(* The innermost directory is one of the walk.                             *)
LEMMA InnermostType ==
  ASSUME walk \in Seq(Listed), walk # <<>>
  PROVE  /\ Len(walk) \in Nat \ {0} /\ Innermost = walk[Len(walk)]
         /\ Innermost \in Listed
<1>1. Len(walk) \in Nat \ {0}
  BY EmptySeq
<1>2. Innermost = walk[Len(walk)]
  BY DEF Innermost, Last
<1> QED BY <1>1, <1>2, ElementOfSeq

(* A listing tells of what is in a directory, with sizes.                  *)
LEMMA SizeType ==
  ASSUME ServerType, NEW p \in Path
  PROVE  Size(p) \in Nat
<1>1. CASE p \in File /\ There(p)
  <2>1. files[p] \in Content
    BY <1>1 DEF ServerType, There
  <2> QED BY <1>1, <2>1, LenProperties DEF Size, Content
<1>2. CASE ~(p \in File /\ There(p))
  BY <1>2 DEF Size
<1> QED BY <1>1, <1>2

(* What a PROPFIND tells of is in the directory that was asked for.        *)
LEMMA ListingType ==
  ASSUME ServerType, NEW d \in Dir \cup {Top}
  PROVE  /\ Listing(d) \in Listed /\ Listing(d).dir = d
         /\ \A p \in Listing(d).rest : Parent[p] = d
BY SizeType DEF Listing, Listed

(* A stat fills nothing and returns 0 or -1.                               *)
LEMMA StatType ==
  ASSUME ServerType, CacheType, found \in Nat, faults \in Nat,
         NEW p \in Path, Stat(p)
  PROVE  ret' \in Int /\ found' \in Nat /\ faults' \in Nat
<1>1. Size(p) \in Nat /\ fs.size \in Nat
  BY SizeType DEF CacheType
<1> QED BY <1>1 DEF Stat, Fine, Fails, NoFault, Fault

(* Opening, reading and closing directories.                               *)
LEMMA OpenDirStep ==
  ASSUME TypeOK, WalkInv, NEW d \in Dir \cup {Top}, OpenDir(d)
  PROVE  TypeOK' /\ WalkInv'
<1>t. /\ ServerType /\ WalkType /\ EntryType /\ CacheType /\ Len(walk) \in Nat
      /\ walk \in Seq(Listed)
  BY LenProperties
     DEF TypeOK, ServerType, WalkType, EntryType, CacheType, Listed
<1>1. /\ entry' = NoEntry /\ UNCHANGED <<server, lastDir, transfer, found, acts>>
      /\ ret' \in Int /\ faults' \in Nat
  BY DEF OpenDir, TypeOK, Fine, Fails, NoFault, Fault
<1>2. EntryType' /\ entry'.of = None /\ entry'.fresh = FALSE
  BY <1>1 DEF EntryType, NoEntry
<1>3. transfer = None
  <2>1. d \in Path => d # None
    OBVIOUS
  <2> QED BY <2>1 DEF OpenDir, Idle, WalkInv, Path
<1>4. CASE walk' = Append(walk, Listing(d)) /\ UNCHANGED fs
  <2>1. /\ Listing(d) \in Listed /\ Listing(d).dir = d
        /\ \A p \in Listing(d).rest : Parent[p] = d
    BY <1>t, ListingType
  <2>2. /\ walk' \in Seq(Listed) /\ Len(walk') = Len(walk) + 1
        /\ \A i \in 1 .. Len(walk) : walk'[i] = walk[i]
        /\ walk'[Len(walk) + 1] = Listing(d)
    BY <1>4, <1>t, <2>1, AppendProperties
  <2>3. walk # <<>> => Parent[d] = walk[Len(walk)].dir
    <3>1. walk # <<>> => entry.of = d /\ entry.of # None
      BY DEF OpenDir, Idle, Path
    <3> QED BY <1>t, <3>1, InnermostType DEF WalkInv
  <2>4. WalkType'
    <3>1. ASSUME NEW i \in 2 .. Len(walk')
          PROVE  Parent[walk'[i].dir] = walk'[i - 1].dir
      <4>1. CASE i \in 2 .. Len(walk)
        BY <1>t, <2>2, <4>1 DEF WalkType
      <4>2. CASE i = Len(walk) + 1
        <5>1. walk # <<>> /\ i - 1 \in 1 .. Len(walk)
          BY <1>t, <4>2, <3>1, EmptySeq
        <5> QED BY <1>t, <2>1, <2>2, <2>3, <4>2, <5>1
      <4> QED BY <1>t, <2>2, <3>1, <4>1, <4>2
    <3> QED BY <2>2, <3>1 DEF WalkType
  <2>5. \A i \in 1 .. Len(walk') : \A p \in walk'[i].rest : Parent[p] = walk'[i].dir
    <3>1. ASSUME NEW i \in 1 .. Len(walk'), NEW p \in walk'[i].rest
          PROVE  Parent[p] = walk'[i].dir
      <4>1. CASE i \in 1 .. Len(walk)
        BY <2>2, <3>1, <4>1 DEF WalkInv
      <4>2. CASE i = Len(walk) + 1
        BY <2>1, <2>2, <3>1, <4>2
      <4> QED BY <1>t, <2>2, <4>1, <4>2
    <3> QED BY <3>1
  <2> QED BY <1>1, <1>2, <1>3, <1>4, <2>4, <2>5
          DEF TypeOK, WalkInv, WalkType, EntryType, Listed, server
<1>5. CASE walk' = <<>> /\ Freed
  <2>1. CacheType'
    BY <1>t, <1>5 DEF Freed, CacheType
  <2>2. walk' \in Seq(Listed) /\ Len(walk') = 0
    BY <1>5, EmptySeq
  <2> QED BY <1>1, <1>2, <1>3, <2>1, <2>2
          DEF TypeOK, WalkInv, CacheType, EntryType, Listed, server
<1> QED BY <1>4, <1>5 DEF OpenDir

(* readdir fills the cache with the entry that it returns.                 *)
LEMMA ReadDirStep ==
  ASSUME TypeOK, WalkInv, NEW p \in Path, ReadDir(p)
  PROVE  TypeOK' /\ WalkInv'
<1>t. /\ WalkType /\ EntryType /\ CacheType /\ walk \in Seq(Listed) /\ walk # <<>>
      /\ Len(walk) \in Nat \ {0} /\ Innermost = walk[Len(walk)] /\ Innermost \in Listed
      /\ p \in Innermost.rest
  BY InnermostType
     DEF TypeOK, WalkType, EntryType, CacheType, Listed, ReadDir
<1>1. /\ UNCHANGED <<server, lastDir, transfer, found, acts>>
      /\ ret' \in Int /\ faults' \in Nat
  BY DEF ReadDir, TypeOK, Fine, NoFault
<1> DEFINE l == [walk[Len(walk)] EXCEPT !.rest = @ \ {p}]
<1>2. l \in Listed /\ l.dir = Innermost.dir /\ l.sizes = Innermost.sizes
      /\ l.rest \subseteq Innermost.rest
  BY <1>t DEF Listed
<1>3. walk' = [walk EXCEPT ![Len(walk)] = l]
  BY DEF ReadDir
<1> HIDE DEF l
<1>4. /\ walk' \in Seq(Listed) /\ Len(walk') = Len(walk)
      /\ \A i \in 1 .. Len(walk) : walk'[i] = IF i = Len(walk) THEN l ELSE walk[i]
  <2>1. Len(walk) \in 1 .. Len(walk)
    BY <1>t
  <2> QED BY <1>t, <1>2, <1>3, <2>1, ExceptSeq
<1>5. /\ Len(walk') = Len(walk)
      /\ \A i \in 1 .. Len(walk) : /\ walk'[i].dir = walk[i].dir
                                   /\ walk'[i].rest \subseteq walk[i].rest
  BY <1>t, <1>2, <1>4
<1>6. walk' # <<>> /\ Innermost' = walk'[Len(walk)] /\ Innermost' = l
  <2>1. walk' # <<>>
    BY <1>t, <1>4, EmptySeq
  <2> QED BY <1>t, <1>4, <2>1 DEF Innermost, Last
<1>7. entry' = [of |-> p, fresh |-> TRUE] /\ fs' = Filled(p)
  BY DEF ReadDir
<1>8. /\ EntryType' /\ entry'.of = p /\ p # None
      /\ CacheType'
      /\ fs' = [of |-> p, size |-> l.sizes[p], live |-> TRUE]
  <2>1. Innermost.sizes[p] \in Nat
    BY <1>t DEF Listed
  <2> QED BY <1>2, <1>7, <2>1 DEF EntryType, CacheType, Filled
<1>9. WalkType'
  BY <1>t, <1>4, <1>5 DEF WalkType
<1>10. WalkInv'
  <2>1. Parent[p] = Innermost.dir
    BY <1>t DEF WalkInv
  <2>2. \A i \in 1 .. Len(walk') : \A q \in walk'[i].rest : Parent[q] = walk'[i].dir
    BY <1>5 DEF WalkInv
  <2>3. transfer = None
    BY <1>t DEF WalkInv
  <2> QED BY <1>1, <1>2, <1>6, <1>8, <2>1, <2>2, <2>3 DEF WalkInv, Filled
<1> QED BY <1>1, <1>8, <1>9, <1>10
        DEF TypeOK, WalkType, EntryType, CacheType, Listed, server

(* The stat of an entry keeps the walk.                                    *)
LEMMA StatEntryStep ==
  ASSUME TypeOK, WalkInv, StatEntry
  PROVE  TypeOK' /\ WalkInv'
<1>t. /\ ServerType /\ EntryType /\ CacheType /\ found \in Nat /\ faults \in Nat
      /\ entry.of # None
  BY DEF TypeOK, ServerType, EntryType, CacheType, WalkInv, StatEntry
<1>1. ret' \in Int /\ found' \in Nat /\ faults' \in Nat
  <2>1. entry.of \in Path
    BY <1>t DEF EntryType
  <2> QED BY <1>t, <2>1, StatType DEF StatEntry
<1>2. UNCHANGED <<server, walk, lastDir, transfer, acts>>
  BY DEF StatEntry
<1>3. /\ EntryType' /\ CacheType' /\ entry'.fresh = FALSE
      /\ entry'.of \in {entry.of, None}
  <2>1. CASE entry' = [entry EXCEPT !.fresh = FALSE] /\ UNCHANGED fs
    BY <1>t, <2>1 DEF EntryType, CacheType
  <2>2. CASE entry' = NoEntry /\ Freed
    BY <1>t, <2>2 DEF EntryType, CacheType, NoEntry, Freed
  <2> QED BY <2>1, <2>2 DEF StatEntry
<1>4. Innermost' = Innermost
  BY <1>2 DEF Innermost
<1> QED BY <1>1, <1>2, <1>3, <1>4 DEF TypeOK, WalkInv, EntryType, CacheType, server

(* The end of a directory is the return to the one it is in.               *)
LEMMA CloseDirStep ==
  ASSUME TypeOK, WalkInv, CloseDir
  PROVE  TypeOK' /\ WalkInv'
<1>t. /\ WalkType /\ CacheType /\ walk \in Seq(Listed) /\ walk # <<>>
      /\ Len(walk) \in Nat \ {0}
  BY InnermostType DEF TypeOK, WalkType, CacheType, Listed, CloseDir
<1>1. /\ UNCHANGED <<server, entry, lastDir, transfer, found, acts>>
      /\ entry = NoEntry /\ Freed /\ ret' \in Int /\ faults' \in Nat
  BY DEF CloseDir, TypeOK, Fine, NoFault
<1>2. /\ walk' \in Seq(Listed) /\ Len(walk') = Len(walk) - 1
      /\ \A i \in 1 .. Len(walk') : walk'[i] = walk[i]
  <2>1. walk' = SubSeq(walk, 1, Len(walk) - 1)
    BY DEF CloseDir, Front
  <2>2. \A n \in 0 .. Len(walk) :
           /\ SubSeq(walk, 1, n) \in Seq(Listed) /\ Len(SubSeq(walk, 1, n)) = n
           /\ \A i \in 1 .. n : SubSeq(walk, 1, n)[i] = walk[i]
    BY <1>t, FirstPart
  <2>3. Len(walk) - 1 \in 0 .. Len(walk)
    BY <1>t
  <2>4. /\ SubSeq(walk, 1, Len(walk) - 1) \in Seq(Listed)
        /\ Len(SubSeq(walk, 1, Len(walk) - 1)) = Len(walk) - 1
        /\ \A i \in 1 .. Len(walk) - 1 :
              SubSeq(walk, 1, Len(walk) - 1)[i] = walk[i]
    BY ONLY <2>2, <2>3
  <2> QED BY <2>1, <2>4
<1>3. WalkType'
  BY <1>t, <1>2 DEF WalkType
<1>4. CacheType' /\ entry.of = None /\ entry.fresh = FALSE
  BY <1>t, <1>1 DEF CacheType, Freed, NoEntry
<1>5. \A i \in 1 .. Len(walk') : \A q \in walk'[i].rest : Parent[q] = walk'[i].dir
  BY <1>t, <1>2 DEF WalkInv
<1>6. transfer = None
  BY <1>t DEF WalkInv
<1> QED BY <1>1, <1>3, <1>4, <1>5, <1>6
        DEF TypeOK, WalkInv, WalkType, CacheType, Listed, server

-----------------------------------------------------------------------------
(***************************************************************************)
(* Requests and transfers.                                                 *)
(***************************************************************************)

(* What is stored are blocks.                                              *)
LEMMA StoredType ==
  ASSUME ServerType, NEW f \in File, NEW c \in {NoFile} \cup Content, Stored(f, c)
  PROVE  ServerType'
BY DEF ServerType, Stored

(* A DELETE leaves files and directories.                                  *)
LEMMA DeletedType ==
  ASSUME ServerType, NEW p \in Path, Deleted(p)
  PROVE  ServerType'
BY DEF ServerType, Deleted

(* A request leaves the walk alone.                                        *)
LEMMA WalkStays ==
  ASSUME WalkInv, UNCHANGED <<walk, entry, fs>>,
         transfer' = None \/ transfer # None \/ Idle
  PROVE  WalkInv'
BY DEF WalkInv, Innermost, Filled, Idle

(* What a request without a transfer keeps.                                *)
LEMMA RequestKeeps ==
  ASSUME TypeOK, WalkInv, ServerType',
         UNCHANGED <<walk, entry, fs, lastDir, transfer, found>>,
         ret' \in Int, faults' \in Nat, acts' \in Nat
  PROVE  TypeOK' /\ WalkInv'
<1>1. WalkInv'
  BY WalkStays
<1> QED BY <1>1 DEF TypeOK, ServerType

(* What other users do.                                                    *)
LEMMA UserStep ==
  ASSUME TypeOK, WalkInv, User
  PROVE  TypeOK' /\ WalkInv'
<1>1. ServerType /\ acts \in Nat /\ ret \in Int /\ faults \in Nat
  BY DEF TypeOK, ServerType
<1>2. UserActs
  BY DEF User, UserWrites, UserDeletes
<1>3. ServerType'
  <2>1. ASSUME NEW f \in File, UserWrites(f)
        PROVE  ServerType'
    <3>1. <<0>> \in Content /\ <<0, 0>> \in Content
      BY DEF Content
    <3>2. \E c \in Content : Stored(f, c)
      BY <2>1, <3>1 DEF UserWrites
    <3> QED BY <1>1, <3>2, StoredType
  <2>2. ASSUME NEW p \in Path, UserDeletes(p)
        PROVE  ServerType'
    BY <1>1, <2>2, DeletedType DEF UserDeletes
  <2> QED BY <2>1, <2>2 DEF User
<1> QED BY <1>1, <1>2, <1>3, RequestKeeps DEF UserActs

(* The requests that change the tree, and the stat of a file.              *)
LEMMA ChangeStep ==
  ASSUME TypeOK, WalkInv, Change
  PROVE  TypeOK' /\ WalkInv'
<1>1. /\ ServerType /\ CacheType /\ acts \in Nat /\ found \in Nat /\ ret \in Int
      /\ faults \in Nat
  BY DEF TypeOK, ServerType, CacheType
<1>2. ASSUME NEW d \in Dir, Mkdir(d)
      PROVE  TypeOK' /\ WalkInv'
  <2>1. ServerType'
    BY <1>1, <1>2 DEF Mkdir, Request, ServerType, server
  <2>2. ret' \in Int /\ faults' \in Nat
    BY <1>1, <1>2 DEF Mkdir, Request, Fine, Fails, Fault, NoFault
  <2> QED BY <1>1, <1>2, <2>1, <2>2, RequestKeeps DEF Mkdir
<1>3. ASSUME NEW d \in Dir, Rmdir(d)
      PROVE  TypeOK' /\ WalkInv'
  <2>1. Deleted(d) \/ UNCHANGED server
    BY <1>3 DEF Rmdir, Request
  <2>2. ServerType'
    BY <1>1, <2>1, DeletedType DEF ServerType, server, Path
  <2>3. ret' \in Int /\ faults' \in Nat
    BY <1>1, <1>3 DEF Rmdir, Request, Fine, Fails, Fault, NoFault
  <2> QED BY <1>1, <1>3, <2>2, <2>3, RequestKeeps DEF Rmdir
<1>4. ASSUME NEW f \in File, NEW g \in File, Rename(f, g)
      PROVE  TypeOK' /\ WalkInv'
  <2>1. \/ /\ files' = [files EXCEPT ![g] = files[f], ![f] = NoFile]
           /\ UNCHANGED dirs
        \/ UNCHANGED server
    BY <1>4 DEF Rename, Request
  <2>2. ServerType'
    BY <1>1, <2>1 DEF ServerType, server
  <2>3. ret' \in Int /\ faults' \in Nat
    BY <1>1, <1>4 DEF Rename, Request, Fine, Fails, Fault, NoFault
  <2> QED BY <1>1, <1>4, <2>2, <2>3, RequestKeeps DEF Rename
<1>5. ASSUME NEW f \in File, Unlink(f)
      PROVE  TypeOK' /\ WalkInv'
  <2>1. Deleted(f) \/ UNCHANGED server
    BY <1>5 DEF Unlink
  <2>2. ServerType'
    BY <1>1, <2>1, DeletedType DEF ServerType, server, Path
  <2>3. ret' \in Int /\ faults' \in Nat
    BY <1>1, <1>5 DEF Unlink, Fault, NoFault
  <2> QED BY <1>1, <1>5, <2>2, <2>3, RequestKeeps DEF Unlink
<1>6. ASSUME NEW f \in File, StatFile(f)
      PROVE  TypeOK' /\ WalkInv'
  <2>1. ret' \in Int /\ found' \in Nat /\ faults' \in Nat
    BY <1>1, <1>6, StatType DEF StatFile, Path
  <2>2. UNCHANGED <<server, walk, entry, fs, lastDir, transfer, acts>>
    BY <1>6 DEF StatFile
  <2>3. WalkInv'
    BY <2>2, WalkStays DEF Idle
  <2> QED BY <2>1, <2>2, <2>3 DEF TypeOK, server
<1> QED BY <1>2, <1>3, <1>4, <1>5, <1>6 DEF Change

-----------------------------------------------------------------------------
(* A file that has just been opened.                                       *)
LEMMA OpenedType ==
  ASSUME NEW f \in File, NEW m \in {"PUT", "GET"}, NEW c \in Content,
         NEW w \in Content,
         transfer' = [method |-> m, uri |-> f, buffer |-> <<>>, tmp |-> c,
                      fileWritten |-> FALSE, passed |-> <<>>, whole |-> w,
                      good |-> TRUE]
  PROVE  ContextType'
<1>1. <<>> \in Content /\ Len(<<>>) = 0
  BY EmptySeq DEF Content
<1>2. transfer' \in Context /\ transfer'.buffer = <<>>
  BY <1>1 DEF Context
<1> QED BY <1>1, <1>2 DEF ContextType

(* What a step of a transfer keeps.                                        *)
LEMMA TransferKeeps ==
  ASSUME TypeOK, WalkInv, ServerType', ContextType',
         UNCHANGED <<walk, entry, fs, found, acts>>,
         transfer' = None \/ transfer # None \/ Idle,
         lastDir' \in Dir \cup {Top, None}, ret' \in Int, faults' \in Nat
  PROVE  TypeOK' /\ WalkInv'
<1>1. WalkInv'
  BY WalkStays
<1> QED BY <1>1 DEF TypeOK, ServerType, ContextType

(* Opening a file for an upload.                                           *)
LEMMA OpenPutStep ==
  ASSUME TypeOK, WalkInv, NEW f \in File, OpenPut(f)
  PROVE  TypeOK' /\ WalkInv'
<1>1. /\ ServerType' /\ Idle /\ UNCHANGED <<walk, entry, fs, found, acts>>
      /\ lastDir' \in Dir \cup {Top, None} /\ faults' \in Nat /\ ret' \in Int
  <2>1. Parent[f] \in Dir \cup {Top}
    BY DEF Path
  <2> QED BY <2>1 DEF OpenPut, OpenWithTmp, TypeOK, ServerType, server, Fine,
                      Fails, Fault, NoFault
<1>2. ContextType'
  <2>1. CASE Opened("PUT", f, <<>>)
    <3>1. <<>> \in Content
      BY DEF Content
    <3> QED BY <2>1, <3>1, OpenedType DEF Opened
  <2>2. CASE UNCHANGED transfer
    BY <2>2 DEF TypeOK, ContextType
  <2> QED BY <2>1, <2>2 DEF OpenPut, OpenWithTmp
<1> QED BY <1>1, <1>2, TransferKeeps

(* Opening a file for a download.                                          *)
LEMMA OpenGetStep ==
  ASSUME TypeOK, WalkInv, NEW f \in File, OpenGet(f)
  PROVE  TypeOK' /\ WalkInv'
<1>1. /\ ServerType' /\ Idle /\ UNCHANGED <<walk, entry, fs, found, acts>>
      /\ lastDir' \in Dir \cup {Top, None} /\ faults' \in Nat /\ ret' \in Int
  BY DEF OpenGet, TypeOK, ServerType, server, Fine, Fails, Fault, NoFault
<1>2. ContextType'
  <2>1. There(f) => files[f] \in Content
    BY DEF TypeOK, There
  <2>2. CASE There(f) /\ Opened("GET", f, files[f])
    BY <2>1, <2>2, OpenedType DEF Opened
  <2>3. ASSUME There(f), NEW c \in Shorter(files[f]),
               transfer' = [method |-> "GET", uri |-> f, buffer |-> <<>>,
                            tmp |-> c, fileWritten |-> FALSE, passed |-> <<>>,
                            whole |-> files[f], good |-> TRUE]
        PROVE  ContextType'
    <3>1. c \in Content
      BY <2>1, <2>3, ShorterType
    <3> QED BY <2>1, <2>3, <3>1, OpenedType
  <2>4. CASE UNCHANGED transfer
    BY <2>4 DEF TypeOK, ContextType
  <2> QED BY <2>2, <2>3, <2>4 DEF OpenGet
<1> QED BY <1>1, <1>2, TransferKeeps

(* What the client hands over, and what of it is written.                  *)
Handed(n) == [i \in 1 .. n |-> Len(transfer.passed) + i]

(* A write, case by case: into the buffer, out to the temporary file,      *)
(* short of what was handed over, or short of what was in the buffer.      *)
Buffered(n, b) ==
    /\ Fits(n)
    /\ transfer' = [transfer EXCEPT !.buffer = @ \o b, !.passed = @ \o b]
    /\ ret' = n /\ NoFault

WrittenOut(n, b) ==
    /\ ~Fits(n)
    /\ transfer' = [transfer EXCEPT !.tmp = Spilled(b),
                      !.buffer = <<>>, !.fileWritten = TRUE,
                      !.passed = @ \o b]
    /\ ret' = n /\ NoFault

WrittenShort(n, c) ==
    /\ ~Fits(n) /\ Fault("short")
    /\ transfer' = [transfer EXCEPT !.tmp = Spilled(c),
                      !.buffer = <<>>, !.fileWritten = TRUE,
                      !.passed = @ \o c, !.good = FALSE]
    /\ ret' = Len(c)

FlushedShort(n, c, b) ==
    /\ ~Fits(n) /\ Fault("flush")
    /\ transfer' = [transfer EXCEPT !.tmp = @ \o c \o b,
                      !.buffer = <<>>, !.fileWritten = TRUE,
                      !.passed = @ \o b]
    /\ ret' = n

(* A write is one of these; the client hands over blocks.                  *)
LEMMA WriteCases ==
  ASSUME TypeOK, NEW n \in Counts, Write(n)
  PROVE  /\ transfer \in Context /\ Putting /\ transfer.good = TRUE
         /\ Len(transfer.buffer) <= Buffer
         /\ n \in Nat /\ Handed(n) \in Content /\ Len(Handed(n)) = n
         /\ UNCHANGED <<server, walk, entry, fs, lastDir, found, acts>>
         /\ faults' \in Nat /\ ret' \in Int
         /\ \/ Buffered(n, Handed(n)) \/ WrittenOut(n, Handed(n))
            \/ \E c \in Shorter(Handed(n)) : WrittenShort(n, c)
            \/ \E c \in Shorter(transfer.buffer) : FlushedShort(n, c, Handed(n))
<1>1. /\ Putting /\ transfer.good /\ Len(transfer.passed) + n <= MaxBlocks
      /\ UNCHANGED <<server, walk, entry, fs, lastDir, found, acts>>
  BY Zenon DEF Write
<1>2. \/ Buffered(n, Handed(n)) \/ WrittenOut(n, Handed(n))
      \/ \E c \in Shorter(Handed(n)) : WrittenShort(n, c)
      \/ \E c \in Shorter(transfer.buffer) : FlushedShort(n, c, Handed(n))
  BY Zenon DEF Write, Handed, Buffered, WrittenOut, WrittenShort, FlushedShort
<1>3. /\ transfer \in Context /\ transfer # None /\ faults \in Nat
      /\ Len(transfer.buffer) <= Buffer
  BY <1>1 DEF TypeOK, Putting
<1>4. transfer.good = TRUE /\ n \in Nat
  BY <1>1, <1>3 DEF Context
<1>5. Handed(n) \in Content /\ Len(Handed(n)) = n
  <2>1. Len(transfer.passed) \in Nat
    BY <1>3, LenProperties DEF Context, Content
  <2> QED BY <1>1, <1>4, <2>1, HandedOver DEF Handed
<1>6. \A c \in Shorter(Handed(n)) : Len(c) \in Int
  <2>1. ASSUME NEW c \in Shorter(Handed(n))
        PROVE  Len(c) \in Int
    <3>1. c \in Content
      BY <1>5, ShorterType
    <3> QED BY <3>1, LenProperties DEF Content
  <2> QED BY <2>1
<1>7. faults' \in Nat /\ ret' \in Int
  <2>1. \/ (Fault("short") \/ Fault("flush")) \/ NoFault
    BY <1>2 DEF Buffered, WrittenOut, WrittenShort, FlushedShort
  <2>2. ret' = n \/ \E c \in Shorter(Handed(n)) : ret' = Len(c)
    BY <1>2 DEF Buffered, WrittenOut, WrittenShort, FlushedShort
  <2> QED BY <1>3, <1>4, <1>6, <2>1, <2>2 DEF Fault, NoFault
<1> QED BY <1>1, <1>2, <1>3, <1>4, <1>5, <1>7

(* What is in the buffer and the file of an open file are blocks.          *)
LEMMA PartsType ==
  ASSUME transfer \in Context, NEW b \in Content
  PROVE  /\ transfer.tmp \in Content /\ transfer.buffer \in Content
         /\ transfer.passed \in Content /\ transfer.whole \in Content
         /\ Spilled(b) \in Content /\ transfer.passed \o b \in Content
         /\ transfer.buffer \o b \in Content
         /\ Len(transfer.buffer \o b) = Len(transfer.buffer) + Len(b)
         /\ \A c \in Content : transfer.tmp \o c \o b \in Content
<1>1. /\ transfer.tmp \in Content /\ transfer.buffer \in Content
      /\ transfer.passed \in Content /\ transfer.whole \in Content
  BY DEF Context
<1>2. transfer.tmp \o transfer.buffer \in Content
  BY <1>1, Joined
<1>3. Spilled(b) \in Content
  BY <1>2, Joined DEF Spilled
<1>4. \A c \in Content : transfer.tmp \o c \in Content
  BY <1>1, Joined
<1>5. \A c \in Content : transfer.tmp \o c \o b \in Content
  BY <1>4, Joined
<1> QED BY <1>1, <1>3, <1>5, Joined

(* A file stays open while it is written to.                               *)
LEMMA WriteContext ==
  ASSUME TypeOK, NEW n \in Counts, Write(n)
  PROVE  ContextType' /\ transfer' \in Context
<1> DEFINE b == Handed(n)
<1>1. /\ transfer \in Context /\ transfer # None /\ Len(transfer.buffer) <= Buffer
      /\ n \in Nat /\ b \in Content /\ Len(b) = n
      /\ UNCHANGED <<server, walk, entry, fs, lastDir, found, acts>>
      /\ faults' \in Nat /\ ret' \in Int
      /\ \/ Buffered(n, b) \/ WrittenOut(n, b)
         \/ \E c \in Shorter(b) : WrittenShort(n, c)
         \/ \E c \in Shorter(transfer.buffer) : FlushedShort(n, c, b)
  BY WriteCases DEF Putting
<1> HIDE DEF b
<1>2. /\ transfer.tmp \in Content /\ transfer.buffer \in Content
      /\ \A c \in Content :
            /\ Spilled(c) \in Content /\ transfer.passed \o c \in Content
            /\ transfer.buffer \o c \in Content
            /\ Len(transfer.buffer \o c) = Len(transfer.buffer) + Len(c)
            /\ transfer.tmp \o c \o b \in Content
      /\ <<>> \in Content /\ Len(<<>>) = 0
  BY <1>1, PartsType, Joined
<1>3. ContextType' /\ transfer' \in Context
  <2>1. CASE Buffered(n, b)
    <3>1. Len(transfer.buffer) + Len(b) <= Buffer
      BY <1>1, <2>1 DEF Buffered, Fits
    <3>2. transfer'.buffer = transfer.buffer \o b /\ transfer' \in Context
      BY <1>1, <1>2, <2>1 DEF Buffered, Context
    <3> QED BY <1>1, <1>2, <3>1, <3>2 DEF ContextType
  <2>2. CASE WrittenOut(n, b)
    <3>1. transfer'.buffer = <<>> /\ transfer' \in Context
      BY <1>1, <1>2, <2>2 DEF WrittenOut, Context
    <3> QED BY <1>2, <3>1 DEF ContextType
  <2>3. ASSUME NEW c \in Shorter(b), WrittenShort(n, c)
        PROVE  ContextType' /\ transfer' \in Context
    <3>1. c \in Content
      BY <1>1, ShorterType
    <3>2. transfer'.buffer = <<>> /\ transfer' \in Context
      BY <1>1, <1>2, <2>3, <3>1 DEF WrittenShort, Context
    <3> QED BY <1>2, <3>2 DEF ContextType
  <2>4. ASSUME NEW c \in Shorter(transfer.buffer), FlushedShort(n, c, b)
        PROVE  ContextType' /\ transfer' \in Context
    <3>1. c \in Content
      BY <1>2, ShorterType
    <3>2. transfer'.buffer = <<>> /\ transfer' \in Context
      BY <1>1, <1>2, <2>4, <3>1 DEF FlushedShort, Context
    <3> QED BY <1>2, <3>2 DEF ContextType
  <2> QED BY <1>1, <2>1, <2>2, <2>3, <2>4
<1> QED BY <1>3

(* The file that is written to stays the one of an upload.                 *)
LEMMA WriteMethod ==
  ASSUME TypeOK, NEW n \in Counts, Write(n)
  PROVE  transfer'.method = "PUT"
<1>1. /\ transfer \in Context /\ Putting
      /\ \/ Buffered(n, Handed(n)) \/ WrittenOut(n, Handed(n))
         \/ \E c \in Shorter(Handed(n)) : WrittenShort(n, c)
         \/ \E c \in Shorter(transfer.buffer) : FlushedShort(n, c, Handed(n))
  BY WriteCases
<1> QED BY <1>1 DEF Putting, Context, Buffered, WrittenOut, WrittenShort,
                    FlushedShort

(* A write keeps the types and the walk.                                   *)
LEMMA WriteStep ==
  ASSUME TypeOK, WalkInv, NEW n \in Counts, Write(n)
  PROVE  TypeOK' /\ WalkInv'
<1>1. /\ transfer # None
      /\ UNCHANGED <<server, walk, entry, fs, lastDir, found, acts>>
      /\ faults' \in Nat /\ ret' \in Int
  BY WriteCases DEF Putting
<1>2. ServerType' /\ lastDir' \in Dir \cup {Top, None}
  BY <1>1 DEF TypeOK, ServerType, server
<1> QED BY <1>1, <1>2, WriteContext, TransferKeeps

(* The next part of a sequence: nothing once all of it has been read.      *)
LEMMA NextPart ==
  ASSUME NEW s \in Content, NEW k \in Nat, NEW m \in Nat, m <= Len(s)
  PROVE  /\ SubSeq(s, k + 1, m) \in Content
         /\ Len(SubSeq(s, k + 1, m)) = IF k < m THEN m - k ELSE 0
         /\ \A i \in 1 .. m - k : SubSeq(s, k + 1, m)[i] = s[k + i]
<1>1. Len(s) \in Nat /\ \A i \in 1 .. Len(s) : s[i] \in 0 .. MaxBlocks
  BY LenProperties, ElementOfSeq DEF Content
<1>2. k + 1 \in Int /\ m \in Int /\ \A i \in k + 1 .. m : s[i] \in 0 .. MaxBlocks
  BY <1>1
<1>3. /\ SubSeq(s, k + 1, m) \in Seq(0 .. MaxBlocks)
      /\ Len(SubSeq(s, k + 1, m)) = IF k + 1 <= m THEN m - (k + 1) + 1 ELSE 0
      /\ \A i \in 1 .. m - (k + 1) + 1 : SubSeq(s, k + 1, m)[i] = s[k + 1 + i - 1]
  BY <1>2, SubSeqProperties
<1> QED BY <1>3 DEF Content

(* What a read takes from the temporary file.                              *)
ReadTo(n) == IF Len(transfer.passed) + n < Len(transfer.tmp)
             THEN Len(transfer.passed) + n ELSE Len(transfer.tmp)
Taken(n)  == SubSeq(transfer.tmp, Len(transfer.passed) + 1, ReadTo(n))

(* A read takes the next part, or the file cannot be opened again.         *)
LEMMA ReadCases ==
  ASSUME TypeOK, NEW n \in Counts, Read(n)
  PROVE  /\ transfer \in Context /\ Getting /\ Taken(n) \in Content
         /\ Len(transfer.passed) \in Nat /\ Len(transfer.tmp) \in Nat
         /\ Len(Taken(n)) = IF Len(transfer.passed) < ReadTo(n)
                            THEN ReadTo(n) - Len(transfer.passed) ELSE 0
         /\ \A i \in 1 .. ReadTo(n) - Len(transfer.passed) :
               Taken(n)[i] = transfer.tmp[Len(transfer.passed) + i]
         /\ ReadTo(n) \in Nat /\ n \in Nat \ {0}
         /\ UNCHANGED <<server, walk, entry, fs, lastDir, found, acts>>
         /\ faults' \in Nat /\ ret' \in Int
         /\ \/ transfer' = [transfer EXCEPT !.passed = @ \o Taken(n),
                                            !.good = Taken(n) # <<>>]
            \/ transfer' = [transfer EXCEPT !.good = FALSE] /\ ret' = 0 - 1
<1>1. /\ Getting /\ UNCHANGED <<server, walk, entry, fs, lastDir, found, acts>>
      /\ \/ /\ transfer' = [transfer EXCEPT !.passed = @ \o Taken(n),
                                            !.good = Taken(n) # <<>>]
            /\ ret' = Len(Taken(n)) /\ NoFault
         \/ /\ Fault("reopen") /\ Fails
            /\ transfer' = [transfer EXCEPT !.good = FALSE]
  BY Zenon DEF Read, Taken, ReadTo, Source
<1>2. transfer \in Context /\ faults \in Nat /\ n \in Nat \ {0}
  BY <1>1 DEF TypeOK, Getting
<1>3. transfer.tmp \in Content /\ transfer.passed \in Content
  BY <1>2 DEF Context
<1>4. Len(transfer.passed) \in Nat /\ Len(transfer.tmp) \in Nat
  BY <1>3, LenProperties DEF Content
<1>5. ReadTo(n) \in Nat /\ ReadTo(n) <= Len(transfer.tmp)
  BY <1>2, <1>4 DEF ReadTo
<1>6. /\ Taken(n) \in Content
      /\ Len(Taken(n)) = IF Len(transfer.passed) < ReadTo(n)
                         THEN ReadTo(n) - Len(transfer.passed) ELSE 0
      /\ \A i \in 1 .. ReadTo(n) - Len(transfer.passed) :
            Taken(n)[i] = transfer.tmp[Len(transfer.passed) + i]
  BY <1>3, <1>4, <1>5, NextPart DEF Taken
<1>7. faults' \in Nat /\ ret' \in Int
  <2>1. Len(Taken(n)) \in Int
    BY <1>4, <1>5, <1>6
  <2> QED BY <1>1, <1>2, <2>1 DEF Fault, NoFault, Fails
<1> QED BY <1>1, <1>2, <1>4, <1>5, <1>6, <1>7 DEF Fails

(* A read keeps the types and the walk.                                    *)
LEMMA ReadStep ==
  ASSUME TypeOK, WalkInv, NEW n \in Counts, Read(n)
  PROVE  TypeOK' /\ WalkInv'
<1>1. /\ transfer \in Context /\ transfer # None /\ Taken(n) \in Content
      /\ UNCHANGED <<server, walk, entry, fs, lastDir, found, acts>>
      /\ faults' \in Nat /\ ret' \in Int
      /\ \/ transfer' = [transfer EXCEPT !.passed = @ \o Taken(n),
                                         !.good = Taken(n) # <<>>]
         \/ transfer' = [transfer EXCEPT !.good = FALSE]
  BY ReadCases DEF Getting
<1>2. transfer.passed \o Taken(n) \in Content
  BY <1>1, PartsType
<1>3. transfer' \in Context /\ transfer'.buffer = transfer.buffer
  BY <1>1, <1>2 DEF Context
<1>4. ContextType' /\ ServerType' /\ lastDir' \in Dir \cup {Top, None}
  BY <1>1, <1>3 DEF TypeOK, ContextType, ServerType, server
<1> QED BY <1>1, <1>4, TransferKeeps

(* The body of a PUT consists of blocks.                                   *)
LEMMA BodyType ==
  ASSUME transfer \in Context
  PROVE  Body \in Content
<1>1. <<>> \in Content
  BY DEF Content
<1> QED BY <1>1, PartsType DEF Body

(* A close keeps the types and the walk.                                   *)
LEMMA CloseStep ==
  ASSUME TypeOK, WalkInv, ClosePut \/ CloseGet
  PROVE  TypeOK' /\ WalkInv'
<1>1. /\ transfer \in Context /\ transfer.uri \in File /\ faults \in Nat
      /\ transfer' = None /\ lastDir \in Dir \cup {Top, None} /\ ServerType
  BY DEF TypeOK, ServerType, ClosePut, CloseGet, Putting, Getting, Context
<1>2. UNCHANGED <<walk, entry, fs, lastDir, found, acts>>
  BY DEF ClosePut, CloseGet
<1>3. faults' \in Nat /\ ret' \in Int
  BY <1>1 DEF ClosePut, CloseGet, Put, Fine, Fails, Fault, NoFault
<1>4. UNCHANGED server \/ \E c \in Content : Stored(transfer.uri, c)
  <2>1. CASE CloseGet
    BY <2>1 DEF CloseGet
  <2>2. CASE Put(Body)
    BY <1>1, <2>2, BodyType DEF Put
  <2>3. CASE \E c \in Shorter(transfer.buffer) :
                Stored(transfer.uri, transfer.tmp \o c)
    <3>1. PICK c \in Shorter(transfer.buffer) :
                Stored(transfer.uri, transfer.tmp \o c)
      BY <2>3
    <3>2. transfer.tmp \in Content /\ transfer.buffer \in Content
      BY <1>1 DEF Context
    <3>3. c \in Content
      BY <3>2, ShorterType
    <3>4. transfer.tmp \o c \in Content
      BY <3>2, <3>3, Joined
    <3> QED BY <3>1, <3>4
  <2> QED BY <2>1, <2>2, <2>3 DEF ClosePut
<1>5. ServerType'
  <2>1. CASE UNCHANGED server
    BY <1>1, <2>1 DEF ServerType, server
  <2>2. CASE \E c \in Content : Stored(transfer.uri, c)
    BY <1>1, <2>2, StoredType
  <2> QED BY <1>4, <2>1, <2>2
<1>6. ContextType'
  BY <1>1 DEF ContextType
<1> QED BY <1>1, <1>2, <1>3, <1>5, <1>6, TransferKeeps

-----------------------------------------------------------------------------
(* What is true of every state: its types, and what the walk knows.        *)
LEMMA AllSteps ==
  ASSUME TypeOK, WalkInv, [Next]_vars
  PROVE  TypeOK' /\ WalkInv'
<1>1. CASE User
  BY <1>1, UserStep
<1>2. CASE Walk
  BY <1>2, OpenDirStep, ReadDirStep, StatEntryStep, CloseDirStep DEF Walk
<1>3. CASE Transfer
  BY <1>3, OpenPutStep, OpenGetStep, WriteStep, ReadStep, CloseStep DEF Transfer
<1>4. CASE Change
  BY <1>4, ChangeStep
<1>5. CASE UNCHANGED vars
  BY <1>5 DEF vars, TypeOK, WalkInv, Innermost, Filled
<1> QED BY <1>1, <1>2, <1>3, <1>4, <1>5 DEF Next

(* They hold at the start.                                                 *)
LEMMA AllInit ==
  ASSUME Init
  PROVE  TypeOK /\ WalkInv
<1>1. /\ ServerType /\ dirs = Dir
  <2>1. <<0>> \in Content
    BY DEF Content
  <2> QED BY <2>1 DEF Init, ServerType
<1>2. Len(walk) = 0 /\ walk = <<>> /\ walk \in Seq(Listed)
  BY EmptySeq DEF Init
<1> QED BY <1>1, <1>2
        DEF Init, TypeOK, WalkInv, NoEntry, ServerType, Listed

(* Types, and what the walk knows: each directory is inside the one before,*)
(* the entry at hand is inside the innermost one, and until it has been    *)
(* stat'ed it is the one that the cache holds (owncloud_readdir).          *)
THEOREM WalkCorrect == Spec => [](TypeOK /\ WalkInv)
<1>1. Init => TypeOK /\ WalkInv
  BY AllInit
<1>2. TypeOK /\ WalkInv /\ [Next]_vars => TypeOK' /\ WalkInv'
  BY AllSteps
<1> QED BY <1>1, <1>2, PTL DEF Spec

(* Every variable keeps its type: the sizes of a walk are those of paths,  *)
(* directories of a walk are inside each other, and the buffer of an       *)
(* upload is never more than PUT_BUFFER_SIZE, whatever the client writes   *)
(* (owncloud_write) and whichever writes and requests fail.                *)
THEOREM TypeCorrect == Spec => []TypeOK
BY WalkCorrect, PTL

-----------------------------------------------------------------------------
(***************************************************************************)
(* The cache.  An entry that is to be stat'ed is the one in the cache, its *)
(* name is live, and the listing is innermost: the stat hits, and cannot   *)
(* miss.                                                                   *)
(***************************************************************************)

(* The step that ends with the stat of an entry tells what was listed.     *)
LEMMA StatTellsTheListing ==
  ASSUME TypeOK, WalkInv, [Next]_vars, entry.fresh = TRUE, entry'.fresh = FALSE
  PROVE  ret' = 0 /\ found' = Innermost.sizes[entry.of]
<1>1. entry.of # None /\ fs = Filled(entry.of) /\ walk # <<>>
  BY DEF WalkInv
<1>2. /\ fs.of = entry.of /\ fs.live = TRUE
      /\ fs.size = Innermost.sizes[entry.of]
  BY <1>1 DEF Filled
<1>3. StatEntry
  <2>1. ~User
    BY DEF User, UserWrites, UserDeletes, UserActs
  <2>2. ~Transfer
    BY DEF Transfer, OpenPut, OpenGet, Write, Read, ClosePut, CloseGet
  <2>3. ~Change
    BY DEF Change, Mkdir, Rmdir, Rename, Unlink, StatFile
  <2>4. ~UNCHANGED vars
    BY DEF vars
  <2>5. ASSUME NEW d \in Dir \cup {Top}
        PROVE  ~OpenDir(d)
    BY <1>1 DEF OpenDir, Idle
  <2>6. ASSUME NEW p \in Path
        PROVE  ~ReadDir(p)
    BY DEF ReadDir, NoEntry
  <2>7. ~CloseDir
    BY DEF CloseDir, NoEntry
  <2> QED BY <2>1, <2>2, <2>3, <2>4, <2>5, <2>6, <2>7 DEF Next, Walk
<1>4. ~MayMiss(entry.of)
  BY <1>1, <1>2 DEF MayMiss
<1> QED BY <1>2, <1>3, <1>4 DEF StatEntry, Stat, Fine

(* What csync is told of an entry is what the listing says of it, whatever *)
(* other users do meanwhile, whatever the names are, and whichever         *)
(* requests fail (owncloud_readdir, owncloud_stat).                        *)
THEOREM WalkTellsTheTruth == Spec => WalkIsTrue
<1>1. TypeOK /\ WalkInv /\ [Next]_vars
         => [entry.fresh /\ ~entry'.fresh
               => ret' = 0 /\ found' = Innermost.sizes[entry.of]]_vars
  <2> SUFFICES ASSUME TypeOK, WalkInv, [Next]_vars, entry.fresh, ~entry'.fresh
               PROVE  ret' = 0 /\ found' = Innermost.sizes[entry.of]
    OBVIOUS
  <2>1. EntryType /\ EntryType'
    BY AllSteps DEF TypeOK, EntryType
  <2>2. entry.fresh = TRUE /\ entry'.fresh = FALSE
    BY <2>1 DEF EntryType
  <2> QED BY <2>2, StatTellsTheListing
<1> QED BY <1>1, WalkCorrect, PTL DEF Spec, WalkIsTrue

-----------------------------------------------------------------------------
(***************************************************************************)
(* What happens to an open file.                                           *)
(***************************************************************************)

(* While a file is open, its calls alone are made.                         *)
LEMMA OnlyItsCalls ==
  ASSUME TypeOK, WalkInv, [Next]_vars, transfer # None
  PROVE  \/ UNCHANGED <<transfer, ret>>
         \/ \E n \in Counts : Write(n) \/ Read(n)
         \/ ClosePut \/ CloseGet
<1>1. walk = <<>> /\ entry.of = None /\ entry.fresh # TRUE
  BY DEF WalkInv
<1>2. EntryType
  BY DEF TypeOK, EntryType
<1>3. ~Walk
  <2>1. ASSUME NEW d \in Dir \cup {Top}
        PROVE  ~OpenDir(d)
    <3>1. d # Top => d # None
      BY DEF Path
    <3> QED BY <1>1, <3>1 DEF OpenDir, Idle
  <2>2. ASSUME NEW p \in Path
        PROVE  ~ReadDir(p)
    BY <1>1 DEF ReadDir
  <2>3. ~StatEntry
    BY <1>1, <1>2 DEF StatEntry, EntryType
  <2>4. ~CloseDir
    BY <1>1 DEF CloseDir
  <2> QED BY <2>1, <2>2, <2>3, <2>4 DEF Walk
<1>4. User => UNCHANGED <<transfer, ret>>
  BY DEF User, UserWrites, UserDeletes, UserActs
<1>5. ~Change
  BY DEF Change, Mkdir, Rmdir, Rename, Unlink, StatFile, Idle
<1>6. \A f \in File : ~OpenPut(f) /\ ~OpenGet(f)
  BY DEF OpenPut, OpenGet, Idle
<1> QED BY <1>3, <1>4, <1>5, <1>6 DEF Next, Transfer, vars

(* A file gets open by one of the two.                                     *)
LEMMA OnlyOpened ==
  ASSUME [Next]_vars, transfer = None, transfer' # None
  PROVE  \E f \in File : OpenPut(f) \/ OpenGet(f)
<1>1. ~User
  BY DEF User, UserWrites, UserDeletes, UserActs
<1>2. ~Walk
  BY DEF Walk, OpenDir, ReadDir, StatEntry, CloseDir
<1>3. ~Change
  BY DEF Change, Mkdir, Rmdir, Rename, Unlink, StatFile
<1>4. \A n \in Counts : ~Write(n) /\ ~Read(n)
  BY DEF Write, Read, Putting, Getting
<1>5. ~ClosePut /\ ~CloseGet
  BY DEF ClosePut, CloseGet
<1> QED BY <1>1, <1>2, <1>3, <1>4, <1>5 DEF Next, Transfer, vars

-----------------------------------------------------------------------------
(***************************************************************************)
(* Uploads.  While every write is acknowledged, the temporary file and the *)
(* buffer behind it are what the client handed over; what was not spilled  *)
(* is all in the buffer.                                                   *)
(***************************************************************************)

WriteInv ==
    transfer # None /\ transfer.method = "PUT" /\ transfer.good = TRUE
       => /\ transfer.tmp \o transfer.buffer = transfer.passed
          /\ transfer.fileWritten = FALSE => transfer.tmp = <<>>

(* Nothing is open at the start.                                           *)
LEMMA WriteInvInit ==
  ASSUME Init
  PROVE  WriteInv
BY DEF Init, WriteInv

(* A write whose rest does not fall short keeps them together.             *)
LEMMA WriteKeeps ==
  ASSUME TypeOK, WriteInv, "flush" \notin Faults, NEW n \in Counts, Write(n)
  PROVE  WriteInv' /\ transfer' # None
<1> DEFINE b == Handed(n)
<1>1. /\ transfer \in Context /\ Putting /\ transfer.good = TRUE /\ b \in Content
      /\ \/ Buffered(n, b) \/ WrittenOut(n, b)
         \/ \E c \in Shorter(b) : WrittenShort(n, c)
         \/ \E c \in Shorter(transfer.buffer) : FlushedShort(n, c, b)
  BY WriteCases
<1> HIDE DEF b
<1>2. /\ transfer.tmp \in Content /\ transfer.buffer \in Content
      /\ transfer.tmp \o transfer.buffer = transfer.passed
      /\ transfer.fileWritten = FALSE => transfer.tmp = <<>>
  BY <1>1, PartsType DEF WriteInv, Putting
<1>3. /\ transfer.tmp \o (transfer.buffer \o b) = transfer.passed \o b
      /\ Spilled(b) = transfer.passed \o b
      /\ (transfer.passed \o b) \o <<>> = transfer.passed \o b
  <2>1. transfer.passed \o b \in Content
    BY <1>1, PartsType
  <2>2. (transfer.tmp \o transfer.buffer) \o b
           = transfer.tmp \o (transfer.buffer \o b)
    <3>1. \A x, y, z \in Content : (x \o y) \o z = x \o (y \o z)
      BY JoinedThree
    <3> QED BY ONLY <1>1, <1>2, <3>1
  <2>3. (transfer.passed \o b) \o <<>> = transfer.passed \o b
    BY <2>1, Joined
  <2>4. Spilled(b) = transfer.passed \o b
    BY <1>2 DEF Spilled
  <2> QED BY <1>2, <2>2, <2>3, <2>4
<1>4. transfer' # None
  <2>1. transfer' \in Context
    BY WriteContext
  <2> QED BY <2>1
<1>5. CASE Buffered(n, b)
  <2>1. /\ transfer'.tmp = transfer.tmp /\ transfer'.buffer = transfer.buffer \o b
        /\ transfer'.passed = transfer.passed \o b
        /\ transfer'.fileWritten = transfer.fileWritten
    BY <1>1, <1>5 DEF Buffered, Context
  <2> QED BY <1>2, <1>3, <1>4, <2>1 DEF WriteInv
<1>6. CASE WrittenOut(n, b)
  <2>1. /\ transfer'.tmp = Spilled(b) /\ transfer'.buffer = <<>>
        /\ transfer'.passed = transfer.passed \o b
        /\ transfer'.fileWritten = TRUE
    BY <1>1, <1>6 DEF WrittenOut, Context
  <2> QED BY <1>3, <1>4, <2>1 DEF WriteInv
<1>7. CASE \E c \in Shorter(b) : WrittenShort(n, c)
  <2>1. transfer'.good = FALSE
    BY <1>1, <1>7 DEF WrittenShort, Context
  <2> QED BY <1>4, <2>1 DEF WriteInv
<1>8. ~ \E c \in Shorter(transfer.buffer) : FlushedShort(n, c, b)
  BY DEF FlushedShort, Fault
<1> QED BY <1>1, <1>4, <1>5, <1>6, <1>7, <1>8

(* So does every step.                                                     *)
LEMMA WriteInvKeeps ==
  ASSUME TypeOK, WalkInv, WriteInv, "flush" \notin Faults, [Next]_vars
  PROVE  WriteInv'
<1>1. CASE transfer = None
  <2>1. CASE \E f \in File : OpenPut(f)
    <3>1. transfer' # None
             => /\ transfer'.tmp = <<>> /\ transfer'.buffer = <<>>
                /\ transfer'.passed = <<>>
      BY <1>1, <2>1 DEF OpenPut, OpenWithTmp, Opened
    <3>2. <<>> \o <<>> = <<>>
      <4>1. <<>> \in Content
        BY DEF Content
      <4> QED BY <4>1, Joined
    <3> QED BY <3>1, <3>2 DEF WriteInv
  <2>2. CASE \E f \in File : OpenGet(f)
    <3>1. transfer' # None => transfer'.method = "GET"
      BY <1>1, <2>2 DEF OpenGet, Opened
    <3> QED BY <3>1 DEF WriteInv
  <2>3. CASE transfer' = None
    BY <2>3 DEF WriteInv
  <2> QED BY <1>1, <2>1, <2>2, <2>3, OnlyOpened
<1>2. CASE transfer # None
  <2>1. CASE UNCHANGED transfer
    BY <2>1 DEF WriteInv
  <2>2. ASSUME NEW n \in Counts, Write(n)
        PROVE  WriteInv'
    BY <2>2, WriteKeeps
  <2>3. ASSUME NEW n \in Counts, Read(n)
        PROVE  WriteInv'
    <3>1. /\ transfer \in Context /\ Getting
          /\ \/ transfer' = [transfer EXCEPT !.passed = @ \o Taken(n),
                                             !.good = Taken(n) # <<>>]
             \/ transfer' = [transfer EXCEPT !.good = FALSE]
      BY <2>3, ReadCases
    <3>2. transfer'.method = "GET"
      BY <3>1 DEF Getting, Context
    <3> QED BY <3>2 DEF WriteInv
  <2>4. CASE ClosePut \/ CloseGet
    BY <2>4 DEF ClosePut, CloseGet, WriteInv
  <2> QED BY <1>2, <2>1, <2>2, <2>3, <2>4, OnlyItsCalls
<1> QED BY <1>1, <1>2

(* A close stores all of it, or the file stays as it was.                  *)
LEMMA CloseStoresAll ==
  ASSUME TypeOK, WriteInv, "flush" \notin Faults, Putting, transfer.good = TRUE,
         ClosePut
  PROVE  /\ files'[transfer.uri] \in {files[transfer.uri], transfer.passed}
         /\ ret' = 0 => files'[transfer.uri] = transfer.passed
<1>1. transfer \in Context /\ transfer.uri \in File
  BY DEF TypeOK, Putting, Context
<1>2. Body = transfer.passed
  <2>1. /\ transfer.tmp \o transfer.buffer = transfer.passed
        /\ transfer.fileWritten = FALSE => transfer.tmp = <<>>
    BY DEF WriteInv, Putting
  <2>2. transfer.tmp \in Content /\ transfer.buffer \in Content
    BY <1>1 DEF Context
  <2>3. CASE transfer.fileWritten = TRUE
    <3>1. (transfer.tmp \o transfer.buffer) \o <<>> = transfer.tmp \o transfer.buffer
      <4>1. transfer.tmp \o transfer.buffer \in Content
        BY <2>2, Joined
      <4> QED BY <4>1, Joined
    <3> QED BY <2>1, <2>3, <3>1 DEF Body, Spilled
  <2>4. CASE transfer.fileWritten = FALSE
    <3>1. <<>> \o transfer.buffer = transfer.buffer
      BY <2>2, Joined
    <3> QED BY <2>1, <2>4, <3>1 DEF Body
  <2> QED BY <1>1, <2>3, <2>4 DEF Context
<1>3. CASE Put(Body)
  <2>1. Stored(transfer.uri, Body)
           => files'[transfer.uri] = transfer.passed
    BY <1>1, <1>2 DEF Stored, TypeOK
  <2>2. UNCHANGED server => files'[transfer.uri] = files[transfer.uri]
    BY DEF server
  <2> QED BY <1>3, <2>1, <2>2 DEF Put, Fine, Fails
<1>4. CASE UNCHANGED server /\ Fails
  BY <1>4 DEF server, Fails
<1> QED BY <1>3, <1>4 DEF ClosePut, Fault

(* An upload whose writes were all acknowledged leaves on the server what  *)
(* was handed over, in order, or possibly what was there before when close *)
(* returns an error: for any PUT_BUFFER_SIZE, any number and sizes of      *)
(* writes, and all faults but a write of the buffer that falls short,      *)
(* which owncloud_write and owncloud_close do not look at.                 *)
THEOREM UploadsAreWhole == "flush" \notin Faults => (Spec => UploadIsWhole)
<1> SUFFICES ASSUME "flush" \notin Faults
             PROVE  Spec => UploadIsWhole
  OBVIOUS
<1>1. Init => WriteInv
  BY WriteInvInit
<1>2. TypeOK /\ WalkInv /\ WriteInv /\ [Next]_vars => WriteInv'
  BY WriteInvKeeps
<1>3. TypeOK /\ WalkInv /\ WriteInv /\ [Next]_vars
         => [Putting /\ transfer.good /\ transfer' = None
               => /\ files'[transfer.uri] \in {files[transfer.uri], transfer.passed}
                  /\ ret' = 0 => files'[transfer.uri] = transfer.passed]_vars
  <2> SUFFICES ASSUME TypeOK, WalkInv, WriteInv, [Next]_vars,
                      Putting, transfer.good, transfer' = None
               PROVE  /\ files'[transfer.uri]
                            \in {files[transfer.uri], transfer.passed}
                      /\ ret' = 0 => files'[transfer.uri] = transfer.passed
    OBVIOUS
  <2>1. transfer \in Context /\ transfer # None /\ transfer.method = "PUT"
    BY DEF TypeOK, Putting
  <2>2. transfer.good = TRUE
    BY <2>1 DEF Context
  <2>3. ClosePut
    <3>1. ~UNCHANGED transfer
      BY <2>1
    <3>2. \A n \in Counts : ~Write(n)
      BY WriteKeeps
    <3>3. (\A n \in Counts : ~Read(n)) /\ ~CloseGet
      BY <2>1 DEF Read, CloseGet, Getting
    <3> QED BY <2>1, <3>1, <3>2, <3>3, OnlyItsCalls
  <2> QED BY <2>2, <2>3, CloseStoresAll
<1> QED BY <1>1, <1>2, <1>3, WalkCorrect, PTL DEF Spec, UploadIsWhole

-----------------------------------------------------------------------------
(***************************************************************************)
(* Downloads.  The temporary file is the file as it was at open, what was  *)
(* read is the first part of it, and the read that returns nothing is made *)
(* at its end.                                                             *)
(***************************************************************************)

GetInv ==
    Getting
       => /\ transfer.tmp = transfer.whole
          /\ Len(transfer.passed) <= Len(transfer.tmp)
          /\ \A i \in 1 .. Len(transfer.passed) :
                transfer.passed[i] = transfer.tmp[i]
          /\ transfer.good = FALSE /\ ret = 0 => transfer.passed = transfer.whole

(* A read goes on where the last one ended.                                *)
LEMMA ReadKeeps ==
  ASSUME TypeOK, GetInv, NEW n \in Counts, Read(n)
  PROVE  GetInv'
<1> DEFINE p == transfer.passed
           t == transfer.tmp
           k == Len(p)
           b == Taken(n)
<1>1. /\ transfer \in Context /\ Getting /\ b \in Content
      /\ k \in Nat /\ Len(t) \in Nat
      /\ Len(b) = IF k < ReadTo(n) THEN ReadTo(n) - k ELSE 0
      /\ \A i \in 1 .. ReadTo(n) - k : b[i] = t[k + i]
      /\ ReadTo(n) \in Nat /\ n \in Nat \ {0}
      /\ \/ transfer' = [transfer EXCEPT !.passed = @ \o b, !.good = b # <<>>]
         \/ transfer' = [transfer EXCEPT !.good = FALSE] /\ ret' = 0 - 1
  BY ReadCases
<1>2. /\ p \in Content /\ t \in Content /\ t = transfer.whole /\ k <= Len(t)
      /\ \A i \in 1 .. k : p[i] = t[i]
  BY <1>1 DEF GetInv, Context
<1>3. CASE transfer' = [transfer EXCEPT !.passed = @ \o b, !.good = b # <<>>]
  <2>1. /\ transfer'.tmp = t /\ transfer'.whole = transfer.whole
        /\ transfer'.passed = p \o b
        /\ transfer'.good = FALSE => b = <<>>
    BY <1>1, <1>3 DEF Context
  <2>2. ReadTo(n) <= Len(t) /\ (ReadTo(n) <= k => k = Len(t))
    BY <1>1, <1>2 DEF ReadTo
  <2> HIDE DEF b, p, t, k
  <2>3. /\ Len(p \o b) = k + Len(b)
        /\ \A i \in 1 .. k + Len(b) :
              (p \o b)[i] = IF i <= k THEN p[i] ELSE b[i - k]
    BY <1>1, <1>2, Joined, JoinedParts DEF k
  <2>4. Len(p \o b) <= Len(t) /\ \A i \in 1 .. Len(p \o b) : (p \o b)[i] = t[i]
    <3>1. Len(b) \in Nat /\ k + Len(b) <= Len(t)
      BY <1>1, <1>2, <2>2
    <3>2. ASSUME NEW i \in 1 .. k + Len(b)
          PROVE  (p \o b)[i] = t[i]
      <4>1. CASE i <= k
        <5>1. i \in 1 .. k
          BY <1>1, <3>1, <4>1
        <5> QED BY <1>2, <2>3, <4>1, <5>1
      <4>2. CASE ~(i <= k)
        <5>1. i - k \in 1 .. ReadTo(n) - k /\ k + (i - k) = i
          BY <1>1, <3>1, <4>2
        <5>2. b[i - k] = t[k + (i - k)]
          BY <1>1, <5>1
        <5> QED BY <2>3, <4>2, <5>1, <5>2
      <4> QED BY <4>1, <4>2
    <3> QED BY <2>3, <3>1, <3>2
  <2>5. b = <<>> => p \o b = t
    <3>1. b = <<>> => Len(b) = 0
      OBVIOUS
    <3>2. b = <<>> => k = Len(t)
      BY <1>1, <2>2, <3>1
    <3>3. k = Len(t) => p = t
      BY <1>2, SeqEqual DEF Content, k
    <3>4. p \o <<>> = p
      BY <1>2, Joined
    <3> QED BY <3>2, <3>3, <3>4
  <2> QED BY <1>2, <2>1, <2>4, <2>5 DEF GetInv
<1>4. CASE transfer' = [transfer EXCEPT !.good = FALSE] /\ ret' = 0 - 1
  <2>1. /\ transfer'.tmp = t /\ transfer'.whole = transfer.whole
        /\ transfer'.passed = p
    BY <1>1, <1>4 DEF Context
  <2> QED BY <1>2, <1>4, <2>1 DEF GetInv
<1> QED BY <1>1, <1>3, <1>4

(* Every step leaves what was read the first part of the file.             *)
LEMMA GetInvKeeps ==
  ASSUME TypeOK, WalkInv, GetInv, "spool" \notin Faults, [Next]_vars
  PROVE  GetInv'
<1>1. CASE transfer = None
  <2>1. CASE \E f \in File : OpenPut(f)
    <3>1. transfer' # None => transfer'.method = "PUT"
      BY <1>1, <2>1 DEF OpenPut, OpenWithTmp, Opened
    <3> QED BY <3>1 DEF GetInv, Getting
  <2>2. ASSUME NEW f \in File, OpenGet(f)
        PROVE  GetInv'
    <3>1. transfer' = None \/ (There(f) /\ Opened("GET", f, files[f]))
      BY <1>1, <2>2 DEF OpenGet, Fault
    <3>2. CASE There(f) /\ Opened("GET", f, files[f])
      <4>1. Len(files[f]) \in Nat
        <5>1. files[f] \in Content
          BY <3>2 DEF TypeOK, There
        <5> QED BY <5>1, LenProperties DEF Content
      <4>2. /\ transfer'.tmp = files[f] /\ transfer'.whole = files[f]
            /\ transfer'.passed = <<>> /\ transfer'.good = TRUE
        BY <3>2 DEF Opened
      <4> QED BY <4>1, <4>2 DEF GetInv
    <3> QED BY <3>1, <3>2 DEF GetInv, Getting
  <2>3. CASE transfer' = None
    BY <2>3 DEF GetInv, Getting
  <2> QED BY <1>1, <2>1, <2>2, <2>3, OnlyOpened
<1>2. CASE transfer # None
  <2>1. CASE UNCHANGED <<transfer, ret>>
    BY <2>1 DEF GetInv, Getting
  <2>2. ASSUME NEW n \in Counts, Write(n)
        PROVE  GetInv'
    <3>1. transfer'.method = "PUT"
      BY <2>2, WriteMethod
    <3> QED BY <3>1 DEF GetInv, Getting
  <2>3. ASSUME NEW n \in Counts, Read(n)
        PROVE  GetInv'
    BY <2>3, ReadKeeps
  <2>4. CASE ClosePut \/ CloseGet
    BY <2>4 DEF ClosePut, CloseGet, GetInv, Getting
  <2> QED BY <1>2, <2>1, <2>2, <2>3, <2>4, OnlyItsCalls
<1> QED BY <1>1, <1>2

(* A download that was read to its end is one state of the file, the one   *)
(* at open: for files and reads of any size, whatever other users do, and  *)
(* all faults but a write to the temporary file that falls short while the *)
(* file is spooled, which owncloud_open does not look at.                  *)
THEOREM DownloadsAreWhole == "spool" \notin Faults => (Spec => []DownloadIsWhole)
<1> SUFFICES ASSUME "spool" \notin Faults
             PROVE  Spec => []DownloadIsWhole
  OBVIOUS
<1>1. Init => GetInv
  BY DEF Init, GetInv, Getting
<1>2. TypeOK /\ WalkInv /\ GetInv /\ [Next]_vars => GetInv'
  BY GetInvKeeps
<1>3. TypeOK /\ GetInv => DownloadIsWhole
  <2> SUFFICES ASSUME TypeOK, GetInv, Getting, ~transfer.good, ret = 0
               PROVE  transfer.passed = transfer.whole
    BY DEF DownloadIsWhole
  <2>1. transfer \in Context
    BY DEF TypeOK, Getting
  <2>2. transfer.good = FALSE
    BY <2>1 DEF Context
  <2> QED BY <2>2 DEF GetInv
<1> QED BY <1>1, <1>2, <1>3, WalkCorrect, PTL DEF Spec
=============================================================================
