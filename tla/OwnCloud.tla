------------------------------- MODULE OwnCloud -------------------------------
(***************************************************************************)
(* The ownCloud module between csync and a WebDAV server: listings with    *)
(* the static stat cache that readdir fills, files that are spooled in a   *)
(* buffer and a temporary file on their way up and down, the directory     *)
(* that is known to be there, and what the calls return when requests fail.*)
(*                                                                         *)
(* csync makes one call at a time; other users of the server act between   *)
(* its calls.  Data is counted in blocks; a client's are numbered from 1.  *)
(* The statics of the module live as long as the process, for any number   *)
(* of runs.                                                                *)
(***************************************************************************)
EXTENDS Integers, FiniteSets, SequencesExt

CONSTANTS
    Dir, File,  \* the paths
    Top,        \* the replica itself
    Parent,     \* the directory that a path is in
    Name,       \* the last component of a path
    NoFile,     \* nothing at a path
    None,       \* no transfer, no entry, no directory
    Buffer,     \* PUT_BUFFER_SIZE
    Counts,     \* sizes of the writes and reads of the client
    MaxBlocks,  \* bound: what the client writes to a file
    Faults,     \* what may fail, a subset of AllFaults
    MaxFaults,  \* bound: faults that happen
    MaxActs     \* bound: what other users do

(* list: PROPFIND; tmp: mkstemp; short, flush: a write to the temporary    *)
(* file, of what the client hands over or of what is in the buffer; reopen:*)
(* opening it again; spool: a write to it while downloading; put, get,     *)
(* change: the requests.                                                   *)
AllFaults == {"list", "tmp", "short", "flush", "reopen", "spool", "put", "get",
              "change"}

Path    == Dir \cup File
Content == Seq(0 .. MaxBlocks)

(* The transfer_context of an open file: the blocks in the buffer and in   *)
(* the temporary file, those that were passed to or from the client, and   *)
(* the file as the GET found it.  The client goes on while all is good.    *)
Context == [method : {"PUT", "GET"}, uri : File, buffer : Content,
            tmp : Content, fileWritten : BOOLEAN, passed : Content,
            whole : Content, good : BOOLEAN]

ASSUME ConstantsAssumption ==
    /\ IsFiniteSet(Path) /\ Dir \cap File = {} /\ Top \notin Path
    /\ Parent \in [Path -> Dir \cup {Top}]
    /\ DOMAIN Name = Path \cup {Top}
    /\ None \notin Path \cup {Top} /\ None \notin Context
    /\ Buffer \in Nat /\ Counts \subseteq Nat \ {0} /\ MaxBlocks \in Nat
    /\ Faults \subseteq AllFaults
    /\ MaxFaults \in Nat /\ MaxActs \in Nat

VARIABLES
    dirs,      \* the directories of the server
    files,     \* the contents of its files
    walk,      \* the directories csync_ftw is in, the innermost one last
    entry,     \* the entry that csync_ftw has at hand: none, one that is to be
               \*   stat'ed, or a directory that has been
    fs,        \* _fs: what readdir has returned last; its name is live until
               \*   csync_ftw frees the entry
    lastDir,   \* _lastDir
    transfer,  \* the transfer_context of an open file
    ret,       \* what the last call returned: 0, -1 or a number of blocks
    found,     \* the size that the last stat reported
    faults,    \* faults so far
    acts       \* what other users did so far

server == <<dirs, files>>
vars   == <<dirs, files, walk, entry, fs, lastDir, transfer, ret, found, faults,
            acts>>

NoEntry == [of |-> None, fresh |-> FALSE]

TypeOK ==
    /\ dirs \subseteq Dir
    /\ files \in [File -> {NoFile} \cup Content]
    /\ walk \in Seq([dir : Dir \cup {Top}, rest : SUBSET Path,
                     sizes : [Path -> Nat]])
    /\ \A i \in 2 .. Len(walk) : Parent[walk[i].dir] = walk[i - 1].dir
    /\ entry \in [of : Path \cup {None}, fresh : BOOLEAN]
    /\ fs \in [of : Path \cup {None}, size : Nat, live : BOOLEAN]
    /\ lastDir \in Dir \cup {Top, None}
    /\ transfer \in {None} \cup Context
    /\ transfer # None => Len(transfer.buffer) <= Buffer
    /\ ret \in Int /\ found \in Nat /\ faults \in Nat /\ acts \in Nat

Init ==
    /\ dirs = Dir
    /\ files = [f \in File |-> <<0>>]
    /\ walk = <<>> /\ entry = NoEntry
    /\ fs = [of |-> None, size |-> 0, live |-> FALSE]
    /\ lastDir = None /\ transfer = None
    /\ ret = 0 /\ found = 0 /\ faults = 0 /\ acts = 0

Fault(k) ==
    /\ k \in Faults
    /\ faults < MaxFaults
    /\ faults' = faults + 1

NoFault == UNCHANGED faults

(* A call ends, well or with -1. *)
Fine   == ret' = 0 /\ NoFault
Fails  == ret' = 0 - 1

There(p) == IF p \in File THEN files[p] # NoFile ELSE p \in dirs \cup {Top}
Below(d) == {p \in Path : p = d \/ Parent[p] = d}
Size(p)  == IF p \in File /\ There(p) THEN Len(files[p]) ELSE 0

-----------------------------------------------------------------------------
(* What a request does to the server, and what other users do there.  A    *)
(* DELETE of a collection takes along what is inside.                      *)
Stored(f, c) == files' = [files EXCEPT ![f] = c] /\ UNCHANGED dirs

Deleted(p) ==
    /\ dirs' = dirs \ Below(p)
    /\ files' = [f \in File |-> IF f \in Below(p) THEN NoFile ELSE files[f]]

UserActs ==
    /\ acts < MaxActs
    /\ acts' = acts + 1
    /\ UNCHANGED <<walk, entry, fs, lastDir, transfer, ret, found, faults>>

UserWrites(f) ==
    /\ UserActs
    /\ There(Parent[f])
    /\ Stored(f, IF files[f] = <<0>> THEN <<0, 0>> ELSE <<0>>)

UserDeletes(p) == UserActs /\ There(p) /\ Deleted(p)

-----------------------------------------------------------------------------
(* stat.  The names alone are compared with the cache, and when the entry  *)
(* has been freed with its name, the comparison reads what the allocator   *)
(* has made of it since: it may well be the name that is asked for.        *)

MayHit(p)  == fs.of # None /\ (fs.live => Name[fs.of] = Name[p])
MayMiss(p) == ~(fs.of # None /\ fs.live /\ Name[fs.of] = Name[p])

Stat(p) ==
    \/ MayHit(p) /\ Fine /\ found' = fs.size
    \/ MayMiss(p) /\ There(p) /\ Fine /\ found' = Size(p)
    \/ /\ MayMiss(p)
       /\ IF There(p) THEN Fault("list") ELSE NoFault
       /\ Fails /\ UNCHANGED found

(* csync makes its other calls when no directory and no file is open.      *)
Idle == walk = <<>> /\ transfer = None

(* The size check of a push, the times that the merge of the trees reads.  *)
StatFile(f) ==
    /\ Idle
    /\ Stat(f)
    /\ UNCHANGED <<server, walk, entry, fs, lastDir, transfer, acts>>

-----------------------------------------------------------------------------
(* The walk of csync_ftw.                                                  *)
Innermost == Last(walk)

(* csync_ftw frees the entry, and the name in the cache with it.           *)
Freed == fs' = [fs EXCEPT !.live = FALSE]

(* PROPFIND: what is inside a directory, but not itself, with the sizes.   *)
Listing(d) == [dir   |-> d,
               rest  |-> {p \in Path : Parent[p] = d /\ There(p)},
               sizes |-> [p \in Path |-> Size(p)]]

(* A failure is none of those that csync_ftw goes on after.                *)
OpenDir(d) ==
    /\ IF d = Top THEN Idle ELSE entry.of = d /\ ~entry.fresh
    /\ \/ /\ There(d) /\ Fine
          /\ walk' = Append(walk, Listing(d))
          /\ UNCHANGED fs
       \/ /\ IF There(d) THEN Fault("list") ELSE NoFault
          /\ Fails
          /\ walk' = <<>> /\ Freed
    /\ entry' = NoEntry
    /\ UNCHANGED <<server, lastDir, transfer, found, acts>>

(* Mutant: the cache is filled when it is empty. *)
FilledOnce(p) ==
    IF fs.of # None THEN fs
    ELSE [of |-> p, size |-> Innermost.sizes[p], live |-> TRUE]

Filled(p) == [of |-> p, size |-> Innermost.sizes[p], live |-> TRUE]

ReadDir(p) ==
    /\ walk # <<>> /\ entry = NoEntry /\ p \in Innermost.rest
    /\ walk' = [walk EXCEPT ![Len(walk)].rest = @ \ {p}]
    /\ fs' = Filled(p)
    /\ entry' = [of |-> p, fresh |-> TRUE]
    /\ Fine
    /\ UNCHANGED <<server, lastDir, transfer, found, acts>>

(* A directory is opened next, which the entry outlives.                   *)
StatEntry ==
    /\ entry.fresh
    /\ Stat(entry.of)
    /\ IF entry.of \in Dir /\ ret' = 0
       THEN entry' = [entry EXCEPT !.fresh = FALSE] /\ UNCHANGED fs
       ELSE entry' = NoEntry /\ Freed
    /\ UNCHANGED <<server, walk, lastDir, transfer, acts>>

CloseDir ==
    /\ walk # <<>> /\ entry = NoEntry /\ Innermost.rest = {}
    /\ walk' = Front(walk) /\ Freed
    /\ Fine
    /\ UNCHANGED <<server, entry, lastDir, transfer, found, acts>>

-----------------------------------------------------------------------------
(* Uploads.                                                                *)
Opened(method, f, content) ==
    transfer' = [method |-> method, uri |-> f, buffer |-> <<>>, tmp |-> content,
                 fileWritten |-> FALSE, passed |-> <<>>, whole |-> content,
                 good |-> TRUE]

(* The temporary file cannot be made, or the file is open. *)
OpenWithTmp(f) ==
    \/ Fine /\ Opened("PUT", f, <<>>)
    \/ Fault("tmp") /\ Fails /\ UNCHANGED transfer

(* The directory is known, or stat says that it is there; otherwise the    *)
(* open fails with ENOENT.                                                 *)
OpenPut(f) ==
    LET d == Parent[f]
    IN  /\ Idle
        /\ \/ lastDir = d /\ OpenWithTmp(f) /\ UNCHANGED lastDir
           \/ /\ lastDir # d
              /\ MayHit(d) \/ (MayMiss(d) /\ There(d))
              /\ OpenWithTmp(f) /\ lastDir' = d
           \/ /\ lastDir # d /\ MayMiss(d)
              /\ IF There(d) THEN Fault("list") ELSE NoFault
              /\ Fails /\ UNCHANGED <<lastDir, transfer>>
        /\ UNCHANGED <<server, walk, entry, fs, found, acts>>

Putting == transfer # None /\ transfer.method = "PUT"

(* What a write to the temporary file may leave of b when it falls short.  *)
Shorter(b) == {SubSeq(b, 1, n) : n \in 0 .. Len(b) - 1}

(* Mutant: the buffer is not written before the block that did not fit. *)
SpilledAlone(b) == transfer.tmp \o b

(* The temporary file, once the buffer and then b are written to it.       *)
Spilled(b) == transfer.tmp \o transfer.buffer \o b

Fits(n) == Len(transfer.buffer) + n <= Buffer

(* Blocks that do not fit go to the temporary file, after the buffer.  The *)
(* client stops when less than it handed over was written.                 *)
Write(n) ==
    LET k == Len(transfer.passed)
        b == [i \in 1 .. n |-> k + i]
    IN  /\ Putting /\ transfer.good /\ k + n <= MaxBlocks
        /\ \/ /\ Fits(n)
              /\ transfer' = [transfer EXCEPT !.buffer = @ \o b,
                                             !.passed = @ \o b]
              /\ ret' = n /\ NoFault
           \/ /\ ~Fits(n)
              /\ transfer' = [transfer EXCEPT !.tmp = Spilled(b),
                                !.buffer = <<>>, !.fileWritten = TRUE,
                                !.passed = @ \o b]
              /\ ret' = n /\ NoFault
           \/ \E c \in Shorter(b) :
                 /\ ~Fits(n) /\ Fault("short")
                 /\ transfer' = [transfer EXCEPT !.tmp = Spilled(c),
                                   !.buffer = <<>>, !.fileWritten = TRUE,
                                   !.passed = @ \o c, !.good = FALSE]
                 /\ ret' = Len(c)
           \/ \E c \in Shorter(transfer.buffer) :
                 /\ ~Fits(n) /\ Fault("flush")
                 /\ transfer' = [transfer EXCEPT !.tmp = @ \o c \o b,
                                   !.buffer = <<>>, !.fileWritten = TRUE,
                                   !.passed = @ \o b]
                 /\ ret' = n
        /\ UNCHANGED <<server, walk, entry, fs, lastDir, found, acts>>

Body == IF transfer.fileWritten THEN Spilled(<<>>) ELSE transfer.buffer

(* The PUT request.  One that is answered with an error may have been      *)
(* carried out or not.                                                     *)
Put(body) ==
    LET f == transfer.uri
    IN  \/ There(Parent[f]) /\ Stored(f, body) /\ Fine
        \/ ~There(Parent[f]) /\ UNCHANGED server /\ Fails /\ NoFault
        \/ /\ There(Parent[f]) /\ Fault("put") /\ Fails
           /\ Stored(f, body) \/ UNCHANGED server

ClosePut ==
    /\ Putting
    /\ transfer' = None
    /\ \/ Put(Body)
       \/ /\ transfer.fileWritten /\ transfer.buffer # <<>>
          /\ Fault("flush")
          /\ There(Parent[transfer.uri])
          /\ \E c \in Shorter(transfer.buffer) :
                Stored(transfer.uri, transfer.tmp \o c)
          /\ ret' = 0
       \/ /\ transfer.fileWritten
          /\ Fault("reopen") /\ Fails /\ UNCHANGED server
    /\ UNCHANGED <<walk, entry, fs, lastDir, found, acts>>

-----------------------------------------------------------------------------
(* Downloads.  The GET puts the whole file into the temporary file when it *)
(* is opened; what the body readers fail to write is only warned about.    *)
OpenGet(f) ==
    /\ Idle
    /\ \/ There(f) /\ Fine /\ Opened("GET", f, files[f])
       \/ /\ There(f) /\ Fault("spool") /\ ret' = 0
          /\ \E c \in Shorter(files[f]) :
                transfer' = [method |-> "GET", uri |-> f, buffer |-> <<>>,
                             tmp |-> c, fileWritten |-> FALSE, passed |-> <<>>,
                             whole |-> files[f], good |-> TRUE]
       \/ /\ There(f) /\ (Fault("tmp") \/ Fault("get"))
          /\ Fails /\ UNCHANGED transfer
       \/ ~There(f) /\ NoFault /\ Fails /\ UNCHANGED transfer
    /\ UNCHANGED <<server, walk, entry, fs, lastDir, found, acts>>

Getting == transfer # None /\ transfer.method = "GET"

(* Mutant: what is on the server by now is read. *)
SourceOnServer ==
    IF There(transfer.uri) THEN files[transfer.uri] ELSE <<>>

(* What the descriptor of the temporary file reads from. *)
Source == transfer.tmp

(* read(2), until it returns 0. *)
Read(n) ==
    LET k == Len(transfer.passed)
        b == SubSeq(Source, k + 1, IF k + n < Len(Source) THEN k + n
                                                          ELSE Len(Source))
    IN  /\ Getting /\ transfer.good
        /\ \/ /\ transfer' = [transfer EXCEPT !.passed = @ \o b,
                                               !.good = b # <<>>]
              /\ ret' = Len(b) /\ NoFault
           \/ /\ k = 0 /\ Fault("reopen")
              /\ transfer' = [transfer EXCEPT !.good = FALSE]
              /\ Fails
        /\ UNCHANGED <<server, walk, entry, fs, lastDir, found, acts>>

CloseGet ==
    /\ Getting
    /\ transfer' = None
    /\ Fine
    /\ UNCHANGED <<server, walk, entry, fs, lastDir, found, acts>>

-----------------------------------------------------------------------------
(* The requests that change the tree.  A request that is answered with an  *)
(* error may have been carried out or not.                                 *)
Request(possible, effect) ==
    \/ possible /\ effect /\ Fine
    \/ ~possible /\ UNCHANGED server /\ Fails /\ NoFault
    \/ possible /\ Fault("change") /\ Fails /\ (effect \/ UNCHANGED server)

Mkdir(d) ==
    /\ Idle
    /\ Request(There(Parent[d]) /\ ~There(d),
               dirs' = dirs \cup {d} /\ UNCHANGED files)
    /\ UNCHANGED <<walk, entry, fs, lastDir, transfer, found, acts>>

Rmdir(d) ==
    /\ Idle
    /\ Request(There(d), Deleted(d))
    /\ UNCHANGED <<walk, entry, fs, lastDir, transfer, found, acts>>

(* MOVE, which overwrites.  The copy of a conflict is made with it.        *)
Rename(f, g) ==
    /\ Idle
    /\ Request(There(f) /\ There(Parent[g]),
               /\ files' = [files EXCEPT ![g] = files[f], ![f] = NoFile]
               /\ UNCHANGED dirs)
    /\ UNCHANGED <<walk, entry, fs, lastDir, transfer, found, acts>>

(* What the DELETE came to is not returned.                                *)
Unlink(f) ==
    /\ Idle
    /\ \/ Deleted(f) /\ NoFault
       \/ There(f) /\ Fault("change") /\ UNCHANGED server
    /\ ret' = 0
    /\ UNCHANGED <<walk, entry, fs, lastDir, transfer, found, acts>>

-----------------------------------------------------------------------------
User == \/ \E f \in File : UserWrites(f)
        \/ \E p \in Path : UserDeletes(p)

Walk == \/ \E d \in Dir \cup {Top} : OpenDir(d)
        \/ \E p \in Path : ReadDir(p)
        \/ StatEntry \/ CloseDir

Transfer == \/ \E f \in File : OpenPut(f) \/ OpenGet(f)
            \/ \E n \in Counts : Write(n) \/ Read(n)
            \/ ClosePut \/ CloseGet

Change == \/ \E d \in Dir : Mkdir(d) \/ Rmdir(d)
          \/ \E f, g \in File : f # g /\ Rename(f, g)
          \/ \E f \in File : Unlink(f) \/ StatFile(f)

Next == User \/ Walk \/ Transfer \/ Change
Spec == Init /\ [][Next]_vars

-----------------------------------------------------------------------------
(* What csync is told of an entry is what the listing says of it, whatever *)
(* other users do meanwhile and however many entries have that name: the   *)
(* cache that is looked up by the last component alone                     *)
(* (owncloud_stat, owncloud_readdir) never answers for another entry, and  *)
(* no request is spent on the walk.                                        *)
WalkIsTrue ==
    [][entry.fresh /\ ~entry'.fresh
          => ret' = 0 /\ found' = Innermost.sizes[entry.of]]_vars

(* An upload whose writes were all acknowledged leaves on the server what  *)
(* was handed over, in order, or, when close returns an error, possibly    *)
(* what was there before; never a part of it, through whichever of the     *)
(* buffer and the temporary file it went (owncloud_write, owncloud_close). *)
UploadIsWhole ==
    [][Putting /\ transfer.good /\ transfer' = None
          => /\ files'[transfer.uri] \in {files[transfer.uri], transfer.passed}
             /\ ret' = 0 => files'[transfer.uri] = transfer.passed]_vars

(* A download that was read to its end is one state of the file, the one   *)
(* at open, whatever happens to the file on the server while it is read    *)
(* (owncloud_open, owncloud_read).                                         *)
DownloadIsWhole ==
    Getting /\ ~transfer.good /\ ret = 0 => transfer.passed = transfer.whole
=============================================================================
