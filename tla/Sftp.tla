-------------------------------- MODULE Sftp --------------------------------
(***************************************************************************)
(* The sftp module from its loading to its unloading: connecting to the    *)
(* server, with the questions on the console that this takes, and the walk *)
(* of the update detection that lists the remote replica through it while  *)
(* the connection may be lost.                                             *)
(*                                                                         *)
(* The module keeps its session in statics, which live as long as the      *)
(* module is loaded.  libssh and the server are external: a request is     *)
(* answered with what is there as long as the connection is up.            *)
(***************************************************************************)
EXTENDS Console, FiniteSets, Sequences

CONSTANTS
    Context,    \* contexts of one process, each with a server of its own
    NoContext,
    Root,       \* the remote replica
    Dir,        \* directories below it
    File,       \* files in them
    Parent,     \* the directory that a directory or file is in
    Offers,     \* what the server of a context may offer: sets of methods of
                \*   authentication
    Keys,       \* contexts whose user has a key, in an agent or a file
    Password,   \* what the uri of a context has as password: "none", "right"
                \*   or "wrong"
    Callback,   \* the client has set a callback for questions
    MaxTries,   \* how often a server lets a client fail before it hangs up
    Features,   \* a subset of AllFeatures
    Faults,     \* a subset of AllFaults
    MaxFaults   \* bound: faults that happen

(* together: contexts that have the module loaded at the same time.        *)
AllFeatures == {"together"}

(* load: csync_vio_init; setup: parsing, options, memory; refuse: the      *)
(* server does not answer; key: the key of the server is another one, or   *)
(* cannot be remembered; channel: sftp_new or sftp_init; denied, gone:     *)
(* opening a directory; stat: a stat of an entry; lost: the connection;    *)
(* kill: the process is killed while it waits for an answer.               *)
AllFaults == {"load", "setup", "refuse", "key", "channel", "denied", "gone", "stat",
              "lost", "kill"}

Method == {"publickey", "interactive", "password"}
Entry  == Dir \cup File

ASSUME ConstantsAssumption ==
    /\ IsFiniteSet(Context) /\ Context # {} /\ NoContext \notin Context
    /\ IsFiniteSet(Dir) /\ IsFiniteSet(File)
    /\ Root \notin Entry /\ Dir \cap File = {}
    /\ Parent \in [Entry -> Dir \cup {Root}]
    /\ \A D \in SUBSET Dir : D # {} => \E d \in D : Parent[d] \notin D
    /\ Offers \in [Context -> SUBSET SUBSET Method]
    /\ Keys \subseteq Context
    /\ Password \in [Context -> {"none", "right", "wrong"}]
    /\ Callback \in BOOLEAN
    /\ MaxTries \in Nat
    /\ Features \subseteq AllFeatures /\ Faults \subseteq AllFaults
    /\ MaxFaults \in Nat

VARIABLES
    loaded,     \* contexts with a module handle
    opened,     \* contexts whose csync_init got through
    who,        \* the context whose call is on
    session,    \* _ssh_session: NULL or set, with the context whose server it
                \*   was made for, or freed
    channel,    \* _sftp_session: NULL, made, or ready
    connected,  \* _connected
    link,       \* the connection of the session: none, up or lost
    known,      \* contexts whose server's key is in known_hosts
    methods,    \* what the server of the session offers
    tried,      \* attempts that the server has counted
    step,       \* what the connecting has to do next
    walk,       \* the walk: off, what it does next, or what came of it
    open,       \* directories it has opened, the innermost one last
    unread,     \* entries of those it has not been given yet
    item,       \* the entry it handles, or directory it opens
    seen,       \* what it has passed to the visitor
    skipped,    \* history: what it could not open or stat
    late,       \* history: it opened a directory since the connection is lost
    faults      \* faults so far

statics  == <<session, channel, connected>>
server   == <<link, known, methods, tried>>
walkVars == <<walk, open, unread, item, seen, skipped, late>>
vars     == <<consoleVars, loaded, opened, who, session, channel, connected,
              link, known, methods, tried, step, walk, open, unread, item,
              seen, skipped, late, faults>>

Steps == {"idle", "setup", "connect", "host", "confirm", "none", "loop",
          "publickey", "interactive", "answer", "password", "sftp", "crashed"}

TypeOK ==
    /\ ConsoleTypeOK
    /\ loaded \subseteq Context /\ opened \subseteq loaded
    /\ who \in Context \cup {NoContext}
    /\ session \in Context \cup {"null", "freed"}
    /\ channel \in {"null", "made", "ready"}
    /\ connected \in BOOLEAN
    /\ link \in {"none", "up", "lost"}
    /\ known \subseteq Context
    /\ methods \subseteq Method
    /\ tried \in 0 .. MaxTries
    /\ step \in Steps
    /\ walk \in {"off", "open", "read", "stat", "ok", "failed"}
    /\ open \in Seq(Dir \cup {Root})
    /\ unread \in [Dir \cup {Root} -> SUBSET Entry]
    /\ item \in Entry \cup {Root}
    /\ seen \subseteq Entry /\ skipped \subseteq Entry \cup {Root}
    /\ late \in BOOLEAN
    /\ faults \in Nat

NothingRead == [d \in Dir \cup {Root} |-> {}]

Init ==
    /\ ConsoleInit
    /\ loaded = {} /\ opened = {} /\ who = NoContext
    /\ session = "null" /\ channel = "null" /\ connected = FALSE
    /\ link = "none" /\ known \in SUBSET Context
    /\ methods = {} /\ tried = 0
    /\ step = "idle"
    /\ walk = "off" /\ open = <<>> /\ unread = NothingRead /\ item = Root
    /\ seen = {} /\ skipped = {} /\ late = FALSE
    /\ faults = 0

Fault(f) ==
    /\ f \in Faults
    /\ faults < MaxFaults
    /\ faults' = faults + 1

NoFault == UNCHANGED faults

(* No call of the library is on. *)
Idle == step = "idle" /\ walk = "off" /\ who = NoContext

-----------------------------------------------------------------------------
(* Loading and unloading.                                                  *)

(* csync_vio_init; a failure leaves csync_init, and the client destroys    *)
(* the context.                                                            *)
Load(c) ==
    /\ Idle /\ c \notin loaded
    /\ loaded = {} \/ "together" \in Features
    /\ \/ NoFault /\ loaded' = loaded \cup {c} /\ who' = c /\ step' = "setup"
       \/ Fault("load") /\ UNCHANGED <<loaded, who, step>>
    /\ UNCHANGED <<consoleVars, opened, statics, server, walkVars>>

(* Mutant: csync_vio_shutdown leaves the library open. *)
StaticsStay(last) == UNCHANGED <<session, channel, connected>>

(* vio_module_shutdown frees the sessions; dlclose of the last handle    *)
(* takes the statics along.                                                *)
StaticsAfterShutdown(last) ==
    IF last THEN /\ session' = "null" /\ channel' = "null"
                 /\ connected' = FALSE
            ELSE /\ session' = IF session = "null" THEN "null" ELSE "freed"
                 /\ UNCHANGED <<channel, connected>>

Unload(c) ==
    /\ Idle /\ c \in loaded
    /\ loaded' = loaded \ {c} /\ opened' = opened \ {c}
    /\ StaticsAfterShutdown(loaded = {c})
    /\ link' = "none"
    /\ UNCHANGED <<consoleVars, who, known, methods, tried, step, walkVars,
                   faults>>

-----------------------------------------------------------------------------
(* _sftp_connect, called by the opendir of csync_timediff, which is the    *)
(* first call that csync_init makes to the module.                         *)

Connecting(s) == step = s /\ UNCHANGED <<loaded, walkVars>>

(* Any failure: csync_init fails.                                          *)
GiveUp == step' = "idle" /\ who' = NoContext

(* ... after ssh_disconnect.                                               *)
Disconnect ==
    /\ GiveUp
    /\ session' = "null" /\ link' = "none"
    /\ UNCHANGED <<channel, connected>>

Go(s) == step' = s /\ UNCHANGED <<who, session, link>>

(* A request over the session is answered.                                 *)
Served == link = "up" /\ session # "freed"

(* With _connected set the opendir goes straight to the session.           *)
SetUp ==
    /\ Connecting("setup")
    /\ \/ /\ ~connected
          /\ \/ /\ session' = who /\ step' = "connect"
                /\ NoFault /\ UNCHANGED who
             \/ Fault("setup") /\ session' \in {session, who, "null"} /\ GiveUp
          /\ UNCHANGED opened
       \/ /\ connected /\ GiveUp
          /\ opened' = IF Served THEN opened \cup {who} ELSE opened
          /\ NoFault /\ UNCHANGED session
    /\ UNCHANGED <<consoleVars, channel, connected, server>>

(* ssh_connect and ssh_get_pubkey_hash *)
Connect ==
    /\ Connecting("connect")
    /\ \/ /\ link' = "up" /\ methods' \in Offers[who] /\ tried' = 0
          /\ step' = "host"
          /\ NoFault /\ UNCHANGED <<who, statics>>
       \/ /\ Fault("refuse") /\ Disconnect
          /\ UNCHANGED <<methods, tried>>
    /\ UNCHANGED <<consoleVars, opened, known>>

(* ssh_is_server_known *)
CheckHost ==
    /\ Connecting("host")
    /\ \/ session \in known /\ NoFault /\ Go("none") /\ UNCHANGED prompt
       \/ session \in known /\ Fault("key") /\ Disconnect /\ UNCHANGED prompt
       \/ /\ session \notin known /\ NoFault
          /\ IF Callback THEN Go("confirm") /\ Ask(FALSE, "short")
                         ELSE Disconnect /\ UNCHANGED prompt
    /\ UNCHANGED <<tty, echo, nonblock, before, newline, opened, channel,
                   connected, known, methods, tried>>

(* The key is written, but the user has to connect again.                  *)
Confirm ==
    /\ Connecting("confirm") /\ Answered
    /\ HangUp
    /\ \/ /\ NoFault
          /\ known' = IF prompt.rc = 0 /\ Answer = "yes"
                      THEN known \cup {session} ELSE known
       \/ Fault("key") /\ UNCHANGED known
    /\ Disconnect
    /\ UNCHANGED <<tty, echo, nonblock, before, newline, opened, methods,
                   tried>>

-----------------------------------------------------------------------------
(* Authentication.                                                         *)

(* The server refuses an attempt, and hangs up on one too many.            *)
Refused == link = "up" /\ tried < MaxTries /\ tried' = tried + 1
HungUp  == (link # "up" \/ tried = MaxTries) /\ UNCHANGED tried

AuthVars == <<tty, echo, nonblock, before, newline, opened, known, methods>>

AuthNone ==
    /\ Connecting("none")
    /\ \/ link = "up" /\ (Go("loop") \/ Go("sftp"))
          /\ UNCHANGED <<channel, connected>>
       \/ link # "up" /\ Disconnect
    /\ NoFault
    /\ UNCHANGED <<prompt, tried, AuthVars>>

(* One round of the loop tries the methods in this order.                  *)
Order == <<"publickey", "interactive", "password">>

Applies(m) == m \in methods /\ (m = "password" => Password[who] # "none")

AfterMethod(m) ==
    LET i    == IF m = "loop" THEN 0 ELSE CHOOSE k \in 1 .. 3 : Order[k] = m
        next == {k \in i + 1 .. 3 : Applies(Order[k])}
    IN  IF next = {} THEN "loop"
        ELSE Order[CHOOSE k \in next : \A j \in next : k <= j]

Loop ==
    /\ Connecting("loop")
    /\ Go(AfterMethod("loop"))
    /\ NoFault
    /\ UNCHANGED <<prompt, tried, channel, connected, AuthVars>>

(* Mutant: an error is taken for a refusal. *)
GoesOnAfterError(m) == Go(AfterMethod(m)) /\ UNCHANGED <<channel, connected>>

AfterError(m) == Disconnect

(* What comes of an attempt with m that the server may accept or not.      *)
Attempt(m, accepts) ==
    \/ link = "up" /\ tried < MaxTries /\ accepts
       /\ Go("sftp") /\ UNCHANGED <<tried, channel, connected>>
    \/ ~accepts /\ Refused /\ Go(AfterMethod(m)) /\ UNCHANGED <<channel, connected>>
    \/ HungUp /\ AfterError(m)

(* The agent or the files of the user may have the right key.  Without any *)
(* key ssh_userauth_autopubkey asks the server nothing, which has nothing  *)
(* to count then.                                                          *)
AuthPublicKey ==
    /\ Connecting("publickey")
    /\ \/ who \in Keys /\ \E right \in BOOLEAN : Attempt("publickey", right)
       \/ /\ who \notin Keys /\ Go(AfterMethod("publickey"))
          /\ UNCHANGED <<tried, channel, connected>>
    /\ NoFault
    /\ UNCHANGED <<consoleVars, opened, known, methods>>

(* auth_kbdint: the answer is the password of the uri, or one the user is  *)
(* asked for through the callback, whose result is not looked at.  A       *)
(* prompt whose answer may be shown is left out.                           *)
AuthInteractive ==
    /\ Connecting("interactive")
    /\ \/ Password[who] # "none" /\ Attempt("interactive", Password[who] = "right")
          /\ UNCHANGED prompt
       \/ Password[who] = "none" /\ HungUp /\ AfterError("interactive")
          /\ UNCHANGED prompt
       \/ /\ Password[who] = "none" /\ link = "up" /\ tried < MaxTries
          /\ IF Callback THEN Go("answer") /\ Ask(TRUE, "long")
                         ELSE Go("crashed") /\ UNCHANGED prompt
          /\ UNCHANGED <<tried, channel, connected>>
    /\ NoFault
    /\ UNCHANGED AuthVars

GiveAnswer ==
    /\ Connecting("answer") /\ Answered
    /\ HangUp
    /\ Attempt("interactive", prompt.rc = 0 /\ Answer = "right")
    /\ NoFault
    /\ UNCHANGED AuthVars

AuthPassword ==
    /\ Connecting("password")
    /\ Attempt("password", Password[who] = "right")
    /\ NoFault
    /\ UNCHANGED <<consoleVars, opened, known, methods>>

(* sftp_new and sftp_init; the opendir and closedir of csync_timediff.     *)
StartSftp ==
    /\ Connecting("sftp")
    /\ \/ /\ link = "up" /\ NoFault
          /\ channel' = "ready" /\ connected' = TRUE
          /\ opened' = opened \cup {who}
       \/ /\ IF link = "up" THEN Fault("channel") ELSE NoFault
          /\ channel' \in {"null", "made"}
          /\ UNCHANGED <<connected, opened>>
    /\ GiveUp
    /\ UNCHANGED <<consoleVars, session, server>>

-----------------------------------------------------------------------------
(* The walk: csync_ftw over the remote replica.                            *)

Walking(w) ==
    /\ walk = w
    /\ UNCHANGED <<consoleVars, loaded, opened, statics, server, step>>

Inside(d) == {e \in Entry : Parent[e] = d}
Top       == open[Len(open)]
Popped    == SubSeq(open, 1, Len(open) - 1)

StartWalk(c) ==
    /\ Idle /\ c \in opened
    /\ who' = c
    /\ walk' = "open" /\ item' = Root /\ open' = <<>>
    /\ unread' = NothingRead
    /\ seen' = {} /\ skipped' = {} /\ late' = FALSE
    /\ UNCHANGED <<consoleVars, loaded, opened, statics, server, step, faults>>

(* _sftp_portable_to_errno *)
Errno(status) ==
    CASE status = "OK"                               -> "0"
      [] status \in {"NO_SUCH_FILE", "NO_SUCH_PATH"} -> "ENOENT"
      [] status = "PERMISSION_DENIED"                -> "EACCES"
      [] status = "FILE_ALREADY_EXISTS"              -> "EEXIST"
      [] status = "INVALID_HANDLE"                   -> "EBADF"
      [] status \in {"OP_UNSUPPORTED", "BAD_MESSAGE"} -> "EINVAL"
      [] status = "FAILURE"                          -> "ENOTEMPTY"
      [] OTHER                                       -> "EIO"

(* Mutant: other errors are passed over as well. *)
PassesOver(errno) == errno # "0"

(* A directory that may not be opened is passed over. *)
NotOurs(errno) == errno = "EACCES"

WalkAfter(stack) == IF stack = <<>> THEN "ok" ELSE "read"

OpenDirectory ==
    /\ Walking("open")
    /\ \E status \in {"OK", "PERMISSION_DENIED", "NO_SUCH_FILE",
                      "CONNECTION_LOST"} :
          /\ (status = "CONNECTION_LOST") <=> ~Served
          /\ CASE status = "PERMISSION_DENIED" -> Fault("denied")
               [] status = "NO_SUCH_FILE"      -> Fault("gone")
               [] OTHER                        -> NoFault
          /\ IF status = "OK"
             THEN /\ open' = Append(open, item)
                  /\ unread' = [unread EXCEPT ![item] = Inside(item)]
                  /\ walk' = "read"
                  /\ UNCHANGED skipped
             ELSE /\ IF NotOurs(Errno(status))
                     THEN walk' = WalkAfter(open) /\ skipped' = skipped \cup {item}
                     ELSE walk' = "failed" /\ UNCHANGED skipped
                  /\ UNCHANGED <<open, unread>>
          /\ late' = (late \/ status = "CONNECTION_LOST")
    /\ UNCHANGED <<who, item, seen>>

(* sftp_readdir gives the next entry; one the server has already sent may  *)
(* come when the connection is gone.                                       *)
ReadEntry(e) ==
    /\ Walking("read")
    /\ e \in unread[Top] /\ session # "freed"
    /\ unread' = [unread EXCEPT ![Top] = @ \ {e}]
    /\ item' = e
    /\ walk' = "stat"
    /\ NoFault
    /\ UNCHANGED <<who, open, seen, skipped, late>>

(* NULL is the end of the directory, or an error: csync_ftw cannot tell.   *)
ReadEnd ==
    /\ Walking("read")
    /\ unread[Top] = {} \/ ~Served
    /\ open' = Popped
    /\ walk' = WalkAfter(Popped)
    /\ NoFault
    /\ UNCHANGED <<who, unread, item, seen, skipped, late>>

(* An entry without a stat is passed over.                                 *)
StatEntry ==
    /\ Walking("stat")
    /\ \/ /\ Served /\ NoFault
          /\ seen' = seen \cup {item}
          /\ walk' = IF item \in Dir THEN "open" ELSE "read"
          /\ UNCHANGED skipped
       \/ /\ IF Served THEN Fault("stat") /\ skipped' = skipped \cup {item}
                       ELSE NoFault /\ UNCHANGED skipped
          /\ walk' = "read"
          /\ UNCHANGED seen
    /\ UNCHANGED <<who, open, unread, item, late>>

(* csync_update is over: the context may go on, walk again or be destroyed. *)
EndWalk ==
    /\ walk \in {"ok", "failed"}
    /\ walk' = "off" /\ who' = NoContext
    /\ open' = <<>> /\ unread' = NothingRead /\ item' = Root
    /\ seen' = {} /\ skipped' = {} /\ late' = FALSE
    /\ UNCHANGED <<consoleVars, loaded, opened, statics, server, step, faults>>

-----------------------------------------------------------------------------
(* The connection breaks. *)
Lose ==
    /\ link = "up"
    /\ Fault("lost")
    /\ link' = "lost"
    /\ UNCHANGED <<consoleVars, loaded, opened, who, statics, known, methods,
                   tried, step, walkVars>>

(* The process is killed while it waits for an answer; another one finds   *)
(* the console as it has been left.                                        *)
Kill ==
    /\ prompt.step = "gets"
    /\ Fault("kill")
    /\ HangUp /\ newline' = FALSE
    /\ before' = [echo |-> echo, nonblock |-> nonblock]
    /\ loaded' = {} /\ opened' = {} /\ GiveUp
    /\ session' = "null" /\ channel' = "null" /\ connected' = FALSE
    /\ link' = "none"
    /\ UNCHANGED <<tty, echo, nonblock, known, methods, tried, walkVars>>

Prompting ==
    /\ ConsoleStep
    /\ UNCHANGED <<loaded, opened, who, statics, server, step, walkVars,
                   faults>>

ConnectStep ==
    \/ SetUp \/ Connect \/ CheckHost \/ Confirm
    \/ AuthNone \/ Loop \/ AuthPublicKey \/ AuthInteractive \/ GiveAnswer
    \/ AuthPassword \/ StartSftp

WalkStep ==
    \/ OpenDirectory \/ (\E e \in Entry : ReadEntry(e)) \/ ReadEnd
    \/ StatEntry \/ EndWalk

Next ==
    \/ \E c \in Context : Load(c) \/ Unload(c) \/ StartWalk(c)
    \/ ConnectStep \/ Prompting \/ WalkStep
    \/ Lose \/ Kill

Spec == Init /\ [][Next]_vars

(* Calls go on, and whoever is asked a question answers it or closes       *)
(* stdin.  Nobody has to call.                                             *)
FairSpec == Spec /\ WF_vars(ConnectStep) /\ WF_vars(Prompting)
                 /\ WF_vars(WalkStep)

-----------------------------------------------------------------------------
(***************************************************************************)
(* Properties.                                                             *)
(***************************************************************************)

(* An entry and the directories above it: what is in every set that it is  *)
(* in and that has the parents of its members.                             *)
Upward(S) == \A x \in S \cap Entry : Parent[x] \in S

Above(e) ==
    {x \in Entry \cup {Root} :
        \A S \in SUBSET (Entry \cup {Root}) : e \in S /\ Upward(S) => x \in S}

(* What a walk does not see counts as deleted.  A walk that succeeds has   *)
(* seen every entry, unless a directory above the entry could not be       *)
(* opened or the entry not be looked at (EACCES, a failed stat), or the    *)
(* connection was lost and csync_ftw opened nothing after that: a loss     *)
(* that meets an opendir, and so any before the walk, ends the run.        *)
MissesOnlyTheRest ==
    walk = "ok" =>
        \/ \A e \in Entry \ seen : Above(e) \cap skipped # {}
        \/ link = "lost" /\ ~late

(* "if (_connected) return 0" (_sftp_connect) does not ask which uri the   *)
(* session was made for: a call for a context still reaches the server of  *)
(* its own uri, over a session that is there, whatever contexts of the     *)
(* process came before it.                                                 *)
OwnServer ==
    /\ walk # "off" => session = who
    /\ step # "idle" => ~connected \/ session = who

(* "0 on success, less than 0 if an error occured" (csync_update): a walk  *)
(* that succeeds has seen whatever it may look at.                         *)
SeesEverything ==
    walk = "ok" => \A e \in Entry \ seen : Above(e) \cap skipped # {}

(* Connecting comes to an end where a server offers something that the     *)
(* client sends it attempts at: it lets nobody try for ever, and no failure*)
(* is taken for one that may pass.                                         *)
ConnectEnds == (step # "idle") ~> (step = "idle")
=============================================================================
