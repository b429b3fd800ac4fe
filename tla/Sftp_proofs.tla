----------------------------- MODULE Sftp_proofs -----------------------------
(***************************************************************************)
(* Proofs about Sftp and the prompt of Console, for any replicas, servers, *)
(* methods and faults.                                                     *)
(***************************************************************************)
EXTENDS Sftp, TLAPS

USE ConstantsAssumption, TerminalsAssumption

-----------------------------------------------------------------------------
(* The prompt. *)

(* While a prompt goes on it knows how it has found the terminal.          *)
Restorable ==
    tty => IF prompt.step \in {"gets", "restore"}
           THEN /\ prompt.old = before.echo
                /\ prompt.fd = IF before.nonblock THEN "nonblock" ELSE "block"
                /\ nonblock = FALSE
           ELSE before = [echo |-> echo, nonblock |-> nonblock]

LEMMA PromptStep ==
  ASSUME ConsoleTypeOK, Restorable, ConsoleStep
  PROVE  ConsoleTypeOK' /\ Restorable'
<1> USE DEF ConsoleTypeOK, Prompt, Answers, Sizes, Restorable, NDelay
<1>1. CASE PrepareTerminal
  <2>1. CASE /\ prompt' = [prompt EXCEPT !.step = "done", !.rc = 0 - 1]
             /\ UNCHANGED <<echo, nonblock>>
    BY <1>1, <2>1 DEF PrepareTerminal
  <2>2. CASE LET fd == IF nonblock THEN "nonblock" ELSE "block"
             IN  /\ prompt' = [prompt EXCEPT !.step = "gets", !.fd = fd,
                                             !.old = echo]
                 /\ echo' = (echo /\ ~prompt.hidden)
                 /\ nonblock' = (nonblock /\ ~NDelay(fd))
    <3>1. prompt' \in Prompt /\ echo' \in BOOLEAN /\ nonblock' = FALSE
      BY <2>2
    <3>2. /\ prompt'.step = "gets" /\ prompt'.old = before.echo
          /\ prompt'.fd = IF before.nonblock THEN "nonblock" ELSE "block"
      <4>1. before.echo = echo /\ before.nonblock = nonblock
        <5>1. before = [echo |-> echo, nonblock |-> nonblock]
          BY <1>1 DEF PrepareTerminal
        <5> QED BY <5>1, Zenon
      <4>2. prompt'.step = "gets" /\ prompt'.old = echo
        BY <2>2
      <4>3. prompt'.fd = IF nonblock THEN "nonblock" ELSE "block"
        BY <2>2
      <4> QED BY <4>1, <4>2, <4>3
    <3>3. UNCHANGED <<tty, before, newline>>
      BY <1>1 DEF PrepareTerminal
    <3> QED BY <3>1, <3>2, <3>3
  <2> QED BY <1>1, <2>1, <2>2 DEF PrepareTerminal
<1>2. CASE PrepareOther
  BY <1>2 DEF PrepareOther
<1>3. CASE GetsRest \/ GetsEnd
  <2>1. CASE GetsRest
    BY <2>1 DEF GetsRest
  <2>2. CASE GetsEnd
    BY <2>2 DEF GetsEnd
  <2> QED BY <1>3, <2>1, <2>2
<1>4. ASSUME NEW line \in Answers, GetsLine(line)
      PROVE  ConsoleTypeOK' /\ Restorable'
  BY <1>4 DEF GetsLine
<1>5. CASE Restore
  BY <1>5 DEF Restore, EchoRestored
<1> QED BY <1>1, <1>2, <1>3, <1>4, <1>5 DEF ConsoleStep

(* Every other step starts a prompt, ends one, or leaves it alone.         *)
LEMMA PromptLeft ==
  ASSUME ConsoleTypeOK, Restorable, UNCHANGED <<tty, echo, nonblock, before>>,
         newline' \in BOOLEAN,
         \/ UNCHANGED prompt
         \/ /\ prompt.step \notin {"gets", "restore"}
            /\ \/ prompt' = NoPrompt
               \/ \E hidden \in BOOLEAN, size \in Sizes : Ask(hidden, size)
  PROVE  ConsoleTypeOK' /\ Restorable'
<1> USE DEF ConsoleTypeOK, Restorable
<1>1. NoPrompt \in Prompt /\ NoPrompt.step = "off"
  BY DEF NoPrompt, Prompt, Answers, Sizes
<1>2. CASE UNCHANGED prompt
  BY <1>2
<1>3. CASE prompt.step \notin {"gets", "restore"} /\ prompt' = NoPrompt
  BY <1>1, <1>3
<1>4. ASSUME prompt.step \notin {"gets", "restore"}, NEW hidden \in BOOLEAN,
             NEW size \in Sizes, Ask(hidden, size)
      PROVE  ConsoleTypeOK' /\ Restorable'
  <2>1. prompt' \in Prompt /\ prompt'.step = "start"
    BY <1>4 DEF Ask, NoPrompt, Prompt, Answers, Sizes
  <2> QED BY <1>4, <2>1
<1> QED BY <1>2, <1>3, <1>4

-----------------------------------------------------------------------------
(* Types. *)

(* Where the calls are: a prompt belongs to a question of the connecting,  *)
(* nothing walks meanwhile, and a walk has a directory to read from.       *)
Placed ==
    /\ prompt.step # "off" => step \in {"confirm", "answer"}
    /\ step # "idle" => who \in loaded /\ walk = "off"
    /\ step \notin {"idle", "setup"} => session = who
    /\ walk = "open" => item \in Dir \cup {Root}
    /\ walk = "stat" => item \in Entry
    /\ walk \in {"read", "stat"} => open # <<>>

Inv == TypeOK /\ Restorable /\ Placed

LEMMA InitInv == Init => Inv
<1> SUFFICES ASSUME Init PROVE Inv
  OBVIOUS
<1>1. ConsoleTypeOK /\ Restorable /\ prompt.step = "off"
  BY DEF Init, ConsoleInit, ConsoleTypeOK, Restorable, NoPrompt, Prompt,
         Answers, Sizes
<1>2. open \in Seq(Dir \cup {Root}) /\ unread \in [Dir \cup {Root} -> SUBSET Entry]
  BY DEF Init, NothingRead
<1>3. /\ loaded \subseteq Context /\ opened \subseteq loaded
      /\ who \in Context \cup {NoContext}
      /\ session \in Context \cup {"null", "freed"} /\ known \subseteq Context
      /\ channel = "null" /\ connected \in BOOLEAN /\ link = "none"
  BY DEF Init
<1>4. /\ methods \subseteq Method /\ tried \in 0 .. MaxTries /\ step \in Steps
      /\ walk = "off" /\ item \in Entry \cup {Root}
  BY DEF Init, Steps
<1>5. /\ seen \subseteq Entry /\ skipped \subseteq Entry \cup {Root}
      /\ late \in BOOLEAN /\ faults \in Nat
  BY DEF Init
<1>6. TypeOK
  BY <1>1, <1>2, <1>3, <1>4, <1>5, Zenon DEF TypeOK
<1> QED BY <1>1, <1>6 DEF Inv, Placed, Init

LEMMA LoadInv ==
  ASSUME Inv, NEW c \in Context, Load(c) \/ Unload(c) \/ StartWalk(c)
  PROVE  Inv'
<1> USE DEF Inv, Placed, TypeOK, Idle, Fault, NoFault, Steps, consoleVars,
            statics, server, walkVars
<1>1. UNCHANGED consoleVars
  BY DEF Load, Unload, StartWalk
<1>2. ConsoleTypeOK' /\ Restorable'
  BY <1>1, PromptLeft DEF ConsoleTypeOK
<1>3. CASE Load(c)
  BY <1>2, <1>3 DEF Load
<1>4. CASE Unload(c)
  BY <1>2, <1>4 DEF Unload, StaticsAfterShutdown
<1>5. CASE StartWalk(c)
  <2>1. unread' \in [Dir \cup {Root} -> SUBSET Entry]
    BY <1>5 DEF StartWalk, NothingRead
  <2>2. open' \in Seq(Dir \cup {Root})
    BY <1>5 DEF StartWalk
  <2> QED BY <1>2, <1>5, <2>1, <2>2 DEF StartWalk
<1> QED BY <1>3, <1>4, <1>5

LEMMA WalkInv ==
  ASSUME Inv, WalkStep
  PROVE  Inv'
<1> USE DEF Inv, Placed, TypeOK, Fault, NoFault, Steps, consoleVars, statics,
            server, Walking
<1>1. UNCHANGED <<consoleVars, loaded, opened, statics, server, step>>
  BY DEF WalkStep, OpenDirectory, ReadEntry, ReadEnd, StatEntry, EndWalk
<1>2. ConsoleTypeOK' /\ Restorable'
  BY <1>1, PromptLeft DEF ConsoleTypeOK
<1>3. step = "idle"
  BY DEF WalkStep, OpenDirectory, ReadEntry, ReadEnd, StatEntry, EndWalk
<1>4. CASE OpenDirectory
  <2>1. /\ open' \in Seq(Dir \cup {Root})
        /\ unread' \in [Dir \cup {Root} -> SUBSET Entry]
    <3>1. CASE /\ open' = Append(open, item)
               /\ unread' = [unread EXCEPT ![item] = Inside(item)]
      BY <1>4, <3>1 DEF OpenDirectory, Inside
    <3>2. CASE UNCHANGED <<open, unread>>
      BY <3>2
    <3> QED BY <1>4, <3>1, <3>2 DEF OpenDirectory
  <2>2. walk' \in {"read", "ok", "failed"} /\ (walk' = "read" => open' # <<>>)
    BY <1>4 DEF OpenDirectory, WalkAfter
  <2>3. /\ skipped' \subseteq Entry \cup {Root} /\ late' \in BOOLEAN
        /\ UNCHANGED <<who, item, seen>> /\ faults' \in Nat
    BY <1>4 DEF OpenDirectory
  <2> QED BY <1>1, <1>2, <1>3, <2>1, <2>2, <2>3
<1>5. ASSUME NEW e \in Entry, ReadEntry(e) PROVE Inv'
  <2>1. unread' \in [Dir \cup {Root} -> SUBSET Entry]
    BY <1>5 DEF ReadEntry
  <2> QED BY <1>1, <1>2, <1>3, <1>5, <2>1 DEF ReadEntry
<1>6. CASE ReadEnd
  <2>1. open' \in Seq(Dir \cup {Root})
    BY <1>6 DEF ReadEnd, Popped
  <2>2. walk' \in {"read", "ok"} /\ (walk' = "read" => open' # <<>>)
    BY <1>6 DEF ReadEnd, WalkAfter
  <2> QED BY <1>1, <1>2, <1>3, <1>6, <2>1, <2>2 DEF ReadEnd
<1>7. CASE StatEntry
  BY <1>1, <1>2, <1>3, <1>7 DEF StatEntry, Entry
<1>8. CASE EndWalk
  <2>1. unread' \in [Dir \cup {Root} -> SUBSET Entry] /\ open' \in Seq(Dir \cup {Root})
    BY <1>8 DEF EndWalk, NothingRead
  <2> QED BY <1>1, <1>2, <1>3, <1>8, <2>1 DEF EndWalk
<1> QED BY <1>4, <1>5, <1>6, <1>7, <1>8 DEF WalkStep

LEMMA NextMethod ==
  ASSUME NEW m \in Method \cup {"loop"}
  PROVE  AfterMethod(m) \in {"loop", "publickey", "interactive", "password"}
<1> DEFINE i    == IF m = "loop" THEN 0 ELSE CHOOSE k \in 1 .. 3 : Order[k] = m
           next == {k \in i + 1 .. 3 : Applies(Order[k])}
           k1   == CHOOSE k \in next : \A j \in next : k <= j
<1>1. AfterMethod(m) = IF next = {} THEN "loop" ELSE Order[k1]
  BY Zenon DEF AfterMethod
<1>2. i \in 0 .. 3
  <2>1. m # "loop" => \E k \in 1 .. 3 : Order[k] = m
    BY Order[1] = "publickey", Order[2] = "interactive", Order[3] = "password"
       DEF Method, Order
  <2> QED BY <2>1
<1>3. next \subseteq 1 .. 3
  <2> HIDE DEF i
  <2> QED BY <1>2
<1>4. next # {} => \E k \in next : \A j \in next : k <= j
  <2> HIDE DEF next
  <2> SUFFICES ASSUME next # {} PROVE \E k \in next : \A j \in next : k <= j
    OBVIOUS
  <2>0. \A j \in next : j \in {1, 2, 3}
    BY <1>3
  <2>1. CASE 1 \in next
    BY <2>0, <2>1
  <2>2. CASE 1 \notin next /\ 2 \in next
    BY <2>0, <2>2
  <2>3. CASE 1 \notin next /\ 2 \notin next
    BY <2>0, <2>3
  <2> QED BY <2>1, <2>2, <2>3
<1>5. next # {} => k1 \in 1 .. 3
  <2> HIDE DEF next
  <2> QED BY <1>3, <1>4
<1>6. \A k \in 1 .. 3 : Order[k] \in {"publickey", "interactive", "password"}
  BY DEF Order
<1> HIDE DEF next, k1
<1> QED BY <1>1, <1>5, <1>6

(* What the attempts to log in leave. *)
LoggingIn ==
    /\ step' \in {"idle", "loop", "publickey", "interactive", "password", "sftp"}
    /\ step' # "idle" => who' \in loaded /\ session' = who'
    /\ who' \in Context \cup {NoContext}
    /\ session' \in Context \cup {"null", "freed"}
    /\ link' \in {"none", "up", "lost"}
    /\ tried' \in 0 .. MaxTries
    /\ UNCHANGED <<channel, connected>>

LEMMA AttemptTypes ==
  ASSUME Inv, step \notin {"idle", "setup"}, NEW m \in Method, NEW accepts \in BOOLEAN, Attempt(m, accepts)
  PROVE  LoggingIn
<1> USE DEF Inv, TypeOK, Placed, LoggingIn, Go, Disconnect, GiveUp
<1>1. CASE link = "up" /\ tried < MaxTries /\ Go("sftp")
           /\ UNCHANGED <<tried, channel, connected>>
  BY <1>1
<1>2. CASE Refused /\ Go(AfterMethod(m)) /\ UNCHANGED <<channel, connected>>
  BY <1>2, NextMethod DEF Refused
<1>3. CASE HungUp /\ AfterError(m)
  BY <1>3 DEF HungUp, AfterError
<1> QED BY <1>1, <1>2, <1>3 DEF Attempt

LEMMA SetUpInv ==
  ASSUME Inv, SetUp \/ Connect \/ StartSftp \/ Loop \/ AuthNone
  PROVE  Inv'
<1> USE DEF Inv, Placed, TypeOK, Connecting, GiveUp, Disconnect, Go, Fault,
            NoFault, Steps, consoleVars, walkVars, statics, server, AuthVars
<1>1. UNCHANGED consoleVars
  BY DEF SetUp, Connect, StartSftp, Loop, AuthNone
<1>2. ConsoleTypeOK' /\ Restorable'
  BY <1>1, PromptLeft DEF ConsoleTypeOK
<1>3. CASE SetUp
  <2>1. opened' \subseteq loaded' /\ loaded' \subseteq Context
    BY <1>3 DEF SetUp
  <2>2. session' \in Context \cup {"null", "freed"} /\ faults' \in Nat
    BY <1>3 DEF SetUp
  <2>3. /\ step' \in {"idle", "connect"} /\ who' \in Context \cup {NoContext}
        /\ step' # "idle" => session' = who' /\ who' \in Context
        /\ UNCHANGED <<channel, connected, server, walkVars>>
    BY <1>3 DEF SetUp
  <2> QED BY <1>1, <1>2, <1>3, <2>1, <2>2, <2>3 DEF SetUp
<1>4. CASE Connect
  <2>1. methods' \subseteq Method /\ tried' \in 0 .. MaxTries
    <3>1. who \in Context
      BY <1>4 DEF Connect
    <3>2. Offers[who] \subseteq SUBSET Method
      BY <3>1
    <3> QED BY <1>4, <3>2 DEF Connect
  <2>2. /\ step' \in {"idle", "host"} /\ UNCHANGED <<channel, connected>>
        /\ who' \in Context \cup {NoContext} /\ link' \in {"none", "up"}
        /\ session' \in Context \cup {"null", "freed"}
        /\ step' # "idle" => who' \in loaded /\ session' = who'
        /\ UNCHANGED <<loaded, opened, known, walkVars>> /\ walk' = "off"
        /\ prompt'.step = "off" /\ faults' \in Nat
    BY <1>1, <1>4 DEF Connect
  <2> QED BY <1>2, <2>1, <2>2
<1>5. CASE StartSftp
  <2>1. opened' \subseteq loaded' /\ loaded' \subseteq Context
    BY <1>5 DEF StartSftp
  <2>2. channel' \in {"null", "made", "ready"} /\ connected' \in BOOLEAN
    BY <1>5 DEF StartSftp
  <2>3. step' = "idle" /\ who' = NoContext /\ faults' \in Nat
    BY <1>5 DEF StartSftp
  <2>4. UNCHANGED <<session, server, walkVars>>
    BY <1>5 DEF StartSftp
  <2>5. prompt'.step = "off" /\ walk' = "off"
    BY <1>1, <1>5 DEF StartSftp
  <2> QED BY <1>2, <2>1, <2>2, <2>3, <2>4, <2>5
<1>6. CASE Loop
  BY <1>1, <1>2, <1>6, NextMethod DEF Loop
<1>7. CASE AuthNone
  BY <1>1, <1>2, <1>7 DEF AuthNone
<1> QED BY <1>3, <1>4, <1>5, <1>6, <1>7

LEMMA HostInv ==
  ASSUME Inv, CheckHost \/ Confirm
  PROVE  Inv'
<1> USE DEF Inv, Placed, TypeOK, Connecting, GiveUp, Disconnect, Go, Fault,
            NoFault, Steps, walkVars, statics
<1>1. CASE CheckHost
  <2>1. UNCHANGED prompt \/ (step' = "confirm" /\ Ask(FALSE, "short"))
    BY <1>1 DEF CheckHost
  <2>2. ConsoleTypeOK' /\ Restorable'
    BY <1>1, <2>1, PromptLeft DEF CheckHost, ConsoleTypeOK, Sizes
  <2>3. prompt'.step # "off" => step' = "confirm"
    BY <1>1, <2>1 DEF CheckHost
  <2>4. /\ step' \in {"idle", "none", "confirm"}
        /\ step' # "idle" => who' \in loaded /\ session' = who'
        /\ who' \in Context \cup {NoContext}
    BY <1>1 DEF CheckHost
  <2>5. session' \in Context \cup {"null", "freed"} /\ faults' \in Nat
    <3>1. session' \in {session, "null"} /\ faults' \in {faults, faults + 1}
      BY <1>1 DEF CheckHost
    <3> QED BY <3>1
  <2>6. link' \in {"none", "up", "lost"} /\ walk' = "off"
    BY <1>1 DEF CheckHost
  <2>7. UNCHANGED <<loaded, opened, channel, connected, known, methods, tried,
                    walkVars>>
    BY <1>1 DEF CheckHost
  <2> QED BY <2>2, <2>3, <2>4, <2>5, <2>6, <2>7
<1>2. CASE Confirm
  <2>1. ConsoleTypeOK' /\ Restorable' /\ prompt'.step = "off"
    BY <1>2, PromptLeft DEF Confirm, HangUp, Answered, ConsoleTypeOK, NoPrompt
  <2>2. known' \subseteq Context
    <3>1. session \in Context
      BY <1>2 DEF Confirm
    <3> QED BY <1>2, <3>1 DEF Confirm
  <2> QED BY <1>2, <2>1, <2>2 DEF Confirm
<1> QED BY <1>1, <1>2

LEMMA AuthInv ==
  ASSUME Inv, AuthPublicKey \/ AuthInteractive \/ GiveAnswer \/ AuthPassword
  PROVE  Inv'
<1> USE DEF Inv, Placed, TypeOK, Connecting, Go, NoFault, Steps, consoleVars,
            walkVars, AuthVars
<1>1. /\ step \notin {"idle", "setup"} /\ walk = "off"
      /\ UNCHANGED <<tty, echo, nonblock, before, newline, loaded, opened,
                     known, methods, walkVars, faults>>
  BY DEF AuthPublicKey, AuthInteractive, GiveAnswer, AuthPassword
<1>2. ASSUME LoggingIn, prompt'.step = "off", ConsoleTypeOK', Restorable'
      PROVE  Inv'
  BY <1>1, <1>2 DEF LoggingIn
<1>3. CASE AuthPublicKey
  <2>1. LoggingIn
    <3>1. CASE \E right \in BOOLEAN : Attempt("publickey", right)
      BY <1>1, <3>1, AttemptTypes DEF Method
    <3>2. CASE /\ Go(AfterMethod("publickey"))
               /\ UNCHANGED <<tried, channel, connected>>
      BY <1>1, <3>2, NextMethod DEF LoggingIn, Method
    <3> QED BY <1>3, <3>1, <3>2 DEF AuthPublicKey
  <2>2. ConsoleTypeOK' /\ Restorable' /\ prompt'.step = "off"
    BY <1>3, PromptLeft DEF AuthPublicKey, ConsoleTypeOK
  <2> QED BY <1>2, <2>1, <2>2
<1>4. CASE AuthPassword
  <2>1. LoggingIn
    BY <1>1, <1>4, AttemptTypes DEF AuthPassword, Method
  <2>2. ConsoleTypeOK' /\ Restorable' /\ prompt'.step = "off"
    BY <1>4, PromptLeft DEF AuthPassword, ConsoleTypeOK
  <2> QED BY <1>2, <2>1, <2>2
<1>5. CASE GiveAnswer
  <2>1. LoggingIn
    <3>1. (prompt.rc = 0 /\ Answer = "right") \in BOOLEAN
      OBVIOUS
    <3> QED BY <1>1, <1>5, <3>1, AttemptTypes DEF GiveAnswer, Method
  <2>2. ConsoleTypeOK' /\ Restorable' /\ prompt'.step = "off"
    BY <1>1, <1>5, PromptLeft DEF GiveAnswer, HangUp, Answered, NoPrompt, ConsoleTypeOK
  <2> QED BY <1>2, <2>1, <2>2
<1>6. CASE AuthInteractive
  <2>1. CASE UNCHANGED prompt /\ Attempt("interactive", Password[who] = "right")
    <3>1. LoggingIn
      BY <1>1, <2>1, AttemptTypes DEF Method
    <3>2. ConsoleTypeOK' /\ Restorable' /\ prompt'.step = "off"
      BY <1>1, <1>6, <2>1, PromptLeft DEF AuthInteractive, ConsoleTypeOK
    <3> QED BY <1>2, <3>1, <3>2
  <2>2. CASE UNCHANGED prompt /\ HungUp /\ AfterError("interactive")
    <3>1. LoggingIn
      BY <1>1, <2>2 DEF LoggingIn, HungUp, AfterError, Disconnect, GiveUp
    <3>2. ConsoleTypeOK' /\ Restorable' /\ prompt'.step = "off"
      BY <1>1, <1>6, <2>2, PromptLeft DEF AuthInteractive, ConsoleTypeOK
    <3> QED BY <1>2, <3>1, <3>2
  <2>3. CASE Go("answer") /\ Ask(TRUE, "long") /\ UNCHANGED <<tried, channel, connected>>
    <3>1. ConsoleTypeOK' /\ Restorable'
      BY <1>1, <1>6, <2>3, PromptLeft DEF AuthInteractive, ConsoleTypeOK, Sizes
    <3> QED BY <1>1, <2>3, <3>1
  <2>4. CASE Go("crashed") /\ UNCHANGED prompt /\ UNCHANGED <<tried, channel, connected>>
    <3>1. ConsoleTypeOK' /\ Restorable' /\ prompt'.step = "off"
      BY <1>1, <1>6, <2>4, PromptLeft DEF AuthInteractive, ConsoleTypeOK
    <3> QED BY <1>1, <2>4, <3>1
  <2> QED BY <1>6, <2>1, <2>2, <2>3, <2>4 DEF AuthInteractive
<1> QED BY <1>3, <1>4, <1>5, <1>6

LEMMA KillInv ==
  ASSUME Inv, Kill
  PROVE  Inv'
<1> USE DEF Inv, Placed, TypeOK, GiveUp, Fault, Steps, walkVars
<1>1. /\ UNCHANGED <<tty, echo, nonblock, known, methods, tried, walkVars>>
      /\ before' = [echo |-> echo, nonblock |-> nonblock]
      /\ prompt' = NoPrompt /\ newline' = FALSE /\ walk = "off"
  BY DEF Kill, HangUp
<1>2. ConsoleTypeOK' /\ Restorable' /\ prompt'.step = "off"
  BY <1>1 DEF ConsoleTypeOK, Restorable, NoPrompt, Prompt, Answers, Sizes
<1>3. /\ loaded' = {} /\ opened' = {} /\ who' = NoContext /\ session' = "null"
      /\ channel' = "null" /\ connected' = FALSE /\ link' = "none"
      /\ step' = "idle" /\ faults' \in Nat
  BY DEF Kill
<1> QED BY <1>1, <1>2, <1>3

LEMMA StepInv == Inv /\ [Next]_vars => Inv'
<1> SUFFICES ASSUME Inv, [Next]_vars PROVE Inv'
  OBVIOUS
<1>1. ASSUME NEW c \in Context, Load(c) \/ Unload(c) \/ StartWalk(c)
      PROVE  Inv'
  BY <1>1, LoadInv
<1>2. CASE ConnectStep
  BY <1>2, SetUpInv, HostInv, AuthInv DEF ConnectStep
<1>3. CASE Prompting
  <2>1. ConsoleTypeOK' /\ Restorable' /\ prompt.step # "off"
    BY <1>3, PromptStep
       DEF Inv, TypeOK, Prompting, ConsoleStep, PrepareTerminal, PrepareOther,
           GetsRest, GetsLine, GetsEnd, Restore
  <2> QED
    BY <1>3, <2>1 DEF Prompting, Inv, Placed, TypeOK, statics, server, walkVars
<1>4. CASE WalkStep
  BY <1>4, WalkInv
<1>5. CASE Lose
  <2>1. ConsoleTypeOK' /\ Restorable'
    BY <1>5, PromptLeft DEF Lose, Inv, TypeOK, consoleVars, ConsoleTypeOK
  <2> QED
    BY <1>5, <2>1
       DEF Lose, Inv, Placed, TypeOK, statics, walkVars, consoleVars, Fault
<1>6. CASE Kill
  BY <1>6, KillInv
<1>7. CASE UNCHANGED vars
  <2>1. ConsoleTypeOK' /\ Restorable'
    BY <1>7, PromptLeft DEF vars, Inv, TypeOK, consoleVars, ConsoleTypeOK
  <2> QED BY <1>7, <2>1 DEF vars, Inv, Placed, TypeOK, consoleVars
<1> QED BY <1>1, <1>2, <1>3, <1>4, <1>5, <1>6, <1>7 DEF Next

LEMMA Always == Spec => []Inv
BY InitInv, StepInv, PTL DEF Spec

(* Every state of loading, connecting, asking and walking has the types of *)
(* TypeOK.                                                                 *)
THEOREM TypeCorrect == Spec => []TypeOK
<1>1. Inv => TypeOK
  BY DEF Inv
<1> QED BY <1>1, Always, PTL

(* Whatever server, methods, answers, failing calls and kills: between two *)
(* prompts the terminal is as the process has found it (TerminalRestored). *)
THEOREM TerminalIsRestored == Spec => []TerminalRestored
<1>1. Inv => TerminalRestored
  BY DEF Inv, Restorable, TerminalRestored, Quiet
<1> QED BY <1>1, Always, PTL

-----------------------------------------------------------------------------
(* The statics of the module serve the one context that has it loaded.     *)
Single ==
    /\ \A c, d \in loaded : c = d
    /\ loaded = {} => session = "null" /\ ~connected
    /\ step # "idle" => opened = {} /\ ~connected
    /\ \A c \in opened : session = c
    /\ walk # "off" => who \in opened

LEMMA StepSingle ==
  ASSUME "together" \notin Features, Inv, Single, [Next]_vars
  PROVE  Single'
<1> USE DEF Inv, Placed, TypeOK, Single, GiveUp, Disconnect, Go
<1>1. ASSUME NEW c \in Context, Load(c) PROVE Single'
  BY <1>1 DEF Load, Idle, statics, walkVars
<1>2. ASSUME NEW c \in Context, Unload(c) PROVE Single'
  BY <1>2 DEF Unload, Idle, StaticsAfterShutdown, walkVars
<1>3. ASSUME NEW c \in Context, StartWalk(c) PROVE Single'
  BY <1>3 DEF StartWalk, Idle, statics
<1>4. CASE SetUp
  BY <1>4 DEF SetUp, Connecting, walkVars
<1>5. ASSUME step # "idle", UNCHANGED <<loaded, opened, connected, walkVars>>
      PROVE  Single'
  BY <1>5 DEF walkVars
<1>6. CASE Connect \/ CheckHost \/ Confirm \/ AuthNone \/ Loop
  BY <1>5, <1>6 DEF Connect, CheckHost, Confirm, AuthNone, Loop, Connecting,
                    AuthVars, statics
<1>7. CASE AuthPublicKey \/ AuthInteractive \/ GiveAnswer \/ AuthPassword
  <2>1. \A m, accepts : Attempt(m, accepts) => UNCHANGED connected
    BY DEF Attempt, AfterError
  <2> QED
    BY <1>5, <1>7, <2>1
       DEF AuthPublicKey, AuthInteractive, GiveAnswer, AuthPassword, AfterError,
           Connecting, AuthVars
<1>8. CASE StartSftp
  BY <1>8 DEF StartSftp, Connecting, walkVars
<1>9. CASE Prompting \/ Lose
  BY <1>9 DEF Prompting, Lose, statics, walkVars
<1>10. CASE WalkStep
  BY <1>10 DEF WalkStep, OpenDirectory, ReadEntry, ReadEnd, StatEntry, EndWalk,
               Walking, statics
<1>11. CASE Kill
  BY <1>11 DEF Kill, walkVars
<1>12. CASE UNCHANGED vars
  BY <1>12 DEF vars
<1> QED
  BY <1>1, <1>2, <1>3, <1>4, <1>5, <1>6, <1>7, <1>8, <1>9, <1>10, <1>11, <1>12
     DEF Next, ConnectStep

(* A process that has the module loaded for one context at a time, as the  *)
(* csync program does, only ever talks to the server of that context       *)
(* (OwnServer), whatever is loaded and unloaded and whatever fails.        *)
THEOREM ServerIsOwn ==
  ASSUME "together" \notin Features
  PROVE  Spec => []OwnServer
<1>1. Init => Single
  BY DEF Init, Single
<1>2. Inv /\ Single => OwnServer
  BY DEF Inv, Placed, Single, OwnServer
<1>3. Inv /\ Single /\ [Next]_vars => Single'
  BY StepSingle
<1> QED BY <1>1, <1>2, <1>3, Always, PTL DEF Spec

-----------------------------------------------------------------------------
(* The directories above an entry. *)

(* They go up to the replica itself, as no directories go round in circles.*)
LEMMA UpToRoot ==
  ASSUME NEW e \in Entry
  PROVE  Root \in Above(e)
<1> SUFFICES ASSUME NEW S \in SUBSET (Entry \cup {Root}), e \in S, Upward(S),
                    Root \notin S
             PROVE  FALSE
  BY DEF Above
<1> DEFINE D == S \cap Dir
<1>1. \A x \in S : Parent[x] \in D
  BY DEF Upward
<1>2. D # {}
  BY <1>1
<1>3. PICK d \in D : Parent[d] \notin D
  BY <1>2
<1> QED BY <1>1, <1>3

(* An entry is above itself, and what is above it is below its parent.     *)
LEMMA AboveIsUpward ==
  ASSUME NEW e \in Entry
  PROVE  e \in Above(e) /\ Upward(Above(e)) /\ Above(e) \subseteq Entry \cup {Root}
<1>1. e \in Above(e) /\ Above(e) \subseteq Entry \cup {Root}
  BY DEF Above
<1>2. ASSUME NEW x \in Above(e) \cap Entry
      PROVE  Parent[x] \in Above(e)
  <2>1. Parent[x] \in Entry \cup {Root}
    BY DEF Entry
  <2>2. ASSUME NEW S \in SUBSET (Entry \cup {Root}), e \in S, Upward(S)
        PROVE  Parent[x] \in S
    <3>1. x \in S
      BY <2>2 DEF Above
    <3> QED BY <2>2, <3>1 DEF Upward
  <2> QED BY <2>1, <2>2 DEF Above
<1> QED BY <1>1, <1>2 DEF Upward

(* Nothing else is: the way down to the entry starts with one inside.      *)
LEMMA WayDown ==
  ASSUME NEW e \in Entry, NEW x \in Above(e), x # e
  PROVE  \E y \in Above(e) \cap Entry : Parent[y] = x
<1> SUFFICES ASSUME \A y \in Above(e) \cap Entry : Parent[y] # x
             PROVE  FALSE
  OBVIOUS
<1> DEFINE S == Above(e) \ {x}
<1>1. S \in SUBSET (Entry \cup {Root}) /\ e \in S
  BY AboveIsUpward
<1>2. Upward(S)
  BY AboveIsUpward DEF Upward
<1>3. x \in S
  BY <1>1, <1>2 DEF Above
<1> QED BY <1>3

-----------------------------------------------------------------------------
(* What a walk has seen.  An entry that it has not seen is, or is below,   *)
(* something that it has still to do or that it could not look at, unless  *)
(* the connection has been lost; and it opens nothing after that.          *)

Waiting(x) == \/ walk \in {"open", "stat"} /\ x = item
              \/ \E d \in Dir \cup {Root} : x \in unread[d]

Opened(d)  == \E i \in 1 .. Len(open) : open[i] = d

Accounted(e) == e \in seen \/ \E x \in Above(e) : x \in skipped \/ Waiting(x)

Accounts ==
    walk \notin {"off", "failed"} =>
        /\ late = FALSE
        /\ walk = "ok" => open = <<>>
        /\ \A d \in Dir \cup {Root} : unread[d] \subseteq Inside(d)
        /\ walk = "open" /\ item # Root => item \in seen
        /\ link # "lost" =>
            /\ open # <<>> => Served
            /\ \A d \in Dir \cup {Root} : unread[d] # {} => Opened(d)
            /\ \A e \in Entry : Accounted(e)

(* At its end nothing is left to do.                                       *)
LEMMA AccountsAtEnd ==
  ASSUME Inv, Accounts
  PROVE  MissesOnlyTheRest
<1> SUFFICES ASSUME walk = "ok", ~(link = "lost" /\ ~late),
                    NEW e \in Entry \ seen
             PROVE  Above(e) \cap skipped # {}
  BY DEF MissesOnlyTheRest
<1>1. /\ late = FALSE /\ link # "lost" /\ open = <<>>
      /\ \A d \in Dir \cup {Root} : unread[d] # {} => Opened(d)
      /\ Accounted(e)
  BY DEF Accounts
<1>2. \A d : ~Opened(d)
  BY <1>1 DEF Opened
<1>3. \A x : ~Waiting(x)
  BY <1>1, <1>2 DEF Waiting
<1> QED BY <1>1, <1>3 DEF Accounted

(* It starts with everything to do.                                        *)
LEMMA StartAccounts ==
  ASSUME Inv, NEW c \in Context, StartWalk(c)
  PROVE  Accounts'
<1>1. /\ walk' = "open" /\ item' = Root /\ open' = <<>> /\ late' = FALSE
      /\ unread' = [d \in Dir \cup {Root} |-> {}]
  BY DEF StartWalk, NothingRead
<1>2. Waiting(Root)'
  BY <1>1 DEF Waiting
<1>3. \A e \in Entry : Accounted(e)'
  BY <1>2, UpToRoot DEF Accounted
<1> QED BY <1>1, <1>3 DEF Accounts

(* Requests leave the connection alone.                                    *)
LEMMA WalkFrame ==
  ASSUME WalkStep
  PROVE  link' = link /\ (Served' <=> Served)
BY DEF WalkStep, OpenDirectory, ReadEntry, ReadEnd, StatEntry, EndWalk, Walking,
       statics, server, Served

(* A directory that was opened has its entries to do instead of it.        *)
LEMMA OpenAccounts ==
  ASSUME Inv, Accounts, OpenDirectory
  PROVE  Accounts'
<1>1. /\ walk = "open" /\ item \in Dir \cup {Root} /\ UNCHANGED <<item, seen>>
      /\ late = FALSE /\ (item # Root => item \in seen)
      /\ open \in Seq(Dir \cup {Root})
      /\ unread \in [Dir \cup {Root} -> SUBSET Entry]
  BY DEF OpenDirectory, Walking, Inv, Placed, TypeOK, Accounts
<1>2. link' = link /\ (Served' <=> Served)
  BY WalkFrame DEF WalkStep
<1>3. CASE /\ open' = Append(open, item) /\ Served
           /\ unread' = [unread EXCEPT ![item] = Inside(item)]
           /\ walk' = "read" /\ late' = late /\ UNCHANGED skipped
  <2>1. /\ \A d \in Dir \cup {Root} : unread'[d] \subseteq Inside(d)
        /\ unread'[item] = Inside(item)
        /\ \A d \in Dir \cup {Root} : d # item => unread'[d] = unread[d]
    BY <1>1, <1>3 DEF Accounts
  <2>2. /\ \A d : Opened(d) => Opened(d)'
        /\ Opened(item)'
    <3>1. /\ Len(open') = Len(open) + 1 /\ Len(open) \in Nat
          /\ open'[Len(open) + 1] = item
          /\ \A i \in 1 .. Len(open) : open'[i] = open[i]
      BY <1>1, <1>3
    <3> QED BY <1>1, <3>1 DEF Opened
  <2>3. ASSUME link # "lost"
        PROVE  \A e \in Entry : Accounted(e)'
    <3>1. SUFFICES ASSUME NEW e \in Entry, e \notin seen
                   PROVE  Accounted(e)'
      BY <1>1 DEF Accounted
    <3>2. PICK x \in Above(e) : x \in skipped \/ Waiting(x)
      BY <1>1, <2>3, <3>1 DEF Accounts, Accounted
    <3>3. CASE x \in skipped
      BY <1>3, <3>2, <3>3 DEF Accounted
    <3>4. CASE x = item
      <4>1. item # e
        BY <1>1, <3>1 DEF Accounts, Entry
      <4>2. PICK y \in Above(e) \cap Entry : Parent[y] = item
        BY <3>4, <4>1, WayDown
      <4>3. y \in unread'[item]
        BY <2>1, <4>2 DEF Inside
      <4> QED BY <1>1, <4>2, <4>3 DEF Accounted, Waiting
    <3>5. ASSUME NEW d \in Dir \cup {Root}, x \in unread[d]
          PROVE  Accounted(e)'
      <4>1. x \in Inside(d)
        BY <1>1, <3>5 DEF Accounts
      <4>2. x \in unread'[d]
        BY <2>1, <3>5, <4>1
      <4> QED BY <4>2 DEF Accounted, Waiting
    <3> QED BY <3>2, <3>3, <3>4, <3>5 DEF Waiting
  <2>4. link # "lost" => \A d \in Dir \cup {Root} : unread'[d] # {} => Opened(d)'
    BY <1>1, <2>1, <2>2 DEF Accounts
  <2> QED BY <1>1, <1>2, <1>3, <2>1, <2>3, <2>4 DEF Accounts
<1>4. CASE /\ UNCHANGED <<open, unread>> /\ late' = late
           /\ walk' = WalkAfter(open) /\ skipped' = skipped \cup {item}
  <2>1. walk' \in {"ok", "read"} /\ (walk' = "ok" => open = <<>>)
    BY <1>4 DEF WalkAfter
  <2>2. ASSUME link # "lost"
        PROVE  \A e \in Entry : Accounted(e)'
    BY <1>1, <1>4, <2>2 DEF Accounts, Accounted, Waiting
  <2> QED BY <1>1, <1>2, <1>4, <2>1, <2>2 DEF Accounts, Opened
<1>5. CASE walk' = "failed"
  BY <1>5 DEF Accounts
<1> QED
  <2>1. PICK status \in {"OK", "PERMISSION_DENIED", "NO_SUCH_FILE",
                         "CONNECTION_LOST"} :
          /\ (status = "CONNECTION_LOST") <=> ~Served
          /\ IF status = "OK"
             THEN /\ open' = Append(open, item)
                  /\ unread' = [unread EXCEPT ![item] = Inside(item)]
                  /\ walk' = "read"
                  /\ UNCHANGED skipped
             ELSE /\ IF NotOurs(Errno(status))
                     THEN walk' = WalkAfter(open) /\ skipped' = skipped \cup {item}
                     ELSE walk' = "failed" /\ UNCHANGED skipped
                  /\ UNCHANGED <<open, unread>>
          /\ late' = (late \/ status = "CONNECTION_LOST")
    BY DEF OpenDirectory
  <2>2. status = "CONNECTION_LOST" => ~NotOurs(Errno(status))
    BY DEF NotOurs, Errno
  <2>3. status # "CONNECTION_LOST" => late' = late
    BY <1>1, <2>1
  <2> QED BY <1>3, <1>4, <1>5, <2>1, <2>2, <2>3

(* An entry that was read is to be stat'ed.                                *)
LEMMA ReadAccounts ==
  ASSUME Inv, Accounts, NEW e \in Entry, ReadEntry(e)
  PROVE  Accounts'
<1>1. /\ walk = "read" /\ walk' = "stat" /\ item' = e
      /\ UNCHANGED <<open, seen, skipped, late>>
      /\ Top \in Dir \cup {Root}
      /\ unread' = [unread EXCEPT ![Top] = @ \ {e}]
      /\ unread \in [Dir \cup {Root} -> SUBSET Entry]
  <2>1. open \in Seq(Dir \cup {Root}) /\ open # <<>>
    BY DEF ReadEntry, Walking, Inv, Placed, TypeOK
  <2>2. Top \in Dir \cup {Root}
    BY <2>1 DEF Top
  <2> QED BY <2>2 DEF ReadEntry, Walking, Inv, TypeOK
<1>2. link' = link /\ (Served' <=> Served)
  BY WalkFrame DEF WalkStep
<1>3. \A d \in Dir \cup {Root} :
         unread'[d] \subseteq unread[d] /\ unread[d] \subseteq unread'[d] \cup {e}
  BY <1>1
<1>4. \A x : Waiting(x) => Waiting(x)'
  BY <1>1, <1>3 DEF Waiting
<1>5. link # "lost" => \A a \in Entry : Accounted(a)'
  BY <1>1, <1>4 DEF Accounts, Accounted
<1> QED BY <1>1, <1>2, <1>3, <1>5 DEF Accounts, Opened

(* A directory comes to its end with nothing left to read of it, or after  *)
(* the connection.                                                         *)
LEMMA EndAccounts ==
  ASSUME Inv, Accounts, ReadEnd
  PROVE  Accounts'
<1>1. /\ walk = "read" /\ walk' = WalkAfter(Popped) /\ open' = Popped
      /\ UNCHANGED <<unread, item, seen, skipped, late>>
      /\ open \in Seq(Dir \cup {Root}) /\ open # <<>>
      /\ unread[Top] = {} \/ ~Served
  BY DEF ReadEnd, Walking, Inv, Placed, TypeOK
<1>2. link' = link /\ (Served' <=> Served)
  BY WalkFrame DEF WalkStep
<1>3. walk' \in {"ok", "read"} /\ (walk' = "ok" => open' = <<>>)
  BY <1>1 DEF WalkAfter
<1>4. ASSUME link # "lost", NEW d \in Dir \cup {Root}, unread[d] # {}
      PROVE  Opened(d)'
  <2>1. unread[Top] = {}
    BY <1>1, <1>4 DEF Accounts
  <2>2. PICK i \in 1 .. Len(open) : open[i] = d
    BY <1>1, <1>4 DEF Accounts, Opened
  <2>3. i # Len(open)
    BY <1>4, <2>1, <2>2 DEF Top
  <2>4. Len(open) \in Nat
    BY <1>1
  <2>5. i \in 1 .. Len(open) - 1
    BY <2>2, <2>3, <2>4
  <2>6. Len(Popped) = Len(open) - 1 /\ Popped[i] = open[i]
    BY <1>1, <2>4, <2>5 DEF Popped
  <2> QED BY <1>1, <2>2, <2>5, <2>6 DEF Opened
<1>5. link # "lost" => \A a \in Entry : Accounted(a)'
  BY <1>1, <1>3 DEF Accounts, Accounted, Waiting
<1> QED BY <1>1, <1>2, <1>3, <1>4, <1>5 DEF Accounts

(* What was stat'ed is seen or passed over; a file has nothing below it.   *)
LEMMA StatAccounts ==
  ASSUME Inv, Accounts, StatEntry
  PROVE  Accounts'
<1>1. /\ walk = "stat" /\ item \in Entry /\ open # <<>>
      /\ UNCHANGED <<open, unread, item, late>>
      /\ walk' \in {"open", "read"}
  BY DEF StatEntry, Walking, Inv, Placed
<1>2. link' = link /\ (Served' <=> Served)
  BY WalkFrame DEF WalkStep
<1>3. \A x : Waiting(x) => Waiting(x)' \/ x = item
  BY <1>1 DEF Waiting
<1>4. CASE /\ seen' = seen \cup {item} /\ UNCHANGED skipped
           /\ walk' = IF item \in Dir THEN "open" ELSE "read"
  <2>1. ASSUME link # "lost", NEW e \in Entry
        PROVE  Accounted(e)'
    <3>1. CASE e \in seen'
      BY <3>1 DEF Accounted
    <3>2. CASE e \notin seen'
      <4>1. PICK x \in Above(e) : x \in skipped \/ Waiting(x)
        BY <1>1, <1>4, <2>1, <3>2 DEF Accounts, Accounted
      <4>2. CASE x = item
        <5>1. \E y \in Above(e) \cap Entry : Parent[y] = item
          BY <1>4, <3>2, <4>1, <4>2, WayDown
        <5>2. item \in Dir
          BY <1>1, <5>1 DEF Entry
        <5>3. Waiting(x)'
          BY <1>1, <1>4, <4>2, <5>2 DEF Waiting
        <5> QED BY <4>1, <5>3 DEF Accounted
      <4>3. CASE x # item
        BY <1>3, <1>4, <4>1, <4>3 DEF Accounted
      <4> QED BY <4>2, <4>3
    <3> QED BY <3>1, <3>2
  <2> QED BY <1>1, <1>2, <1>4, <2>1 DEF Accounts, Opened
<1>5. CASE /\ seen' = seen /\ walk' = "read"
           /\ IF Served THEN skipped' = skipped \cup {item} ELSE UNCHANGED skipped
  <2>1. ASSUME link # "lost", NEW e \in Entry
        PROVE  Accounted(e)'
    <3>1. Served
      BY <1>1, <2>1 DEF Accounts
    <3> QED BY <1>1, <1>3, <1>5, <2>1, <3>1 DEF Accounts, Accounted
  <2> QED BY <1>1, <1>2, <1>5, <2>1 DEF Accounts, Opened
<1> QED BY <1>4, <1>5 DEF StatEntry

LEMMA StepAccounts ==
  ASSUME Inv, Accounts, [Next]_vars
  PROVE  Accounts'
<1>1. CASE walk' = "off"
  BY <1>1 DEF Accounts
<1>2. ASSUME NEW c \in Context, StartWalk(c) PROVE Accounts'
  BY <1>2, StartAccounts
<1>3. CASE WalkStep
  <2>1. EndWalk => walk' = "off"
    BY DEF EndWalk
  <2> QED BY <1>1, <1>3, <2>1, OpenAccounts, ReadAccounts, EndAccounts,
             StatAccounts DEF WalkStep
<1>4. CASE UNCHANGED walkVars /\ UNCHANGED <<link, session>>
  BY <1>4 DEF walkVars, Accounts, Accounted, Waiting, Opened, Served
<1>5. CASE walk = "off" /\ UNCHANGED walkVars
  BY <1>5 DEF walkVars, Accounts
<1>6. CASE Lose
  BY <1>6 DEF Lose, walkVars, Accounts
<1>7. ASSUME NEW c \in Context, Load(c) \/ Unload(c)
      PROVE  walk = "off" /\ UNCHANGED walkVars
  BY <1>7 DEF Load, Unload, Idle
<1>8. CASE ConnectStep
  <2>1. step # "idle" /\ UNCHANGED walkVars
    BY <1>8 DEF ConnectStep, SetUp, Connect, CheckHost, Confirm, AuthNone, Loop,
                AuthPublicKey, AuthInteractive, GiveAnswer, AuthPassword,
                StartSftp, Connecting
  <2> QED BY <1>5, <2>1 DEF Inv, Placed
<1>9. CASE Prompting
  BY <1>4, <1>9 DEF Prompting, statics, server
<1>10. CASE Kill
  <2>1. prompt.step # "off" /\ UNCHANGED walkVars
    BY <1>10 DEF Kill
  <2> QED BY <1>5, <2>1 DEF Inv, Placed
<1>11. CASE UNCHANGED vars
  BY <1>4, <1>11 DEF vars, walkVars
<1> QED BY <1>2, <1>3, <1>5, <1>6, <1>7, <1>8, <1>9, <1>10, <1>11 DEF Next

(* A walk that succeeds has seen every entry of any tree, but for those    *)
(* below what could not be opened or looked at, and for a connection that  *)
(* was lost after the last opendir (MissesOnlyTheRest): with any number of *)
(* contexts in the process and whatever else fails.                        *)
THEOREM NothingElseIsMissed == Spec => []MissesOnlyTheRest
<1>1. Init => Accounts
  BY DEF Init, Accounts
<1>2. Inv /\ Accounts /\ [Next]_vars => Accounts'
  BY StepAccounts
<1>3. Inv /\ Accounts => MissesOnlyTheRest
  BY AccountsAtEnd
<1> QED BY <1>1, <1>2, <1>3, Always, PTL DEF Spec
=============================================================================
