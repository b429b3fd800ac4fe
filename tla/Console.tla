------------------------------- MODULE Console -------------------------------
(***************************************************************************)
(* The prompt of the csync program on its console (csync_auth.c): what     *)
(* csync_getpass does to the terminal and to the flags of stdin, and which *)
(* line becomes the answer.  A question for a module comes with a buffer,  *)
(* and what does not fit into it waits for the next one.                   *)
(*                                                                         *)
(* No caller asks for an answer to be verified.                            *)
(***************************************************************************)
EXTENDS Integers

CONSTANTS
    Terminals    \* stdin may be a terminal (TRUE), or a pipe or file (FALSE)

ASSUME TerminalsAssumption == Terminals \subseteq BOOLEAN

VARIABLES
    tty,       \* stdin is a terminal
    echo,      \* the terminal shows what is typed
    nonblock,  \* O_NDELAY of stdin
    before,    \* history: echo and O_NDELAY as the program has found them
    prompt,    \* the csync_getpass that is going on, or its result
    newline    \* stdin has kept the newline of a line cut short

consoleVars == <<tty, echo, nonblock, before, prompt, newline>>

(* How many characters a buffer takes with its 0: "yes" and no newline     *)
(* (short), or any line (long).                                            *)
Sizes   == {"short", "long"}
Answers == {"", "yes", "no", "right", "wrong"}
Lines(size) == {"", "yes", "no"} \cup IF size = "long" THEN {"right", "wrong"}
                                                       ELSE {}
NoPrompt == [step |-> "off", hidden |-> FALSE, size |-> "long", fd |-> "unset",
             old |-> TRUE, buf |-> "", rc |-> 0]

(* fd is the value of the variable of that name: -1 if it is never set.    *)
Prompt ==
    [step : {"off", "start", "gets", "restore", "done"}, hidden : BOOLEAN,
     size : Sizes, fd : {"unset", "block", "nonblock"}, old : BOOLEAN,
     buf : Answers, rc : {0 - 1, 0}]

ConsoleTypeOK ==
    /\ tty \in BOOLEAN /\ echo \in BOOLEAN /\ nonblock \in BOOLEAN
    /\ before \in [echo : BOOLEAN, nonblock : BOOLEAN]
    /\ prompt \in Prompt
    /\ newline \in BOOLEAN

ConsoleInit ==
    /\ tty \in Terminals
    /\ nonblock \in BOOLEAN /\ echo = TRUE
    /\ before = [echo |-> echo, nonblock |-> nonblock]
    /\ prompt = NoPrompt /\ newline = FALSE

-----------------------------------------------------------------------------
(* csync_getpass is called. *)
Ask(hidden, size) ==
    prompt' = [NoPrompt EXCEPT !.step = "start", !.hidden = hidden,
                               !.size = size]

Answered   == prompt.step = "done"
Answer     == prompt.buf
HangUp     == prompt' = NoPrompt

(* -1 has all bits set. *)
NDelay(fd) == fd \in {"unset", "nonblock"}

(* The terminal is asked for its attributes and told not to show what is   *)
(* typed; any of the three calls may fail.                                 *)
PrepareTerminal ==
    /\ prompt.step = "start" /\ tty
    /\ \/ LET fd == IF nonblock THEN "nonblock" ELSE "block"
          IN  /\ prompt' = [prompt EXCEPT !.step = "gets", !.fd = fd,
                                          !.old = echo]
              /\ echo' = (echo /\ ~prompt.hidden)
              /\ nonblock' = (nonblock /\ ~NDelay(fd))
       \/ /\ prompt' = [prompt EXCEPT !.step = "done", !.rc = 0 - 1]
          /\ UNCHANGED <<echo, nonblock>>
    /\ UNCHANGED <<tty, before, newline>>

PrepareOther ==
    /\ prompt.step = "start" /\ ~tty
    /\ prompt' = [prompt EXCEPT !.step = "gets"]
    /\ nonblock' = FALSE
    /\ UNCHANGED <<tty, echo, before, newline>>

(* fgets: the rest of the line before comes first, with nobody asked.      *)
GetsRest ==
    /\ prompt.step = "gets" /\ newline
    /\ newline' = FALSE
    /\ prompt' = [prompt EXCEPT !.step = "restore"]
    /\ UNCHANGED <<tty, echo, nonblock, before>>

GetsLine(line) ==
    /\ prompt.step = "gets" /\ ~newline
    /\ line \in Lines(prompt.size)
    /\ newline' = (prompt.size = "short" /\ line = "yes")
    /\ prompt' = [prompt EXCEPT !.step = "restore", !.buf = line]
    /\ UNCHANGED <<tty, echo, nonblock, before>>

GetsEnd ==
    /\ prompt.step = "gets" /\ ~newline
    /\ prompt' = [prompt EXCEPT !.step = "restore", !.rc = 0 - 1]
    /\ UNCHANGED <<tty, echo, nonblock, before, newline>>

(* Mutant: the terminal is put back only when there was an answer. *)
EchoIfAnswered == IF tty /\ prompt.rc = 0 THEN prompt.old ELSE echo

EchoRestored == IF tty THEN prompt.old ELSE echo

Restore ==
    /\ prompt.step = "restore"
    /\ echo' = EchoRestored
    /\ nonblock' = (nonblock \/ NDelay(prompt.fd))
    /\ prompt' = [prompt EXCEPT !.step = "done"]
    /\ UNCHANGED <<tty, before, newline>>

ConsoleStep ==
    \/ PrepareTerminal \/ PrepareOther
    \/ GetsRest \/ GetsEnd \/ (\E line \in Answers : GetsLine(line))
    \/ Restore

Quiet == prompt.step \in {"off", "done"}

(* A terminal is left as the program has found it, visible and blocking or *)
(* not, by every prompt, whether it was answered, refused or met the end   *)
(* of the input (csync_getpass has four ways out).                         *)
TerminalRestored ==
    tty /\ Quiet => before = [echo |-> echo, nonblock |-> nonblock]

(* "reset terminal" and "close fd" (csync_auth.c): stdin that is no        *)
(* terminal is left as it was, too.                                        *)
StdinRestored == Quiet => before = [echo |-> echo, nonblock |-> nonblock]

(* Whoever has to answer a question is asked it.                           *)
EveryQuestionIsAsked == ~(prompt.step = "gets" /\ newline)
=============================================================================
