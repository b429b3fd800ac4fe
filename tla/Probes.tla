------------------------------- MODULE Probes -------------------------------
(***************************************************************************)
(* What csync_init tries out on the replicas before the first walk: a file *)
(* on either side shows how far the clocks are apart (csync_timediff), one *)
(* with a star in its name whether the remote file system takes such names *)
(* (csync_unix_extensions).  Several machines synchronize with the same    *)
(* remote replica and use the same two names there; their locks are        *)
(* on their own disks and do not keep them apart.                          *)
(***************************************************************************)
EXTENDS Integers, FiniteSets

CONSTANTS
    Client,     \* machines, each with a local replica and a clock
    Skews,      \* how far a clock may be ahead of that of the server
    MaxDiff,    \* options.max_time_difference
    Epoch,      \* the time of the server at the beginning: seconds since 1970
    Faults,     \* a subset of AllFaults
    MaxFaults,  \* bound: faults that happen
    MaxTime     \* bound: seconds that pass

(* open: the remote replica cannot be opened; local, creat, stat, unix:    *)
(* a probe cannot be made or looked at; put: a module that creates in its  *)
(* close, as that of ownCloud does, fails there; unlink: one cannot be     *)
(* removed.                                                                *)
AllFaults == {"open", "local", "creat", "put", "stat", "unlink", "unix", "crash"}

ASSUME ConstantsAssumption ==
    /\ IsFiniteSet(Client)
    /\ Skews \subseteq Int /\ MaxDiff \in Nat /\ Epoch \in Nat \ {0}
    /\ Faults \subseteq AllFaults
    /\ MaxFaults \in Nat /\ MaxTime \in Nat

(* No clock is in 1970: any time is larger than any allowed difference.    *)
ASSUME EpochAssumption == \A s \in Skews : Epoch + s > MaxDiff

VARIABLES
    now,      \* the clock of the server
    skew,     \* how far each client is ahead of it
    local,    \* clients with .csync_timediff.ctmp on their local replica
    remote,   \* its modification time on the remote replica, or NoFile
    star,     \* csync_unix_extension*test.ctmp is on the remote replica
    pc,       \* the next call of each client
    diff,     \* timediff of csync_timediff
    unix,     \* clients with options.unix_extensions
    copied,   \* clients whose local replica has got a copy of a probe
    elapsed,  \* history: seconds since each client made its local probe
    hindered, \* history: clients whose measuring met a fault, or whose probe
              \*   another one removed
    misled,   \* history: clients whose remote probe was not made, where there
              \*   was an old one
    litter,   \* history: a removal failed or a client crashed, since the last
              \*   removal by anybody
    faults    \* faults so far

vars == <<now, skew, local, remote, star, pc, diff, unix, copied,
          elapsed, hindered, misled, litter, faults>>

NoFile == 0

Probe == {"local", "remote", "star"}
Steps == {"off", "open", "local", "creat", "stat", "unlink", "verdict", "star",
          "unlinkStar", "ready", "refused"}

TypeOK ==
    /\ now \in 0 .. MaxTime
    /\ skew \in [Client -> Skews]
    /\ local \subseteq Client /\ star \in BOOLEAN
    /\ remote \in {NoFile} \cup Epoch .. Epoch + MaxTime
    /\ pc \in [Client -> Steps]
    /\ diff \in [Client -> Int]
    /\ unix \subseteq Client /\ copied \subseteq Client
    /\ elapsed \in [Client -> 0 .. MaxTime]
    /\ hindered \subseteq Client /\ misled \subseteq Client
    /\ litter \in [local : SUBSET Client, remote : BOOLEAN, star : BOOLEAN]
    /\ faults \in Nat

Init ==
    /\ now = 0
    /\ skew \in [Client -> Skews]
    /\ local = {} /\ remote = NoFile /\ star = FALSE
    /\ pc = [c \in Client |-> "off"]
    /\ diff = [c \in Client |-> 0 - 1]
    /\ unix = {} /\ copied = {}
    /\ elapsed = [c \in Client |-> 0]
    /\ hindered = {} /\ misled = {}
    /\ litter = [local |-> {}, remote |-> FALSE, star |-> FALSE]
    /\ faults = 0

Fault(f) ==
    /\ f \in Faults
    /\ faults < MaxFaults
    /\ faults' = faults + 1

NoFault == UNCHANGED faults

At(c, s)   == pc[c] = s /\ UNCHANGED <<now, skew>>
Goes(c, s) == pc' = [pc EXCEPT ![c] = s]

files   == <<local, remote, star>>
results == <<diff, unix, copied>>

(* The context and what it knows are gone.                                 *)
Ends(c) ==
    /\ Goes(c, "off")
    /\ diff' = [diff EXCEPT ![c] = 0 - 1] /\ unix' = unix \ {c}
    /\ elapsed' = [elapsed EXCEPT ![c] = 0]
    /\ hindered' = hindered \ {c} /\ misled' = misled \ {c}

Tick ==
    /\ now < MaxTime
    /\ now' = now + 1
    /\ elapsed' = [c \in Client |-> IF pc[c] \in {"creat", "stat"}
                                   THEN elapsed[c] + 1 ELSE elapsed[c]]
    /\ UNCHANGED <<skew, files, pc, results, hindered, misled, litter, faults>>

-----------------------------------------------------------------------------
(* csync_timediff *)

Start(c) ==
    /\ At(c, "off")
    /\ Goes(c, "open")
    /\ UNCHANGED <<files, results, elapsed, hindered, misled, litter, faults>>

OpenRemote(c) ==
    /\ At(c, "open")
    /\ \/ Goes(c, "local") /\ NoFault /\ UNCHANGED hindered
       \/ Goes(c, "verdict") /\ Fault("open") /\ hindered' = hindered \cup {c}
    /\ UNCHANGED <<files, results, elapsed, misled, litter>>

(* csync_vio_creat and csync_vio_stat, on the machine of the client.       *)
MakeLocal(c) ==
    /\ At(c, "local")
    /\ \/ /\ NoFault
          /\ local' = local \cup {c}
          /\ diff' = [diff EXCEPT ![c] = Epoch + now + skew[c]]
          /\ Goes(c, "creat")
          /\ UNCHANGED hindered
       \/ /\ Fault("local")
          /\ local' \in {local, local \cup {c}}
          /\ Goes(c, "unlink")
          /\ hindered' = hindered \cup {c}
          /\ UNCHANGED diff
    /\ UNCHANGED <<remote, star, unix, copied, elapsed, misled, litter>>

(* A file that is there already is truncated.  The result of the close is  *)
(* not looked at: if nothing was made, whatever is there is stat'ed.       *)
MakeRemote(c) ==
    /\ At(c, "creat")
    /\ \/ /\ NoFault
          /\ remote' = Epoch + now
          /\ Goes(c, "stat")
          /\ UNCHANGED <<hindered, misled>>
       \/ /\ Fault("creat")
          /\ Goes(c, "unlink")
          /\ hindered' = hindered \cup {c}
          /\ UNCHANGED <<remote, misled>>
       \/ /\ Fault("put")
          /\ Goes(c, "stat")
          /\ hindered' = hindered \cup {c}
          /\ misled' = IF remote = NoFile THEN misled ELSE misled \cup {c}
          /\ UNCHANGED remote
    /\ UNCHANGED <<local, star, results, elapsed, litter>>

(* Mutants: the difference keeps its sign, or is taken as none until it is *)
(* known.                                                                  *)
Signed(x, y)  == x - y
Unknown(time) == 0

Difference(x, y) == IF x < y THEN y - x ELSE x - y

(* What csync_timediff holds, and so returns, if the second stat fails.    *)
Unmeasured(time) == time

StatRemote(c) ==
    /\ At(c, "stat")
    /\ \/ /\ remote # NoFile /\ NoFault
          /\ diff' = [diff EXCEPT ![c] = Difference(@, remote)]
          /\ UNCHANGED hindered
       \/ /\ IF remote # NoFile THEN Fault("stat") ELSE NoFault
          /\ diff' = [diff EXCEPT ![c] = Unmeasured(@)]
          /\ hindered' = IF remote # NoFile THEN hindered \cup {c}
                                            ELSE hindered
    /\ Goes(c, "unlink")
    /\ UNCHANGED <<files, unix, copied, elapsed, misled, litter>>

(* Mutant: the remote probe is removed only after a measurement. *)
KeptAfterFailure(c) == IF diff[c] > MaxDiff THEN remote ELSE NoFile

AfterUnlink(c) == NoFile

(* The results of the removals are not looked at.                          *)
Unlink(c) ==
    /\ At(c, "unlink")
    /\ \/ /\ NoFault
          /\ local' = local \ {c} /\ remote' = AfterUnlink(c)
          /\ litter' = [litter EXCEPT !.local = @ \ {c}, !.remote = FALSE]
       \/ /\ Fault("unlink")
          /\ \/ UNCHANGED local /\ remote' = AfterUnlink(c)
                /\ litter' = [litter EXCEPT !.local = @ \cup {c},
                                           !.remote = FALSE]
             \/ local' = local \ {c} /\ UNCHANGED remote
                /\ litter' = [litter EXCEPT !.local = @ \ {c},
                                           !.remote = TRUE]
    /\ hindered' = hindered \cup {d \in Client \ {c} :
                                    pc[d] = "stat" /\ remote' = NoFile}
    /\ Goes(c, "verdict")
    /\ UNCHANGED <<star, results, elapsed, misled>>

-----------------------------------------------------------------------------
(* csync_init, and csync_unix_extensions for who is admitted.              *)
Verdict(c) ==
    /\ At(c, "verdict")
    /\ Goes(c, IF diff[c] > MaxDiff \/ diff[c] < 0 THEN "refused" ELSE "star")
    /\ diff' = [diff EXCEPT ![c] = 0 - 1]
    /\ UNCHANGED <<files, unix, copied, elapsed, hindered, misled, litter,
                   faults>>

(* Here, too, a creation that fails in the close counts as done.           *)
MakeStar(c) ==
    /\ At(c, "star")
    /\ \/ NoFault /\ star' = TRUE /\ unix' = unix \cup {c}
       \/ Fault("unix") /\ unix' = unix \ {c} /\ UNCHANGED star
       \/ Fault("put") /\ unix' = unix \cup {c} /\ UNCHANGED star
    /\ Goes(c, "unlinkStar")
    /\ UNCHANGED <<local, remote, diff, copied, elapsed, hindered, misled, litter>>

UnlinkStar(c) ==
    /\ At(c, "unlinkStar")
    /\ \/ NoFault /\ star' = FALSE
          /\ litter' = [litter EXCEPT !.star = FALSE]
       \/ Fault("unlink") /\ litter' = [litter EXCEPT !.star = TRUE]
          /\ UNCHANGED star
    /\ Goes(c, "ready")
    /\ UNCHANGED <<local, remote, results, elapsed, hindered, misled>>

(* The run that follows.  The default exclude list has the name of the     *)
(* first probe; the star of the second is excluded by clients without unix *)
(* extensions (csync_excluded).                                            *)
Synchronize(c) ==
    /\ At(c, "ready")
    /\ copied' = IF star /\ c \in unix THEN copied \cup {c} ELSE copied \ {c}
    /\ Ends(c)
    /\ UNCHANGED <<files, litter, faults>>

Refuse(c) ==
    /\ At(c, "refused")
    /\ Ends(c)
    /\ UNCHANGED <<files, copied, litter, faults>>

Crash(c) ==
    /\ pc[c] # "off" /\ Fault("crash")
    /\ Ends(c)
    /\ litter' = [local  |-> litter.local \cup {c},
                  remote |-> TRUE, star |-> TRUE]
    /\ UNCHANGED <<now, skew, files, copied>>

Step(c) ==
    \/ Start(c) \/ OpenRemote(c) \/ MakeLocal(c) \/ MakeRemote(c)
    \/ StatRemote(c) \/ Unlink(c) \/ Verdict(c)
    \/ MakeStar(c) \/ UnlinkStar(c) \/ Synchronize(c) \/ Refuse(c)

Next == Tick \/ \E c \in Client : Step(c) \/ Crash(c)

Spec == Init /\ [][Next]_vars

-----------------------------------------------------------------------------
(***************************************************************************)
(* Properties.                                                             *)
(***************************************************************************)

Measured(c) == Difference(skew[c], 0)

(* "The time difference is greater than %d seconds!": a client gets        *)
(* through csync_init only if its clock is within max_time_difference of   *)
(* the server's, or of what passed while it measured, whatever other       *)
(* clients do to the probe meanwhile and whichever call fails, unless it   *)
(* was the close that had to make the probe where an old one was left.     *)
AdmittedInStep ==
    \A c \in Client : pc[c] \in {"star", "unlinkStar", "ready"} =>
        Measured(c) <= MaxDiff + elapsed[c] \/ c \in misled

(* ... and without that exception.                                         *)
OnlyInStep ==
    \A c \in Client : pc[c] \in {"star", "unlinkStar", "ready"} =>
        Measured(c) <= MaxDiff + elapsed[c]

(* ... and is refused only if the clocks are too far apart, its own        *)
(* measuring failed, or another client took the probe away.                *)
RefusedForAReason ==
    \A c \in Client : pc[c] = "refused" =>
        \/ c \in hindered
        \/ Measured(c) + elapsed[c] > MaxDiff

(* A probe is on a replica only while a client is between making and       *)
(* removing it, or since a crash or a failed removal, until any client has *)
(* gone through csync_init again.                                          *)
NoProbeLeft ==
    /\ \A c \in local : pc[c] \in {"creat", "stat", "unlink"}
                        \/ c \in litter.local
    /\ remote # NoFile =>
          \/ \E c \in Client : pc[c] \in {"stat", "unlink"}
          \/ litter.remote
    /\ star => (\E c \in Client : pc[c] = "unlinkStar") \/ litter.star

(* A probe is no file of the user: no client synchronizes one.             *)
ProbesStayOut == copied = {}
=============================================================================
