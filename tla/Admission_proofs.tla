-------------------------- MODULE Admission_proofs --------------------------
(***************************************************************************)
(* Proofs about what csync_init does before it lets a run begin: the probes*)
(* of the clocks (Probes), for any number of clients, clocks and faults:   *)
(* who is admitted, who is refused, and whose probes stay behind; and the  *)
(* lock file (Lock), for every number of contexts and process ids, large   *)
(* ones too, with crashes and failing calls: the one way to lose exclusion *)
(* is the removal of a lock file.                                          *)
(***************************************************************************)
EXTENDS Lock, Probes, TLAPS

USE ConstantsAssumption

LEMMA InitTypeOK == Init => TypeOK
<1> SUFFICES ASSUME Init PROVE TypeOK
  OBVIOUS
<1>1. pc \in [Client -> Steps]
  BY DEF Init, Steps
<1>2. litter \in [local : SUBSET Client, remote : BOOLEAN, star : BOOLEAN]
  BY DEF Init
<1>3. diff \in [Client -> Int] /\ elapsed \in [Client -> 0 .. MaxTime]
  BY DEF Init
<1>4. now \in 0 .. MaxTime /\ skew \in [Client -> Skews] /\ faults \in Nat
  BY DEF Init
<1> QED BY <1>1, <1>2, <1>3, <1>4 DEF Init, TypeOK

LEMMA SkewIsInt ==
  ASSUME TypeOK, NEW c \in Client
  PROVE  skew[c] \in Int
<1>1. skew[c] \in Skews
  BY DEF TypeOK
<1> QED BY <1>1

(* The seconds that a client has measured have passed. *)
InTime == \A c \in Client : elapsed[c] <= now

LEMMA StepTypeOK == TypeOK /\ InTime /\ [Next]_vars => TypeOK' /\ InTime'
<1> SUFFICES ASSUME TypeOK, InTime, [Next]_vars PROVE TypeOK' /\ InTime'
  OBVIOUS
<1> USE DEF TypeOK, InTime, Steps, At, Goes, Fault, NoFault, files, results, Ends
<1>1. CASE Tick
  BY <1>1 DEF Tick
<1>2. ASSUME NEW c \in Client, Start(c) PROVE TypeOK' /\ InTime'
  BY <1>2 DEF Start
<1>3. ASSUME NEW c \in Client, OpenRemote(c) PROVE TypeOK' /\ InTime'
  BY <1>3 DEF OpenRemote
<1>4. ASSUME NEW c \in Client, MakeLocal(c) PROVE TypeOK' /\ InTime'
  <2>1. skew[c] \in Int
    BY SkewIsInt
  <2>2. diff' \in [Client -> Int] /\ local' \subseteq Client
    BY <1>4, <2>1 DEF MakeLocal
  <2> QED BY <1>4, <2>2 DEF MakeLocal
<1>5. ASSUME NEW c \in Client, MakeRemote(c) PROVE TypeOK' /\ InTime'
  BY <1>5 DEF MakeRemote
<1>6. ASSUME NEW c \in Client, StatRemote(c) PROVE TypeOK' /\ InTime'
  <2>1. diff' \in [Client -> Int]
    BY <1>6 DEF StatRemote, Difference, Unmeasured, NoFile
  <2> QED BY <1>6, <2>1 DEF StatRemote
<1>7. ASSUME NEW c \in Client, Unlink(c) PROVE TypeOK' /\ InTime'
  <2>1. litter' \in [local : SUBSET Client, remote : BOOLEAN, star : BOOLEAN]
    <3>1. CASE litter' = [litter EXCEPT !.local = @ \ {c}, !.remote = FALSE]
      BY <3>1
    <3>2. CASE litter' = [litter EXCEPT !.local = @ \cup {c}, !.remote = FALSE]
      BY <3>2
    <3>3. CASE litter' = [litter EXCEPT !.local = @ \ {c}, !.remote = TRUE]
      BY <3>3
    <3> QED BY <1>7, <3>1, <3>2, <3>3 DEF Unlink
  <2>2. /\ remote' \in {NoFile} \cup Epoch .. Epoch + MaxTime
        /\ local' \subseteq Client /\ hindered' \subseteq Client
    BY <1>7 DEF Unlink, AfterUnlink
  <2>3. pc' \in [Client -> Steps] /\ faults' \in Nat
    BY <1>7 DEF Unlink
  <2>4. UNCHANGED <<now, skew, star, diff, unix, copied, elapsed, misled>>
    BY <1>7 DEF Unlink
  <2> QED BY <2>1, <2>2, <2>3, <2>4
<1>8. ASSUME NEW c \in Client, Verdict(c) PROVE TypeOK' /\ InTime'
  BY <1>8 DEF Verdict
<1>9. ASSUME NEW c \in Client, MakeStar(c) PROVE TypeOK' /\ InTime'
  <2>1. unix' \subseteq Client /\ star' \in BOOLEAN
    BY <1>9 DEF MakeStar
  <2> QED BY <1>9, <2>1 DEF MakeStar
<1>10. ASSUME NEW c \in Client, UnlinkStar(c) PROVE TypeOK' /\ InTime'
  <2>1. /\ litter' \in [local : SUBSET Client, remote : BOOLEAN, star : BOOLEAN]
        /\ star' \in BOOLEAN
    BY <1>10 DEF UnlinkStar
  <2> QED BY <1>10, <2>1 DEF UnlinkStar
<1>11. ASSUME NEW c \in Client, Synchronize(c) \/ Refuse(c)
       PROVE TypeOK' /\ InTime'
  BY <1>11 DEF Synchronize, Refuse
<1>12. ASSUME NEW c \in Client, Crash(c) PROVE TypeOK' /\ InTime'
  BY <1>12 DEF Crash
<1>13. CASE UNCHANGED vars
  BY <1>13 DEF vars
<1> QED
  BY <1>1, <1>2, <1>3, <1>4, <1>5, <1>6, <1>7, <1>8, <1>9, <1>10, <1>11, <1>12,
     <1>13 DEF Next, Step

LEMMA Typed == Spec => [](TypeOK /\ InTime)
<1>1. Init => InTime
  BY DEF Init, InTime
<1> QED BY <1>1, InitTypeOK, StepTypeOK, PTL DEF Spec

(* Every state of any clients has the types of TypeOK.                     *)
THEOREM TypeCorrect == Spec => []TypeOK
BY Typed, PTL

-----------------------------------------------------------------------------
(* A probe on a replica is somebody's, or litter. *)

LEMMA StepNoProbeLeft == TypeOK /\ NoProbeLeft /\ [Next]_vars => NoProbeLeft'
<1> SUFFICES ASSUME TypeOK, NoProbeLeft, [Next]_vars PROVE NoProbeLeft'
  OBVIOUS
<1> USE DEF TypeOK, NoProbeLeft, Steps, At, Goes, files, results
<1>1. CASE Tick
  BY <1>1 DEF Tick
<1>2. ASSUME NEW c \in Client, Start(c) \/ OpenRemote(c) \/ Verdict(c)
      PROVE  NoProbeLeft'
  BY <1>2 DEF Start, OpenRemote, Verdict
<1>3. ASSUME NEW c \in Client, MakeLocal(c) PROVE NoProbeLeft'
  BY <1>3 DEF MakeLocal
<1>4. ASSUME NEW c \in Client, MakeRemote(c) PROVE NoProbeLeft'
  BY <1>4 DEF MakeRemote
<1>5. ASSUME NEW c \in Client, StatRemote(c) PROVE NoProbeLeft'
  BY <1>5 DEF StatRemote
<1>6. ASSUME NEW c \in Client, Unlink(c) PROVE NoProbeLeft'
  <2>1. CASE /\ local' = local \ {c} /\ remote' = NoFile
             /\ litter' = [litter EXCEPT !.local = @ \ {c}, !.remote = FALSE]
    BY <1>6, <2>1 DEF Unlink
  <2>2. CASE /\ UNCHANGED local /\ remote' = NoFile
             /\ litter' = [litter EXCEPT !.local = @ \cup {c}, !.remote = FALSE]
    BY <1>6, <2>2 DEF Unlink
  <2>3. CASE /\ local' = local \ {c} /\ UNCHANGED remote
             /\ litter' = [litter EXCEPT !.local = @ \ {c}, !.remote = TRUE]
    BY <1>6, <2>3 DEF Unlink
  <2> QED BY <1>6, <2>1, <2>2, <2>3 DEF Unlink, AfterUnlink
<1>7. ASSUME NEW c \in Client, MakeStar(c) PROVE NoProbeLeft'
  BY <1>7 DEF MakeStar
<1>8. ASSUME NEW c \in Client, UnlinkStar(c) PROVE NoProbeLeft'
  BY <1>8 DEF UnlinkStar
<1>9. ASSUME NEW c \in Client, Synchronize(c) \/ Refuse(c) PROVE NoProbeLeft'
  BY <1>9 DEF Synchronize, Refuse, Ends
<1>10. ASSUME NEW c \in Client, Crash(c) PROVE NoProbeLeft'
  BY <1>10 DEF Crash, Ends
<1>11. CASE UNCHANGED vars
  BY <1>11 DEF vars
<1> QED
  BY <1>1, <1>2, <1>3, <1>4, <1>5, <1>6, <1>7, <1>8, <1>9, <1>10, <1>11
     DEF Next, Step

(* For any number of clients, a probe that nobody is about to remove is    *)
(* there only since a crash or a removal that failed (NoProbeLeft).        *)
THEOREM ProbesAreRemoved == Spec => []NoProbeLeft
<1>1. Init => NoProbeLeft
  BY DEF Init, NoProbeLeft
<1> QED BY <1>1, StepNoProbeLeft, TypeCorrect, PTL DEF Spec

-----------------------------------------------------------------------------
(***************************************************************************)
(* Who gets through.  While a client measures, the probe it will look at   *)
(* is not older than its own measuring, whoever wrote it last, if its own  *)
(* was not missed where an old one lay; so what it finds differs from the  *)
(* skew by no more than the time that has passed.                          *)
(***************************************************************************)
Measuring(c) ==
    /\ diff[c] = Epoch + now - elapsed[c] + skew[c]
    /\ pc[c] = "stat" =>
         IF remote = NoFile THEN c \in hindered
         ELSE \/ Epoch + now - elapsed[c] <= remote /\ remote <= Epoch + now
              \/ c \in misled

Found(c) ==
    \/ c \in hindered /\ (diff[c] = 0 - 1 \/ diff[c] > MaxDiff)
    \/ /\ diff[c] >= 0
       /\ Measured(c) - elapsed[c] <= diff[c]
       /\ diff[c] <= Measured(c) + elapsed[c]
    \/ c \in misled

Known(c) ==
    /\ c \in misled => c \in hindered
    /\ pc[c] \in {"off", "open", "local"} => diff[c] = 0 - 1 /\ elapsed[c] = 0
    /\ pc[c] \in {"creat", "stat"} => Measuring(c)
    /\ pc[c] \in {"unlink", "verdict"} => Found(c)
    /\ pc[c] \in {"star", "unlinkStar", "ready"} =>
          Measured(c) <= MaxDiff + elapsed[c] \/ c \in misled
    /\ pc[c] = "refused" =>
          c \in hindered \/ Measured(c) + elapsed[c] > MaxDiff

AllKnown == \A c \in Client : Known(c)

(* A step of another client leaves what a client knows, as a probe that it *)
(* makes is new and one that it takes away is noted.                       *)
LEMMA OthersKnow ==
  ASSUME TypeOK, InTime, NEW d \in Client, Known(d),
         pc'[d] = pc[d], diff'[d] = diff[d], elapsed'[d] = elapsed[d],
         now' = now, skew' = skew,
         d \in hindered => d \in hindered', d \in misled' <=> d \in misled,
         \/ remote' = remote
         \/ remote' = Epoch + now
         \/ remote' = NoFile /\ (pc[d] = "stat" => d \in hindered')
  PROVE  Known(d)'
<1>1. /\ skew[d] \in Int /\ elapsed[d] \in Nat /\ now \in Nat /\ Epoch \in Nat
      /\ diff[d] \in Int /\ remote \in Nat
  BY SkewIsInt DEF TypeOK, NoFile
<1>2. Measuring(d) /\ pc[d] \in {"creat", "stat"} => Measuring(d)'
  BY <1>1 DEF Measuring, NoFile
<1>3. Found(d) => Found(d)'
  BY <1>1 DEF Found, Measured
<1> QED BY <1>2, <1>3 DEF Known, Measured

(* Time passes for everybody who measures. *)
LEMMA TickKnown == TypeOK /\ InTime /\ AllKnown /\ Tick => AllKnown'
<1> SUFFICES ASSUME TypeOK, InTime, AllKnown, Tick, NEW d \in Client
             PROVE  Known(d)'
  BY DEF AllKnown
<1>1. /\ skew[d] \in Int /\ elapsed[d] \in Nat /\ now \in Nat /\ Epoch \in Nat
      /\ diff[d] \in Int /\ remote \in Nat
  BY SkewIsInt DEF TypeOK, NoFile
<1>2. /\ now' = now + 1
      /\ UNCHANGED <<skew, remote, pc, diff, hindered, misled>>
      /\ elapsed'[d] = IF pc[d] \in {"creat", "stat"} THEN elapsed[d] + 1
                                                     ELSE elapsed[d]
  BY DEF Tick, files, results, TypeOK
<1>3. CASE pc[d] \in {"creat", "stat"}
  BY <1>1, <1>2, <1>3 DEF AllKnown, Known, Measuring, NoFile
<1>4. CASE pc[d] \notin {"creat", "stat"}
  BY <1>1, <1>2, <1>4 DEF AllKnown, Known, Found, Measured
<1> QED BY <1>3, <1>4

LEMMA ClientKnows ==
  ASSUME TypeOK, InTime, NEW c \in Client, Known(c), Step(c) \/ Crash(c)
  PROVE  Known(c)'
<1>1. /\ skew[c] \in Int /\ elapsed[c] \in Nat /\ now \in Nat /\ Epoch \in Nat \ {0}
      /\ diff[c] \in Int /\ remote \in Nat /\ MaxDiff \in Nat
      /\ Epoch + skew[c] > MaxDiff
  <2>1. Epoch + skew[c] > MaxDiff
    BY EpochAssumption DEF TypeOK
  <2>2. remote \in Nat /\ elapsed[c] \in Nat
    BY DEF TypeOK, NoFile
  <2> QED BY <2>1, <2>2, SkewIsInt DEF TypeOK
<1>2. UNCHANGED <<now, skew>>
  BY DEF Step, Start, OpenRemote, MakeLocal, MakeRemote, StatRemote, Unlink,
         Verdict, MakeStar, UnlinkStar, Synchronize, Refuse, Crash, At
<1> USE DEF TypeOK, Steps, At, Goes, files, results
<1>3. CASE Start(c)
  BY <1>1, <1>3 DEF Start, Known
<1>4. CASE OpenRemote(c)
  BY <1>1, <1>4 DEF OpenRemote, Known, Found
<1>5. CASE MakeLocal(c)
  <2>1. CASE /\ diff' = [diff EXCEPT ![c] = Epoch + now + skew[c]]
             /\ pc' = [pc EXCEPT ![c] = "creat"]
    BY <1>1, <1>2, <1>5, <2>1 DEF MakeLocal, Known, Measuring
  <2>2. CASE /\ hindered' = hindered \cup {c} /\ UNCHANGED diff
             /\ pc' = [pc EXCEPT ![c] = "unlink"]
    BY <1>5, <2>2 DEF MakeLocal, Known, Found
  <2> QED BY <1>5, <2>1, <2>2 DEF MakeLocal
<1>6. CASE MakeRemote(c)
  <2>1. diff[c] = Epoch + now - elapsed[c] + skew[c] /\ elapsed[c] <= now
    BY <1>6 DEF MakeRemote, Known, Measuring, InTime
  <2>2. CASE remote' = Epoch + now /\ pc' = [pc EXCEPT ![c] = "stat"]
    BY <1>1, <1>2, <1>6, <2>1, <2>2 DEF MakeRemote, Known, Measuring, NoFile
  <2>3. CASE /\ hindered' = hindered \cup {c} /\ UNCHANGED remote
             /\ pc' = [pc EXCEPT ![c] = "unlink"]
    BY <1>1, <1>6, <2>1, <2>3 DEF MakeRemote, Known, Found
  <2>4. CASE /\ hindered' = hindered \cup {c} /\ UNCHANGED remote
             /\ misled' = IF remote = NoFile THEN misled ELSE misled \cup {c}
             /\ pc' = [pc EXCEPT ![c] = "stat"]
    BY <1>1, <1>2, <1>6, <2>1, <2>4 DEF MakeRemote, Known, Measuring
  <2> QED BY <1>6, <2>2, <2>3, <2>4 DEF MakeRemote
<1>7. CASE StatRemote(c)
  <2>1. /\ diff[c] = Epoch + now - elapsed[c] + skew[c] /\ elapsed[c] <= now
        /\ IF remote = NoFile THEN c \in hindered
           ELSE \/ Epoch + now - elapsed[c] <= remote /\ remote <= Epoch + now
                \/ c \in misled
        /\ c \in misled => c \in hindered
    BY <1>7 DEF StatRemote, Known, Measuring, InTime
  <2>2. pc'[c] = "unlink" /\ elapsed' = elapsed /\ misled' = misled
    BY <1>7 DEF StatRemote
  <2>3. CASE /\ remote # NoFile /\ UNCHANGED hindered
             /\ diff' = [diff EXCEPT ![c] = Difference(@, remote)]
    <3>1. diff'[c] = Difference(diff[c], remote)
      BY <2>3
    <3> HIDE DEF TypeOK, Steps, At, Goes, files, results
    <3>2. ASSUME c \notin misled
          PROVE  /\ diff'[c] >= 0
                 /\ Measured(c) - elapsed[c] <= diff'[c]
                 /\ diff'[c] <= Measured(c) + elapsed[c]
      BY <1>1, <2>1, <2>3, <3>1, <3>2 DEF Difference, Measured
    <3> QED BY <1>2, <2>1, <2>2, <2>3, <3>2 DEF Known, Found, Measured
  <2>4. CASE /\ c \in hindered'
             /\ diff' = [diff EXCEPT ![c] = Unmeasured(@)]
    <3>1. diff'[c] > MaxDiff
      BY <1>1, <2>1, <2>4 DEF Unmeasured
    <3> QED BY <2>2, <2>4, <3>1 DEF Known, Found
  <2> QED BY <1>7, <2>1, <2>3, <2>4 DEF StatRemote
<1>8. CASE Unlink(c)
  BY <1>1, <1>8 DEF Unlink, Known, Found, Measured
<1>9. CASE Verdict(c)
  BY <1>1, <1>9 DEF Verdict, Known, Found, Measured, Difference
<1>10. CASE MakeStar(c) \/ UnlinkStar(c)
  BY <1>1, <1>10 DEF MakeStar, UnlinkStar, Known, Measured
<1>11. CASE Synchronize(c) \/ Refuse(c) \/ Crash(c)
  BY <1>1, <1>11 DEF Synchronize, Refuse, Crash, Ends, Known
<1> QED
  BY <1>3, <1>4, <1>5, <1>6, <1>7, <1>8, <1>9, <1>10, <1>11 DEF Step

LEMMA StepKnown == TypeOK /\ InTime /\ AllKnown /\ [Next]_vars => AllKnown'
<1> SUFFICES ASSUME TypeOK, InTime, AllKnown, [Next]_vars PROVE AllKnown'
  OBVIOUS
<1>1. CASE Tick
  BY <1>1, TickKnown
<1>2. ASSUME NEW c \in Client, Step(c) \/ Crash(c) PROVE AllKnown'
  <2> SUFFICES ASSUME NEW d \in Client, d # c PROVE Known(d)'
    BY <1>2, ClientKnows DEF AllKnown
  <2>1. /\ pc'[d] = pc[d] /\ diff'[d] = diff[d] /\ elapsed'[d] = elapsed[d]
        /\ now' = now /\ skew' = skew
    BY <1>2 DEF Step, Start, OpenRemote, MakeLocal, MakeRemote, StatRemote,
                Unlink, Verdict, MakeStar, UnlinkStar, Synchronize, Refuse,
                Crash, Ends, At, Goes, results, TypeOK
  <2>2. (d \in hindered => d \in hindered') /\ (d \in misled' <=> d \in misled)
    BY <1>2 DEF Step, Start, OpenRemote, MakeLocal, MakeRemote, StatRemote,
                Unlink, Verdict, MakeStar, UnlinkStar, Synchronize, Refuse,
                Crash, Ends
  <2>3. \/ remote' = remote
        \/ remote' = Epoch + now
        \/ remote' = NoFile /\ (pc[d] = "stat" => d \in hindered')
    BY <1>2 DEF Step, Start, OpenRemote, MakeLocal, MakeRemote, StatRemote,
                Unlink, AfterUnlink, Verdict, MakeStar, UnlinkStar, Synchronize,
                Refuse, Crash, files
  <2> QED BY <2>1, <2>2, <2>3, OthersKnow DEF AllKnown
<1>3. CASE UNCHANGED vars
  BY <1>3 DEF vars, AllKnown, Known, Measuring, Found, Measured
<1> QED BY <1>1, <1>2, <1>3 DEF Next

LEMMA KnownAlways == Spec => [](TypeOK /\ AllKnown)
<1>1. Init => AllKnown
  BY DEF Init, AllKnown, Known
<1> QED BY <1>1, StepKnown, Typed, PTL DEF Spec

(* For any number of clients, clocks, seconds and faults: whoever gets     *)
(* through csync_init has a clock within the limit, the time of its own    *)
(* measuring aside, but for one whose probe was not made in the close and  *)
(* that found an old one in its place (AdmittedInStep).                    *)
THEOREM OnlyInStepAdmitted == Spec => []AdmittedInStep
<1>1. TypeOK /\ AllKnown => AdmittedInStep
  BY DEF AllKnown, Known, AdmittedInStep
<1> QED BY <1>1, KnownAlways, PTL

(* ... and nobody is turned away without one of the reasons of             *)
(* RefusedForAReason.                                                      *)
THEOREM NobodyRefusedForNothing == Spec => []RefusedForAReason
<1>1. TypeOK /\ AllKnown => RefusedForAReason
  BY DEF AllKnown, Known, RefusedForAReason
<1> QED BY <1>1, KnownAlways, PTL

-----------------------------------------------------------------------------
(* The lock file.                                                          *)
HIDE ConstantsAssumption
USE LockAssumption

LEMMA InitLockTypeOK ==
  ASSUME LockInit
  PROVE  LockTypeOK
<1>1. call \in [Ctx -> {"off", "held", "failed"} \cup Locking \cup Unlocking]
  BY DEF LockInit, Locking, Unlocking
<1> QED BY <1>1 DEF LockInit, LockTypeOK

LEMMA StepLockTypeOK ==
  ASSUME LockTypeOK, [LockNext]_lockVars
  PROVE  LockTypeOK'
<1> USE DEF LockTypeOK, GoesTo, Locking, Unlocking
<1>1. ASSUME NEW c \in Ctx, CallInit(c) PROVE LockTypeOK'
  BY <1>1 DEF CallInit
<1>2. ASSUME NEW c \in Ctx, Read(c) PROVE LockTypeOK'
  BY <1>2 DEF Read, Exit
<1>3. ASSUME NEW c \in Ctx, Judge(c) PROVE LockTypeOK'
  BY <1>3 DEF Judge, Exit
<1>4. ASSUME NEW c \in Ctx, UnlinkStale(c) PROVE LockTypeOK'
  BY <1>4 DEF UnlinkStale, RemoveLock, Exit
<1>5. ASSUME NEW c \in Ctx, Create(c) PROVE LockTypeOK'
  BY <1>5 DEF Create, Fails
<1>6. ASSUME NEW c \in Ctx, FailLate(c) \/ Retry(c) \/ Destroy(c) PROVE LockTypeOK'
  BY <1>6 DEF FailLate, Retry, Destroy, Fails
<1>7. ASSUME NEW c \in Ctx, RemoveOwn(c) PROVE LockTypeOK'
  BY <1>7 DEF RemoveOwn, RemoveLock, Exit
<1>8. ASSUME NEW q \in Pid, Dies(q) PROVE LockTypeOK'
  BY <1>8 DEF Dies, Fails
<1>9. CASE UNCHANGED lockVars
  BY <1>9 DEF lockVars
<1> QED
  BY <1>1, <1>2, <1>3, <1>4, <1>5, <1>6, <1>7, <1>8, <1>9 DEF LockNext, Run

(* Every state of every history of contexts has the types of LockTypeOK.   *)
THEOREM LockTypeCorrect == LockSpec => []LockTypeOK
<1>1. LockInit => LockTypeOK
  BY InitLockTypeOK
<1>2. LockTypeOK /\ [LockNext]_lockVars => LockTypeOK'
  BY StepLockTypeOK
<1> QED BY <1>1, <1>2, PTL DEF LockSpec

-----------------------------------------------------------------------------
(* A holder that was not robbed finds its process in the lock file.        *)
Backed ==
    /\ \A c \in Ctx : call[c] # "off" => pid[c] # NoPid
    /\ ~robbed => /\ \A c \in Holders : lock = pid[c]
                  /\ MutualExclusion

LEMMA InitBacked == LockInit => Backed
BY DEF LockInit, Backed, Holders, MutualExclusion

(* Whoever unlinks the lock file robs the holder or there is none.         *)
LEMMA RemovalBacked ==
  ASSUME LockTypeOK, Backed, NEW c \in Ctx, call[c] # "held", RemoveLock(c),
         \A d \in Ctx \ {c} : call'[d] = call[d] /\ pid'[d] = pid[d],
         call'[c] \in {"off", "create"},
         call'[c] # "off" => pid'[c] = pid[c] /\ call[c] # "off"
  PROVE  Backed'
<1>1. \A d \in Ctx : call'[d] # "off" => pid'[d] # NoPid
  BY DEF Backed
<1>2. Holders' = Holders
  BY DEF Holders
<1>3. ~robbed' => Holders = {}
  BY DEF RemoveLock, Backed, Holders
<1> QED BY <1>1, <1>2, <1>3 DEF Backed, MutualExclusion

LEMMA StepBacked ==
  ASSUME LockTypeOK, Backed, [LockNext]_lockVars
  PROVE  Backed'
<1> USE DEF LockTypeOK, GoesTo, Holders, MutualExclusion
<1>1. ASSUME NEW c \in Ctx, CallInit(c) PROVE Backed'
  BY <1>1 DEF Backed, CallInit
<1>2. ASSUME NEW c \in Ctx, Read(c) PROVE Backed'
  BY <1>2 DEF Backed, Read, Exit
<1>3. ASSUME NEW c \in Ctx, Judge(c) PROVE Backed'
  BY <1>3 DEF Backed, Judge, Exit
<1>4. ASSUME NEW c \in Ctx, UnlinkStale(c) PROVE Backed'
  BY <1>4, RemovalBacked DEF UnlinkStale, Exit
<1>5. ASSUME NEW c \in Ctx, Create(c) PROVE Backed'
  <2>1. CASE call' = [call EXCEPT ![c] = "failed"] /\ lock' = lock
    BY <1>5, <2>1 DEF Backed, Create
  <2>2. CASE /\ MayLink /\ lock' = pid[c] /\ call' = [call EXCEPT ![c] = "held"]
    <3>1. ~robbed => Holders = {}
      BY <2>2 DEF Backed, MayLink
    <3> QED BY <1>5, <2>2, <3>1 DEF Backed, Create
  <2> QED BY <1>5, <2>1, <2>2 DEF Create
<1>6. ASSUME NEW c \in Ctx, FailLate(c) \/ Retry(c) \/ Destroy(c) PROVE Backed'
  BY <1>6 DEF Backed, FailLate, Retry, Destroy
<1>7. ASSUME NEW c \in Ctx, RemoveOwn(c) PROVE Backed'
  BY <1>7, RemovalBacked DEF RemoveOwn, Exit
<1>8. ASSUME NEW q \in Pid, Dies(q) PROVE Backed'
  BY <1>8 DEF Backed, Dies
<1>9. CASE UNCHANGED lockVars
  BY <1>9 DEF Backed, lockVars
<1> QED
  BY <1>1, <1>2, <1>3, <1>4, <1>5, <1>6, <1>7, <1>8, <1>9 DEF LockNext, Run

(* Two contexts both hold the lock only if a lock file was removed under   *)
(* the one that held it: link admits one, and no other step lets one in.   *)
THEOREM ExclusionIsOnlyRobbed == LockSpec => []ExclusiveUnlessRobbed
<1>1. LockInit => LockTypeOK /\ Backed
  BY InitLockTypeOK, InitBacked
<1>2. LockTypeOK /\ Backed /\ [LockNext]_lockVars => LockTypeOK' /\ Backed'
  BY StepLockTypeOK, StepBacked
<1>3. Backed => ExclusiveUnlessRobbed
  BY DEF Backed, ExclusiveUnlessRobbed
<1> QED BY <1>1, <1>2, <1>3, PTL DEF LockSpec
=============================================================================
