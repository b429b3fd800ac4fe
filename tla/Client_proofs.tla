---------------------------- MODULE Client_proofs ----------------------------
(***************************************************************************)
(* Proofs about the public API and its users, for any number of calls and  *)
(* faults and for the arguments that a process may be given.               *)
(***************************************************************************)
EXTENDS Client, TLAPS

USE ConstantsAssumption, ModesAssumption

-----------------------------------------------------------------------------
(***************************************************************************)
(* Session: the journal is only written after a complete synchronization,  *)
(* a context that may run the phases has the lock, and nothing dead is     *)
(* used before a csync_commit has failed.                                  *)
(***************************************************************************)

LEMMA InitTypeOK == Init => TypeOK
<1> SUFFICES ASSUME Init PROVE TypeOK
  OBVIOUS
<1>1. tree \in [Replica -> {"none", "empty", "filled", "freed"}]
  BY DEF Init, NoTrees
<1>2. /\ live \in BOOLEAN /\ locked \in BOOLEAN /\ disabled \in BOOLEAN
      /\ torn \in BOOLEAN
  BY DEF Init
<1>3. /\ status \subseteq Phases \cup {"INIT"} /\ done \subseteq Phases
      /\ misuse \subseteq {"db", "tree"}
  BY DEF Init
<1>4. /\ db \in {"none", "open", "closed"}
      /\ step \in {"idle", "commit", "destroy"} /\ ret \in {0 - 1, 0, 1}
      /\ journal \in {"kept", "written", "failed", "lost"} /\ faults \in Nat
  BY DEF Init
<1> QED BY <1>1, <1>2, <1>3, <1>4 DEF TypeOK

LEMMA MergeTypeOK ==
  ASSUME TypeOK, MergeAndWrite
  PROVE  /\ db' \in {"none", "open", "closed"}
         /\ misuse' \subseteq {"db", "tree"}
         /\ journal' \in {"kept", "written", "failed", "lost"}
         /\ faults' \in Nat
<1> USE DEF TypeOK, MergeAndWrite, NoFault, Fault
<1>1. db' \in {"none", "open", "closed"}
  OBVIOUS
<1>2. misuse' \subseteq {"db", "tree"}
  BY DEF Used
<1>3. journal' \in {"kept", "written", "failed", "lost"}
  OBVIOUS
<1>4. faults' \in Nat
  OBVIOUS
<1> QED BY <1>1, <1>2, <1>3, <1>4

LEMMA StepTypeOK == TypeOK /\ [Next]_vars => TypeOK'
<1> SUFFICES ASSUME TypeOK, [Next]_vars PROVE TypeOK'
  OBVIOUS
<1> USE DEF TypeOK, Returns, NoFault, Fault
<1>1. CASE Create
  BY <1>1 DEF Create, NoTrees
<1>2. CASE SetDisabled
  BY <1>2 DEF SetDisabled
<1>3. CASE InitRefused
  BY <1>3 DEF InitRefused, StatusOfFailure
<1>4. CASE InitContext
  BY <1>4 DEF InitContext, EmptyTrees
<1>5. CASE InitTwice
  BY <1>5 DEF InitTwice
<1>6. CASE Update
  <2>1. /\ status' \subseteq Phases \cup {"INIT"} /\ done' \subseteq Phases
        /\ ret' \in {0 - 1, 0, 1} /\ faults' \in Nat
    <3>1. CASE PhaseSucceeds("UPDATE")
      <4>1. "UPDATE" \in Phases
        BY DEF Phases
      <4> QED BY <3>1, <4>1 DEF PhaseSucceeds
    <3>2. CASE PhaseFails
      BY <3>2 DEF PhaseFails
    <3> QED BY <1>6, <3>1, <3>2 DEF Update
  <2>2. tree' \in [Replica -> {"none", "empty", "filled", "freed"}]
    BY <1>6 DEF Update
  <2>3. misuse' \subseteq {"db", "tree"}
    BY <1>6 DEF Update, Used
  <2> QED BY <1>6, <2>1, <2>2, <2>3 DEF Update
<1>7. ASSUME NEW phase \in Phases, WalkTrees(phase) PROVE TypeOK'
  <2>1. /\ status' \subseteq Phases \cup {"INIT"} /\ done' \subseteq Phases
        /\ ret' \in {0 - 1, 0, 1} /\ faults' \in Nat
    BY <1>7 DEF WalkTrees, PhaseSucceeds, PhaseFails
  <2>2. misuse' \subseteq {"db", "tree"}
    BY <1>7 DEF WalkTrees, Used
  <2> QED BY <1>7, <2>1, <2>2 DEF WalkTrees
<1>8. CASE Commit
  BY <1>8, MergeTypeOK DEF Commit
<1>9. CASE CommitSucceeds
  BY <1>9 DEF CommitSucceeds, FreesTrees, Used, Reopened, EmptyTrees,
              StatusAfterCommit
<1>10. CASE CommitFails
  <2>1. tree' \in [Replica -> {"none", "empty", "filled", "freed"}]
    BY <1>10 DEF CommitFails, TreesFreed
  <2>2. misuse' \subseteq {"db", "tree"} /\ db' \in {"none", "open", "closed"}
    BY <1>10 DEF CommitFails, FreesTrees, Used
  <2> QED BY <1>10, <2>1, <2>2 DEF CommitFails
<1>11. CASE Destroy
  BY <1>11, MergeTypeOK DEF Destroy
<1>12. CASE DestroyRest
  BY <1>12 DEF DestroyRest, FreesTrees, Used, NoTrees
<1>13. CASE UNCHANGED vars
  BY <1>13 DEF vars
<1>14. {"RECONCILE", "PROPAGATE"} \subseteq Phases
  BY DEF Phases
<1> QED
  BY <1>1, <1>2, <1>3, <1>4, <1>5, <1>6, <1>7, <1>8, <1>9, <1>10, <1>11,
     <1>12, <1>13, <1>14 DEF Next

(* Every state of every use of the library has the types of TypeOK.        *)
THEOREM TypeCorrect == Spec => []TypeOK
BY InitTypeOK, StepTypeOK, PTL DEF Spec

-----------------------------------------------------------------------------
(* A status bit is there only for a phase that succeeded on these trees.   *)
Earned == status \ {"INIT"} \subseteq done

LEMMA StepEarned == Earned /\ [Next]_vars => Earned'
<1> SUFFICES ASSUME Earned, [Next]_vars PROVE Earned'
  OBVIOUS
<1> USE DEF Earned
<1>1. CASE Create
  BY <1>1 DEF Create
<1>2. CASE SetDisabled \/ InitTwice \/ Commit \/ CommitFails \/ Destroy
  BY <1>2 DEF SetDisabled, InitTwice, Commit, CommitFails, Destroy
<1>3. CASE InitRefused
  BY <1>3 DEF InitRefused, StatusOfFailure
<1>4. CASE InitContext
  BY <1>4 DEF InitContext
<1>5. CASE Update
  BY <1>5 DEF Update, PhaseSucceeds, PhaseFails
<1>6. CASE WalkTrees("RECONCILE") \/ WalkTrees("PROPAGATE")
  BY <1>6 DEF WalkTrees, PhaseSucceeds, PhaseFails
<1>7. CASE CommitSucceeds
  BY <1>7 DEF CommitSucceeds, StatusAfterCommit
<1>8. CASE DestroyRest
  BY <1>8 DEF DestroyRest
<1>9. CASE UNCHANGED vars
  BY <1>9 DEF vars
<1> QED
  BY <1>1, <1>2, <1>3, <1>4, <1>5, <1>6, <1>7, <1>8, <1>9 DEF Next

(* Only _merge_and_write_statedb writes the journal.                       *)
LEMMA WriterMerges ==
  ASSUME [Next]_vars, journal # "written", journal' = "written"
  PROVE  Synchronized
<1>1. CASE Commit \/ Destroy
  BY <1>1 DEF Commit, Destroy, MergeAndWrite
<1>2. CASE ~(Commit \/ Destroy)
  BY <1>2 DEF Next, vars, Create, SetDisabled, InitRefused, InitContext,
     InitTwice, Update, WalkTrees, CommitSucceeds, CommitFails, DestroyRest
<1> QED BY <1>1, <1>2

(* Whatever fails, is repeated or committed before, the journal is written *)
(* only when update, reconcile and propagate all succeeded on the trees it *)
(* is written from ("and we have successfully synchronized").              *)
THEOREM JournalIsHonest == Spec => HonestJournal
<1>1. Init => Earned
  BY DEF Init, Earned
<1>2. TypeOK /\ Earned /\ [Next]_vars
        => [journal # "written" /\ journal' = "written" => done = Phases]_vars
  <2> SUFFICES ASSUME TypeOK, Earned, [Next]_vars,
                      journal # "written", journal' = "written"
               PROVE  done = Phases
    OBVIOUS
  <2>1. Synchronized
    BY WriterMerges
  <2> QED BY <2>1 DEF Synchronized, Earned, Phases, TypeOK
<1> QED BY <1>1, <1>2, StepEarned, TypeCorrect, PTL DEF Spec, HonestJournal

-----------------------------------------------------------------------------
(* What a context holds, when csync_commit is kept for contexts that are   *)
(* initialized.                                                            *)
HeldInv ==
    /\ Initialized \/ step = "commit" => locked
    /\ step = "commit" => Initialized
    /\ ~locked => db = "none"
    /\ Initialized /\ disabled => db = "none"
    /\ ~live => step = "idle"
    /\ ~torn => /\ misuse = {}
                /\ \A r \in Replica : tree[r] # "freed"
                /\ step = "idle" => db # "closed"

LEMMA MergeHarmless ==
  ASSUME TypeOK, HeldInv, Call, MergeAndWrite
  PROVE  /\ ~torn => misuse' = {}
         /\ db = "none" <=> db' = "none"
BY DEF TypeOK, HeldInv, Call, MergeAndWrite, Used, Replica

LEMMA StepHeldInv ==
  ASSUME "early" \notin Features, TypeOK, HeldInv, [Next]_vars
  PROVE  HeldInv'
<1> USE DEF HeldInv, Initialized, Call
<1>1. CASE Create
  BY <1>1 DEF Create, NoTrees, Replica
<1>2. CASE SetDisabled
  BY <1>2 DEF SetDisabled
<1>3. CASE InitRefused
  BY <1>3 DEF InitRefused, StatusOfFailure
<1>4. CASE InitContext
  BY <1>4 DEF InitContext, EmptyTrees, Replica
<1>5. CASE InitTwice
  BY <1>5 DEF InitTwice
<1>6. CASE Update
  <2>1. "INIT" \in status' <=> "INIT" \in status
    BY <1>6 DEF Update, PhaseSucceeds, PhaseFails
  <2>2. ~torn => misuse' = {} /\ \A r \in Replica : tree'[r] # "freed"
    BY <1>6 DEF Update, PhaseSucceeds, PhaseFails, Used, TypeOK
  <2>3. UNCHANGED <<live, locked, db, disabled, step, torn>>
    BY <1>6 DEF Update
  <2> QED BY <2>1, <2>2, <2>3
<1>7. CASE WalkTrees("RECONCILE") \/ WalkTrees("PROPAGATE")
  <2>1. "INIT" \in status' <=> "INIT" \in status
    BY <1>7 DEF WalkTrees, PhaseSucceeds, PhaseFails
  <2>2. ~torn => misuse' = {}
    BY <1>7 DEF WalkTrees, Used
  <2>3. UNCHANGED <<live, locked, db, disabled, tree, step, torn>>
    BY <1>7 DEF WalkTrees
  <2> QED BY <2>1, <2>2, <2>3
<1>8. CASE Commit
  <2>1. /\ ~torn => misuse' = {}
        /\ db = "none" <=> db' = "none"
    BY <1>8, MergeHarmless DEF Commit
  <2> QED BY <1>8, <2>1 DEF Commit
<1>9. CASE CommitSucceeds
  BY <1>9 DEF CommitSucceeds, FreesTrees, Used, Reopened, EmptyTrees,
              StatusAfterCommit, Replica
<1>10. CASE CommitFails
  BY <1>10 DEF CommitFails
<1>11. CASE Destroy
  <2>1. /\ ~torn => misuse' = {}
        /\ db = "none" <=> db' = "none"
    BY <1>11, MergeHarmless DEF Destroy
  <2> QED BY <1>11, <2>1 DEF Destroy
<1>12. CASE DestroyRest
  BY <1>12 DEF DestroyRest, FreesTrees, Used, NoTrees, Replica
<1>13. CASE UNCHANGED vars
  BY <1>13 DEF vars
<1> QED
  BY <1>1, <1>2, <1>3, <1>4, <1>5, <1>6, <1>7, <1>8, <1>9, <1>10, <1>11,
     <1>12, <1>13 DEF Next

LEMMA HeldAlways == "early" \notin Features => (Spec => []HeldInv)
<1> SUFFICES ASSUME "early" \notin Features PROVE Spec => []HeldInv
  OBVIOUS
<1>1. Init => HeldInv
  BY DEF Init, HeldInv, Initialized, NoTrees, Replica
<1>2. TypeOK /\ HeldInv /\ [Next]_vars => HeldInv'
  BY StepHeldInv
<1> QED BY <1>1, <1>2, TypeCorrect, PTL DEF Spec

(* A context that may run the phases has the lock, if its client commits   *)
(* no context that is not initialized.                                     *)
THEOREM InitializedIsLocked ==
    "early" \notin Features => (Spec => []InitMeansLocked)
<1>1. HeldInv => InitMeansLocked
  BY DEF HeldInv, InitMeansLocked
<1> QED BY <1>1, HeldAlways, PTL

(* Under the same condition no call uses a closed handle or a freed tree   *)
(* before a csync_commit of the context has returned an error.             *)
THEOREM NothingDeadIsUsed ==
    "early" \notin Features => (Spec => []NoDeadHandle)
<1>1. HeldInv => NoDeadHandle
  BY DEF HeldInv, NoDeadHandle
<1> QED BY <1>1, HeldAlways, PTL

-----------------------------------------------------------------------------
(***************************************************************************)
(* Client: what the exit code of the program says, and what any client may *)
(* rely on.                                                                *)
(***************************************************************************)

(* A step of a client is a call of the library, or at most puts another    *)
(* result in ret; --test-statedb aside, which sets the status itself.      *)
Calls == [Next]_vars \/ UNCHANGED <<live, status, locked, db, disabled, tree,
                                    step, journal, done, misuse, torn, faults>>

LEMMA ClientCalls ==
  ASSUME "test_statedb" \notin Modes, args \in Arguments, [ClientNext]_clientVars
  PROVE  Calls
<1>1. CASE Library \/ MainCreates \/ MainDisables \/ MainUpdates \/ MainDestroys
  BY <1>1 DEF Calls, Library, MainCreates, MainDisables, MainUpdates,
              MainDestroys, Next
<1>2. CASE MainInits
  BY <1>2 DEF Calls, MainInits, Next
<1>3. CASE MainExcludes
  BY <1>3 DEF Calls, MainExcludes, NoFault
<1>4. CASE \/ MainWalks("reconcile", "RECONCILE", "propagate")
           \/ MainWalks("propagate", "PROPAGATE", "statedb")
  BY <1>4 DEF Calls, MainWalks, Next
<1>5. CASE MainSetsStatus
  BY <1>5 DEF Calls, MainSetsStatus, Arguments
<1>6. CASE StartProcess \/ UNCHANGED clientVars
  BY <1>6 DEF Calls, StartProcess, clientVars
<1> QED BY <1>1, <1>2, <1>3, <1>4, <1>5, <1>6 DEF ClientNext, Main

-----------------------------------------------------------------------------
(* Types. *)

LEMMA StepClientTypeOK ==
  ASSUME ClientTypeOK, [ClientNext]_clientVars
  PROVE  ClientTypeOK'
<1> USE DEF ClientTypeOK
<1>1. TypeOK'
  <2>1. CASE [Next]_vars
    BY <2>1, StepTypeOK
  <2>2. CASE MainExcludes
    BY <2>2 DEF MainExcludes, TypeOK, NoFault, Returns
  <2>3. CASE MainSetsStatus
    BY <2>3 DEF MainSetsStatus, TypeOK
  <2> QED
    BY <2>1, <2>2, <2>3
       DEF ClientNext, Main, Library, MainCreates, MainDisables, MainInits,
           MainUpdates, MainWalks, MainDestroys, StartProcess, Next, clientVars
<1>2. args' \in Arguments /\ at' \in Places /\ exit' \in {0, 1}
  BY DEF ClientNext, Main, Library, MainCreates, MainDisables, MainInits,
         MainExcludes, MainUpdates, MainWalks, MainSetsStatus, MainDestroys,
         StartProcess, At, Goes, Returned, Places, clientVars
<1> QED BY <1>1, <1>2

(* Every state of processes of the program or of any other client has the  *)
(* types of ClientTypeOK.                                                  *)
THEOREM ClientTypeCorrect == ClientSpec => []ClientTypeOK
<1>1. ClientInit => ClientTypeOK
  BY InitTypeOK DEF ClientInit, ClientTypeOK, Places
<1> QED BY <1>1, StepClientTypeOK, PTL DEF ClientSpec

-----------------------------------------------------------------------------
(* The exit code. *)

(* How far main has come without a failure, and what has succeeded so far. *)
Course ==
    Program /\ exit = 0 =>
        /\ at \in {"exclude", "update", "reconcile", "propagate", "statedb",
                   "destroy"} => locked
        /\ at \in {"reconcile", "propagate", "statedb", "destroy"} =>
              "UPDATE" \in done
        /\ at \in {"propagate", "statedb", "destroy"} /\ Runs("reconcile") =>
              "RECONCILE" \in done
        /\ at \in {"statedb", "destroy"} /\ Runs("propagate") =>
              "PROPAGATE" \in done

LEMMA StepCourse ==
  ASSUME ClientTypeOK, Course, [ClientNext]_clientVars
  PROVE  Course'
<1> USE DEF ClientTypeOK, TypeOK, Arguments, Places, Course, Program, Runs, At,
            Goes
<1>1. CASE MainCreates \/ MainDisables \/ StartProcess
  BY <1>1 DEF MainCreates, MainDisables, StartProcess
<1>2. CASE MainInits
  BY <1>2 DEF MainInits, InitRefused, InitContext, Returned, Returns
<1>3. CASE MainExcludes
  BY <1>3 DEF MainExcludes, Returned
<1>4. CASE MainUpdates
  BY <1>4 DEF MainUpdates, Update, PhaseSucceeds, PhaseFails, Returned, Returns
<1>5. CASE MainWalks("reconcile", "RECONCILE", "propagate")
  <2> HIDE DEF Runs, Course
  <2>1. CASE ~Runs("reconcile")
    BY <1>5, <2>1 DEF MainWalks, vars, Course, Runs
  <2>2. CASE Runs("reconcile") /\ PhaseFails
    <3>1. ret' < 0 /\ exit' = 1
      BY <1>5, <2>2 DEF MainWalks, WalkTrees, PhaseFails, Returned, Returns
    <3> QED BY <3>1 DEF Course
  <2>3. CASE Runs("reconcile") /\ PhaseSucceeds("RECONCILE")
    <3>1. at' = "propagate" /\ done' = done \cup {"RECONCILE"}
      BY <1>5, <2>3 DEF MainWalks, WalkTrees, PhaseSucceeds, Returned, Returns
    <3>2. at = "reconcile" /\ Program /\ UNCHANGED <<args, exit, locked>>
      BY <1>5, <2>3, <3>1
         DEF MainWalks, WalkTrees, PhaseSucceeds, Returned, Returns
    <3> QED BY <3>1, <3>2 DEF Course, Runs
  <2> QED BY <1>5, <2>1, <2>2, <2>3 DEF MainWalks, WalkTrees
<1>6. CASE MainWalks("propagate", "PROPAGATE", "statedb")
  <2>1. CASE ~Runs("propagate")
    BY <1>6, <2>1 DEF MainWalks, vars
  <2>2. CASE Runs("propagate") /\ PhaseFails
    <3>1. ret' < 0 /\ exit' = 1
      BY <1>6, <2>2 DEF MainWalks, WalkTrees, PhaseFails, Returned, Returns
    <3> QED BY <3>1
  <2>3. CASE Runs("propagate") /\ PhaseSucceeds("PROPAGATE")
    <3>1. at' = "statedb" /\ done' = done \cup {"PROPAGATE"}
      BY <1>6, <2>3 DEF MainWalks, WalkTrees, PhaseSucceeds, Returned, Returns
    <3>2. at = "propagate" /\ Program /\ UNCHANGED <<args, exit, locked>>
      BY <1>6, <2>3, <3>1
         DEF MainWalks, WalkTrees, PhaseSucceeds, Returned, Returns
    <3> QED BY <3>1, <3>2
  <2> QED BY <1>6, <2>1, <2>2, <2>3 DEF MainWalks, WalkTrees
<1>7. CASE MainSetsStatus
  BY <1>7 DEF MainSetsStatus
<1>8. CASE MainDestroys
  BY <1>8 DEF MainDestroys
<1>9. CASE Library \/ UNCHANGED clientVars
  BY <1>9 DEF Library, clientVars, vars
<1> QED
  BY <1>1, <1>2, <1>3, <1>4, <1>5, <1>6, <1>7, <1>8, <1>9 DEF ClientNext, Main

(* For any arguments and failures, when main goes on to destroy a context  *)
(* with exit code 0 the phases that its arguments leave have succeeded     *)
(* under the lock (ExitMeansDone).                                         *)
THEOREM ExitIsEarned == ClientSpec => []ExitMeansDone
<1>1. ClientInit => Course
  BY DEF ClientInit, Course
<1>2. ClientTypeOK /\ Course => ExitMeansDone
  BY DEF ClientTypeOK, TypeOK, Arguments, Course, Program, Runs, ExitMeansDone,
         Phases
<1> QED BY <1>1, <1>2, StepCourse, ClientTypeCorrect, PTL DEF ClientSpec

-----------------------------------------------------------------------------
(* What Session promises to every client. *)

LEMMA ClientInv ==
  ASSUME "test_statedb" \notin Modes
  PROVE  ClientSpec => [](ClientTypeOK /\ Earned)
<1>1. ClientInit => Earned
  BY DEF ClientInit, Init, Earned
<1>2. ClientTypeOK /\ Earned /\ [ClientNext]_clientVars => Earned'
  BY ClientCalls, StepEarned DEF Calls, ClientTypeOK, Earned
<1> QED BY <1>1, <1>2, ClientTypeCorrect, PTL DEF ClientSpec

(* No client writes the journal from trees on which a phase is missing     *)
(* (HonestJournal), the program without --test-statedb included.           *)
THEOREM ClientsJournalHonestly ==
  ASSUME "test_statedb" \notin Modes
  PROVE  ClientSpec => HonestJournal
<1>1. ASSUME ClientTypeOK, Earned, [ClientNext]_clientVars
      PROVE  [journal # "written" /\ journal' = "written" => done = Phases]_vars
  <2>1. CASE [Next]_vars
    BY <1>1, <2>1, WriterMerges
       DEF ClientTypeOK, TypeOK, Synchronized, Earned, Phases
  <2>2. CASE UNCHANGED <<live, status, locked, db, disabled, tree, step,
                         journal, done, misuse, torn, faults>>
    BY <2>2 DEF vars
  <2> QED BY <1>1, <2>1, <2>2, ClientCalls DEF Calls, ClientTypeOK
<1> QED BY <1>1, ClientInv, PTL DEF ClientSpec, HonestJournal

(* No client that initializes a context before it commits it uses a closed *)
(* handle or a freed tree before a csync_commit has failed (NoDeadHandle). *)
THEOREM ClientsUseNothingDead ==
  ASSUME "test_statedb" \notin Modes, "early" \notin Features
  PROVE  ClientSpec => []NoDeadHandle
<1>1. ClientInit => HeldInv
  BY DEF ClientInit, Init, HeldInv, Initialized, NoTrees, Replica
<1>2. ClientTypeOK /\ HeldInv /\ [ClientNext]_clientVars => HeldInv'
  BY ClientCalls, StepHeldInv DEF Calls, ClientTypeOK, HeldInv, Initialized
<1>3. HeldInv => NoDeadHandle
  BY DEF HeldInv, NoDeadHandle
<1> QED BY <1>1, <1>2, <1>3, ClientTypeCorrect, PTL DEF ClientSpec
=============================================================================
