------------------------------- MODULE Client -------------------------------
(***************************************************************************)
(* Who uses a context: the csync program (client/csync_client.c), or any   *)
(* other client of the library, which may call what it wants.  The program *)
(* makes one context per process, runs the phases that its arguments leave *)
(* and destroys the context after any failure.                             *)
(***************************************************************************)
EXTENDS Session

CONSTANTS
    Modes,     \* what processes are started for, a subset of AllModes
    Excludes   \* whether they are given an exclude file: a subset of BOOLEAN

(* library: another client.  The others are the arguments of the program,  *)
(* sync for none of the three.                                             *)
AllModes == {"library", "sync", "dry_run", "test_update", "test_statedb"}

ASSUME ModesAssumption ==
    Modes \subseteq AllModes /\ Modes # {} /\ Excludes \subseteq BOOLEAN

VARIABLES
    args,  \* the arguments of the process
    at,    \* the next call of main
    exit   \* rc of main

clientVars == <<vars, args, at, exit>>

Arguments == [mode : Modes, disable : BOOLEAN, exclude : Excludes]
Places    == {"create", "disable", "init", "exclude", "update", "reconcile",
              "propagate", "statedb", "destroy", "destroying", "exit"}

ClientTypeOK ==
    /\ TypeOK
    /\ args \in Arguments /\ at \in Places /\ exit \in {0, 1}

ClientInit == Init /\ args \in Arguments /\ at = "create" /\ exit = 0

-----------------------------------------------------------------------------
Library ==
    /\ args.mode = "library"
    /\ Next
    /\ UNCHANGED <<args, at, exit>>

(* parse_args: the phases that remain. *)
Runs(phase) ==
    CASE phase = "update"    -> TRUE
      [] phase = "reconcile" -> args.mode \in {"sync", "dry_run"}
      [] phase = "propagate" -> args.mode = "sync"

At(place) ==
    /\ args.mode # "library" /\ at = place
    /\ UNCHANGED args

Goes(place) == at' = place /\ UNCHANGED exit

(* Mutant: what the phases return is not looked at. *)
Unchecked(place) ==
    IF ret' < 0 /\ at = "init" THEN at' = "destroy" /\ exit' = 1
                              ELSE Goes(place)

(* "goto out" if the call has failed. *)
Returned(place) ==
    IF ret' < 0 THEN at' = "destroy" /\ exit' = 1 ELSE Goes(place)

MainCreates ==
    /\ At("create") /\ Create
    /\ Goes(IF args.disable THEN "disable" ELSE "init")

MainDisables ==
    /\ At("disable") /\ SetDisabled /\ disabled' = TRUE
    /\ Goes("init")

MainInits ==
    /\ At("init") /\ (InitRefused \/ InitContext)
    /\ Returned(IF args.exclude THEN "exclude" ELSE "update")

(* csync_add_exclude_list: there is such a file, or not.                   *)
MainExcludes ==
    /\ At("exclude")
    /\ UNCHANGED <<live, status, locked, db, disabled, tree, step, journal, done,
                   misuse, torn>>
    /\ NoFault
    /\ Returns(0) \/ Returns(0 - 1)
    /\ Returned("update")

MainUpdates ==
    /\ At("update") /\ Update
    /\ Returned("reconcile")

MainWalks(place, phase, next) ==
    /\ At(place)
    /\ IF Runs(place) THEN WalkTrees(phase) /\ Returned(next)
                      ELSE UNCHANGED vars /\ Goes(next)

(* csync_set_status with all bits, for --test-statedb. *)
MainSetsStatus ==
    /\ At("statedb")
    /\ status' = IF args.mode = "test_statedb" THEN Phases \cup {"INIT"}
                                               ELSE status
    /\ Goes("destroy")
    /\ UNCHANGED <<live, locked, db, disabled, tree, step, ret, journal, done,
                   misuse, torn, faults>>

MainDestroys ==
    \/ At("destroy") /\ Destroy /\ Goes("destroying")
    \/ At("destroying") /\ DestroyRest /\ Goes("exit")

(* The next process. *)
StartProcess ==
    /\ ~live /\ step = "idle"
    /\ args.mode = "library" \/ at = "exit"
    /\ args' \in Arguments /\ at' = "create" /\ exit' = 0
    /\ UNCHANGED vars

Main ==
    \/ MainCreates \/ MainDisables \/ MainInits \/ MainExcludes \/ MainUpdates
    \/ MainWalks("reconcile", "RECONCILE", "propagate")
    \/ MainWalks("propagate", "PROPAGATE", "statedb")
    \/ MainSetsStatus \/ MainDestroys

ClientNext == Library \/ Main \/ StartProcess
ClientSpec == ClientInit /\ [][ClientNext]_clientVars

-----------------------------------------------------------------------------
(***************************************************************************)
(* Properties.                                                             *)
(***************************************************************************)
Program == args.mode # "library"

(* The program says 0 only if every phase that its arguments leave has     *)
(* succeeded on the trees of its one csync_init, wherever a call failed.   *)
ExitMeansDone ==
    Program /\ at = "destroy" /\ exit = 0 =>
        /\ locked /\ "UPDATE" \in done
        /\ args.mode = "sync" => done = Phases

(* "Writes the statedb" (csync_destroy in csync.h): a synchronization that *)
(* says 0 has journalled what it did.                                      *)
ExitMeansJournalled ==
    at = "exit" /\ args.mode = "sync" /\ exit = 0 /\ ~args.disable =>
        journal = "written"
=============================================================================
