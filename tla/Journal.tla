------------------------------- MODULE Journal -------------------------------
(***************************************************************************)
(* What the two-phase commit of the state database promises about the rows *)
(* the next run will find: they stay, give way at once to the rows of the  *)
(* run that ends, or are lost.  SyncRun's WriteJournal is a step of this.  *)
(***************************************************************************)
CONSTANTS
    Path,      \* paths that may have a row
    NoTable    \* there are no rows to be found

(* Rows of the run that wrote the journal last are new, all others old.    *)
Age == {"new", "old"}
Row == Path \X Age

VARIABLES
    stored,    \* the rows the next run will find, or NoTable
    synced     \* the paths a run that ends has synchronized, or NoTable
               \*   while no run has come to its end

RowsOf(paths) == paths \X {"new"}
Aged(rows)    == IF rows = NoTable THEN NoTable
                 ELSE {r[1] : r \in rows} \X {"old"}

Init ==
    /\ stored = NoTable \/ \E P \in SUBSET Path : stored = P \X {"old"}
    /\ synced = NoTable

(* A run begins: the rows of the last one are old now.                     *)
Begin == stored' = Aged(stored) /\ synced' = NoTable

(* The run has synchronized some paths.                                    *)
Propagated ==
    /\ synced = NoTable
    /\ \E P \in SUBSET Path : synced' = P
    /\ stored' = stored

Replace == synced # NoTable /\ stored' = RowsOf(synced) /\ synced' = synced

(* The rows are lost, with or without their table.                         *)
Lose == stored' \in {NoTable, {}} /\ synced' = synced

Next == Begin \/ Propagated \/ Replace \/ Lose
Spec == Init /\ [][Next]_<<stored, synced>>
=============================================================================
