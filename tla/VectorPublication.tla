--------------------------- MODULE VectorPublication ---------------------------
(***************************************************************************)
(* build_vector_index (projection/vector.py) as it replaces a published    *)
(* pair: the matrix file and the SQLite contract naming its digest, which  *)
(* cannot change together.  The old matrix is set aside under a fixed      *)
(* name, the new one renamed into place, the contract committed, and a     *)
(* failure on the way is undone step by step.  Each builder runs once; its *)
(* name stands for the matrix it makes, Published for the one before.  A   *)
(* failed embedding precedes all file work and leaves no trace here.       *)
(***************************************************************************)
EXTENDS FiniteSets

CONSTANTS
  Builder,     \* calls of build_vector_index
  Published,   \* the matrix of an earlier build
  None,
  Faults       \* which of "error", "late", "kill", "overlap" may happen

ASSUME PublicationAssumption ==
  /\ Published \notin Builder /\ None \notin Builder \cup {Published}
  /\ Faults \subseteq {"error", "late", "kill", "overlap"}

VARIABLES
  active,     \* vectors.npy
  backup,     \* .vectors.npy.backup
  contract,   \* matrix_sha256 of the committed vector_build_contract
  lock,       \* the builder that holds SQLite's write lock
  pc,
  old,        \* old_matrix is set
  promoted,
  history     \* the faults so far, and "rebuild" once a build follows a kill

vars == <<active, backup, contract, lock, pc, old, promoted, history>>

Matrix == Builder \cup {Published}
Resting == {"embed", "begin", "done", "failed"}
InTransaction == {"locked", "clear", "set_aside", "promote", "commit"}
Pc == Resting \cup InTransaction \cup {"tidy", "rollback", "remove", "restore"}

TypeOK ==
  /\ active \in Matrix \cup {None} /\ backup \in Matrix \cup {None}
  /\ contract \in Matrix \cup {None} /\ lock \in Builder \cup {None}
  /\ pc \in [Builder -> Pc]
  /\ old \in [Builder -> BOOLEAN] /\ promoted \in [Builder -> BOOLEAN]
  /\ history \subseteq {"late", "kill", "overlap", "rebuild"}
  /\ \A b \in Builder : /\ pc[b] \in InTransaction => lock = b
                        /\ lock = b => pc[b] \in InTransaction \cup {"rollback"}

Init ==
  /\ active \in {Published, None} /\ contract = active
  /\ backup = None /\ lock = None
  /\ pc = [b \in Builder |-> "embed"]
  /\ old = [b \in Builder |-> FALSE] /\ promoted = [b \in Builder |-> FALSE]
  /\ history = {}

Goto(b, label) == pc' = [pc EXCEPT ![b] = label]
Others(b) == {c \in Builder \ {b} : pc[c] \notin Resting}
Quiet == \A b \in Builder : pc[b] \in Resting

-------------------------------------------------------------------------------
(* Every target embedded, the matrix in a temporary file of its own.       *)
Embeds(b) ==
  /\ pc[b] = "embed"
  /\ Goto(b, "begin")
  /\ UNCHANGED <<active, backup, contract, lock, old, promoted, history>>

(* BEGIN; the first DROP TABLE takes the write lock.  The new tables and   *)
(* their validation against the temporary file belong to this transaction. *)
Begins(b) ==
  /\ pc[b] = "begin" /\ lock = None
  /\ Others(b) = {} \/ "overlap" \in Faults
  /\ lock' = b
  /\ history' = history \cup (IF Others(b) # {} THEN {"overlap"} ELSE {})
                        \cup (IF "kill" \in history THEN {"rebuild"} ELSE {})
  /\ Goto(b, "locked")
  /\ UNCHANGED <<active, backup, contract, old, promoted>>

Looks(b) ==
  /\ pc[b] = "locked"
  /\ old' = [old EXCEPT ![b] = active # None]
  /\ Goto(b, IF active # None THEN "clear" ELSE "promote")
  /\ UNCHANGED <<active, backup, contract, lock, promoted, history>>

(* A backup an earlier build left behind is removed.                       *)
Clears(b) ==
  /\ pc[b] = "clear"
  /\ backup' = None
  /\ Goto(b, "set_aside")
  /\ UNCHANGED <<active, contract, lock, old, promoted, history>>

(* Slip: the old matrix is removed, not set aside.                         *)
DropsActive(b) ==
  /\ pc[b] = "set_aside" /\ active # None
  /\ active' = None
  /\ Goto(b, "promote")
  /\ UNCHANGED <<backup, contract, lock, old, promoted, history>>

SetsAside(b) ==
  /\ pc[b] = "set_aside" /\ active # None
  /\ backup' = active /\ active' = None
  /\ Goto(b, "promote")
  /\ UNCHANGED <<contract, lock, old, promoted, history>>

Promotes(b) ==
  /\ pc[b] = "promote"
  /\ active' = b
  /\ promoted' = [promoted EXCEPT ![b] = TRUE]
  /\ Goto(b, "commit")
  /\ UNCHANGED <<backup, contract, lock, old, history>>

Commits(b) ==
  /\ pc[b] = "commit"
  /\ contract' = b /\ lock' = None
  /\ Goto(b, IF old[b] THEN "tidy" ELSE "done")
  /\ UNCHANGED <<active, backup, old, promoted, history>>

Tidies(b) ==
  /\ pc[b] = "tidy"
  /\ backup' = None
  /\ Goto(b, "done")
  /\ UNCHANGED <<active, contract, lock, old, promoted, history>>

-------------------------------------------------------------------------------
(* A statement, the validation, a rename or the commit raises.             *)
Fails(b) ==
  /\ "error" \in Faults \/ (pc[b] = "set_aside" /\ active = None)
  /\ pc[b] \in InTransaction \cup {"begin"}
  /\ Goto(b, "rollback")
  /\ UNCHANGED <<active, backup, contract, lock, old, promoted, history>>

(* The removal of the backup raises after the commit, in the same try.     *)
FailsLate(b) ==
  /\ "late" \in Faults /\ pc[b] = "tidy"
  /\ history' = history \cup {"late"}
  /\ Goto(b, "rollback")
  /\ UNCHANGED <<active, backup, contract, lock, old, promoted>>

Unlocked(b) == IF lock = b THEN None ELSE lock

(* Slip: the transaction is left open.                                     *)
KeepsTransaction(b) ==
  /\ pc[b] = "rollback"
  /\ Goto(b, "remove")
  /\ UNCHANGED <<active, backup, contract, lock, old, promoted, history>>

RollsBack(b) ==
  /\ pc[b] = "rollback"
  /\ lock' = Unlocked(b)
  /\ Goto(b, "remove")
  /\ UNCHANGED <<active, backup, contract, old, promoted, history>>

(* Slip: the promoted matrix stays in place.                               *)
LeavesPromoted(b) ==
  /\ pc[b] = "remove"
  /\ Goto(b, "failed")
  /\ UNCHANGED <<active, backup, contract, lock, old, promoted, history>>

Removes(b) ==
  /\ pc[b] = "remove"
  /\ active' = IF promoted[b] THEN None ELSE active
  /\ Goto(b, "restore")
  /\ UNCHANGED <<backup, contract, lock, old, promoted, history>>

Restores(b) ==
  /\ pc[b] = "restore"
  /\ IF old[b] /\ backup # None
     THEN active' = backup /\ backup' = None
     ELSE UNCHANGED <<active, backup>>
  /\ Goto(b, "failed")
  /\ UNCHANGED <<contract, lock, old, promoted, history>>

(* The process dies; SQLite rolls its transaction back, files stay.        *)
Killed(b) ==
  /\ "kill" \in Faults /\ pc[b] \notin Resting
  /\ history' = history \cup {"kill"}
  /\ lock' = Unlocked(b)
  /\ Goto(b, "failed")
  /\ UNCHANGED <<active, backup, contract, old, promoted>>

Next == \E b \in Builder :
  \/ Embeds(b) \/ Begins(b) \/ Looks(b) \/ Clears(b) \/ SetsAside(b) \/ Promotes(b)
  \/ Commits(b) \/ Tidies(b) \/ Fails(b) \/ FailsLate(b) \/ RollsBack(b) \/ Removes(b)
  \/ Restores(b) \/ Killed(b)

Spec == Init /\ [][Next]_vars

-------------------------------------------------------------------------------
(* A build that fails before or in its commit restores the previous        *)
(* completed pair, and one that succeeds publishes its own: whenever no    *)
(* build is under way, the file is the one the contract names.             *)
FailureRestoresPair == Quiet /\ history = {} => active = contract

(* The matrix of the committed contract is never lost to kills alone: at   *)
(* every moment it is in place or set aside, until the next build begins.  *)
CommittedMatrixExists ==
  history \subseteq {"kill"} => contract \in {None, active, backup}
===============================================================================
