----------------------- MODULE VectorPublicationProofs -------------------------
(***************************************************************************)
(* What a failed or killed build leaves behind, for any number of builds:  *)
(* the inductive invariant follows the one build that has touched the pair *)
(* and says what undoing it would give back.                               *)
(***************************************************************************)
EXTENDS VectorPublication, TLAPS

(* A build under way that changed the files or may still change them.  One *)
(* that failed while it waited for the lock has nothing to undo.           *)
Engaged(b) ==
  \/ pc[b] \in InTransaction \cup {"tidy"}
  \/ pc[b] \in {"rollback", "remove", "restore"} /\ (old[b] \/ promoted[b])

Untouched(b) == ~old[b] /\ ~promoted[b]

(* The committed matrix is in place and nothing is set aside.              *)
Complete == active = contract /\ backup = None

(* What undoing leaves in place once the promoted matrix is gone.          *)
Undone(b, left) == IF old[b] /\ backup # None THEN backup ELSE left

InPlace(b) ==
  /\ pc[b] \in {"locked", "clear", "set_aside"} => Complete /\ ~promoted[b]
  /\ pc[b] = "locked" => ~old[b]
  /\ pc[b] \in {"clear", "set_aside"} => old[b]

Aside(b) ==
  /\ pc[b] \in {"promote", "commit"} => backup = contract /\ (old[b] <=> contract # None)
  /\ pc[b] = "promote" => active = None /\ ~promoted[b]
  /\ pc[b] = "commit" => active = b /\ promoted[b]
  /\ pc[b] = "tidy" => active = contract

Undoing(b) ==
  /\ pc[b] \in {"rollback", "remove"} =>
       contract = Undone(b, IF promoted[b] THEN None ELSE active)
  /\ pc[b] = "restore" => contract = Undone(b, active)
  /\ pc[b] \in {"rollback", "remove", "restore"} => old[b] \/ backup = None

OneEngaged == \A b, c \in Builder : Engaged(b) /\ Engaged(c) => b = c

NobodyEngaged == \A b \in Builder : ~Engaged(b)

Steady ==
  /\ OneEngaged
  /\ NobodyEngaged => IF history = {} THEN Complete ELSE contract \in {None, active, backup}
  /\ \A b \in Builder : Engaged(b) => InPlace(b) /\ Aside(b) /\ Undoing(b)
  /\ \A b \in Builder : pc[b] \in {"embed", "begin"} => Untouched(b)

IInv == TypeOK /\ (history \subseteq {"kill"} => Steady)

Frame(b) ==
  \A c \in Builder \ {b} : pc'[c] = pc[c] /\ old'[c] = old[c] /\ promoted'[c] = promoted[c]

Stages(b) == InPlace(b) /\ Aside(b) /\ Undoing(b)

Steps(b) ==
  \/ Embeds(b) \/ Begins(b) \/ Looks(b) \/ Clears(b) \/ SetsAside(b) \/ Promotes(b)
  \/ Commits(b) \/ Tidies(b) \/ Fails(b) \/ FailsLate(b) \/ RollsBack(b) \/ Removes(b)
  \/ Restores(b) \/ Killed(b)

(* A step of one build leaves the records of the others alone.             *)
LEMMA StepFrames ==
  ASSUME TypeOK, NEW b \in Builder, Steps(b)
  PROVE  Frame(b)
BY DEF TypeOK, Steps, Frame, Goto, Embeds, Begins, Looks, Clears, SetsAside, Promotes, Commits,
       Tidies, Fails, FailsLate, RollsBack, Removes, Restores, Killed

(* Faults are remembered.                                                  *)
LEMMA HistoryGrows ==
  ASSUME NEW b \in Builder, Steps(b)
  PROVE  history \subseteq history'
BY DEF Steps, Embeds, Begins, Looks, Clears, SetsAside, Promotes, Commits,
       Tidies, Fails, FailsLate, RollsBack, Removes, Restores, Killed

(* TypeOK is preserved: the write lock has one holder, inside its          *)
(* transaction or about to roll it back.                                   *)
LEMMA TypeStep ==
  ASSUME TypeOK, [Next]_vars
  PROVE  TypeOK'
<1> SUFFICES ASSUME NEW b \in Builder, Steps(b)
             PROVE  TypeOK'
  <2>1. CASE UNCHANGED vars
    BY <2>1 DEF TypeOK, vars
  <2> QED
    BY <2>1 DEF Next, Steps
<1> USE PublicationAssumption DEF TypeOK, Matrix, Pc, Resting, InTransaction, Goto
<1>1. CASE Embeds(b) \/ Looks(b) \/ Clears(b) \/ SetsAside(b)
  BY <1>1 DEF Embeds, Looks, Clears, SetsAside
<1>2. CASE Begins(b)
  BY <1>2 DEF Begins
<1>3. CASE Promotes(b) \/ Tidies(b)
  BY <1>3 DEF Promotes, Tidies
<1>4. CASE Commits(b)
  BY <1>4 DEF Commits
<1>5. CASE Fails(b) \/ FailsLate(b)
  BY <1>5 DEF Fails, FailsLate
<1>6. CASE RollsBack(b) \/ Killed(b)
  <2>1. pc' \in [Builder -> Pc] /\ pc'[b] \in {"remove", "failed"} /\ lock' = Unlocked(b)
    BY <1>6 DEF RollsBack, Killed
  <2>2. lock' \in Builder \cup {None} /\ lock' # b
    BY <2>1 DEF Unlocked
  <2>3. \A c \in Builder \ {b} : pc'[c] = pc[c] /\ (lock' = c <=> lock = c)
    BY <1>6, <2>1 DEF RollsBack, Killed, Unlocked
  <2>4. \A c \in Builder : /\ pc'[c] \in InTransaction => lock' = c
                           /\ lock' = c => pc'[c] \in InTransaction \cup {"rollback"}
    BY <2>1, <2>2, <2>3
  <2>5. history' \subseteq {"late", "kill", "overlap", "rebuild"}
    BY <1>6 DEF RollsBack, Killed
  <2> QED
    BY <1>6, <2>1, <2>2, <2>4, <2>5 DEF RollsBack, Killed
<1>7. CASE Removes(b) \/ Restores(b)
  BY <1>7 DEF Removes, Restores
<1> QED
  BY <1>1, <1>2, <1>3, <1>4, <1>5, <1>6, <1>7 DEF Steps

(* While one build is engaged, it alone decides what the pair looks like.  *)
LEMMA EngagedStep ==
  ASSUME TypeOK, Steady, NEW b \in Builder, Frame(b), Engaged(b),
         history' \subseteq {"kill"},
         pc'[b] \notin {"embed", "begin"},
         IF Engaged(b)' THEN Stages(b)'
         ELSE IF history' = {} THEN Complete' ELSE (contract \in {None, active, backup})'
  PROVE  Steady'
<1>1. \A c \in Builder \ {b} : ~Engaged(c) /\ ~Engaged(c)'
  BY DEF Steady, OneEngaged, Frame, Engaged
<1>2. \A c \in Builder : pc'[c] \in {"embed", "begin"} => Untouched(c)'
  BY DEF Steady, Untouched, Frame
<1> QED
  BY <1>1, <1>2 DEF Steady, OneEngaged, NobodyEngaged, Stages

(* A build that has touched nothing disturbs nothing.                      *)
LEMMA IdleStep ==
  ASSUME TypeOK, Steady, NEW b \in Builder, Frame(b), ~Engaged(b), ~Engaged(b)',
         history \subseteq history', history' \subseteq {"kill"},
         UNCHANGED <<active, backup, contract>>,
         pc'[b] \in {"embed", "begin"} => Untouched(b)'
  PROVE  Steady'
<1>1. \A c \in Builder : Engaged(c)' <=> Engaged(c)
  BY DEF Frame, Engaged
<1>2. \A c \in Builder : Engaged(c)' => (InPlace(c) /\ Aside(c) /\ Undoing(c))'
  <2> SUFFICES ASSUME NEW c \in Builder, Engaged(c)'
               PROVE  (InPlace(c) /\ Aside(c) /\ Undoing(c))'
    OBVIOUS
  <2>1. c # b /\ Engaged(c)
    BY <1>1
  <2> QED
    BY <2>1 DEF Steady, Frame, InPlace, Aside, Undoing, Undone, Complete
<1>3. \A c \in Builder : pc'[c] \in {"embed", "begin"} => Untouched(c)'
  BY DEF Steady, Untouched, Frame
<1>4. NobodyEngaged' => IF history' = {} THEN Complete'
                        ELSE (contract \in {None, active, backup})'
  BY <1>1 DEF Steady, NobodyEngaged, Complete
<1> QED
  BY <1>1, <1>2, <1>3, <1>4 DEF Steady, OneEngaged

(* Steady is preserved.  A build becomes engaged only when nobody is, and  *)
(* when it ceases to be, the pair is complete or a kill was recorded.      *)
LEMMA SteadyStep ==
  ASSUME TypeOK, Steady, NEW b \in Builder, Steps(b), history' \subseteq {"kill"}
  PROVE  Steady'
<1>1. Frame(b) /\ history \subseteq history'
  BY StepFrames, HistoryGrows
<1>2. pc[b] \in {"embed", "begin"} => Untouched(b) /\ ~Engaged(b)
  BY DEF Steady, Engaged, InTransaction
<1>3. Engaged(b) => InPlace(b) /\ Aside(b) /\ Undoing(b)
  BY DEF Steady
<1> DEFINE Goal == IF Engaged(b)' THEN Stages(b)'
                   ELSE IF history' = {} THEN Complete'
                   ELSE (contract \in {None, active, backup})'
<1> USE PublicationAssumption DEF TypeOK, Matrix, Pc, Resting, InTransaction, Goto
<1>4. CASE Embeds(b)
  <2>1. ~Engaged(b)' /\ Untouched(b)' /\ UNCHANGED <<active, backup, contract>>
    BY <1>2, <1>4 DEF Embeds, Engaged, Untouched
  <2> QED
    BY <1>1, <1>2, <1>4, <2>1, IdleStep DEF Embeds
<1>5. CASE Begins(b)
  <2>1. history = {} /\ Others(b) = {}
    BY <1>5 DEF Begins
  <2>2. \A c \in Builder : ~Engaged(c)
    <3>1. \A c \in Builder \ {b} : pc[c] \in Resting
      BY <2>1 DEF Others
    <3> QED
      BY <1>2, <1>5, <3>1 DEF Begins, Engaged
  <2>3. Complete
    BY <2>1, <2>2 DEF Steady, NobodyEngaged
  <2>4. \A c \in Builder \ {b} : ~Engaged(c)'
    BY <1>1, <2>2 DEF Frame, Engaged
  <2>5. Engaged(b)' /\ Stages(b)' /\ pc'[b] = "locked"
    BY <1>2, <1>5, <2>3 DEF Begins, Engaged, Stages, InPlace, Aside, Undoing, Complete, Untouched
  <2>6. \A c \in Builder : pc'[c] \in {"embed", "begin"} => Untouched(c)'
    BY <1>1, <2>5 DEF Steady, Untouched, Frame
  <2> QED
    BY <2>4, <2>5, <2>6 DEF Steady, OneEngaged, NobodyEngaged, Stages
<1>6. CASE Looks(b)
  <2>1. Engaged(b) /\ pc'[b] \notin {"embed", "begin"}
    BY <1>6 DEF Looks, Engaged
  <2>2. Goal
    BY <1>3, <1>6, <2>1 DEF Looks, Engaged, Stages, InPlace, Aside, Undoing, Complete
  <2> QED
    BY <1>1, <2>1, <2>2, EngagedStep
<1>7. CASE Clears(b)
  <2>1. Engaged(b) /\ pc'[b] \notin {"embed", "begin"}
    BY <1>7 DEF Clears, Engaged
  <2>2. Goal
    BY <1>3, <1>7, <2>1 DEF Clears, Engaged, Stages, InPlace, Aside, Undoing, Complete
  <2> QED
    BY <1>1, <2>1, <2>2, EngagedStep
<1>8. CASE SetsAside(b)
  <2>1. Engaged(b) /\ pc'[b] \notin {"embed", "begin"}
    BY <1>8 DEF SetsAside, Engaged
  <2>2. Goal
    BY <1>3, <1>8, <2>1 DEF SetsAside, Engaged, Stages, InPlace, Aside, Undoing, Complete
  <2> QED
    BY <1>1, <2>1, <2>2, EngagedStep
<1>9. CASE Promotes(b)
  <2>1. Engaged(b) /\ pc'[b] \notin {"embed", "begin"}
    BY <1>9 DEF Promotes, Engaged
  <2>2. Goal
    BY <1>3, <1>9, <2>1 DEF Promotes, Engaged, Stages, InPlace, Aside, Undoing, Complete
  <2> QED
    BY <1>1, <2>1, <2>2, EngagedStep
<1>10. CASE Commits(b)
  <2>1. Engaged(b) /\ pc'[b] \notin {"embed", "begin"}
    BY <1>10 DEF Commits, Engaged
  <2>2. Goal
    BY <1>3, <1>10, <2>1 DEF Commits, Engaged, Stages, InPlace, Aside, Undoing, Complete
  <2> QED
    BY <1>1, <2>1, <2>2, EngagedStep
<1>11. CASE Tidies(b)
  <2>1. Engaged(b) /\ pc'[b] \notin {"embed", "begin"}
    BY <1>11 DEF Tidies, Engaged
  <2>2. Goal
    BY <1>3, <1>11, <2>1 DEF Tidies, Engaged, Stages, InPlace, Aside, Undoing, Complete
  <2> QED
    BY <1>1, <2>1, <2>2, EngagedStep
<1>12. CASE Fails(b) /\ Engaged(b)
  <2>1. pc'[b] = "rollback"
    BY <1>12 DEF Fails
  <2>2. Goal
    BY <1>3, <1>12, <2>1 DEF Fails, Engaged, Stages, InPlace, Aside, Undoing, Undone, Complete
  <2> QED
    BY <1>1, <1>12, <2>1, <2>2, EngagedStep
<1>13. CASE Fails(b) /\ ~Engaged(b)
  <2>1. pc[b] = "begin" /\ pc'[b] = "rollback"
    BY <1>13 DEF Fails, Engaged
  <2>2. ~Engaged(b)' /\ UNCHANGED <<active, backup, contract>>
    BY <1>2, <1>13, <2>1 DEF Fails, Engaged, Untouched
  <2> QED
    BY <1>1, <1>13, <2>1, <2>2, IdleStep
<1>14. CASE FailsLate(b)
  BY <1>14 DEF FailsLate
<1>15. CASE (RollsBack(b) \/ Removes(b) \/ Restores(b)) /\ ~Engaged(b)
  <2>1. ~old[b] /\ ~promoted[b]
    BY <1>15 DEF RollsBack, Removes, Restores, Engaged
  <2>2. ~Engaged(b)' /\ UNCHANGED <<active, backup, contract>> /\ pc'[b] \notin {"embed", "begin"}
    BY <1>15, <2>1 DEF RollsBack, Removes, Restores, Engaged
  <2> QED
    BY <1>1, <1>15, <2>2, IdleStep
<1>16. CASE RollsBack(b) /\ Engaged(b)
  <2>1. pc'[b] = "remove"
    BY <1>16 DEF RollsBack
  <2>2. Goal
    BY <1>3, <1>16, <2>1 DEF RollsBack, Engaged, Stages, InPlace, Aside, Undoing, Undone
  <2> QED
    BY <1>1, <1>16, <2>1, <2>2, EngagedStep
<1>17. CASE Removes(b) /\ Engaged(b)
  <2>1. pc'[b] = "restore"
    BY <1>17 DEF Removes
  <2>2. Goal
    BY <1>3, <1>17, <2>1 DEF Removes, Engaged, Stages, InPlace, Aside, Undoing, Undone
  <2> QED
    BY <1>1, <1>17, <2>1, <2>2, EngagedStep
<1>18. CASE Restores(b) /\ Engaged(b)
  <2>1. pc'[b] = "failed" /\ ~Engaged(b)'
    BY <1>18 DEF Restores, Engaged
  <2>2. Complete'
    BY <1>3, <1>18 DEF Restores, Engaged, Undoing, Undone, Complete
  <2> QED
    BY <1>1, <1>18, <2>1, <2>2, EngagedStep DEF Complete
<1>19. CASE Killed(b) /\ ~Engaged(b)
  <2>1. ~Engaged(b)' /\ UNCHANGED <<active, backup, contract>> /\ pc'[b] \notin {"embed", "begin"}
    BY <1>19 DEF Killed, Engaged
  <2> QED
    BY <1>1, <1>19, <2>1, IdleStep
<1>20. CASE Killed(b) /\ Engaged(b)
  <2>1. pc'[b] = "failed" /\ ~Engaged(b)' /\ history' # {}
    BY <1>20 DEF Killed, Engaged
  <2>2. contract \in {None, active, backup}
    BY <1>3, <1>20 DEF Engaged, InPlace, Aside, Undoing, Undone, Complete
  <2>3. (contract \in {None, active, backup})'
    BY <1>20, <2>2 DEF Killed
  <2> QED
    BY <1>1, <1>20, <2>1, <2>3, EngagedStep
<1> QED
  BY <1>4, <1>5, <1>6, <1>7, <1>8, <1>9, <1>10, <1>11, <1>12, <1>13, <1>14, <1>15, <1>16, <1>17,
     <1>18, <1>19, <1>20 DEF Steps

LEMMA InitSteady ==
  ASSUME Init
  PROVE  IInv
BY PublicationAssumption DEF Init, IInv, TypeOK, Matrix, Pc, Resting, InTransaction, Steady,
   OneEngaged, NobodyEngaged, Engaged, Complete, InPlace, Aside, Undoing, Untouched

(* IInv is inductive.                                                      *)
LEMMA Inductive == Spec => []IInv
<1>1. IInv /\ [Next]_vars => IInv'
  <2> SUFFICES ASSUME IInv, [Next]_vars
               PROVE  IInv'
    OBVIOUS
  <2>1. TypeOK'
    BY TypeStep DEF IInv
  <2>2. CASE UNCHANGED vars
    BY <2>1, <2>2 DEF IInv, vars, Steady, OneEngaged, NobodyEngaged, Engaged, Complete,
       InPlace, Aside, Undoing, Undone, Untouched
  <2>3. CASE Next
    <3>1. PICK b \in Builder : Steps(b)
      BY <2>3 DEF Next, Steps
    <3> QED
      BY <2>1, <3>1, SteadyStep, HistoryGrows DEF IInv
  <2> QED
    BY <2>2, <2>3
<1> QED
  BY <1>1, InitSteady, PTL DEF Spec

(* Whatever the number of builds and the faults, a build that fails before *)
(* or in its commit gives the previous pair back, and one that succeeds    *)
(* publishes its own (build_vector_index).                                 *)
THEOREM FailureAlwaysRestoresPair == Spec => []FailureRestoresPair
<1>1. IInv => FailureRestoresPair
  <2> SUFFICES ASSUME IInv, Quiet, history = {}
               PROVE  active = contract
    BY DEF FailureRestoresPair
  <2>1. NobodyEngaged
    BY DEF Quiet, NobodyEngaged, Engaged, Resting, InTransaction
  <2> QED
    BY <2>1 DEF IInv, Steady, Complete
<1> QED
  BY <1>1, Inductive, PTL

(* However many builds are killed, and wherever, the matrix the committed  *)
(* contract names is in place or set aside until the next build begins.    *)
THEOREM CommittedMatrixAlwaysExists == Spec => []CommittedMatrixExists
<1>1. IInv => CommittedMatrixExists
  <2> SUFFICES ASSUME IInv, history \subseteq {"kill"}
               PROVE  contract \in {None, active, backup}
    BY DEF CommittedMatrixExists
  <2>1. CASE NobodyEngaged
    BY <2>1 DEF IInv, Steady, Complete
  <2>2. CASE ~NobodyEngaged
    <3>1. PICK b \in Builder : Engaged(b)
      BY <2>2 DEF NobodyEngaged
    <3> QED
      BY <3>1 DEF IInv, Steady, Engaged, InTransaction, InPlace, Aside, Undoing, Undone, Complete
  <2> QED
    BY <2>1, <2>2
<1> QED
  BY <1>1, Inductive, PTL

(* Files hold what a build made, and the write lock has one holder, inside *)
(* its transaction or about to roll it back, for any number of builds.     *)
THEOREM PublicationTypeCorrect == Spec => []TypeOK
<1>1. IInv => TypeOK
  BY DEF IInv
<1> QED
  BY <1>1, Inductive, PTL
===============================================================================
