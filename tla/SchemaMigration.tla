---------------------------- MODULE SchemaMigration ----------------------------
(***************************************************************************)
(* initialize_runtime and migrate_runtime (runtime/conversation.py): how a *)
(* runtime database of schema version 1 to 6 becomes version 7 while other *)
(* processes create, migrate and use the same file.  A migrator reads and  *)
(* validates the version first and takes the write lock afterwards; its    *)
(* transaction is one step that commits or rolls back.  Conversations and  *)
(* messages are in every version and no migration touches them.            *)
(***************************************************************************)
EXTENDS Naturals, FiniteSets

CONSTANTS
  Migrator,   \* processes at the file
  RunId,      \* model runs the file has room for
  None

(* The tables that come with the versions, and the version bringing each.  *)
Table == {"model_runs", "conformance", "executions"}
SinceVersion == [model_runs |-> 2, conformance |-> 4, executions |-> 5]
Current == 7

(* prompt is how prompt_version names the prompt; answer stands for the    *)
(* input and the output columns only a synthesis fills.                    *)
Run == [kind : {"router", "inference", "synthesis"}, prompt : {"name", "sha256"},
        answer : {"none", "kept", "lost"}]

(* checked: the tables whose CHECK constraints are those of version 7.     *)
Store == [version : 0 .. Current, tables : SUBSET Table, layout : {"none", "v2", "v3", "v6"},
          checked : SUBSET Table, runs : [RunId -> Run \cup {None}],
          conformance : SUBSET RunId, executions : SUBSET RunId]

ASSUME MigrationAssumption == None \notin Run /\ None \notin Store

Pc == {"start", "validate", "begin", "create", "done", "refused", "interrupted"}

VARIABLES store, pc, seen
vars == <<store, pc, seen>>

Ids(s, kind) == {r \in RunId : s.runs[r] # None /\ s.runs[r].kind = kind}

-------------------------------------------------------------------------------
(* _validate_schema: tables, columns and constraints are those of version v. *)
TablesOf(v) == {t \in Table : SinceVersion[t] <= v}

LayoutOf(v) == IF v < 2 THEN "none" ELSE IF v = 2 THEN "v2" ELSE IF v < 6 THEN "v3" ELSE "v6"

Fits(s, v) ==
  /\ s.tables = TablesOf(v) /\ s.layout = LayoutOf(v)
  /\ s.checked = IF v = Current THEN {"conformance", "executions"} ELSE {}

(* What the code of version v may have written.                            *)
Legacy(v) ==
  LET rows == {[kind |-> k, prompt |-> IF v = 2 THEN "name" ELSE "sha256",
                answer |-> IF k = "synthesis" THEN "kept" ELSE "none"] :
                 k \in IF v < 2 THEN {} ELSE IF v = 2 THEN {"router"}
                       ELSE IF v < 6 THEN {"router", "inference"} ELSE {"router", "inference", "synthesis"}}
      written == {s \in [version : {v}, tables : {TablesOf(v)}, layout : {LayoutOf(v)},
                         checked : {IF v = Current THEN {"conformance", "executions"} ELSE {}},
                         runs : [RunId -> rows \cup {None}],
                         conformance : SUBSET RunId, executions : SUBSET RunId] :
                    /\ s.conformance \subseteq Ids(s, "inference")
                    /\ s.executions \subseteq s.conformance}
  IN  {s \in written : /\ v < 4 => s.conformance = {}
                       /\ v < 5 => s.executions = {}
                       /\ (\E r \in RunId : s.runs[r] # None) => Ids(s, "router") # {}}

Init ==
  /\ store \in UNION {Legacy(v) : v \in 0 .. Current}
  /\ pc = [m \in Migrator |-> "start"]
  /\ seen = [m \in Migrator |-> 0]

-------------------------------------------------------------------------------
(* The statements of the migrations; None is one that fails.               *)

(* Slip: DROP TABLE IF EXISTS before CREATE TABLE.                         *)
CreateOver(s, t) ==
  IF s = None THEN None
  ELSE [s EXCEPT !.tables = @ \cup {t},
                 !.layout = IF t = "model_runs" THEN "v6" ELSE @,
                 !.runs = IF t = "model_runs" THEN [r \in RunId |-> None] ELSE @,
                 !.checked = @ \cup ({t} \ {"model_runs"})]

(* CREATE TABLE in the shape of version 7.                                 *)
Create(s, t) ==
  IF s = None \/ t \in s.tables THEN None
  ELSE [s EXCEPT !.tables = @ \cup {t},
                 !.layout = IF t = "model_runs" THEN "v6" ELSE @,
                 !.checked = @ \cup ({t} \ {"model_runs"})]

OnRuns(s, f(_)) == [r \in RunId |-> IF s.runs[r] = None THEN None ELSE f(s.runs[r])]

(* _migrate_v2_to_v3: the historical prompt name becomes its hash.         *)
HashPrompts(s) ==
  LET hashed(run) == [run EXCEPT !.prompt = "sha256"]
  IN  IF \E r \in RunId : s.runs[r] # None /\ s.runs[r].prompt # "name" THEN None
      ELSE [s EXCEPT !.layout = "v6", !.runs = OnRuns(s, hashed)]

(* Slip: the tables beside model_runs keep their old constraints.          *)
RebuildRunsOnly(s) ==
  LET copied(run) == [run EXCEPT !.answer = IF run.kind = "synthesis" THEN "lost" ELSE @]
  IN  IF s.conformance # {} THEN None
      ELSE [s EXCEPT !.layout = "v6", !.runs = OnRuns(s, copied)]

(* _migrate_v5_to_v6: the three tables are renamed, created again and      *)
(* filled from the renamed ones, model_runs with the columns of version 5. *)
(* Foreign keys are on, and renaming took the references along: dropping   *)
(* the old model_runs fails while an old conformance row names one of it.  *)
RebuildRuns(s) ==
  LET copied(run) == [run EXCEPT !.answer = IF run.kind = "synthesis" THEN "lost" ELSE @]
  IN  IF s.conformance # {} THEN None
      ELSE [s EXCEPT !.layout = "v6", !.runs = OnRuns(s, copied),
                     !.checked = s.tables \ {"model_runs"}]

(* Slip: the rebuild for version 5 is run for version 6.                   *)
RebuildEverything(s) == RebuildRuns(s)

(* _migrate_v6_to_v7: conformance and executions are rebuilt as they are.  *)
RebuildChecks(s) == [s EXCEPT !.checked = {"conformance", "executions"}]

(* Slip: user_version is left at what it was.                              *)
Unstamped(s) == s

Stamp(s) == IF s = None THEN None ELSE [s EXCEPT !.version = Current]

(* The transaction of migrate_runtime for a file read as version v.        *)
Upgraded(s, v) ==
  Stamp(CASE v = 1 -> Create(Create(Create(s, "model_runs"), "conformance"), "executions")
          [] v = 2 -> Create(Create(HashPrompts(s), "conformance"), "executions")
          [] v = 3 -> Create(Create(RebuildRuns(s), "conformance"), "executions")
          [] v = 4 -> Create(RebuildRuns(s), "executions")
          [] v = 5 -> RebuildRuns(s)
          [] v = 6 -> RebuildChecks(s))

-------------------------------------------------------------------------------
Goto(m, label) == pc' = [pc EXCEPT ![m] = label]

(* PRAGMA user_version, outside any transaction.                           *)
ReadsVersion(m) ==
  /\ pc[m] = "start"
  /\ seen' = [seen EXCEPT ![m] = store.version]
  /\ Goto(m, IF store.version = 0 THEN "refused" ELSE "validate")
  /\ UNCHANGED store

(* _validate_schema of the version read, still outside the transaction.    *)
Validates(m) ==
  /\ pc[m] = "validate"
  /\ Goto(m, IF ~Fits(store, seen[m]) THEN "refused"
             ELSE IF seen[m] = Current THEN "done" ELSE "begin")
  /\ UNCHANGED <<store, seen>>

Valid(s) == s # None /\ Fits(s, Current)

(* BEGIN IMMEDIATE .. COMMIT, for the version read before.                 *)
Migrates(m) ==
  /\ pc[m] = "begin"
  /\ LET upgraded == Upgraded(store, seen[m])
     IN  Valid(upgraded) /\ store' = upgraded
  /\ Goto(m, "done")
  /\ UNCHANGED seen

(* A statement or the final validation fails: ROLLBACK.                    *)
RollsBack(m) ==
  /\ pc[m] = "begin" /\ ~Valid(Upgraded(store, seen[m]))
  /\ Goto(m, "refused")
  /\ UNCHANGED <<store, seen>>

(* initialize_runtime on an empty file, in the same two steps.             *)
FindsEmpty(m) ==
  /\ pc[m] = "start" /\ store.version = 0
  /\ Goto(m, "create")
  /\ UNCHANGED <<store, seen>>

Initializes(m) ==
  /\ pc[m] = "create"
  /\ LET created == Stamp(Create(Create(Create(store, "model_runs"), "conformance"), "executions"))
     IN  IF Valid(created) THEN store' = created /\ Goto(m, "done")
                           ELSE Goto(m, "refused") /\ UNCHANGED store
  /\ UNCHANGED seen

(* A kill, or the lock not granted in time.                                *)
Interrupted(m) ==
  /\ pc[m] \in {"validate", "begin", "create"}
  /\ Goto(m, "interrupted")
  /\ UNCHANGED <<store, seen>>

(* Turns use the file once its version is 7 (_connect_runtime).            *)
Writes(r, kind) ==
  /\ store.version = Current /\ store.runs[r] = None
  /\ kind # "router" => Ids(store, "router") # {}
  /\ store' = [store EXCEPT !.runs[r] =
                 [kind |-> kind, prompt |-> "sha256",
                  answer |-> IF kind = "synthesis" THEN "kept" ELSE "none"]]
  /\ UNCHANGED <<pc, seen>>

Conforms(r) ==
  /\ store.version = Current /\ r \in Ids(store, "inference") \ store.conformance
  /\ store' = [store EXCEPT !.conformance = @ \cup {r}]
  /\ UNCHANGED <<pc, seen>>

Executes(r) ==
  /\ store.version = Current /\ r \in store.conformance \ store.executions
  /\ store' = [store EXCEPT !.executions = @ \cup {r}]
  /\ UNCHANGED <<pc, seen>>

Next ==
  \/ \E m \in Migrator : \/ ReadsVersion(m) \/ Validates(m) \/ Migrates(m) \/ RollsBack(m)
                         \/ FindsEmpty(m) \/ Initializes(m) \/ Interrupted(m)
  \/ \E r \in RunId : \/ \E kind \in {"router", "inference", "synthesis"} : Writes(r, kind)
                      \/ Conforms(r) \/ Executes(r)

Spec == Init /\ [][Next]_vars

-------------------------------------------------------------------------------
(* However migrators, creators and turns interleave and stop, the file     *)
(* has the shape of the version it claims: no partial upgrade.             *)
ShapeMatchesVersion ==
  store \in Store /\ Fits(store, store.version)

(* No migration loses or changes a run, a verdict or an execution, apart   *)
(* from the columns a synthesis fills.                                     *)
RowsSurvive ==
  [][ /\ store.conformance \subseteq store'.conformance
      /\ store.executions \subseteq store'.executions
      /\ \A r \in RunId : store.runs[r] # None =>
           store'.runs[r] # None /\ store'.runs[r].kind = store.runs[r].kind ]_vars

Lost(r) == store.runs[r] # None /\ store.runs[r].answer = "lost"

(* An answer's columns are lost in one way only: a migrator that read      *)
(* version 5 gets the lock after another one has finished.                 *)
OnlyStaleV5Loses ==
  [][ \A r \in RunId : ~Lost(r) /\ Lost(r)' =>
        \E m \in Migrator : /\ pc[m] = "begin" /\ pc'[m] = "done"
                            /\ seen[m] = 5 /\ store.version = Current ]_vars

(* A migration rolls back only when another one came first or a verdict    *)
(* row stands in the way of the rebuild.                                   *)
RollbacksHaveReason ==
  [][ \A m \in Migrator : pc[m] = "begin" /\ pc'[m] = "refused" =>
        store.version # seen[m] \/ store.conformance # {} ]_vars

(* Migration keeps every row of the runtime, its columns included.         *)
AnswersSurvive == \A r \in RunId : ~Lost(r)

(* Every supported legacy schema can be migrated: a migration that finds   *)
(* the file it validated does not roll back.                               *)
LegacyStoresMigrate ==
  [][ \A m \in Migrator : pc[m] = "begin" /\ pc'[m] = "refused" => store.version # seen[m] ]_vars
===============================================================================
