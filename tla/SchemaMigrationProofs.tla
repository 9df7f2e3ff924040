------------------------- MODULE SchemaMigrationProofs ------------------------
(***************************************************************************)
(* Theorems on the migration of a runtime file by any number of processes, *)
(* with any number of rows.  A migrator works for the version it read      *)
(* before it got the lock; what saves the file from a stale one is that    *)
(* versions only jump to the current one (Ready) and that the statements   *)
(* for an old version then fail on a table that exists.                    *)
(***************************************************************************)
EXTENDS SchemaMigration, TLAPS

LEMMA Shapes ==
  /\ TablesOf(0) = {} /\ TablesOf(1) = {} /\ TablesOf(2) = {"model_runs"} /\ TablesOf(3) = {"model_runs"}
  /\ TablesOf(4) = {"model_runs", "conformance"}
  /\ TablesOf(5) = Table /\ TablesOf(6) = Table /\ TablesOf(7) = Table
  /\ LayoutOf(1) = "none" /\ LayoutOf(6) = "v6" /\ LayoutOf(7) = "v6"
<1>1. SinceVersion["model_runs"] = 2 /\ SinceVersion["conformance"] = 4 /\ SinceVersion["executions"] = 5
  BY DEF SinceVersion
<1>2. TablesOf(0) = {} /\ TablesOf(1) = {}
  BY <1>1 DEF TablesOf, Table
<1>3. TablesOf(2) = {"model_runs"} /\ TablesOf(3) = {"model_runs"}
  BY <1>1 DEF TablesOf, Table
<1>4. TablesOf(4) = {"model_runs", "conformance"}
  BY <1>1 DEF TablesOf, Table
<1>5. TablesOf(5) = Table /\ TablesOf(6) = Table /\ TablesOf(7) = Table
  BY <1>1 DEF TablesOf, Table
<1> QED
  BY <1>2, <1>3, <1>4, <1>5 DEF LayoutOf

(* What a statement may do to the rows: u is s with the same rows of every *)
(* table, each run of its old kind.                                        *)
SameRows(s, u) ==
  /\ u \in Store /\ u.version = s.version
  /\ u.conformance = s.conformance /\ u.executions = s.executions
  /\ \A r \in RunId : s.runs[r] # None => u.runs[r] # None /\ u.runs[r].kind = s.runs[r].kind

(* No answer is lost, and none appears that was not there.                 *)
SameAnswers(s, u) ==
  \A r \in RunId : u.runs[r] # None => s.runs[r] # None /\ u.runs[r].answer = s.runs[r].answer

LEMMA CreateSame ==
  ASSUME NEW s \in Store, NEW t \in Table, Create(s, t) # None
  PROVE  /\ SameRows(s, Create(s, t)) /\ SameAnswers(s, Create(s, t))
         /\ t \notin s.tables /\ Create(s, t).tables = s.tables \cup {t}
         /\ Create(s, t).layout = IF t = "model_runs" THEN "v6" ELSE s.layout
         /\ Create(s, t).checked = s.checked \cup ({t} \ {"model_runs"})
<1> DEFINE u == [s EXCEPT !.tables = @ \cup {t},
                          !.layout = IF t = "model_runs" THEN "v6" ELSE @,
                          !.checked = @ \cup ({t} \ {"model_runs"})]
<1>1. Create(s, t) = u /\ t \notin s.tables
  BY DEF Create
<1>2. /\ u \in Store /\ u.version = s.version /\ u.runs = s.runs /\ u.conformance = s.conformance
      /\ u.executions = s.executions /\ u.tables = s.tables \cup {t}
      /\ u.layout = (IF t = "model_runs" THEN "v6" ELSE s.layout)
      /\ u.checked = s.checked \cup ({t} \ {"model_runs"})
  BY DEF Store
<1> HIDE DEF u
<1> QED
  BY <1>1, <1>2 DEF SameRows, SameAnswers

LEMMA CreateSucceeds ==
  ASSUME NEW s \in Store, NEW t \in Table, t \notin s.tables
  PROVE  Create(s, t) # None
<1>1. Create(s, t) \in Store
  BY MigrationAssumption DEF Create, Store
<1> QED
  BY <1>1, MigrationAssumption

LEMMA HashSame ==
  ASSUME NEW s \in Store, HashPrompts(s) # None
  PROVE  /\ SameRows(s, HashPrompts(s)) /\ SameAnswers(s, HashPrompts(s))
         /\ HashPrompts(s).tables = s.tables /\ HashPrompts(s).layout = "v6"
         /\ HashPrompts(s).checked = s.checked
<1> DEFINE table == [r \in RunId |-> IF s.runs[r] = None THEN None ELSE [s.runs[r] EXCEPT !.prompt = "sha256"]]
           u == [s EXCEPT !.layout = "v6", !.runs = table]
<1>1. HashPrompts(s) = u
  BY DEF HashPrompts, OnRuns
<1>2. ASSUME NEW r \in RunId
      PROVE  /\ table[r] \in Run \cup {None}
             /\ s.runs[r] # None => table[r] # None /\ table[r].kind = s.runs[r].kind
                                                    /\ table[r].answer = s.runs[r].answer
             /\ s.runs[r] = None => table[r] = None
  <2>1. CASE s.runs[r] = None
    BY <2>1
  <2>2. CASE s.runs[r] # None
    <3>1. s.runs[r] \in Run
      BY <2>2 DEF Store
    <3>2. table[r] = [s.runs[r] EXCEPT !.prompt = "sha256"]
      BY <2>2
    <3> HIDE DEF table
    <3> QED
      BY <2>2, <3>1, <3>2, MigrationAssumption DEF Run
  <2> QED
    BY <2>1, <2>2
<1>3. table \in [RunId -> Run \cup {None}]
  BY <1>2
<1> HIDE DEF table
<1>4. /\ u \in Store /\ u.version = s.version /\ u.runs = table /\ u.conformance = s.conformance
      /\ u.executions = s.executions /\ u.tables = s.tables /\ u.layout = "v6" /\ u.checked = s.checked
  BY <1>3 DEF Store
<1> HIDE DEF u
<1> QED
  BY <1>1, <1>2, <1>4 DEF SameRows, SameAnswers

LEMMA RebuildSame ==
  ASSUME NEW s \in Store, RebuildRuns(s) # None
  PROVE  /\ SameRows(s, RebuildRuns(s)) /\ s.conformance = {}
         /\ (\A r \in RunId : s.runs[r] # None => s.runs[r].kind # "synthesis") => SameAnswers(s, RebuildRuns(s))
         /\ RebuildRuns(s).tables = s.tables /\ RebuildRuns(s).layout = "v6"
         /\ RebuildRuns(s).checked = s.tables \ {"model_runs"}
<1> DEFINE copied(run) == [run EXCEPT !.answer = IF run.kind = "synthesis" THEN "lost" ELSE @]
           table == [r \in RunId |-> IF s.runs[r] = None THEN None ELSE copied(s.runs[r])]
           u == [s EXCEPT !.layout = "v6", !.runs = table, !.checked = s.tables \ {"model_runs"}]
<1>1. RebuildRuns(s) = u /\ s.conformance = {}
  BY DEF RebuildRuns, OnRuns
<1>2. ASSUME NEW r \in RunId
      PROVE  /\ table[r] \in Run \cup {None}
             /\ s.runs[r] # None => table[r] # None /\ table[r].kind = s.runs[r].kind
             /\ s.runs[r] = None => table[r] = None
             /\ s.runs[r] # None /\ s.runs[r].kind # "synthesis" => table[r].answer = s.runs[r].answer
  <2>1. CASE s.runs[r] = None
    BY <2>1
  <2>2. CASE s.runs[r] # None
    <3>1. s.runs[r] \in Run
      BY <2>2 DEF Store
    <3>2. table[r] = copied(s.runs[r])
      BY <2>2
    <3>3. /\ copied(s.runs[r]) \in Run /\ copied(s.runs[r]).kind = s.runs[r].kind
          /\ s.runs[r].kind # "synthesis" => copied(s.runs[r]).answer = s.runs[r].answer
      BY <3>1 DEF Run
    <3> HIDE DEF table, copied
    <3> QED
      BY <2>2, <3>2, <3>3, MigrationAssumption
  <2> QED
    BY <2>1, <2>2
<1>3. table \in [RunId -> Run \cup {None}]
  BY <1>2
<1> HIDE DEF table
<1>4. /\ u \in Store /\ u.version = s.version /\ u.runs = table /\ u.conformance = s.conformance
      /\ u.executions = s.executions /\ u.tables = s.tables /\ u.layout = "v6"
      /\ u.checked = s.tables \ {"model_runs"}
  BY <1>3 DEF Store
<1> HIDE DEF u
<1> QED
  BY <1>1, <1>2, <1>4 DEF SameRows, SameAnswers

LEMMA ChecksSame ==
  ASSUME NEW s \in Store
  PROVE  /\ SameRows(s, RebuildChecks(s)) /\ SameAnswers(s, RebuildChecks(s))
         /\ RebuildChecks(s).tables = s.tables /\ RebuildChecks(s).layout = s.layout
         /\ RebuildChecks(s).checked = {"conformance", "executions"}
<1> DEFINE u == [s EXCEPT !.checked = {"conformance", "executions"}]
<1>1. RebuildChecks(s) = u
  BY DEF RebuildChecks
<1>2. /\ u \in Store /\ u.version = s.version /\ u.runs = s.runs /\ u.conformance = s.conformance
      /\ u.executions = s.executions /\ u.tables = s.tables /\ u.layout = s.layout
      /\ u.checked = {"conformance", "executions"}
  BY DEF Store, Table
<1> HIDE DEF u
<1> QED
  BY <1>1, <1>2 DEF SameRows, SameAnswers

LEMMA StampSame ==
  ASSUME NEW s \in Store
  PROVE  /\ Stamp(s) \in Store /\ Stamp(s) # None /\ Stamp(s).version = Current
         /\ Stamp(s).runs = s.runs /\ Stamp(s).conformance = s.conformance /\ Stamp(s).executions = s.executions
         /\ Stamp(s).tables = s.tables /\ Stamp(s).layout = s.layout /\ Stamp(s).checked = s.checked
<1>1. s # None
  BY MigrationAssumption
<1>2. Stamp(s) = [s EXCEPT !.version = Current]
  BY <1>1 DEF Stamp
<1>3. Stamp(s) \in Store
  BY <1>2 DEF Store, Current
<1> QED
  BY <1>2, <1>3, MigrationAssumption DEF Store, Current

(* Missing statements pass a failure on.                                   *)
LEMMA FailurePasses == Stamp(None) = None /\ \A t \in Table : Create(None, t) = None
BY DEF Stamp, Create

(* Two tables created in turn, for the versions that have neither.         *)
LEMMA CreateBoth ==
  ASSUME NEW s \in Store, Create(Create(s, "conformance"), "executions") # None
  PROVE  LET u == Create(Create(s, "conformance"), "executions")
         IN  /\ SameRows(s, u) /\ SameAnswers(s, u)
             /\ "conformance" \notin s.tables
             /\ u.tables = s.tables \cup {"conformance", "executions"}
             /\ u.layout = s.layout /\ u.checked = s.checked \cup {"conformance", "executions"}
<1> DEFINE w == Create(s, "conformance")
           u == Create(w, "executions")
<1>1. "conformance" \in Table /\ "executions" \in Table
  BY DEF Table
<1>2. w # None
  BY <1>1, FailurePasses
<1>3. /\ SameRows(s, w) /\ SameAnswers(s, w) /\ "conformance" \notin s.tables
      /\ w.tables = s.tables \cup {"conformance"} /\ w.layout = s.layout
      /\ w.checked = s.checked \cup {"conformance"}
  BY <1>1, <1>2, CreateSame
<1>4. w \in Store
  BY <1>3 DEF SameRows
<1> HIDE DEF w
<1>5. /\ SameRows(w, u) /\ SameAnswers(w, u)
      /\ u.tables = w.tables \cup {"executions"} /\ u.layout = w.layout
      /\ u.checked = w.checked \cup {"executions"}
  BY <1>1, <1>4, CreateSame DEF w
<1> HIDE DEF u
<1>6. SameRows(s, u) /\ SameAnswers(s, u)
  BY <1>3, <1>5 DEF SameRows, SameAnswers
<1> QED
  BY <1>3, <1>5, <1>6 DEF u, w

-------------------------------------------------------------------------------
(* What the code of an old version cannot have written.                    *)
OldRows(s) ==
  \A r \in RunId : s.runs[r] # None =>
    /\ s.version < 6 => s.runs[r].kind # "synthesis"
    /\ s.version = 2 => s.runs[r].prompt = "name"

(* An upgrade of s to u that keeps the rows, and their answers if safe.    *)
Upgrade(s, u, safe) ==
  /\ u \in Store /\ u.version = Current
  /\ u.conformance = s.conformance /\ u.executions = s.executions
  /\ \A r \in RunId : s.runs[r] # None => u.runs[r] # None /\ u.runs[r].kind = s.runs[r].kind
  /\ safe => SameAnswers(s, u)

LEMMA StampUpgrades ==
  ASSUME NEW s \in Store, NEW w, NEW safe \in BOOLEAN, SameRows(s, w), safe => SameAnswers(s, w)
  PROVE  Upgrade(s, Stamp(w), safe)
<1>1. w \in Store
  BY DEF SameRows
<1>2. /\ Stamp(w) \in Store /\ Stamp(w).version = Current /\ Stamp(w).runs = w.runs
      /\ Stamp(w).conformance = w.conformance /\ Stamp(w).executions = w.executions
  BY <1>1, StampSame
<1> QED
  BY <1>2 DEF Upgrade, SameRows, SameAnswers

LEMMA ThenSame ==
  ASSUME NEW s, NEW w, NEW u, SameRows(s, w), SameRows(w, u)
  PROVE  SameRows(s, u) /\ (SameAnswers(s, w) /\ SameAnswers(w, u) => SameAnswers(s, u))
BY DEF SameRows, SameAnswers

(* Each upgrade, on the file of the version read or one already current.   *)
LEMMA UpgradeKeepsRows ==
  ASSUME NEW s \in Store, NEW v \in 1 .. 6, Fits(s, s.version), OldRows(s),
         s.version \in {v, Current}, Upgraded(s, v) # None
  PROVE  Upgrade(s, Upgraded(s, v), ~(v = 5 /\ s.version = Current))
<1>1. "model_runs" \in Table /\ "conformance" \in Table /\ "executions" \in Table
  BY DEF Table
<1>2. s.version = Current => s.tables = Table
  BY Shapes DEF Fits, Current
<1>3. s.version < 6 => \A r \in RunId : s.runs[r] # None => s.runs[r].kind # "synthesis"
  BY DEF OldRows
<1>4. CASE v = 1
  <2> DEFINE w == Create(s, "model_runs")  u == Create(Create(w, "conformance"), "executions")
  <2>1. Upgraded(s, v) = Stamp(u)
    BY <1>4 DEF Upgraded
  <2>2. u # None /\ w # None
    BY <2>1, <1>1, FailurePasses
  <2>3. SameRows(s, w) /\ SameAnswers(s, w) /\ w \in Store
    BY <1>1, <2>2, CreateSame DEF SameRows
  <2>4. SameRows(w, u) /\ SameAnswers(w, u)
    <3> HIDE DEF w
    <3> QED
      BY <2>2, <2>3, CreateBoth
  <2>5. SameRows(s, u) /\ SameAnswers(s, u)
    <3> HIDE DEF w, u
    <3> QED
      BY <2>3, <2>4, ThenSame
  <2> HIDE DEF u
  <2> QED
    BY <1>4, <2>1, <2>5, StampUpgrades
<1>5. CASE v = 2
  <2> DEFINE w == HashPrompts(s)  u == Create(Create(w, "conformance"), "executions")
  <2>1. Upgraded(s, v) = Stamp(u)
    BY <1>5 DEF Upgraded
  <2>2. u # None /\ w # None
    BY <2>1, <1>1, FailurePasses
  <2>3. SameRows(s, w) /\ SameAnswers(s, w) /\ w \in Store
    BY <2>2, HashSame DEF SameRows
  <2>4. SameRows(w, u) /\ SameAnswers(w, u)
    <3> HIDE DEF w
    <3> QED
      BY <2>2, <2>3, CreateBoth
  <2>5. SameRows(s, u) /\ SameAnswers(s, u)
    <3> HIDE DEF w, u
    <3> QED
      BY <2>3, <2>4, ThenSame
  <2> HIDE DEF u
  <2> QED
    BY <1>5, <2>1, <2>5, StampUpgrades
<1>6. CASE v = 3
  <2> DEFINE w == RebuildRuns(s)  u == Create(Create(w, "conformance"), "executions")
  <2>1. Upgraded(s, v) = Stamp(u)
    BY <1>6 DEF Upgraded
  <2>2. u # None /\ w # None
    BY <2>1, <1>1, FailurePasses
  <2>3. SameRows(s, w) /\ w \in Store /\ w.tables = s.tables
        /\ ((\A r \in RunId : s.runs[r] # None => s.runs[r].kind # "synthesis") => SameAnswers(s, w))
    BY <2>2, RebuildSame DEF SameRows
  <2>4. SameRows(w, u) /\ SameAnswers(w, u) /\ "conformance" \notin w.tables
    <3> HIDE DEF w
    <3> QED
      BY <2>2, <2>3, CreateBoth
  <2>5. SameRows(s, u) /\ SameAnswers(s, u)
    <3>1. s.version = 3
      BY <1>1, <1>2, <1>6, <2>3, <2>4
    <3> HIDE DEF w, u
    <3> QED
      BY <1>3, <2>3, <2>4, <3>1, ThenSame
  <2> HIDE DEF u
  <2> QED
    BY <1>6, <2>1, <2>5, StampUpgrades
<1>7. CASE v = 4
  <2> DEFINE w == RebuildRuns(s)  u == Create(w, "executions")
  <2>1. Upgraded(s, v) = Stamp(u)
    BY <1>7 DEF Upgraded
  <2>2. u # None /\ w # None
    BY <2>1, <1>1, FailurePasses
  <2>3. SameRows(s, w) /\ w \in Store /\ w.tables = s.tables
        /\ ((\A r \in RunId : s.runs[r] # None => s.runs[r].kind # "synthesis") => SameAnswers(s, w))
    BY <2>2, RebuildSame DEF SameRows
  <2>4. SameRows(w, u) /\ SameAnswers(w, u) /\ "executions" \notin w.tables
    <3> HIDE DEF w
    <3> QED
      BY <1>1, <2>2, <2>3, CreateSame
  <2>5. SameRows(s, u) /\ SameAnswers(s, u)
    <3>1. s.version = 4
      BY <1>1, <1>2, <1>7, <2>3, <2>4
    <3> HIDE DEF w, u
    <3> QED
      BY <1>3, <2>3, <2>4, <3>1, ThenSame
  <2> HIDE DEF u
  <2> QED
    BY <1>7, <2>1, <2>5, StampUpgrades
<1>8. CASE v = 5
  <2>1. Upgraded(s, v) = Stamp(RebuildRuns(s))
    BY <1>8 DEF Upgraded
  <2>2. RebuildRuns(s) # None
    BY <2>1, FailurePasses
  <2>3. SameRows(s, RebuildRuns(s))
        /\ ((\A r \in RunId : s.runs[r] # None => s.runs[r].kind # "synthesis") => SameAnswers(s, RebuildRuns(s)))
    BY <2>2, RebuildSame
  <2>4. ~(v = 5 /\ s.version = Current) => SameAnswers(s, RebuildRuns(s))
    BY <1>3, <1>8, <2>3
  <2> QED
    BY <2>1, <2>3, <2>4, StampUpgrades
<1>9. CASE v = 6
  <2>1. Upgraded(s, v) = Stamp(RebuildChecks(s))
    BY <1>9 DEF Upgraded
  <2>2. SameRows(s, RebuildChecks(s)) /\ SameAnswers(s, RebuildChecks(s))
    BY ChecksSame
  <2> QED
    BY <1>9, <2>1, <2>2, StampUpgrades
<1> QED
  BY <1>4, <1>5, <1>6, <1>7, <1>8, <1>9

(* A new file gets its three tables and no rows are touched.               *)
LEMMA CreationKeepsRows ==
  ASSUME NEW s \in Store,
         Stamp(Create(Create(Create(s, "model_runs"), "conformance"), "executions")) # None
  PROVE  Upgrade(s, Stamp(Create(Create(Create(s, "model_runs"), "conformance"), "executions")), TRUE)
<1> DEFINE w == Create(s, "model_runs")  u == Create(Create(w, "conformance"), "executions")
<1>1. "model_runs" \in Table /\ "conformance" \in Table /\ "executions" \in Table
  BY DEF Table
<1>2. u # None /\ w # None
  BY <1>1, FailurePasses
<1>3. SameRows(s, w) /\ SameAnswers(s, w) /\ w \in Store
  BY <1>1, <1>2, CreateSame DEF SameRows
<1>4. SameRows(w, u) /\ SameAnswers(w, u)
  <2> HIDE DEF w
  <2> QED
    BY <1>2, <1>3, CreateBoth
<1>5. SameRows(s, u) /\ SameAnswers(s, u)
  <2> HIDE DEF w, u
  <2> QED
    BY <1>3, <1>4, ThenSame
<1>6. Upgrade(s, Stamp(u), TRUE)
  <2> HIDE DEF u
  <2> QED
    BY <1>5, StampUpgrades
<1> QED
  BY <1>6

(* The file of the version read always upgrades, but for a verdict row.    *)
LEMMA FreshUpgradeSucceeds ==
  ASSUME NEW s \in Store, s.version \in 1 .. 6, Fits(s, s.version), OldRows(s), s.conformance = {}
  PROVE  Valid(Upgraded(s, s.version))
<1>1. "model_runs" \in Table /\ "conformance" \in Table /\ "executions" \in Table
  BY DEF Table
<1>2. \A w \in Store : w.tables = Table /\ w.layout = "v6" /\ w.checked = {"conformance", "executions"}
                       => Valid(Stamp(w))
  BY StampSame, Shapes DEF Valid, Fits, Current
<1>3. \A w \in Store : /\ w.tables = {"model_runs"} /\ w.layout = "v6" /\ w.checked = {}
                       => Valid(Stamp(Create(Create(w, "conformance"), "executions")))
  <2> SUFFICES ASSUME NEW w \in Store, w.tables = {"model_runs"}, w.layout = "v6", w.checked = {}
               PROVE  Valid(Stamp(Create(Create(w, "conformance"), "executions")))
    OBVIOUS
  <2> DEFINE x == Create(w, "conformance")  u == Create(x, "executions")
  <2>1. x # None
    BY <1>1, CreateSucceeds
  <2>2. x \in Store /\ x.tables = {"model_runs", "conformance"} /\ x.layout = "v6" /\ x.checked = {"conformance"}
    BY <1>1, <2>1, CreateSame DEF SameRows
  <2> HIDE DEF x
  <2>3. u # None
    BY <1>1, <2>2, CreateSucceeds
  <2>4. u \in Store /\ u.tables = Table /\ u.layout = "v6" /\ u.checked = {"conformance", "executions"}
    BY <1>1, <2>2, <2>3, CreateSame DEF SameRows, Table
  <2> HIDE DEF u
  <2> QED
    BY <1>2, <2>4 DEF u, x
<1>4. s.tables = TablesOf(s.version) /\ s.layout = LayoutOf(s.version) /\ s.checked = {}
  BY DEF Fits, Current
<1>5. CASE s.version = 1
  <2> DEFINE w == Create(s, "model_runs")
  <2>1. s.tables = {}
    BY <1>4, <1>5, Shapes
  <2>2. w # None
    BY <1>1, <2>1, CreateSucceeds
  <2>3. w \in Store /\ w.tables = {"model_runs"} /\ w.layout = "v6" /\ w.checked = {}
    BY <1>1, <1>4, <2>1, <2>2, CreateSame DEF SameRows
  <2>4. Upgraded(s, s.version) = Stamp(Create(Create(w, "conformance"), "executions"))
    BY <1>5 DEF Upgraded
  <2> HIDE DEF w
  <2> QED
    BY <1>3, <2>3, <2>4
<1>6. CASE s.version = 2
  <2>1. HashPrompts(s) # None
    <3>1. HashPrompts(s) = [s EXCEPT !.layout = "v6", !.runs = HashPrompts(s).runs]
      BY <1>6 DEF OldRows, HashPrompts, Store
    <3>2. HashPrompts(s).runs \in [RunId -> Run \cup {None}]
      <4>1. HashPrompts(s).runs = [r \in RunId |-> IF s.runs[r] = None THEN None
                                                   ELSE [s.runs[r] EXCEPT !.prompt = "sha256"]]
        BY <1>6 DEF OldRows, HashPrompts, OnRuns, Store
      <4>2. \A r \in RunId : s.runs[r] # None => [s.runs[r] EXCEPT !.prompt = "sha256"] \in Run
        BY DEF Store, Run
      <4> QED
        BY <4>1, <4>2
    <3>3. HashPrompts(s) \in Store
      BY <3>1, <3>2 DEF Store
    <3> QED
      BY <3>3, MigrationAssumption
  <2>2. HashPrompts(s) \in Store /\ HashPrompts(s).tables = {"model_runs"}
        /\ HashPrompts(s).layout = "v6" /\ HashPrompts(s).checked = {}
    BY <1>4, <1>6, <2>1, HashSame, Shapes DEF SameRows
  <2>3. Upgraded(s, s.version) = Stamp(Create(Create(HashPrompts(s), "conformance"), "executions"))
    BY <1>6 DEF Upgraded
  <2> QED
    BY <1>3, <2>2, <2>3
<1>7. s.version \in 3 .. 5 => RebuildRuns(s) # None
  <2> DEFINE copied(run) == [run EXCEPT !.answer = IF run.kind = "synthesis" THEN "lost" ELSE @]
             table == [r \in RunId |-> IF s.runs[r] = None THEN None ELSE copied(s.runs[r])]
  <2>1. RebuildRuns(s) = [s EXCEPT !.layout = "v6", !.runs = table, !.checked = s.tables \ {"model_runs"}]
    BY DEF RebuildRuns, OnRuns
  <2>2. \A r \in RunId : s.runs[r] # None => copied(s.runs[r]) \in Run
    BY DEF Store, Run
  <2>3. table \in [RunId -> Run \cup {None}]
    <3> HIDE DEF copied
    <3> QED
      BY <2>2
  <2> HIDE DEF table
  <2>4. RebuildRuns(s) \in Store
    BY <2>1, <2>3 DEF Store
  <2> QED
    BY <2>4, MigrationAssumption
<1>8. s.version \in 3 .. 5 => /\ RebuildRuns(s) \in Store /\ RebuildRuns(s).tables = s.tables
                              /\ RebuildRuns(s).layout = "v6"
                              /\ RebuildRuns(s).checked = s.tables \ {"model_runs"}
  BY <1>7, RebuildSame DEF SameRows
<1>9. CASE s.version = 3
  <2>1. Upgraded(s, s.version) = Stamp(Create(Create(RebuildRuns(s), "conformance"), "executions"))
    BY <1>9 DEF Upgraded
  <2>2. RebuildRuns(s).tables = {"model_runs"} /\ RebuildRuns(s).checked = {}
    BY <1>4, <1>8, <1>9, Shapes
  <2> QED
    BY <1>3, <1>8, <1>9, <2>1, <2>2
<1>10. CASE s.version = 4
  <2> DEFINE w == RebuildRuns(s)  u == Create(w, "executions")
  <2>1. Upgraded(s, s.version) = Stamp(u)
    BY <1>10 DEF Upgraded
  <2>2. w \in Store /\ w.tables = {"model_runs", "conformance"} /\ w.layout = "v6" /\ w.checked = {"conformance"}
    BY <1>4, <1>8, <1>10, Shapes
  <2> HIDE DEF w
  <2>3. u # None
    BY <1>1, <2>2, CreateSucceeds
  <2>4. u \in Store /\ u.tables = Table /\ u.layout = "v6" /\ u.checked = {"conformance", "executions"}
    BY <1>1, <2>2, <2>3, CreateSame DEF SameRows, Table
  <2> HIDE DEF u
  <2> QED
    BY <1>2, <2>1, <2>4
<1>11. CASE s.version = 5
  <2>1. Upgraded(s, s.version) = Stamp(RebuildRuns(s))
    BY <1>11 DEF Upgraded
  <2>2. RebuildRuns(s).tables = Table /\ RebuildRuns(s).checked = {"conformance", "executions"}
    BY <1>4, <1>8, <1>11, Shapes DEF Table
  <2> QED
    BY <1>2, <1>8, <1>11, <2>1, <2>2
<1>12. CASE s.version = 6
  <2>1. Upgraded(s, s.version) = Stamp(RebuildChecks(s))
    BY <1>12 DEF Upgraded
  <2>2. /\ RebuildChecks(s) \in Store /\ RebuildChecks(s).tables = Table /\ RebuildChecks(s).layout = "v6"
        /\ RebuildChecks(s).checked = {"conformance", "executions"}
    BY <1>4, <1>12, Shapes, ChecksSame DEF SameRows
  <2> QED
    BY <1>2, <2>1, <2>2
<1> QED
  BY <1>5, <1>6, <1>9, <1>10, <1>11, <1>12

-------------------------------------------------------------------------------
(* A migrator that passed validation works for a version that is still the *)
(* file's, or the file is current by now.                                  *)
Ready(m) ==
  /\ pc[m] \in {"validate", "begin"} => seen[m] \in 1 .. Current /\ store.version \in {seen[m], Current}
  /\ pc[m] = "begin" => seen[m] # Current

Inv == /\ ShapeMatchesVersion /\ OldRows(store)
       /\ pc \in [Migrator -> Pc] /\ seen \in [Migrator -> 0 .. Current]
       /\ \A m \in Migrator : Ready(m)

LEMMA InitInv == Init => Inv
<1> SUFFICES ASSUME Init PROVE Inv
  OBVIOUS
<1>1. PICK v \in 0 .. Current : store \in Legacy(v)
  BY DEF Init
<1> DEFINE rows == {[kind |-> k, prompt |-> IF v = 2 THEN "name" ELSE "sha256",
                     answer |-> IF k = "synthesis" THEN "kept" ELSE "none"] :
                      k \in IF v < 2 THEN {} ELSE IF v = 2 THEN {"router"}
                            ELSE IF v < 6 THEN {"router", "inference"} ELSE {"router", "inference", "synthesis"}}
<1>2. /\ store \in [version : {v}, tables : {TablesOf(v)}, layout : {LayoutOf(v)},
                    checked : {IF v = Current THEN {"conformance", "executions"} ELSE {}},
                    runs : [RunId -> rows \cup {None}],
                    conformance : SUBSET RunId, executions : SUBSET RunId]
  BY <1>1 DEF Legacy
<1>3. \A row \in rows : row \in Run /\ (v < 6 => row.kind # "synthesis") /\ (v = 2 => row.prompt = "name")
  BY DEF Run, Current
<1> HIDE DEF rows
<1>4. store.version = v /\ Fits(store, v)
  BY <1>2 DEF Fits
<1>5. TablesOf(v) \subseteq Table /\ LayoutOf(v) \in {"none", "v2", "v3", "v6"}
  BY DEF TablesOf, LayoutOf
<1>6. store.runs \in [RunId -> Run \cup {None}] /\ OldRows(store)
  BY <1>2, <1>3, <1>4 DEF OldRows
<1>7. store.checked \in SUBSET Table
  BY <1>2 DEF Table
<1>8. store \in Store
  BY <1>2, <1>5, <1>6, <1>7 DEF Store, Current
<1>9. pc \in [Migrator -> Pc] /\ seen \in [Migrator -> 0 .. Current] /\ \A m \in Migrator : Ready(m)
  BY DEF Init, Pc, Current, Ready
<1> QED
  BY <1>4, <1>6, <1>8, <1>9 DEF Inv, ShapeMatchesVersion

(* The migrators' own part, when the file stays or becomes current.        *)
LEMMA MigratorsKept ==
  ASSUME Inv, store'.version \in {store.version, Current}, NEW m \in Migrator, NEW label \in Pc, Goto(m, label),
         \/ /\ label \notin {"validate", "begin"}
            /\ seen' = seen \/ seen' = [seen EXCEPT ![m] = store.version]
         \/ /\ label = "validate" /\ store' = store /\ store.version # 0
            /\ seen' = [seen EXCEPT ![m] = store.version]
         \/ label = "begin" /\ pc[m] = "validate" /\ seen[m] # Current /\ seen' = seen
  PROVE  pc' \in [Migrator -> Pc] /\ seen' \in [Migrator -> 0 .. Current] /\ \A n \in Migrator : Ready(n)'
<1>1. store.version \in 0 .. Current
  BY DEF Inv, ShapeMatchesVersion, Store
<1>2. pc' \in [Migrator -> Pc] /\ pc'[m] = label /\ \A n \in Migrator \ {m} : pc'[n] = pc[n]
  BY DEF Inv, Goto
<1>3. seen' \in [Migrator -> 0 .. Current] /\ \A n \in Migrator \ {m} : seen'[n] = seen[n]
  BY <1>1 DEF Inv
<1>4. \A n \in Migrator \ {m} : Ready(n)'
  BY <1>2, <1>3 DEF Inv, Ready
<1>5. Ready(m)'
  <2>1. CASE label \notin {"validate", "begin"}
    BY <1>2, <2>1 DEF Ready
  <2>2. CASE label = "validate"
    BY <1>1, <1>2, <2>2 DEF Inv, Ready, Current
  <2>3. CASE label = "begin"
    BY <1>2, <2>3 DEF Inv, Ready
  <2> QED
    BY <2>1, <2>2, <2>3
<1> QED
  BY <1>2, <1>3, <1>4, <1>5

(* The file after a transaction that migrates or creates it.               *)
LEMMA CurrentIsSound ==
  ASSUME NEW safe \in BOOLEAN, Upgrade(store, store', safe), Valid(store')
  PROVE  ShapeMatchesVersion' /\ OldRows(store)' /\ store'.version \in {store.version, Current}
BY DEF Upgrade, Valid, ShapeMatchesVersion, OldRows, Current

LEMMA MigratesUpgrades ==
  ASSUME Inv, NEW m \in Migrator, Migrates(m)
  PROVE  Upgrade(store, store', ~(seen[m] = 5 /\ store.version = Current)) /\ Valid(store')
<1>1. store \in Store /\ Fits(store, store.version) /\ OldRows(store)
  BY DEF Inv, ShapeMatchesVersion
<1>2. seen[m] \in 1 .. 6 /\ store.version \in {seen[m], Current}
  BY DEF Migrates, Inv, Ready, Current
<1>3. store' = Upgraded(store, seen[m]) /\ Valid(Upgraded(store, seen[m]))
  BY DEF Migrates
<1> QED
  BY <1>1, <1>2, <1>3, UpgradeKeepsRows DEF Valid

LEMMA InitializesUpgrades ==
  ASSUME Inv, NEW m \in Migrator, Initializes(m)
  PROVE  store' = store \/ (Upgrade(store, store', TRUE) /\ Valid(store'))
<1> DEFINE created == Stamp(Create(Create(Create(store, "model_runs"), "conformance"), "executions"))
<1>1. store \in Store
  BY DEF Inv, ShapeMatchesVersion
<1>2. store' = store \/ (store' = created /\ Valid(created))
  BY DEF Initializes
<1>3. Valid(created) => Upgrade(store, created, TRUE)
  BY <1>1, CreationKeepsRows DEF Valid
<1> HIDE DEF created
<1> QED
  BY <1>2, <1>3

(* Rows of a turn keep the file a current one.                             *)
TurnStep == \E r \in RunId : \/ \E kind \in {"router", "inference", "synthesis"} : Writes(r, kind)
                             \/ Conforms(r) \/ Executes(r)

LEMMA TurnKeepsFile ==
  ASSUME Inv, TurnStep
  PROVE  /\ store' \in Store /\ store'.version = Current /\ store.version = Current
         /\ Fits(store', Current)
         /\ store.conformance \subseteq store'.conformance /\ store.executions \subseteq store'.executions
         /\ \A r \in RunId : store.runs[r] # None => store'.runs[r] = store.runs[r]
         /\ \A r \in RunId : store.runs[r] = None /\ store'.runs[r] # None => store'.runs[r].answer # "lost"
         /\ pc' = pc /\ seen' = seen
<1>1. store \in Store /\ Fits(store, store.version)
  BY DEF Inv, ShapeMatchesVersion
<1>2. PICK r \in RunId : \/ \E kind \in {"router", "inference", "synthesis"} : Writes(r, kind)
                         \/ Conforms(r) \/ Executes(r)
  BY DEF TurnStep
<1>3. ASSUME NEW kind \in {"router", "inference", "synthesis"}, Writes(r, kind)
      PROVE  /\ store' \in Store /\ store'.version = store.version /\ store'.conformance = store.conformance
             /\ store'.executions = store.executions /\ store'.tables = store.tables
             /\ store'.layout = store.layout /\ store'.checked = store.checked
             /\ store.runs[r] = None /\ store'.runs[r].answer # "lost"
             /\ \A s \in RunId \ {r} : store'.runs[s] = store.runs[s]
             /\ store.version = Current /\ UNCHANGED <<pc, seen>>
  <2> DEFINE row == [kind |-> kind, prompt |-> "sha256", answer |-> IF kind = "synthesis" THEN "kept" ELSE "none"]
  <2>1. store' = [store EXCEPT !.runs = [store.runs EXCEPT ![r] = row]] /\ store.runs[r] = None
        /\ store.version = Current /\ UNCHANGED <<pc, seen>>
    BY <1>3 DEF Writes
  <2>2. row \in Run /\ row.answer # "lost"
    BY DEF Run
  <2> HIDE DEF row
  <2> QED
    BY <1>1, <2>1, <2>2 DEF Store
<1>4. CASE \E kind \in {"router", "inference", "synthesis"} : Writes(r, kind)
  BY <1>1, <1>3, <1>4 DEF Fits
<1>5. CASE Conforms(r)
  <2>1. /\ store' = [store EXCEPT !.conformance = @ \cup {r}] /\ store.version = Current
        /\ UNCHANGED <<pc, seen>>
    BY <1>5 DEF Conforms
  <2> QED
    BY <1>1, <2>1 DEF Store, Fits
<1>6. CASE Executes(r)
  <2>1. /\ store' = [store EXCEPT !.executions = @ \cup {r}] /\ store.version = Current
        /\ UNCHANGED <<pc, seen>>
    BY <1>6 DEF Executes
  <2> QED
    BY <1>1, <2>1 DEF Store, Fits
<1> QED
  BY <1>2, <1>4, <1>5, <1>6

(* A migrator that does not write.                                         *)
Waits(m) == ReadsVersion(m) \/ Validates(m) \/ RollsBack(m) \/ FindsEmpty(m) \/ Interrupted(m)

LEMMA NextInv == Inv /\ [Next]_vars => Inv'
<1> SUFFICES ASSUME Inv, [Next]_vars PROVE Inv'
  OBVIOUS
<1> USE DEF Pc
<1>1. CASE UNCHANGED vars
  BY <1>1 DEF vars, Inv, ShapeMatchesVersion, OldRows, Ready
<1>2. CASE TurnStep
  <2>1. ShapeMatchesVersion' /\ OldRows(store)'
    BY <1>2, TurnKeepsFile DEF ShapeMatchesVersion, OldRows, Current
  <2>2. \A m \in Migrator : Ready(m)'
    BY <1>2, TurnKeepsFile DEF Inv, Ready
  <2> QED
    BY <1>2, <2>1, <2>2, TurnKeepsFile DEF Inv
<1>3. ASSUME NEW m \in Migrator, Waits(m) PROVE Inv'
  <2>1. store' = store
    BY <1>3 DEF Waits, ReadsVersion, Validates, RollsBack, FindsEmpty, Interrupted
  <2>2. ShapeMatchesVersion' /\ OldRows(store)' /\ store'.version \in {store.version, Current}
    BY <2>1 DEF Inv, ShapeMatchesVersion, OldRows
  <2>3. pc' \in [Migrator -> Pc] /\ seen' \in [Migrator -> 0 .. Current] /\ \A n \in Migrator : Ready(n)'
    <3>1. CASE ReadsVersion(m)
      <4>1. CASE store.version = 0
        BY <2>1, <2>2, <3>1, <4>1, MigratorsKept DEF ReadsVersion
      <4>2. CASE store.version # 0
        BY <2>1, <2>2, <3>1, <4>2, MigratorsKept DEF ReadsVersion
      <4> QED
        BY <4>1, <4>2
    <3>2. CASE Validates(m)
      BY <2>2, <3>2, MigratorsKept DEF Validates
    <3>3. CASE RollsBack(m)
      BY <2>2, <3>3, MigratorsKept DEF RollsBack
    <3>4. CASE FindsEmpty(m)
      BY <2>2, <3>4, MigratorsKept DEF FindsEmpty
    <3>5. CASE Interrupted(m)
      BY <2>2, <3>5, MigratorsKept DEF Interrupted
    <3> QED
      BY <1>3, <3>1, <3>2, <3>3, <3>4, <3>5 DEF Waits
  <2> QED
    BY <2>2, <2>3 DEF Inv
<1>4. ASSUME NEW m \in Migrator, Migrates(m) PROVE Inv'
  <2>1. ShapeMatchesVersion' /\ OldRows(store)' /\ store'.version \in {store.version, Current}
    BY <1>4, MigratesUpgrades, CurrentIsSound
  <2>2. pc' \in [Migrator -> Pc] /\ seen' \in [Migrator -> 0 .. Current] /\ \A n \in Migrator : Ready(n)'
    BY <1>4, <2>1, MigratorsKept DEF Migrates
  <2> QED
    BY <2>1, <2>2 DEF Inv
<1>5. ASSUME NEW m \in Migrator, Initializes(m) PROVE Inv'
  <2>1. ShapeMatchesVersion' /\ OldRows(store)' /\ store'.version \in {store.version, Current}
    <3>1. CASE store' = store
      BY <3>1 DEF Inv, ShapeMatchesVersion, OldRows
    <3>2. CASE Upgrade(store, store', TRUE) /\ Valid(store')
      BY <3>2, CurrentIsSound
    <3> QED
      BY <1>5, <3>1, <3>2, InitializesUpgrades
  <2>2. \E label \in {"done", "refused"} : Goto(m, label) /\ seen' = seen
    BY <1>5 DEF Initializes
  <2>3. pc' \in [Migrator -> Pc] /\ seen' \in [Migrator -> 0 .. Current] /\ \A n \in Migrator : Ready(n)'
    BY <2>1, <2>2, MigratorsKept
  <2> QED
    BY <2>1, <2>3 DEF Inv
<1> QED
  BY <1>1, <1>2, <1>3, <1>4, <1>5 DEF Next, Waits, TurnStep

(* The file has the shape of the version it claims, whoever creates,       *)
(* migrates, uses or abandons it (conversation.py, migrate_runtime).       *)
THEOREM ShapeAlwaysMatchesVersion == Spec => []ShapeMatchesVersion
<1>1. Inv => ShapeMatchesVersion
  BY DEF Inv
<1> QED
  BY <1>1, InitInv, NextInv, PTL DEF Spec

-------------------------------------------------------------------------------
(* What any step does to the rows.                                         *)
LEMMA StepKeepsRows ==
  ASSUME Inv, [Next]_vars
  PROVE  /\ store.conformance \subseteq store'.conformance
         /\ store.executions \subseteq store'.executions
         /\ \A r \in RunId : store.runs[r] # None =>
              store'.runs[r] # None /\ store'.runs[r].kind = store.runs[r].kind
<1>1. CASE TurnStep
  BY <1>1, TurnKeepsFile
<1>2. ASSUME NEW m \in Migrator, Migrates(m)
      PROVE  \E safe \in BOOLEAN : Upgrade(store, store', safe)
  BY <1>2, MigratesUpgrades
<1>3. ASSUME NEW m \in Migrator, Initializes(m)
      PROVE  store' = store \/ Upgrade(store, store', TRUE)
  BY <1>3, InitializesUpgrades
<1>4. ASSUME NEW m \in Migrator, Waits(m)
      PROVE  store' = store
  BY <1>4 DEF Waits, ReadsVersion, Validates, RollsBack, FindsEmpty, Interrupted
<1>5. UNCHANGED vars => store' = store
  BY DEF vars
<1>6. store' = store \/ TurnStep \/ \E safe \in BOOLEAN : Upgrade(store, store', safe)
  <2>1. ASSUME NEW m \in Migrator, Initializes(m)
        PROVE  store' = store \/ \E safe \in BOOLEAN : Upgrade(store, store', safe)
    BY <1>3, <2>1
  <2> QED
    BY <1>2, <1>4, <1>5, <2>1 DEF Next, Waits, TurnStep
<1> QED
  BY <1>1, <1>6 DEF Upgrade

(* No migration, by any number of processes, drops a run, a verdict or an  *)
(* execution or changes the kind of a run.                                 *)
THEOREM RowsAlwaysSurvive == Spec => RowsSurvive
<1>1. Inv /\ [Next]_vars =>
        [ /\ store.conformance \subseteq store'.conformance
          /\ store.executions \subseteq store'.executions
          /\ \A r \in RunId : store.runs[r] # None =>
               store'.runs[r] # None /\ store'.runs[r].kind = store.runs[r].kind ]_vars
  BY StepKeepsRows
<1> QED
  BY <1>1, InitInv, NextInv, PTL DEF Spec, RowsSurvive

LEMMA StepKeepsAnswers ==
  ASSUME Inv, Next, NEW r \in RunId,
         store.runs[r] # None => store.runs[r].answer # "lost",
         store'.runs[r] # None, store'.runs[r].answer = "lost"
  PROVE  \E m \in Migrator : /\ pc[m] = "begin" /\ pc'[m] = "done"
                             /\ seen[m] = 5 /\ store.version = Current
<1>1. ~TurnStep
  BY TurnKeepsFile
<1>2. ~Upgrade(store, store', TRUE) /\ store' # store
  BY DEF Upgrade, SameAnswers
<1>3. PICK m \in Migrator : Migrates(m)
  BY <1>1, <1>2, InitializesUpgrades
     DEF Next, TurnStep, ReadsVersion, Validates, RollsBack, FindsEmpty, Interrupted
<1>4. Upgrade(store, store', ~(seen[m] = 5 /\ store.version = Current))
  BY <1>3, MigratesUpgrades
<1>5. seen[m] = 5 /\ store.version = Current
  BY <1>2, <1>4
<1>6. pc[m] = "begin" /\ pc'[m] = "done"
  BY <1>3 DEF Migrates, Goto, Inv
<1> QED
  BY <1>5, <1>6

(* The columns of an answer are lost to a migrator that read version 5 and *)
(* got the lock after another had finished, and in no other way.           *)
THEOREM OnlyStaleV5EverLoses == Spec => OnlyStaleV5Loses
<1>1. Inv /\ [Next]_vars =>
        [ \A r \in RunId : ~Lost(r) /\ Lost(r)' =>
            \E m \in Migrator : /\ pc[m] = "begin" /\ pc'[m] = "done"
                                /\ seen[m] = 5 /\ store.version = Current ]_vars
  BY StepKeepsAnswers DEF Lost, vars
<1> QED
  BY <1>1, InitInv, NextInv, PTL DEF Spec, OnlyStaleV5Loses

(* A migration rolls back only after another one or for a verdict row.     *)
THEOREM RollbacksAlwaysHaveReason == Spec => RollbacksHaveReason
<1>1. ASSUME Inv, Next, NEW m \in Migrator, pc[m] = "begin", pc'[m] = "refused"
      PROVE  store.version # seen[m] \/ store.conformance # {}
  <2>1. ~TurnStep
    BY <1>1, TurnKeepsFile
  <2>2. PICK n \in Migrator : \/ ReadsVersion(n) \/ Validates(n) \/ Migrates(n) \/ RollsBack(n)
                              \/ FindsEmpty(n) \/ Initializes(n) \/ Interrupted(n)
    BY <1>1, <2>1 DEF Next, TurnStep
  <2>3. RollsBack(m)
    BY <1>1, <2>2 DEF Inv, ReadsVersion, Validates, Migrates, RollsBack, FindsEmpty, Initializes, Interrupted, Goto
  <2>4. store \in Store /\ Fits(store, store.version) /\ OldRows(store) /\ seen[m] \in 1 .. 6
    BY <1>1 DEF Inv, ShapeMatchesVersion, Ready, Current
  <2> QED
    BY <2>3, <2>4, FreshUpgradeSucceeds DEF RollsBack
<1>2. Inv /\ [Next]_vars =>
        [ \A m \in Migrator : pc[m] = "begin" /\ pc'[m] = "refused" =>
            store.version # seen[m] \/ store.conformance # {} ]_vars
  BY <1>1 DEF vars
<1> QED
  BY <1>2, InitInv, NextInv, PTL DEF Spec, RollbacksHaveReason
===============================================================================
