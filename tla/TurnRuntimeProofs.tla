-------------------------- MODULE TurnRuntimeProofs ---------------------------
(***************************************************************************)
(* Theorems about TurnRuntime for every set of conversations, runs,        *)
(* versions and processes, and every choice of faults.                     *)
(***************************************************************************)
EXTENDS TurnRuntime, TLAPS

(* A fresh identity names no row yet.                                      *)
LEMMA FreshIdFree ==
  ASSUME FreeIds # {}
  PROVE  FreshId \in RunId /\ runs[FreshId] = None
BY DEF FreeIds, FreshId

LEMMA RowTyped ==
  ASSUME StoreTypeOK, NEW r \in RunId, runs[r] # None
  PROVE  runs[r] \in Run /\ RowShape(runs[r])
BY DEF StoreTypeOK, RunsTypeOK

(* A table with one row set stays well formed if the new row is.           *)
LEMMA SetRowTyped ==
  ASSUME StoreTypeOK, NEW r \in RunId, NEW row \in Run, RowShape(row),
         runs' = [runs EXCEPT ![r] = row]
  PROVE  /\ RunsTypeOK' /\ runs'[r] = row /\ row # None
         /\ \A s \in RunId : s # r => runs'[s] = runs[s]
<1>1. runs' \in [RunId -> Run \cup {None}] /\ \A s \in RunId : s # r => runs'[s] = runs[s]
  BY DEF StoreTypeOK, RunsTypeOK
<1>2. runs'[r] = row
  BY DEF StoreTypeOK, RunsTypeOK
<1>3. \A s \in RunId : runs'[s] # None => RowShape(runs'[s])
  BY <1>1, <1>2 DEF StoreTypeOK, RunsTypeOK
<1> QED
  BY <1>1, <1>2, <1>3, StoreAssumption DEF RunsTypeOK

(* A step of p touches its own claim and what nobody claimed, and it       *)
(* claims only what is free: nothing another process remembers is lost.    *)
OnlyRowsOf(p) ==
  \A r \in RunId : /\ \/ runs'[r] = runs[r]
                      \/ runs[r] = None
                      \/ pc[p] \in OwningPc /\ r = turn[p].run
                   /\ \/ executions'[r] = executions[r]
                      \/ executions[r] = None
                      \/ pc[p] = "exec_run" /\ r = turn[p].retrieval

OnlyLocalsOf(p) == \A q \in Proc \ {p} : pc'[q] = pc[q] /\ turn'[q] = turn[q]

ClaimsFree(p) ==
  /\ \/ pc'[p] \notin OwningPc
     \/ pc[p] \in OwningPc /\ turn'[p].run = turn[p].run
     \/ runs[turn'[p].run] = None
  /\ pc'[p] # "exec_run" \/ executions[turn'[p].retrieval] = None

LEMMA OthersKept ==
  ASSUME LocalsMatchStore, NEW p \in Proc, OnlyRowsOf(p), OnlyLocalsOf(p)
  PROVE  \A q \in Proc \ {p} : LocalsOf(q)'
<1> SUFFICES ASSUME NEW q \in Proc \ {p} PROVE LocalsOf(q)'
  OBVIOUS
<1>1. LocalsOf(q) /\ LocalsOf(p) /\ pc'[q] = pc[q] /\ turn'[q] = turn[q]
  BY DEF LocalsMatchStore, OnlyLocalsOf
<1>2. \A r \in RunId : runs[r] # None /\ runs[r].status = "succeeded" => runs'[r] = runs[r]
  BY <1>1 DEF OnlyRowsOf, LocalsOf, Running
<1>3. pc[q] \in OwningPc => runs'[turn[q].run] = runs[turn[q].run]
  BY <1>1 DEF OnlyRowsOf, LocalsOf, LocalsMatchStore, Running
<1>4. pc[q] = "exec_run" => executions'[turn[q].retrieval] = executions[turn[q].retrieval]
  BY <1>1 DEF OnlyRowsOf, LocalsOf, LocalsMatchStore, Executing, ProposedPc
<1>5. pc[q] \in CallPc => pc[q] \in OwningPc
  BY DEF OwningPc
<1> QED
  BY <1>1, <1>2, <1>3, <1>4, <1>5 DEF LocalsOf, Done, Running, Executing

LEMMA ClaimsStayDistinct ==
  ASSUME LocalsMatchStore, NEW p \in Proc, OnlyLocalsOf(p), ClaimsFree(p)
  PROVE  /\ \A q, s \in Proc :
              (q # s /\ pc'[q] \in OwningPc /\ pc'[s] \in OwningPc) => turn'[q].run # turn'[s].run
         /\ \A q, s \in Proc :
              (q # s /\ pc'[q] = "exec_run" /\ pc'[s] = "exec_run") =>
                turn'[q].retrieval # turn'[s].retrieval
BY DEF LocalsMatchStore, LocalsOf, OnlyLocalsOf, ClaimsFree, Running, Executing

(* So a step of p keeps the invariant if it keeps p's own part.            *)
LEMMA StepKeepsLocals ==
  ASSUME LocalsMatchStore, NEW p \in Proc, OnlyRowsOf(p), OnlyLocalsOf(p), ClaimsFree(p),
         LocalsOf(p)'
  PROVE  LocalsMatchStore'
<1>1. \A q \in Proc : LocalsOf(q)'
  BY OthersKept
<1> QED
  BY <1>1, ClaimsStayDistinct DEF LocalsMatchStore

-------------------------------------------------------------------------------
Inv == TypeOK /\ LocalsMatchStore

LEMMA InitInv == Init => Inv
<1> SUFFICES ASSUME Init PROVE Inv
  OBVIOUS
<1>1. TypeOK
  BY DEF Init, StoreInit, DiskInit, ProcInit, TypeOK, StoreTypeOK,
         RunsTypeOK, ProcTypeOK, NoTurn, Turn, Pc
<1>2. LocalsMatchStore
  BY DEF Init, ProcInit, LocalsMatchStore, LocalsOf, RoutedPc, OwningPc, CallPc, PackagedPc,
         ProposedPc
<1> QED
  BY <1>1, <1>2 DEF Inv

(* A process that only moves on, or only changes its locals.               *)
LEMMA QuietStep ==
  ASSUME Inv, NEW p \in Proc, NEW label \in Pc, NEW locals \in Turn,
         UNCHANGED <<storeVars, disk>>, Goto(p, label), turn' = [turn EXCEPT ![p] = locals],
         LocalsOf(p)',
         label \in OwningPc => pc[p] \in OwningPc /\ locals.run = turn[p].run,
         label # "exec_run"
  PROVE  Inv'
<1>1. TypeOK'
  BY DEF Inv, TypeOK, StoreTypeOK, RunsTypeOK, ProcTypeOK, storeVars, Goto
<1>2. OnlyRowsOf(p) /\ OnlyLocalsOf(p)
  BY DEF Inv, TypeOK, ProcTypeOK, storeVars, Goto, OnlyRowsOf, OnlyLocalsOf
<1>3. pc'[p] = label /\ turn'[p] = locals
  BY DEF Inv, TypeOK, ProcTypeOK, Goto
<1>4. LocalsMatchStore'
  BY <1>2, <1>3, StepKeepsLocals DEF Inv, ClaimsFree
<1> QED
  BY <1>1, <1>4 DEF Inv

LEMMA NoTurnTyped == NoTurn \in Turn
BY DEF NoTurn, Turn

LEMMA LeftIsClean ==
  ASSUME Inv, NEW p \in Proc, Leave(p)
  PROVE  LocalsOf(p)'
BY DEF Inv, TypeOK, ProcTypeOK, Leave, Goto, LocalsOf, RoutedPc, OwningPc, CallPc, PackagedPc,
       ProposedPc

LEMMA RaiseInv ==
  ASSUME Inv, NEW p \in Proc, Raise(p)
  PROVE  Inv'
<1>1. LocalsOf(p)'
  BY LeftIsClean DEF Raise
<1> QED
  BY <1>1, NoTurnTyped, QuietStep DEF Raise, Leave, Pc, OwningPc, CallPc

LEMMA QuietMove ==
  ASSUME Inv, NEW p \in Proc, NEW label \in Pc, UNCHANGED <<storeVars, disk, turn>>,
         Goto(p, label), LocalsOf(p)', label \in OwningPc => pc[p] \in OwningPc,
         label # "exec_run"
  PROVE  Inv'
<1>1. turn[p] \in Turn /\ turn = [turn EXCEPT ![p] = turn[p]]
  BY DEF Inv, TypeOK, ProcTypeOK
<1> QED
  BY <1>1, QuietStep

LEMMA BeginTurnInv ==
  ASSUME Inv, NEW p \in Proc, NEW c \in Conversation, BeginTurn(p, c)
  PROVE  Inv'
<1> DEFINE locals == [NoTurn EXCEPT !.conv = c]
<1>1. locals \in Turn
  BY DEF NoTurn, Turn
<1>2. pc'[p] = "route" /\ turn'[p] = locals /\ locals.conv = c
  BY DEF Inv, TypeOK, ProcTypeOK, BeginTurn, Goto, NoTurn
<1>3. LocalsOf(p)'
  BY <1>2 DEF LocalsOf, RoutedPc, OwningPc, CallPc, PackagedPc, ProposedPc
<1> QED
  BY <1>1, <1>3, QuietStep DEF BeginTurn, Pc, FreePc, OwningPc, CallPc

LEMMA RouterReplayInv ==
  ASSUME Inv, NEW p \in Proc, RouterReplay(p)
  PROVE  Inv'
<1>1. PICK t \in UserPositions(turn[p].conv), r \in RunId :
        Replays(RouterLane(turn[p].conv, t), r) /\ turn' = [turn EXCEPT ![p].router = r]
  BY DEF RouterReplay
<1> DEFINE locals == [turn[p] EXCEPT !.router = r]
<1>2. locals \in Turn /\ turn' = [turn EXCEPT ![p] = locals] /\ turn'[p] = locals
  BY <1>1 DEF Inv, TypeOK, ProcTypeOK, Turn
<1>3. runs[r] # None /\ runs[r].status = "succeeded" /\ LaneOf(runs[r]) = RouterLane(turn[p].conv, t)
  BY <1>1 DEF Replays, Attempts
<1>4. runs[r].kind = "router" /\ runs[r].conv = turn[p].conv
  BY <1>3 DEF LaneOf, RouterLane, TriggerLane
<1>5. turn[p].conv \in Conversation
  BY DEF RouterReplay, Inv, LocalsMatchStore, LocalsOf
<1>6. locals.router = r /\ locals.conv = turn[p].conv
  BY DEF Inv, TypeOK, ProcTypeOK, Turn
<1>7. pc'[p] = "lookup" /\ runs' = runs
  BY DEF RouterReplay, Goto, Inv, TypeOK, ProcTypeOK, storeVars
<1>8. LocalsOf(p)'
  BY <1>2, <1>3, <1>4, <1>5, <1>6, <1>7
     DEF LocalsOf, OwningPc, CallPc, PackagedPc, ProposedPc, Done
<1> QED
  BY <1>2, <1>8, QuietStep DEF RouterReplay, Pc, FreePc, OwningPc, CallPc

(* A claim of any stage: p turns a free identity into a running row.       *)
LEMMA ClaimStep ==
  ASSUME Inv, NEW p \in Proc, NEW row \in Run, RowShape(row), NEW label \in CallPc,
         InsertRun(row), UNCHANGED <<thread, conformance, executions, disk>>,
         turn' = [turn EXCEPT ![p].run = FreshId], Goto(p, label),
         row.status = "running", row.kind = CallKind[label], row.conv = turn[p].conv,
         pc[p] # "idle",
         label # "router_call" => pc[p] \in RoutedPc,
         label = "infer_call" => pc[p] = "infer_claim"
  PROVE  Inv'
<1>1. FreshId \in RunId /\ runs[FreshId] = None
  BY FreshIdFree DEF InsertRun
<1> DEFINE locals == [turn[p] EXCEPT !.run = FreshId]
<1>2. locals \in Turn /\ turn' = [turn EXCEPT ![p] = locals] /\ turn'[p] = locals /\ pc'[p] = label
  BY <1>1 DEF Inv, TypeOK, ProcTypeOK, Turn, Goto
<1>4. /\ RunsTypeOK' /\ runs'[FreshId] = row
      /\ \A r \in RunId : r # FreshId => runs'[r] = runs[r]
  BY <1>1, SetRowTyped DEF InsertRun, Inv, TypeOK
<1>3. TypeOK'
  BY <1>2, <1>4 DEF Inv, TypeOK, StoreTypeOK, ProcTypeOK, Goto, Pc, OwningPc
<1>5. OnlyRowsOf(p) /\ OnlyLocalsOf(p)
  BY <1>1, <1>4 DEF OnlyRowsOf, OnlyLocalsOf, Inv, TypeOK, ProcTypeOK, Goto
<1>6. /\ locals.run = FreshId /\ locals.conv = turn[p].conv /\ locals.router = turn[p].router
      /\ locals.pkg = turn[p].pkg /\ locals.catalog = turn[p].catalog
  BY DEF Inv, TypeOK, ProcTypeOK, Turn
<1>7. LocalsOf(p)
  BY DEF Inv, LocalsMatchStore
<1>8. row # None
  BY StoreAssumption
<1>9. LocalsOf(p)'
  <2>1. turn'[p].conv \in Conversation
    BY <1>2, <1>6, <1>7 DEF LocalsOf
  <2>2. label # "router_call" =>
          /\ turn'[p].router \in RunId /\ Done(turn[p].router, "router")'
          /\ runs'[turn'[p].router].conv = turn'[p].conv
    BY <1>1, <1>2, <1>4, <1>6, <1>7 DEF LocalsOf, Done
  <2>3. turn'[p].run \in RunId /\ Running(turn[p].run)' /\ runs'[turn'[p].run].conv = turn'[p].conv
    BY <1>1, <1>2, <1>4, <1>6, <1>8 DEF Running
  <2>4. runs'[turn'[p].run].kind = CallKind[pc'[p]]
    BY <1>2, <1>4, <1>6
  <2>5. label = "infer_call" => turn'[p].pkg \in Package /\ turn'[p].catalog \in Version
    BY <1>2, <1>6, <1>7 DEF LocalsOf, PackagedPc
  <2> QED
    BY <1>2, <2>1, <2>2, <2>3, <2>4, <2>5
       DEF LocalsOf, RoutedPc, OwningPc, CallPc, PackagedPc, ProposedPc
<1>10. runs[turn'[p].run] = None
  BY <1>1, <1>2, <1>6
<1>11. LocalsMatchStore'
  BY <1>2, <1>5, <1>9, <1>10, StepKeepsLocals DEF Inv, ClaimsFree, CallPc
<1> QED
  BY <1>3, <1>11 DEF Inv

LEMMA RouterClaimInv ==
  ASSUME Inv, NEW p \in Proc, RouterClaim(p)
  PROVE  Inv'
<1>1. PICK t \in UserPositions(turn[p].conv) :
        InsertRun(NewRun("router", turn[p].conv, t, None, None, << >>))
  BY DEF RouterClaim
<1>2. turn[p].conv \in Conversation
  BY DEF RouterClaim, Inv, LocalsMatchStore, LocalsOf
<1>3. t \in Nat /\ << >> \in Seq(Message)
  BY <1>2 DEF UserPositions
<1> DEFINE row == NewRun("router", turn[p].conv, t, None, None, << >>)
<1>4. row \in {x \in Run : RowShape(x) /\ x.status = "running" /\ x.kind = "router"
                          /\ x.conv = turn[p].conv}
  BY <1>2, <1>3 DEF NewRun, Run, Kind, Status, RowShape
<1> HIDE DEF row
<1> QED
  BY <1>1, <1>4, ClaimStep DEF RouterClaim, CallPc, CallKind, row

(* What a completed claim looks like, and that it is the only row touched. *)
LEMMA CompletedRow ==
  ASSUME Inv, NEW p \in Proc, pc[p] \in CallPc,
         NEW output \in OutputOf[CallKind[pc[p]]], NEW produced \in Nat \cup {None},
         CompleteRun(turn[p].run, output, produced)
  PROVE  /\ turn[p].run \in RunId
         /\ RunsTypeOK'
         /\ runs'[turn[p].run] # None
         /\ runs'[turn[p].run].status = "succeeded"
         /\ runs'[turn[p].run].kind = CallKind[pc[p]]
         /\ runs'[turn[p].run].conv = turn[p].conv
         /\ \A r \in RunId : r # turn[p].run => runs'[r] = runs[r]
<1>1. LocalsOf(p) /\ pc[p] \in OwningPc
  BY DEF Inv, LocalsMatchStore, OwningPc
<1>2. turn[p].run \in RunId /\ runs[turn[p].run] # None /\ runs[turn[p].run].conv = turn[p].conv
      /\ runs[turn[p].run].kind = CallKind[pc[p]]
  BY <1>1 DEF LocalsOf, Running
<1> DEFINE row == [runs[turn[p].run] EXCEPT !.status = "succeeded", !.output = output,
                                            !.produced = produced]
<1>3. runs[turn[p].run] \in Run /\ RowShape(runs[turn[p].run])
  BY <1>2, RowTyped DEF Inv, TypeOK
<1>4. output \in Route \cup Verdict \cup {None}
  BY DEF OutputOf, CallPc, CallKind
<1>5. /\ row \in Run /\ row.status = "succeeded" /\ row.kind = runs[turn[p].run].kind
      /\ row.conv = runs[turn[p].run].conv /\ row.output = output
      /\ row.parent = runs[turn[p].run].parent /\ row.catalog = runs[turn[p].run].catalog
  BY <1>3, <1>4 DEF Run, Status
<1>6. runs' = [runs EXCEPT ![turn[p].run] = row]
  BY DEF CompleteRun
<1> HIDE DEF row
<1>7. RowShape(row)
  BY <1>2, <1>3, <1>5 DEF RowShape
<1> QED
  BY <1>2, <1>5, <1>6, <1>7, SetRowTyped DEF Inv, TypeOK

(* A process that gives its claim up, completed or failed.                 *)
LEMMA ReleaseStep ==
  ASSUME Inv, NEW p \in Proc, NEW label \in Pc \ OwningPc, NEW locals \in Turn,
         label # "exec_run", pc[p] \in OwningPc, UNCHANGED <<conformance, executions, disk>>,
         thread' \in [Conversation -> Seq(Message)],
         RunsTypeOK',
         \A r \in RunId : r # turn[p].run => runs'[r] = runs[r],
         Goto(p, label), turn' = [turn EXCEPT ![p] = locals], LocalsOf(p)'
  PROVE  Inv'
<1>1. TypeOK'
  BY DEF Inv, TypeOK, StoreTypeOK, ProcTypeOK, Goto
<1>2. OnlyRowsOf(p) /\ OnlyLocalsOf(p) /\ pc'[p] = label
  BY DEF Inv, TypeOK, ProcTypeOK, Goto, OnlyRowsOf, OnlyLocalsOf
<1>3. LocalsMatchStore'
  BY <1>2, StepKeepsLocals DEF Inv, ClaimsFree
<1> QED
  BY <1>1, <1>3 DEF Inv

LEMMA RouterCompletesInv ==
  ASSUME Inv, NEW p \in Proc, RouterCompletes(p)
  PROVE  Inv'
<1>1. PICK route \in ModelRoute : CompleteRun(turn[p].run, route, None)
  BY DEF RouterCompletes
<1>2. PICK r : r = turn[p].run
  OBVIOUS
<1>3. pc[p] = "router_call" /\ pc[p] \in CallPc /\ pc[p] \in OwningPc
  BY DEF RouterCompletes, CallPc, OwningPc
<1> DEFINE locals == [turn[p] EXCEPT !.router = turn[p].run, !.run = None]
<1>4. /\ r \in RunId /\ RunsTypeOK'
      /\ runs'[r] # None /\ runs'[r].status = "succeeded"
      /\ runs'[r].kind = CallKind["router_call"] /\ runs'[r].conv = turn[p].conv
      /\ \A s \in RunId : s # r => runs'[s] = runs[s]
  <2>1. route \in OutputOf[CallKind[pc[p]]] /\ None \in Nat \cup {None}
    BY <1>3, RouteAssumption DEF OutputOf, CallKind
  <2> QED
    BY <1>1, <1>2, <1>3, <2>1, CompletedRow
<1>5. Done(r, "router")'
  BY <1>4 DEF Done, CallKind
<1>6. locals \in Turn /\ turn' = [turn EXCEPT ![p] = locals]
  <2>1. turn[p] \in Turn
    BY DEF Inv, TypeOK, ProcTypeOK
  <2>2. locals \in Turn
    BY <1>2, <1>4, <2>1 DEF Turn
  <2> QED
    BY <2>2 DEF RouterCompletes
<1>7. pc'[p] = "lookup" /\ turn'[p].router = r /\ turn'[p].conv = turn[p].conv
  BY <1>2 DEF RouterCompletes, Goto, Inv, TypeOK, ProcTypeOK, Turn
<1>8. turn[p].conv \in Conversation
  BY <1>3 DEF Inv, LocalsMatchStore, LocalsOf
<1>9. LocalsOf(p)'
  BY <1>4, <1>5, <1>7, <1>8 DEF LocalsOf, OwningPc, CallPc, PackagedPc, ProposedPc
<1>10. "lookup" \in Pc \ OwningPc
  BY DEF Pc, FreePc, OwningPc, CallPc
<1> QED
  BY <1>2, <1>3, <1>4, <1>6, <1>9, <1>10, ReleaseStep
     DEF RouterCompletes, Inv, TypeOK, StoreTypeOK

(* The call of any stage raises: the process still holds its claim.        *)
LEMMA FailingStep ==
  ASSUME Inv, NEW p \in Proc, pc[p] \in CallPc, Goto(p, "failing"),
         UNCHANGED <<storeVars, disk, turn>>
  PROVE  Inv'
<1>1. pc'[p] = "failing" /\ pc[p] \in OwningPc /\ pc[p] # "idle" /\ turn' = turn /\ runs' = runs
  BY DEF Inv, TypeOK, ProcTypeOK, Goto, OwningPc, storeVars, CallPc
<1>2. LocalsOf(p)
  BY DEF Inv, LocalsMatchStore
<1>3. LocalsOf(p)'
  BY <1>1, <1>2 DEF LocalsOf, RoutedPc, CallPc, PackagedPc, ProposedPc, Running, OwningPc
<1> QED
  BY <1>1, <1>3, QuietMove DEF Pc, OwningPc

LEMMA MarkFailedInv ==
  ASSUME Inv, NEW p \in Proc, MarkFailed(p)
  PROVE  Inv'
<1>1. pc[p] \in OwningPc /\ LocalsOf(p)
  BY DEF MarkFailed, OwningPc, Inv, LocalsMatchStore
<1>2. turn[p].run \in RunId /\ runs[turn[p].run] # None
  BY <1>1 DEF LocalsOf, Running
<1> DEFINE row == [runs[turn[p].run] EXCEPT !.status = "failed"]
<1>3. row \in Run /\ RowShape(row)
  BY <1>2, RowTyped DEF Inv, TypeOK, Run, Status, RowShape
<1>4. RunsTypeOK' /\ \A r \in RunId : r # turn[p].run => runs'[r] = runs[r]
  BY <1>2, <1>3, SetRowTyped DEF MarkFailed, FailRun, Inv, TypeOK
<1>5. LocalsOf(p)'
  BY LeftIsClean DEF MarkFailed
<1> QED
  BY <1>1, <1>4, <1>5, NoTurnTyped, ReleaseStep
     DEF MarkFailed, Leave, Inv, TypeOK, StoreTypeOK, Pc, OwningPc, CallPc

-------------------------------------------------------------------------------
(* The package and inference stages.                                       *)
LEMMA PackageLoadsInv ==
  ASSUME Inv, NEW p \in Proc, PackageLoads(p)
  PROVE  Inv'
<1> DEFINE locals == [turn[p] EXCEPT !.pkg = disk]
<1>1. /\ locals \in Turn /\ turn' = [turn EXCEPT ![p] = locals] /\ turn'[p] = locals
      /\ locals.pkg \in Package /\ locals.router = turn[p].router /\ locals.conv = turn[p].conv
  BY DEF PackageLoads, Inv, TypeOK, ProcTypeOK, Turn
<1>2. pc'[p] = "verify" /\ pc[p] = "package" /\ runs' = runs
  BY DEF PackageLoads, Goto, Inv, TypeOK, ProcTypeOK, storeVars
<1>3. LocalsOf(p)
  BY DEF Inv, LocalsMatchStore
<1>4. LocalsOf(p)'
  BY <1>1, <1>2, <1>3
     DEF LocalsOf, RoutedPc, Pc, FreePc, OwningPc, CallPc, ProposedPc, Done
<1> QED
  BY <1>1, <1>4, QuietStep DEF PackageLoads, Pc, FreePc, OwningPc, CallPc

(* Moves inside the stages before a claim, with what is known unchanged.   *)
LEMMA StageMove ==
  ASSUME Inv, NEW p \in Proc, NEW label \in Pc \ OwningPc,
         UNCHANGED <<storeVars, disk, turn>>, Goto(p, label),
         pc[p] \in RoutedPc, label # "returned",
         label \in PackagedPc => pc[p] \in PackagedPc,
         label \in ProposedPc => pc[p] \in ProposedPc,
         label \notin {"infer_claim", "exec_run"}
  PROVE  Inv'
<1>1. pc'[p] = label /\ turn' = turn /\ runs' = runs
  BY DEF Goto, Inv, TypeOK, ProcTypeOK, storeVars
<1>2. LocalsOf(p)
  BY DEF Inv, LocalsMatchStore
<1>3. LocalsOf(p)'
  BY <1>1, <1>2 DEF LocalsOf, RoutedPc, OwningPc, CallPc, Done
<1> QED
  BY <1>3, QuietMove

LEMMA PackageVerifiedInv ==
  ASSUME Inv, NEW p \in Proc, PackageVerified(p)
  PROVE  Inv'
BY StageMove DEF PackageVerified, Pc, FreePc, OwningPc, CallPc, RoutedPc, PackagedPc, ProposedPc

LEMMA InferMissesInv ==
  ASSUME Inv, NEW p \in Proc, InferMisses(p)
  PROVE  Inv'
BY StageMove DEF InferMisses, Pc, FreePc, OwningPc, CallPc, RoutedPc, PackagedPc, ProposedPc

LEMMA InferReplayInv ==
  ASSUME Inv, NEW p \in Proc, InferReplay(p)
  PROVE  Inv'
<1>1. PICK r \in RunId : InferReplayable(turn[p].router, r) /\ turn' = [turn EXCEPT ![p].retrieval = r]
  BY DEF InferReplay
<1> DEFINE locals == [turn[p] EXCEPT !.retrieval = r]
<1>2. /\ locals \in Turn /\ turn' = [turn EXCEPT ![p] = locals] /\ turn'[p] = locals
      /\ locals.retrieval = r /\ locals.router = turn[p].router /\ locals.conv = turn[p].conv
      /\ locals.pkg = turn[p].pkg
  BY <1>1 DEF Inv, TypeOK, ProcTypeOK, Turn
<1>3. Done(r, "inference")
  <2>1. /\ runs[r] # None /\ runs[r].status = "succeeded"
        /\ LaneOf(runs[r]) = InferenceLane(turn[p].router)
    BY <1>1 DEF InferReplayable, Replays, Attempts
  <2>2. runs[r].kind = "inference"
    BY <2>1, Zenon DEF LaneOf, InferenceLane
  <2> QED
    BY <2>1, <2>2 DEF Done
<1>4. pc'[p] = "conform" /\ pc[p] \in {"infer_replay", "infer_claim"} /\ runs' = runs
  BY DEF InferReplay, Goto, Inv, TypeOK, ProcTypeOK, storeVars
<1>5. LocalsOf(p) /\ pc[p] \in RoutedPc /\ pc[p] \in PackagedPc
  BY <1>4 DEF Inv, LocalsMatchStore, RoutedPc, Pc, FreePc, PackagedPc
<1>6. LocalsOf(p)'
  <2>1. /\ turn[p].conv \in Conversation /\ turn[p].router \in RunId
        /\ Done(turn[p].router, "router") /\ runs[turn[p].router].conv = turn[p].conv
        /\ turn[p].pkg \in Package
    BY <1>5 DEF LocalsOf, RoutedPc
  <2> QED
    BY <1>2, <1>3, <1>4, <2>1 DEF LocalsOf, OwningPc, CallPc, Done
<1> QED
  BY <1>2, <1>6, QuietStep DEF InferReplay, Pc, FreePc, OwningPc, CallPc

LEMMA InferReadsCatalogInv ==
  ASSUME Inv, NEW p \in Proc, InferReadsCatalog(p)
  PROVE  Inv'
<1> DEFINE locals == [turn[p] EXCEPT !.catalog = disk.catalog]
<1>1. /\ locals \in Turn /\ turn' = [turn EXCEPT ![p] = locals] /\ turn'[p] = locals
      /\ locals.catalog \in Version /\ locals.router = turn[p].router
      /\ locals.conv = turn[p].conv /\ locals.pkg = turn[p].pkg
  BY DEF InferReadsCatalog, Inv, TypeOK, ProcTypeOK, Turn, Package
<1>2. pc'[p] = "infer_claim" /\ pc[p] = "infer_catalog" /\ runs' = runs
  BY DEF InferReadsCatalog, Goto, Inv, TypeOK, ProcTypeOK, storeVars
<1>3. LocalsOf(p)
  BY DEF Inv, LocalsMatchStore
<1>4. LocalsOf(p)'
  BY <1>1, <1>2, <1>3
     DEF LocalsOf, RoutedPc, Pc, FreePc, OwningPc, CallPc, PackagedPc, ProposedPc, Done
<1> QED
  BY <1>1, <1>4, QuietStep DEF InferReadsCatalog, Pc, FreePc, OwningPc, CallPc

LEMMA InferClaimInv ==
  ASSUME Inv, NEW p \in Proc, InferClaim(p)
  PROVE  Inv'
<1> DEFINE router == runs[turn[p].router]
           row == NewRun("inference", router.conv, router.trigger, turn[p].router,
                         turn[p].catalog, << >>)
<1>1. pc[p] = "infer_claim" /\ LocalsOf(p) /\ pc[p] \in RoutedPc
  BY DEF InferClaim, Inv, LocalsMatchStore, RoutedPc, Pc, FreePc
<1>2. /\ turn[p].router \in RunId /\ turn[p].catalog \in Version
      /\ router # None /\ router.conv = turn[p].conv /\ turn[p].conv \in Conversation
  BY <1>1 DEF LocalsOf, Done
<1>3. router.trigger \in Nat
  BY <1>2, RowTyped DEF Inv, TypeOK, Run
<1>4. row \in Run /\ RowShape(row) /\ row.status = "running" /\ row.kind = "inference"
      /\ row.conv = turn[p].conv
  BY <1>2, <1>3, StoreAssumption DEF NewRun, Run, Kind, Status, RowShape
<1>5. InsertRun(row)
  BY DEF InferClaim
<1> HIDE DEF row
<1> QED
  BY <1>1, <1>4, <1>5, ClaimStep DEF InferClaim, CallPc, CallKind

LEMMA InferCompletesInv ==
  ASSUME Inv, NEW p \in Proc, InferCompletes(p)
  PROVE  Inv'
<1>1. PICK verdict \in Verdict : CompleteRun(turn[p].run, verdict, None)
  BY DEF InferCompletes
<1>2. PICK r : r = turn[p].run
  OBVIOUS
<1>3. pc[p] = "infer_call" /\ pc[p] \in CallPc /\ pc[p] \in OwningPc /\ LocalsOf(p)
  BY DEF InferCompletes, CallPc, OwningPc, Inv, LocalsMatchStore
<1> DEFINE locals == [turn[p] EXCEPT !.retrieval = turn[p].run, !.run = None]
<1>4. /\ r \in RunId /\ RunsTypeOK'
      /\ runs'[r] # None /\ runs'[r].status = "succeeded"
      /\ runs'[r].kind = CallKind["infer_call"] /\ runs'[r].conv = turn[p].conv
      /\ \A s \in RunId : s # r => runs'[s] = runs[s]
  <2>1. verdict \in OutputOf[CallKind[pc[p]]] /\ None \in Nat \cup {None}
    BY <1>3 DEF OutputOf, CallKind
  <2> QED
    BY <1>1, <1>2, <1>3, <2>1, CompletedRow
<1>5. Done(r, "inference")'
  BY <1>4 DEF Done, CallKind
<1>6. locals \in Turn /\ turn' = [turn EXCEPT ![p] = locals]
  <2>1. turn[p] \in Turn
    BY DEF Inv, TypeOK, ProcTypeOK
  <2>2. locals \in Turn
    BY <1>2, <1>4, <2>1 DEF Turn
  <2> QED
    BY <2>2 DEF InferCompletes
<1>7. /\ pc'[p] = "conform" /\ turn'[p].retrieval = r /\ turn'[p].conv = turn[p].conv
      /\ turn'[p].router = turn[p].router /\ turn'[p].pkg = turn[p].pkg
  BY <1>2 DEF InferCompletes, Goto, Inv, TypeOK, ProcTypeOK, Turn
<1>8. /\ turn[p].conv \in Conversation /\ turn[p].router \in RunId
      /\ Done(turn[p].router, "router") /\ runs[turn[p].router].conv = turn[p].conv
      /\ turn[p].pkg \in Package
  BY <1>3 DEF LocalsOf, RoutedPc, PackagedPc, Pc, OwningPc, CallPc
<1>9. runs'[turn[p].router] = runs[turn[p].router]
  BY <1>2, <1>3, <1>4, <1>8 DEF LocalsOf, Running, Done
<1>10. LocalsOf(p)'
  BY <1>4, <1>5, <1>7, <1>8, <1>9 DEF LocalsOf, OwningPc, CallPc, Done
<1>11. "conform" \in Pc \ OwningPc
  BY DEF Pc, FreePc, OwningPc, CallPc
<1> QED
  BY <1>2, <1>3, <1>4, <1>6, <1>10, <1>11, ReleaseStep DEF InferCompletes, Inv, TypeOK, StoreTypeOK

-------------------------------------------------------------------------------
(* The conformance and execution stages write their own tables.            *)
LEMMA TableStep ==
  ASSUME Inv, NEW p \in Proc, NEW label \in Pc \ OwningPc, NEW locals \in Turn,
         UNCHANGED <<thread, runs, disk>>,
         conformance' \in [RunId -> Conformance \cup {None}],
         executions' \in [RunId -> Execution \cup {None}],
         \A r \in RunId : \/ executions'[r] = executions[r]
                          \/ executions[r] = None
                          \/ pc[p] = "exec_run" /\ r = turn[p].retrieval,
         Goto(p, label), turn' = [turn EXCEPT ![p] = locals], LocalsOf(p)',
         label = "exec_run" => executions[locals.retrieval] = None
  PROVE  Inv'
<1>1. TypeOK'
  BY DEF Inv, TypeOK, StoreTypeOK, RunsTypeOK, ProcTypeOK, Goto
<1>2. OnlyRowsOf(p) /\ OnlyLocalsOf(p) /\ pc'[p] = label /\ turn'[p] = locals
  BY DEF Inv, TypeOK, ProcTypeOK, Goto, OnlyRowsOf, OnlyLocalsOf
<1>3. LocalsMatchStore'
  BY <1>2, StepKeepsLocals DEF Inv, ClaimsFree
<1> QED
  BY <1>1, <1>3 DEF Inv

LEMMA ConformAdmitsInv ==
  ASSUME Inv, NEW p \in Proc, ConformAdmits(p)
  PROVE  Inv'
BY StageMove DEF ConformAdmits, Pc, FreePc, OwningPc, CallPc, RoutedPc, PackagedPc, ProposedPc

LEMMA ConformMissesInv ==
  ASSUME Inv, NEW p \in Proc, ConformMisses(p)
  PROVE  Inv'
BY StageMove DEF ConformMisses, Pc, FreePc, OwningPc, CallPc, RoutedPc, PackagedPc, ProposedPc

(* After the verdict the process goes on or leaves; either way its locals  *)
(* stay in order.                                                          *)
LEMMA AfterVerdictStep ==
  ASSUME Inv, NEW p \in Proc, NEW verdict, pc[p] \in {"conform_lookup", "conform_insert"},
         AfterVerdict(p, verdict), UNCHANGED <<thread, runs, executions, disk>>,
         conformance' \in [RunId -> Conformance \cup {None}]
  PROVE  Inv'
<1>1. CASE verdict \in {"valid", "partial"}
  <2>1. pc'[p] = "execute" /\ turn' = turn /\ Goto(p, "execute")
    BY <1>1 DEF AfterVerdict, Goto, Inv, TypeOK, ProcTypeOK
  <2>2. LocalsOf(p)
    BY DEF Inv, LocalsMatchStore
  <2>3. LocalsOf(p)'
    BY <2>1, <2>2 DEF LocalsOf, RoutedPc, Pc, FreePc, OwningPc, CallPc, PackagedPc, ProposedPc, Done
  <2>4. turn[p] \in Turn /\ turn' = [turn EXCEPT ![p] = turn[p]]
    BY <2>1 DEF Inv, TypeOK, ProcTypeOK
  <2> QED
    BY <2>1, <2>3, <2>4, TableStep DEF Inv, TypeOK, StoreTypeOK, Pc, FreePc, OwningPc, CallPc
<1>2. CASE verdict \notin {"valid", "partial"}
  <2>1. Leave(p)
    BY <1>2 DEF AfterVerdict
  <2> QED
    BY <2>1, LeftIsClean, NoTurnTyped, TableStep
       DEF Leave, Inv, TypeOK, StoreTypeOK, Pc, OwningPc, CallPc
<1> QED
  BY <1>1, <1>2

LEMMA ConformReplaysInv ==
  ASSUME Inv, NEW p \in Proc, ConformReplays(p)
  PROVE  Inv'
BY AfterVerdictStep DEF ConformReplays, storeVars, Inv, TypeOK, StoreTypeOK

LEMMA ConformInsertsInv ==
  ASSUME Inv, NEW p \in Proc, ConformInserts(p)
  PROVE  Inv'
<1> DEFINE r == turn[p].retrieval
<1>1. pc[p] = "conform_insert" /\ r \in RunId /\ Done(r, "inference")
  BY DEF ConformInserts, Inv, LocalsMatchStore, LocalsOf, ProposedPc
<1>2. runs[r].catalog \in Version /\ runs[r].output \in Verdict
  BY <1>1, RowTyped DEF Inv, TypeOK, Done, RowShape, OutputOf, Run
<1>3. VerdictOn(r) \in Conformance
  BY <1>2 DEF VerdictOn, Conformance
<1>4. conformance' \in [RunId -> Conformance \cup {None}]
  BY <1>3 DEF ConformInserts, Inv, TypeOK, StoreTypeOK
<1> QED
  BY <1>1, <1>4, AfterVerdictStep DEF ConformInserts

-------------------------------------------------------------------------------
(* The execution stage.                                                    *)
LEMMA ExecutionAdmitsInv ==
  ASSUME Inv, NEW p \in Proc, ExecutionAdmits(p)
  PROVE  Inv'
BY StageMove DEF ExecutionAdmits, Pc, FreePc, OwningPc, CallPc, RoutedPc, PackagedPc, ProposedPc

LEMMA ExecutionReplaysInv ==
  ASSUME Inv, NEW p \in Proc, ExecutionReplays(p)
  PROVE  Inv'
BY StageMove DEF ExecutionReplays, Pc, FreePc, OwningPc, CallPc, RoutedPc, PackagedPc, ProposedPc

LEMMA ExecutionMissesInv ==
  ASSUME Inv, NEW p \in Proc, ExecutionMisses(p)
  PROVE  Inv'
BY StageMove DEF ExecutionMisses, Pc, FreePc, OwningPc, CallPc, RoutedPc, PackagedPc, ProposedPc

LEMMA EvidencePreparedInv ==
  ASSUME Inv, NEW p \in Proc, EvidencePrepared(p)
  PROVE  Inv'
BY StageMove DEF EvidencePrepared, Pc, FreePc, OwningPc, CallPc, RoutedPc, PackagedPc, ProposedPc

(* What a process past its proposal knows, and keeps knowing while only    *)
(* the executions table changes.                                           *)
LEMMA ProposedKnows ==
  ASSUME Inv, NEW p \in Proc, pc[p] \in ProposedPc
  PROVE  /\ turn[p] \in Turn
         /\ turn[p].conv \in Conversation /\ turn[p].router \in RunId
         /\ Done(turn[p].router, "router") /\ runs[turn[p].router].conv = turn[p].conv
         /\ turn[p].pkg \in Package
         /\ turn[p].retrieval \in RunId /\ Done(turn[p].retrieval, "inference")
         /\ pc[p] = "exec_run" => Executing(turn[p].retrieval)
<1>1. LocalsOf(p)
  BY DEF Inv, LocalsMatchStore
<1>2. pc[p] \in RoutedPc /\ pc[p] \in PackagedPc /\ pc[p] # "idle"
  BY DEF RoutedPc, Pc, FreePc, PackagedPc, ProposedPc
<1> QED
  BY <1>1, <1>2 DEF LocalsOf, Inv, TypeOK, ProcTypeOK

LEMMA ExecutionClaimsInv ==
  ASSUME Inv, NEW p \in Proc, ExecutionClaims(p)
  PROVE  Inv'
<1> DEFINE r == turn[p].retrieval
           row == [pkg |-> turn[p].pkg, status |-> "running", failure |-> "none"]
<1>1. pc[p] \in ProposedPc /\ executions[r] = None
  BY DEF ExecutionClaims, ProposedPc
<1>2. row \in Execution /\ row # None /\ row.status = "running"
  BY <1>1, ProposedKnows, StoreAssumption DEF Execution, Failure
<1> HIDE DEF row
<1>3. /\ executions' \in [RunId -> Execution \cup {None}]
      /\ executions'[r] = row
      /\ \A s \in RunId : executions'[s] = executions[s] \/ executions[s] = None
  BY <1>1, <1>2, ProposedKnows DEF ExecutionClaims, Inv, TypeOK, StoreTypeOK, row
<1>4. pc'[p] = "exec_run" /\ turn' = turn /\ runs' = runs
  BY DEF ExecutionClaims, Goto, Inv, TypeOK, ProcTypeOK
<1>5. LocalsOf(p)'
  BY <1>1, <1>2, <1>3, <1>4, ProposedKnows DEF LocalsOf, OwningPc, CallPc, Done, Executing
<1>6. turn[p] \in Turn /\ turn' = [turn EXCEPT ![p] = turn[p]]
  BY <1>4 DEF Inv, TypeOK, ProcTypeOK
<1>7. "exec_run" \in Pc \ OwningPc
  BY DEF Pc, OwningPc, CallPc
<1> QED
  BY <1>1, <1>3, <1>5, <1>6, <1>7, TableStep DEF ExecutionClaims, Inv, TypeOK, StoreTypeOK

(* Deciding changes one local nothing depends on.                          *)
LEMMA DecidesInv ==
  ASSUME Inv, NEW p \in Proc,
         NEW status \in {"succeeded", "partial", "failed"}, NEW failure \in Failure,
         Decides(p, status, failure)
  PROVE  Inv'
<1> DEFINE locals == [turn[p] EXCEPT !.outcome = [status |-> status, failure |-> failure]]
<1>1. pc[p] = "exec_run" /\ pc[p] \in ProposedPc /\ UNCHANGED <<storeVars, disk, pc>>
  BY DEF Decides, ProposedPc
<1>2. turn[p] \in Turn /\ locals \in Turn
  BY DEF Inv, TypeOK, ProcTypeOK, Turn, Outcome
<1>3. turn' = [turn EXCEPT ![p] = locals]
  BY DEF Decides
<1>4. /\ turn'[p] = locals
      /\ locals.conv = turn[p].conv /\ locals.router = turn[p].router /\ locals.run = turn[p].run
      /\ locals.pkg = turn[p].pkg /\ locals.retrieval = turn[p].retrieval
  BY <1>2, <1>3 DEF Inv, TypeOK, ProcTypeOK, Turn
<1> HIDE DEF locals
<1>5. TypeOK'
  BY <1>1, <1>2, <1>3 DEF Inv, TypeOK, StoreTypeOK, RunsTypeOK, ProcTypeOK, storeVars
<1>6. OnlyRowsOf(p) /\ OnlyLocalsOf(p) /\ runs' = runs /\ executions' = executions
  BY <1>1, <1>3 DEF OnlyRowsOf, OnlyLocalsOf, storeVars, Inv, TypeOK, ProcTypeOK
<1>7. LocalsOf(p)'
  BY <1>1, <1>4, <1>6, ProposedKnows DEF LocalsOf, OwningPc, CallPc, Done, Executing
<1>8. \A q \in Proc : LocalsOf(q)'
  BY <1>6, <1>7, OthersKept DEF Inv
<1>9. \A q \in Proc : turn'[q].run = turn[q].run /\ turn'[q].retrieval = turn[q].retrieval
  BY <1>3, <1>4, <1>6 DEF OnlyLocalsOf
<1> QED
  BY <1>1, <1>5, <1>8, <1>9 DEF Inv, LocalsMatchStore

LEMMA ExecutionDecidesInv ==
  ASSUME Inv, NEW p \in Proc,
         \/ ExecutionSucceeds(p) \/ ExecutionSurfaceFails(p)
         \/ ExecutionPackageChanged(p) \/ ExecutionFailsTwice(p)
  PROVE  Inv'
<1>1. PICK status \in {"succeeded", "partial", "failed"}, failure \in Failure :
        Decides(p, status, failure)
  <2>1. CASE ExecutionSucceeds(p)
    BY <2>1, Zenon DEF ExecutionSucceeds, Failure
  <2>2. CASE ExecutionSurfaceFails(p) \/ ExecutionPackageChanged(p) \/ ExecutionFailsTwice(p)
    BY <2>2, Zenon DEF ExecutionSurfaceFails, ExecutionPackageChanged, ExecutionFailsTwice, Failure
  <2> QED
    BY <2>1, <2>2
<1> QED
  BY <1>1, DecidesInv

(* A finished execution is a well formed row, of this process's own claim. *)
LEMMA FinishTyped ==
  ASSUME Inv, NEW p \in Proc, Finish(p)
  PROVE  /\ executions' \in [RunId -> Execution \cup {None}]
         /\ \A s \in RunId : executions'[s] = executions[s] \/ s = turn[p].retrieval
<1> DEFINE r == turn[p].retrieval
           row == [executions[r] EXCEPT !.status = turn[p].outcome.status,
                                        !.failure = turn[p].outcome.failure]
<1>1. pc[p] = "exec_run" /\ pc[p] \in ProposedPc /\ turn[p].outcome \in Outcome
  BY DEF Finish, ProposedPc, Inv, TypeOK, ProcTypeOK, Turn
<1>2. r \in RunId /\ executions[r] \in Execution
  BY <1>1, ProposedKnows DEF Executing, Inv, TypeOK, StoreTypeOK
<1>3. row \in Execution
  BY <1>1, <1>2 DEF Execution, Outcome
<1>4. executions' = [executions EXCEPT ![r] = row]
  BY DEF Finish
<1> HIDE DEF row
<1> QED
  BY <1>2, <1>3, <1>4 DEF Inv, TypeOK, StoreTypeOK

LEMMA ExecutionCommitsInv ==
  ASSUME Inv, NEW p \in Proc, ExecutionCommits(p)
  PROVE  Inv'
<1>1. pc[p] = "exec_run" /\ pc[p] \in ProposedPc /\ pc'[p] = "prepare" /\ runs' = runs
  BY DEF ExecutionCommits, Finish, ProposedPc, Goto, Inv, TypeOK, ProcTypeOK
<1>2. LocalsOf(p)'
  BY <1>1, ProposedKnows DEF ExecutionCommits, LocalsOf, OwningPc, CallPc, Done
<1>3. turn[p] \in Turn /\ turn' = [turn EXCEPT ![p] = turn[p]]
  BY DEF ExecutionCommits, Inv, TypeOK, ProcTypeOK
<1>4. "prepare" \in Pc \ OwningPc
  BY DEF Pc, FreePc, OwningPc, CallPc
<1> QED
  BY <1>1, <1>2, <1>3, <1>4, FinishTyped, TableStep
     DEF ExecutionCommits, Finish, Inv, TypeOK, StoreTypeOK

LEMMA ExecutionUnreadableInv ==
  ASSUME Inv, NEW p \in Proc, ExecutionUnreadable(p)
  PROVE  Inv'
<1>1. pc[p] = "exec_run" /\ Finish(p)
  BY DEF ExecutionUnreadable, Finish
<1>2. LocalsOf(p)'
  BY LeftIsClean DEF ExecutionUnreadable
<1>3. "idle" \in Pc \ OwningPc
  BY DEF Pc, OwningPc, CallPc
<1> QED
  BY <1>1, <1>2, <1>3, FinishTyped, NoTurnTyped, TableStep
     DEF ExecutionUnreadable, Finish, Leave, Inv, TypeOK, StoreTypeOK

-------------------------------------------------------------------------------
(* The synthesis stage.                                                    *)
LEMMA AnswerReplayInv ==
  ASSUME Inv, NEW p \in Proc, AnswerReplay(p)
  PROVE  Inv'
<1>1. PICK s \in RunId : turn' = [turn EXCEPT ![p].answer = s]
  BY DEF AnswerReplay
<1> DEFINE locals == [turn[p] EXCEPT !.answer = s]
<1>2. /\ locals \in Turn /\ turn' = [turn EXCEPT ![p] = locals] /\ turn'[p] = locals
      /\ locals.answer = s /\ locals.router = turn[p].router /\ locals.conv = turn[p].conv
  BY <1>1 DEF Inv, TypeOK, ProcTypeOK, Turn
<1>3. pc'[p] = "returned" /\ pc[p] \in {"lookup", "synthesize"} /\ runs' = runs
  BY DEF AnswerReplay, Goto, Inv, TypeOK, ProcTypeOK, storeVars
<1>4. LocalsOf(p) /\ pc[p] \in RoutedPc /\ pc[p] # "idle"
  BY <1>3 DEF Inv, LocalsMatchStore, RoutedPc, Pc, FreePc
<1>5. LocalsOf(p)'
  BY <1>2, <1>3, <1>4 DEF LocalsOf, OwningPc, CallPc, PackagedPc, ProposedPc, Done
<1>6. "returned" \in Pc \ OwningPc
  BY DEF Pc, OwningPc, CallPc
<1> QED
  BY <1>2, <1>5, <1>6, QuietStep DEF AnswerReplay

LEMMA AnswerMissesInv ==
  ASSUME Inv, NEW p \in Proc, AnswerMisses(p)
  PROVE  Inv'
<1>1. PICK label \in {"synthesize", "package"} : Goto(p, label)
  BY DEF AnswerMisses
<1> QED
  BY <1>1, StageMove DEF AnswerMisses, Pc, FreePc, OwningPc, CallPc, RoutedPc, PackagedPc, ProposedPc

LEMMA SynthesisClaimInv ==
  ASSUME Inv, NEW p \in Proc, SynthesisClaim(p)
  PROVE  Inv'
<1> DEFINE router == runs[turn[p].router]
           row == NewRun("synthesis", turn[p].conv, router.trigger, SynthesisParent(p), None,
                         thread[turn[p].conv])
<1>1. pc[p] = "synthesize" /\ LocalsOf(p) /\ pc[p] \in RoutedPc
  BY DEF SynthesisClaim, Inv, LocalsMatchStore, RoutedPc, Pc, FreePc
<1>2. /\ turn[p].router \in RunId /\ turn[p].conv \in Conversation
      /\ router # None /\ router.kind = "router" /\ router.status = "succeeded"
  BY <1>1 DEF LocalsOf, Done
<1>3. router \in Run /\ router.trigger \in Nat /\ router.output \in Route
  BY <1>2, RowTyped DEF Inv, TypeOK, Run, RowShape, OutputOf
<1>4. SynthesisParent(p) \in RunId
  <2>1. turn[p].retrieval \in RunId \cup {None}
    BY DEF Inv, TypeOK, ProcTypeOK, Turn
  <2>2. router.output = "semantic" => turn[p].retrieval # None
    BY DEF SynthesisClaim, SynthesisClaimable, RetrievalOf
  <2> QED
    BY <1>2, <1>3, <2>1, <2>2 DEF SynthesisParent, Route
<1>5. thread[turn[p].conv] \in Seq(Message)
  BY <1>2 DEF Inv, TypeOK, StoreTypeOK
<1>6. row \in Run /\ RowShape(row) /\ row.status = "running" /\ row.kind = "synthesis"
      /\ row.conv = turn[p].conv
  BY <1>2, <1>3, <1>4, <1>5, StoreAssumption DEF NewRun, Run, Kind, Status, RowShape
<1>7. InsertRun(row)
  BY DEF SynthesisClaim
<1> HIDE DEF row
<1> QED
  BY <1>1, <1>6, <1>7, ClaimStep DEF SynthesisClaim, CallPc, CallKind

LEMMA SynthesisCompletesInv ==
  ASSUME Inv, NEW p \in Proc, SynthesisCompletes(p)
  PROVE  Inv'
<1>1. PICK r : r = turn[p].run
  OBVIOUS
<1>2. pc[p] = "synth_call" /\ pc[p] \in CallPc /\ pc[p] \in OwningPc /\ LocalsOf(p)
      /\ pc[p] \in RoutedPc
  BY DEF SynthesisCompletes, CallPc, OwningPc, Inv, LocalsMatchStore, RoutedPc, Pc
<1>3. /\ r \in RunId /\ runs[r] # None /\ runs[r].conv = turn[p].conv
      /\ turn[p].conv \in Conversation /\ turn[p].router \in RunId
      /\ Done(turn[p].router, "router") /\ runs[turn[p].router].conv = turn[p].conv
      /\ runs[r].status = "running"
  BY <1>1, <1>2 DEF LocalsOf, Running
<1> DEFINE position == Len(thread[runs[r].conv]) + 1
           locals == [turn[p] EXCEPT !.answer = turn[p].run, !.run = None]
<1>4. thread[runs[r].conv] \in Seq(Message) /\ position \in Nat
  BY <1>3 DEF Inv, TypeOK, StoreTypeOK
<1>5. thread' \in [Conversation -> Seq(Message)]
  <2>1. [role |-> "synthesis", run |-> r] \in Message
    BY <1>3 DEF Message, Role
  <2> QED
    BY <1>1, <1>3, <1>4, <2>1 DEF SynthesisCompletes, Inv, TypeOK, StoreTypeOK
<1>6. CompleteRun(r, None, position)
  BY <1>1 DEF SynthesisCompletes
<1>7. /\ RunsTypeOK'
      /\ \A s \in RunId : s # r => runs'[s] = runs[s]
  <2>1. None \in OutputOf[CallKind[pc[p]]] /\ position \in Nat \cup {None}
    BY <1>2, <1>4 DEF OutputOf, CallKind
  <2> QED
    BY <1>1, <1>2, <1>6, <2>1, CompletedRow
<1>8. locals \in Turn /\ turn' = [turn EXCEPT ![p] = locals]
  <2>1. turn[p] \in Turn
    BY DEF Inv, TypeOK, ProcTypeOK
  <2>2. locals \in Turn
    BY <1>1, <1>3, <2>1 DEF Turn
  <2> QED
    BY <1>1, <2>2 DEF SynthesisCompletes
<1>9. /\ pc'[p] = "returned" /\ turn'[p].answer = r /\ turn'[p].conv = turn[p].conv
      /\ turn'[p].router = turn[p].router
  BY <1>1, <1>8 DEF SynthesisCompletes, Goto, Inv, TypeOK, ProcTypeOK, Turn
<1>10. runs'[turn[p].router] = runs[turn[p].router]
  BY <1>3, <1>7 DEF Done
<1>11. LocalsOf(p)'
  BY <1>3, <1>9, <1>10 DEF LocalsOf, OwningPc, CallPc, PackagedPc, ProposedPc, Done
<1>12. "returned" \in Pc \ OwningPc
  BY DEF Pc, OwningPc, CallPc
<1> QED
  BY <1>1, <1>2, <1>5, <1>7, <1>8, <1>11, <1>12, ReleaseStep DEF SynthesisCompletes

-------------------------------------------------------------------------------
(* Every step of the runtime.                                              *)
LEMMA RouterStepInv ==
  ASSUME Inv, NEW p \in Proc, RouterStep(p)
  PROVE  Inv'
<1>1. CASE RouterRefused(p)
  BY <1>1, RaiseInv DEF RouterRefused
<1>2. CASE RouterFails(p)
  BY <1>2, FailingStep DEF RouterFails, CallPc
<1> QED
  BY <1>1, <1>2, RouterReplayInv, RouterClaimInv, RouterCompletesInv DEF RouterStep

LEMMA InferStepInv ==
  ASSUME Inv, NEW p \in Proc, InferStep(p)
  PROVE  Inv'
<1>1. CASE InferRefused(p)
  BY <1>1, RaiseInv DEF InferRefused
<1>2. CASE InferFails(p)
  BY <1>2, FailingStep DEF InferFails, CallPc
<1> QED
  BY <1>1, <1>2, InferReplayInv, InferMissesInv, InferReadsCatalogInv, InferClaimInv,
     InferCompletesInv DEF InferStep

LEMMA ConformStepInv ==
  ASSUME Inv, NEW p \in Proc, ConformStep(p)
  PROVE  Inv'
<1>1. CASE ConformRefused(p)
  BY <1>1, RaiseInv DEF ConformRefused
<1>2. CASE ConformConflicts(p)
  BY <1>2, RaiseInv DEF ConformConflicts
<1> QED
  BY <1>1, <1>2, ConformAdmitsInv, ConformReplaysInv, ConformMissesInv, ConformInsertsInv
     DEF ConformStep

LEMMA ExecutionStepInv ==
  ASSUME Inv, NEW p \in Proc, ExecutionStep(p)
  PROVE  Inv'
<1>1. CASE ExecutionRefused(p)
  BY <1>1, RaiseInv DEF ExecutionRefused
<1>2. CASE ExecutionBlocked(p)
  BY <1>2, RaiseInv DEF ExecutionBlocked
<1>3. CASE ExecutionConflicts(p)
  BY <1>3, RaiseInv DEF ExecutionConflicts
<1> QED
  BY <1>1, <1>2, <1>3, ExecutionAdmitsInv, ExecutionReplaysInv, ExecutionMissesInv,
     ExecutionClaimsInv, ExecutionDecidesInv, ExecutionCommitsInv, ExecutionUnreadableInv
     DEF ExecutionStep

LEMMA SynthesisStepInv ==
  ASSUME Inv, NEW p \in Proc, SynthesisStep(p)
  PROVE  Inv'
<1>1. CASE SynthesisRefused(p)
  BY <1>1, RaiseInv DEF SynthesisRefused
<1>2. CASE SynthesisFails(p)
  BY <1>2, FailingStep DEF SynthesisFails, CallPc
<1> QED
  BY <1>1, <1>2, AnswerReplayInv, AnswerMissesInv, SynthesisClaimInv, SynthesisCompletesInv
     DEF SynthesisStep

LEMMA StepInv ==
  ASSUME Inv, NEW p \in Proc, Step(p)
  PROVE  Inv'
<1>1. CASE PackageRejected(p)
  BY <1>1, RaiseInv DEF PackageRejected
<1>2. CASE EvidenceRefused(p)
  BY <1>2, RaiseInv DEF EvidenceRefused
<1>3. CASE StageRaises(p)
  BY <1>3, RaiseInv DEF StageRaises
<1>4. CASE ReturnAnswer(p)
  BY <1>4, RaiseInv DEF ReturnAnswer
<1> QED
  BY <1>1, <1>2, <1>3, <1>4, RouterStepInv, InferStepInv, ConformStepInv, ExecutionStepInv,
     SynthesisStepInv, PackageLoadsInv, PackageVerifiedInv, EvidencePreparedInv, MarkFailedInv
     DEF Step

LEMMA FaultInv ==
  ASSUME Inv, NEW p \in Proc, Fault(p)
  PROVE  Inv'
BY RaiseInv DEF Fault, MarkLost, ExecutionAbandons, Crash

LEMMA UntouchedLocals ==
  ASSUME LocalsMatchStore, UNCHANGED <<runs, executions, procVars>>
  PROVE  LocalsMatchStore'
BY DEF LocalsMatchStore, LocalsOf, Done, Running, Executing, procVars

LEMMA OperatorInv ==
  ASSUME Inv, Operator
  PROVE  Inv'
<1>1. ASSUME NEW c \in Conversation, NEW role \in Role, AppendMessage(c, role),
             UNCHANGED <<disk, procVars>>
      PROVE  Inv'
  <2>1. [role |-> role, run |-> None] \in Message
    BY DEF Message
  <2>2. thread' \in [Conversation -> Seq(Message)]
    BY <1>1, <2>1 DEF AppendMessage, Inv, TypeOK, StoreTypeOK
  <2>3. TypeOK'
    BY <1>1, <2>2
       DEF AppendMessage, Inv, TypeOK, StoreTypeOK, RunsTypeOK, ProcTypeOK, procVars
  <2> QED
    BY <1>1, <2>3, UntouchedLocals DEF AppendMessage, Inv
<1>2. ASSUME NEW v \in Version, ReplaceBuild(v) \/ ReplaceCatalog(v),
             UNCHANGED <<storeVars, procVars>>
      PROVE  Inv'
  <2>1. disk' \in Package
    BY <1>2 DEF ReplaceBuild, ReplaceCatalog, Package, Inv, TypeOK
  <2>2. TypeOK'
    BY <1>2, <2>1 DEF Inv, TypeOK, StoreTypeOK, RunsTypeOK, ProcTypeOK, procVars, storeVars
  <2> QED
    BY <1>2, <2>2, UntouchedLocals DEF Inv, storeVars
<1> QED
  BY <1>1, <1>2 DEF Operator

LEMMA NextInv == Inv /\ [Next]_vars => Inv'
<1> SUFFICES ASSUME Inv, [Next]_vars PROVE Inv'
  OBVIOUS
<1>1. CASE Operator
  BY <1>1, OperatorInv
<1>2. CASE UNCHANGED vars
  <2>1. TypeOK'
    BY <1>2 DEF vars, storeVars, procVars, Inv, TypeOK, StoreTypeOK, RunsTypeOK, ProcTypeOK
  <2> QED
    BY <1>2, <2>1, UntouchedLocals DEF vars, storeVars, Inv
<1>3. ASSUME NEW p \in Proc, (\E c \in Conversation : BeginTurn(p, c)) \/ Step(p) \/ Fault(p)
      PROVE  Inv'
  BY <1>3, BeginTurnInv, StepInv, FaultInv
<1> QED
  BY <1>1, <1>2, <1>3 DEF Next

(* Rows and locals keep their shape whatever turns, operators and faults   *)
(* do: the CHECK constraints of the schema never refuse a write.           *)
THEOREM TypeCorrect == Spec => []TypeOK
<1>1. Inv => TypeOK
  BY DEF Inv
<1> QED
  BY <1>1, InitInv, NextInv, PTL DEF Spec

(* What a turn remembers between its transactions stays true: no other     *)
(* process, append, replacement, crash or lost write takes its claim.      *)
THEOREM LocalsAlwaysMatch == Spec => []LocalsMatchStore
<1>1. Inv => LocalsMatchStore
  BY DEF Inv
<1> QED
  BY <1>1, InitInv, NextInv, PTL DEF Spec

-------------------------------------------------------------------------------
(* Lanes and history: which calls exclude each other, and what no step of  *)
(* the runtime may undo.  All of it rests on the inductive invariant Inv.  *)

(* A new attempt is for a user message of its conversation, or for the     *)
(* trigger of a router run that succeeded.                                 *)
Placed(row) ==
  \/ row.conv \in Conversation /\ row.trigger \in UserPositions(row.conv)
  \/ \E s \in RunId : /\ Done(s, "router")
                      /\ runs[s].conv = row.conv /\ runs[s].trigger = row.trigger

(* The three things a step can do to the table of runs.                    *)
Claims(r) ==
  /\ runs[r] = None /\ runs'[r] # None /\ runs'[r].status = "running"
  /\ Unclaimed(LaneOf(runs'[r])) /\ Placed(runs'[r])

Finishes(r) ==
  /\ Running(r) /\ runs'[r] # None /\ runs'[r].status \in {"succeeded", "failed"}
  /\ LaneOf(runs'[r]) = LaneOf(runs[r])

OneRowMoves ==
  \/ runs' = runs
  \/ \E r \in RunId : /\ Claims(r) \/ Finishes(r)
                      /\ \A s \in RunId \ {r} : runs'[s] = runs[s]

LEMMA InsertClaims ==
  ASSUME Inv, NEW row \in Run, row.status = "running", Unclaimed(LaneOf(row)), Placed(row),
         InsertRun(row)
  PROVE  OneRowMoves
<1>1. FreshId \in RunId /\ runs[FreshId] = None
  BY FreshIdFree DEF InsertRun
<1>2. /\ runs'[FreshId] = row
      /\ \A s \in RunId \ {FreshId} : runs'[s] = runs[s]
  BY <1>1 DEF InsertRun, Inv, TypeOK, StoreTypeOK, RunsTypeOK
<1>3. Claims(FreshId)
  BY <1>1, <1>2, StoreAssumption DEF Claims
<1> QED
  BY <1>1, <1>2, <1>3 DEF OneRowMoves

(* Rows only a claiming process may touch: completed or failed.            *)
LEMMA OwnRun ==
  ASSUME Inv, NEW p \in Proc, pc[p] \in OwningPc
  PROVE  turn[p].run \in RunId /\ Running(turn[p].run) /\ runs[turn[p].run] \in Run
<1>1. turn[p].run \in RunId /\ Running(turn[p].run)
  BY DEF Inv, LocalsMatchStore, LocalsOf
<1> QED
  BY <1>1, RowTyped DEF Running, Inv, TypeOK

LEMMA CompleteFinishes ==
  ASSUME Inv, NEW p \in Proc, pc[p] \in OwningPc,
         NEW output \in Route \cup Verdict \cup {None}, NEW produced \in Nat \cup {None},
         CompleteRun(turn[p].run, output, produced)
  PROVE  OneRowMoves
<1> DEFINE r == turn[p].run
           row == [runs[r] EXCEPT !.status = "succeeded", !.output = output,
                                  !.produced = produced]
<1>1. r \in RunId /\ Running(r) /\ runs[r] \in Run
  BY OwnRun
<1>2. /\ row \in Run /\ row.status = "succeeded" /\ row.kind = runs[r].kind
      /\ row.parent = runs[r].parent /\ row.conv = runs[r].conv
      /\ row.trigger = runs[r].trigger
  BY <1>1 DEF Run, Status
<1>3. runs' = [runs EXCEPT ![r] = row]
  BY DEF CompleteRun
<1> HIDE DEF row
<1>4. runs'[r] = row /\ \A s \in RunId \ {r} : runs'[s] = runs[s]
  BY <1>1, <1>3 DEF Inv, TypeOK, StoreTypeOK, RunsTypeOK
<1>5. LaneOf(row) = LaneOf(runs[r])
  BY <1>2 DEF LaneOf
<1>6. Finishes(r)
  BY <1>1, <1>2, <1>4, <1>5, StoreAssumption DEF Finishes
<1> QED
  BY <1>1, <1>4, <1>6 DEF OneRowMoves

LEMMA MarkFinishes ==
  ASSUME Inv, NEW p \in Proc, MarkFailed(p)
  PROVE  OneRowMoves
<1> DEFINE r == turn[p].run
           row == [runs[r] EXCEPT !.status = "failed"]
<1>1. r \in RunId /\ Running(r) /\ runs[r] \in Run
  BY OwnRun DEF MarkFailed, OwningPc
<1>2. /\ row \in Run /\ row.status = "failed" /\ row.kind = runs[r].kind
      /\ row.parent = runs[r].parent /\ row.conv = runs[r].conv
      /\ row.trigger = runs[r].trigger
  BY <1>1 DEF Run, Status
<1>3. runs' = [runs EXCEPT ![r] = row]
  BY DEF MarkFailed, FailRun
<1> HIDE DEF row
<1>4. runs'[r] = row /\ \A s \in RunId \ {r} : runs'[s] = runs[s]
  BY <1>1, <1>3 DEF Inv, TypeOK, StoreTypeOK, RunsTypeOK
<1>5. LaneOf(row) = LaneOf(runs[r])
  BY <1>2 DEF LaneOf
<1>6. Finishes(r)
  BY <1>1, <1>2, <1>4, <1>5, StoreAssumption DEF Finishes
<1> QED
  BY <1>1, <1>4, <1>6 DEF OneRowMoves

(* The claims of the three stages, each in the lane it looked at.          *)
LEMMA RouterClaims ==
  ASSUME Inv, NEW p \in Proc, RouterClaim(p)
  PROVE  OneRowMoves
<1>1. PICK t \in UserPositions(turn[p].conv) :
        /\ RouterClaimable(turn[p].conv, t)
        /\ InsertRun(NewRun("router", turn[p].conv, t, None, None, << >>))
  BY DEF RouterClaim
<1> DEFINE row == NewRun("router", turn[p].conv, t, None, None, << >>)
<1>2. turn[p].conv \in Conversation /\ t \in Nat
  BY DEF RouterClaim, Inv, LocalsMatchStore, LocalsOf, UserPositions
<1>3. row \in Run /\ row.status = "running"
  BY <1>2 DEF NewRun, Run, Kind, Status
<1>4. LaneOf(row) = RouterLane(turn[p].conv, t)
  BY DEF LaneOf, RouterLane, TriggerLane, NewRun
<1>5. Placed(row)
  BY <1>2 DEF NewRun, Placed
<1> HIDE DEF row
<1> QED
  BY <1>1, <1>3, <1>4, <1>5, InsertClaims DEF RouterClaimable, row

LEMMA InferClaims ==
  ASSUME Inv, NEW p \in Proc, InferClaim(p)
  PROVE  OneRowMoves
<1> DEFINE router == runs[turn[p].router]
           row == NewRun("inference", router.conv, router.trigger, turn[p].router,
                         turn[p].catalog, << >>)
<1>1. /\ turn[p].router \in RunId /\ turn[p].catalog \in Version
      /\ router # None
  BY DEF InferClaim, Inv, LocalsMatchStore, LocalsOf, RoutedPc, Pc, FreePc, Done
<1>2. router \in Run
  BY <1>1, RowTyped DEF Inv, TypeOK
<1>3. row \in Run /\ row.status = "running"
  BY <1>1, <1>2 DEF NewRun, Run, Kind, Status
<1>4. LaneOf(row) = InferenceLane(turn[p].router)
  BY DEF LaneOf, InferenceLane, NewRun
<1>5. InsertRun(row) /\ Unclaimed(InferenceLane(turn[p].router))
  BY DEF InferClaim, InferClaimable, InferUnclaimed
<1>6. Placed(row)
  BY <1>1 DEF NewRun, Placed, Done, InferClaim, Inv, LocalsMatchStore, LocalsOf, RoutedPc, Pc, FreePc
<1> QED
  BY <1>3, <1>4, <1>5, <1>6, InsertClaims

LEMMA SynthesisClaims ==
  ASSUME Inv, NEW p \in Proc, SynthesisClaim(p)
  PROVE  OneRowMoves
<1> DEFINE router == runs[turn[p].router]
           row == NewRun("synthesis", turn[p].conv, router.trigger, SynthesisParent(p), None,
                         thread[turn[p].conv])
<1>1. /\ turn[p].router \in RunId /\ turn[p].conv \in Conversation
      /\ router # None /\ router.conv = turn[p].conv
  BY DEF SynthesisClaim, Inv, LocalsMatchStore, LocalsOf, RoutedPc, Pc, FreePc, Done
<1>2. router \in Run /\ thread[turn[p].conv] \in Seq(Message)
      /\ turn[p].retrieval \in RunId \cup {None}
  BY <1>1, RowTyped DEF Inv, TypeOK, StoreTypeOK, ProcTypeOK, Turn
<1>3. row \in Run /\ row.status = "running"
  BY <1>1, <1>2 DEF NewRun, Run, Kind, Status, SynthesisParent
<1>4. LaneOf(row) = SynthesisLane(turn[p].router)
  BY <1>1 DEF LaneOf, SynthesisLane, TriggerLane, NewRun
<1>5. InsertRun(row) /\ Unclaimed(SynthesisLane(turn[p].router))
  BY DEF SynthesisClaim, SynthesisClaimable, AnswerUnclaimed
<1>6. Placed(row)
  BY <1>1 DEF NewRun, Placed, Done, SynthesisClaim, Inv, LocalsMatchStore, LocalsOf, RoutedPc, Pc, FreePc
<1> QED
  BY <1>3, <1>4, <1>5, <1>6, InsertClaims

LEMMA Completions ==
  ASSUME Inv, NEW p \in Proc, RouterCompletes(p) \/ InferCompletes(p) \/ SynthesisCompletes(p)
  PROVE  OneRowMoves
<1>1. CASE RouterCompletes(p)
  <2>1. PICK route \in ModelRoute : CompleteRun(turn[p].run, route, None)
    BY <1>1 DEF RouterCompletes
  <2> QED
    BY <1>1, <2>1, CompleteFinishes, RouteAssumption DEF RouterCompletes, OwningPc, CallPc
<1>2. CASE InferCompletes(p)
  <2>1. PICK verdict \in Verdict : CompleteRun(turn[p].run, verdict, None)
    BY <1>2 DEF InferCompletes
  <2> QED
    BY <1>2, <2>1, CompleteFinishes DEF InferCompletes, OwningPc, CallPc
<1>3. CASE SynthesisCompletes(p)
  <2> DEFINE position == Len(thread[runs[turn[p].run].conv]) + 1
  <2>1. pc[p] \in OwningPc /\ CompleteRun(turn[p].run, None, position)
    BY <1>3 DEF SynthesisCompletes, OwningPc, CallPc
  <2>2. runs[turn[p].run].conv \in Conversation
    BY <2>1, OwnRun DEF Run
  <2>3. position \in Nat
    BY <2>2 DEF Inv, TypeOK, StoreTypeOK
  <2> QED
    BY <2>1, <2>3, CompleteFinishes
<1> QED
  BY <1>1, <1>2, <1>3

(* Every step moves at most one run, along its lifecycle.                  *)
LEMMA RunsMove == Inv /\ [Next]_vars => OneRowMoves
<1> SUFFICES ASSUME Inv, [Next]_vars PROVE OneRowMoves
  OBVIOUS
<1>1. ASSUME NEW p \in Proc, Step(p) PROVE OneRowMoves
  <2>1. CASE RouterStep(p)
    BY <2>1, RouterClaims, Completions
       DEF RouterStep, RouterReplay, RouterRefused, RouterFails, Raise, storeVars, OneRowMoves
  <2>2. CASE InferStep(p)
    BY <2>2, InferClaims, Completions
       DEF InferStep, InferReplay, InferMisses, InferReadsCatalog, InferRefused, InferFails, Raise,
           storeVars, OneRowMoves
  <2>3. CASE ConformStep(p)
    BY <2>3 DEF ConformStep, ConformAdmits, ConformRefused, ConformReplays, ConformMisses,
                ConformInserts, ConformConflicts, Raise, storeVars, OneRowMoves
  <2>4. CASE ExecutionStep(p)
    BY <2>4 DEF ExecutionStep, ExecutionAdmits, ExecutionRefused, ExecutionReplays,
                ExecutionMisses, ExecutionBlocked, ExecutionClaims, ExecutionConflicts,
                ExecutionSucceeds, ExecutionSurfaceFails, ExecutionPackageChanged,
                ExecutionFailsTwice, Decides, ExecutionCommits, ExecutionUnreadable,
                Finish, Raise, storeVars, OneRowMoves
  <2>5. CASE SynthesisStep(p)
    BY <2>5, SynthesisClaims, Completions
       DEF SynthesisStep, AnswerReplay, AnswerMisses, SynthesisRefused, SynthesisFails, Raise,
           storeVars, OneRowMoves
  <2>6. CASE \/ PackageLoads(p) \/ PackageVerified(p) \/ PackageRejected(p)
             \/ EvidencePrepared(p) \/ EvidenceRefused(p) \/ StageRaises(p) \/ ReturnAnswer(p)
    BY <2>6 DEF PackageLoads, PackageVerified, PackageRejected, EvidencePrepared, EvidenceRefused,
                StageRaises, ReturnAnswer, Raise, storeVars, OneRowMoves
  <2> QED
    BY <1>1, <2>1, <2>2, <2>3, <2>4, <2>5, <2>6, MarkFinishes DEF Step
<1>2. ASSUME NEW p \in Proc, (\E c \in Conversation : BeginTurn(p, c)) \/ Fault(p) PROVE OneRowMoves
  BY <1>2 DEF BeginTurn, Fault, MarkLost, ExecutionAbandons, Crash, Raise, storeVars, OneRowMoves
<1>3. CASE Operator
  BY <1>3 DEF Operator, AppendMessage, storeVars, OneRowMoves
<1>4. CASE UNCHANGED vars
  BY <1>4 DEF vars, storeVars, OneRowMoves
<1> QED
  BY <1>1, <1>2, <1>3, <1>4 DEF Next

-------------------------------------------------------------------------------
(* A lane stays with its one attempt: what moves is either that attempt or *)
(* a claim made where nothing ran and nothing had succeeded.               *)
LEMMA AuthorityStep == OneAuthority /\ OneRowMoves => OneAuthority'
<1> SUFFICES ASSUME OneAuthority, OneRowMoves,
                    NEW r \in RunId, NEW s \in RunId,
                    Held(r)', Held(s)', LaneOf(runs'[r]) = LaneOf(runs'[s]), r # s
             PROVE  FALSE
  BY DEF OneAuthority, LaneOf
<1>1. CASE runs' = runs
  BY <1>1 DEF OneAuthority, Held
<1>2. ASSUME NEW m \in RunId, Claims(m), \A x \in RunId \ {m} : runs'[x] = runs[x]
      PROVE  FALSE
  <2>1. ASSUME NEW a \in RunId, NEW b \in RunId, a = m, b # m, Held(b)',
               LaneOf(runs'[a]) = LaneOf(runs'[b])
        PROVE  FALSE
    <3>1. runs[b] = runs'[b] /\ Held(b)
      BY <1>2, <2>1 DEF Held
    <3>2. b \in Attempts(LaneOf(runs'[m]))
      BY <2>1, <3>1 DEF Attempts, Held
    <3> QED
      BY <1>2, <3>1, <3>2 DEF Claims, Unclaimed, Held
  <2>2. CASE r # m /\ s # m
    BY <1>2, <2>2 DEF OneAuthority, Held
  <2> QED
    BY <2>1, <2>2
<1>3. ASSUME NEW m \in RunId, Finishes(m), \A x \in RunId \ {m} : runs'[x] = runs[x]
      PROVE  FALSE
  <2>1. \A x \in RunId : Held(x)' => Held(x) /\ LaneOf(runs[x]) = LaneOf(runs'[x])
    BY <1>3 DEF Finishes, Held, Running
  <2> QED
    BY <2>1 DEF OneAuthority
<1> QED
  BY <1>1, <1>2, <1>3 DEF OneRowMoves

LEMMA AuthorityInit == Init => OneAuthority
BY DEF Init, StoreInit, OneAuthority, Held

(* At most one attempt of a lane is ever running or succeeded: the claim   *)
(* transactions of the three model stages exclude each other, and no       *)
(* result is ever computed twice, under every crash and lost write.        *)
THEOREM AuthorityIsUnique == Spec => []OneAuthority
<1>1. OneAuthority /\ Inv /\ [Next]_vars => OneAuthority'
  BY RunsMove, AuthorityStep
<1> QED
  BY <1>1, AuthorityInit, InitInv, NextInv, PTL DEF Spec

(* Two processes never wait for the same provider call: a claim is held    *)
(* by one process, and no other claim exists in its lane.                  *)
THEOREM CallsAreUnique == Spec => []NoDuplicateProviderCall
<1>1. Inv /\ OneAuthority => NoDuplicateProviderCall
  <2> SUFFICES ASSUME Inv, OneAuthority, NEW p \in Proc, NEW q \in Proc,
                      p # q, pc[p] \in CallPc, pc[q] \in CallPc,
                      LaneOf(runs[turn[p].run]) = LaneOf(runs[turn[q].run])
               PROVE  FALSE
    BY DEF NoDuplicateProviderCall
  <2>1. turn[p].run \in RunId /\ Held(turn[p].run) /\ turn[q].run \in RunId /\ Held(turn[q].run)
    BY OwnRun DEF OwningPc, Running, Held
  <2>2. turn[p].run = turn[q].run
    BY <2>1 DEF OneAuthority
  <2> QED
    BY <2>2 DEF Inv, LocalsMatchStore, OwningPc
<1> QED
  BY <1>1, AuthorityIsUnique, InitInv, NextInv, PTL DEF Spec

-------------------------------------------------------------------------------
(* A step leaves a thread as it is or adds one message behind it.          *)
ThreadGrows ==
  \/ thread' = thread
  \/ \E c \in Conversation, m \in Message : thread' = [thread EXCEPT ![c] = Append(@, m)]

(* A step writes an execution only where there was none or a running one,  *)
(* and a verdict only where there was none.                                *)
TablesGrow ==
  \A r \in RunId :
    /\ executions'[r] = executions[r] \/ executions[r] = None \/ Executing(r)
    /\ conformance'[r] = conformance[r] \/ conformance[r] = None

LEMMA AnswerGrows ==
  ASSUME Inv, NEW p \in Proc, SynthesisCompletes(p)
  PROVE  ThreadGrows
<1> DEFINE r == turn[p].run
           message == [role |-> "synthesis", run |-> r]
<1>1. r \in RunId /\ runs[r] \in Run
  BY OwnRun DEF SynthesisCompletes, OwningPc, CallPc
<1>2. runs[r].conv \in Conversation /\ message \in Message
  BY <1>1 DEF Run, Message, Role
<1>3. thread' = [thread EXCEPT ![runs[r].conv] = Append(@, message)]
  BY DEF SynthesisCompletes
<1> QED
  BY <1>2, <1>3 DEF ThreadGrows

LEMMA ThreadMoves == Inv /\ [Next]_vars => ThreadGrows
<1> SUFFICES ASSUME Inv, [Next]_vars PROVE ThreadGrows
  OBVIOUS
<1>1. ASSUME NEW p \in Proc, Step(p) PROVE ThreadGrows
  <2>1. CASE RouterStep(p) \/ InferStep(p)
    BY <2>1 DEF RouterStep, RouterReplay, RouterClaim, RouterRefused, RouterCompletes, RouterFails,
                InferStep, InferReplay, InferMisses, InferReadsCatalog, InferClaim, InferRefused,
                InferCompletes, InferFails, Raise, storeVars, ThreadGrows
  <2>2. CASE ConformStep(p)
    BY <2>2 DEF ConformStep, ConformAdmits, ConformRefused, ConformReplays, ConformMisses,
                ConformInserts, ConformConflicts, Raise, storeVars, ThreadGrows
  <2>3. CASE ExecutionStep(p)
    BY <2>3 DEF ExecutionStep, ExecutionAdmits, ExecutionRefused, ExecutionReplays,
                ExecutionMisses, ExecutionBlocked, ExecutionClaims, ExecutionConflicts,
                ExecutionSucceeds, ExecutionSurfaceFails, ExecutionPackageChanged,
                ExecutionFailsTwice, Decides, ExecutionCommits, ExecutionUnreadable,
                Finish, Raise, storeVars, ThreadGrows
  <2>4. CASE SynthesisStep(p)
    BY <2>4, AnswerGrows
       DEF SynthesisStep, AnswerReplay, AnswerMisses, SynthesisClaim, SynthesisRefused,
           SynthesisFails, Raise, storeVars, ThreadGrows
  <2>5. CASE \/ PackageLoads(p) \/ PackageVerified(p) \/ PackageRejected(p)
             \/ EvidencePrepared(p) \/ EvidenceRefused(p) \/ StageRaises(p) \/ ReturnAnswer(p)
             \/ MarkFailed(p)
    BY <2>5 DEF PackageLoads, PackageVerified, PackageRejected, EvidencePrepared, EvidenceRefused,
                StageRaises, ReturnAnswer, MarkFailed, Raise, storeVars, ThreadGrows
  <2> QED
    BY <1>1, <2>1, <2>2, <2>3, <2>4, <2>5 DEF Step
<1>2. ASSUME NEW p \in Proc, (\E c \in Conversation : BeginTurn(p, c)) \/ Fault(p) PROVE ThreadGrows
  BY <1>2 DEF BeginTurn, Fault, MarkLost, ExecutionAbandons, Crash, Raise, storeVars, ThreadGrows
<1>3. CASE Operator
  BY <1>3 DEF Operator, AppendMessage, Message, storeVars, ThreadGrows
<1>4. CASE UNCHANGED vars
  BY <1>4 DEF vars, storeVars, ThreadGrows
<1> QED
  BY <1>1, <1>2, <1>3, <1>4 DEF Next

LEMMA TablesMove == Inv /\ [Next]_vars => TablesGrow
<1> SUFFICES ASSUME Inv, [Next]_vars PROVE TablesGrow
  OBVIOUS
<1>1. ASSUME NEW p \in Proc, Step(p) PROVE TablesGrow
  <2>1. CASE RouterStep(p) \/ InferStep(p)
    BY <2>1 DEF RouterStep, RouterReplay, RouterClaim, RouterRefused, RouterCompletes, RouterFails,
                InferStep, InferReplay, InferMisses, InferReadsCatalog, InferClaim, InferRefused,
                InferCompletes, InferFails, Raise, storeVars, TablesGrow
  <2>2. CASE ConformStep(p)
    BY <2>2 DEF ConformStep, ConformAdmits, ConformRefused, ConformReplays, ConformMisses,
                ConformInserts, ConformConflicts, Raise, storeVars, TablesGrow,
                Inv, TypeOK, StoreTypeOK
  <2>3. CASE ExecutionClaims(p)
    BY <2>3 DEF ExecutionClaims, TablesGrow, Inv, TypeOK, StoreTypeOK
  <2>4. CASE ExecutionCommits(p) \/ ExecutionUnreadable(p)
    <3>1. Finish(p)
      BY <2>4 DEF ExecutionCommits, ExecutionUnreadable
    <3>2. Executing(turn[p].retrieval)
      BY <3>1 DEF Finish, Inv, LocalsMatchStore, LocalsOf
    <3> QED
      BY <3>1, <3>2 DEF Finish, TablesGrow, Inv, TypeOK, StoreTypeOK
  <2>5. CASE \/ ExecutionAdmits(p) \/ ExecutionRefused(p) \/ ExecutionReplays(p)
             \/ ExecutionMisses(p) \/ ExecutionBlocked(p) \/ ExecutionConflicts(p)
             \/ ExecutionSucceeds(p) \/ ExecutionSurfaceFails(p) \/ ExecutionPackageChanged(p)
             \/ ExecutionFailsTwice(p)
    BY <2>5 DEF ExecutionAdmits, ExecutionRefused, ExecutionReplays, ExecutionMisses,
                ExecutionBlocked, ExecutionConflicts, ExecutionSucceeds, ExecutionSurfaceFails,
                ExecutionPackageChanged, ExecutionFailsTwice, Decides, Raise, storeVars, TablesGrow
  <2>6. CASE SynthesisStep(p)
    BY <2>6 DEF SynthesisStep, AnswerReplay, AnswerMisses, SynthesisClaim, SynthesisRefused,
                SynthesisCompletes, SynthesisFails, Raise, storeVars, TablesGrow
  <2>7. CASE \/ PackageLoads(p) \/ PackageVerified(p) \/ PackageRejected(p)
             \/ EvidencePrepared(p) \/ EvidenceRefused(p) \/ StageRaises(p) \/ ReturnAnswer(p)
             \/ MarkFailed(p)
    BY <2>7 DEF PackageLoads, PackageVerified, PackageRejected, EvidencePrepared, EvidenceRefused,
                StageRaises, ReturnAnswer, MarkFailed, Raise, storeVars, TablesGrow
  <2> QED
    BY <1>1, <2>1, <2>2, <2>3, <2>4, <2>5, <2>6, <2>7 DEF Step, ExecutionStep
<1>2. ASSUME NEW p \in Proc, (\E c \in Conversation : BeginTurn(p, c)) \/ Fault(p) PROVE TablesGrow
  BY <1>2 DEF BeginTurn, Fault, MarkLost, ExecutionAbandons, Crash, Raise, storeVars, TablesGrow
<1>3. CASE Operator
  BY <1>3 DEF Operator, AppendMessage, storeVars, TablesGrow
<1>4. CASE UNCHANGED vars
  BY <1>4 DEF vars, storeVars, TablesGrow
<1> QED
  BY <1>1, <1>2, <1>3, <1>4 DEF Next

LEMMA GrownPrefix ==
  ASSUME Inv, ThreadGrows, NEW c \in Conversation
  PROVE  PrefixOf(thread[c], thread'[c])
<1>1. thread[c] \in Seq(Message)
  BY DEF Inv, TypeOK, StoreTypeOK
<1>2. thread[c] = SubSeq(thread[c], 1, Len(thread[c]))
  BY <1>1
<1>3. CASE thread' = thread
  BY <1>1, <1>2, <1>3 DEF PrefixOf
<1>4. ASSUME NEW d \in Conversation, NEW m \in Message,
             thread' = [thread EXCEPT ![d] = Append(@, m)]
      PROVE  PrefixOf(thread[c], thread'[c])
  <2>1. CASE c # d
    BY <1>1, <1>2, <1>4, <2>1 DEF PrefixOf, Inv, TypeOK, StoreTypeOK
  <2>2. CASE c = d
    <3>1. thread'[c] = Append(thread[c], m)
      BY <1>4, <2>2 DEF Inv, TypeOK, StoreTypeOK
    <3>2. thread[c] = SubSeq(Append(thread[c], m), 1, Len(thread[c]))
      BY <1>1
    <3> QED
      BY <1>1, <3>1, <3>2 DEF PrefixOf
  <2> QED
    BY <2>1, <2>2
<1> QED
  BY <1>3, <1>4 DEF ThreadGrows

(* The facts of every step, collected.                                     *)
Frozen ==
  /\ \A c \in Conversation : PrefixOf(thread[c], thread'[c])
  /\ \A r \in RunId : /\ Settled(runs, r) => runs'[r] = runs[r]
                      /\ Settled(executions, r) => executions'[r] = executions[r]
                      /\ conformance[r] # None => conformance'[r] = conformance[r]

LEMMA StepFreezes == Inv /\ [Next]_vars => Frozen
<1> SUFFICES ASSUME Inv, [Next]_vars PROVE Frozen
  OBVIOUS
<1>1. \A c \in Conversation : PrefixOf(thread[c], thread'[c])
  BY ThreadMoves, GrownPrefix
<1>2. \A r \in RunId : Settled(runs, r) => runs'[r] = runs[r]
  BY RunsMove DEF OneRowMoves, Claims, Finishes, Running, Settled
<1>3. \A r \in RunId : /\ Settled(executions, r) => executions'[r] = executions[r]
                       /\ conformance[r] # None => conformance'[r] = conformance[r]
  BY TablesMove DEF TablesGrow, Settled, Executing
<1> QED
  BY <1>1, <1>2, <1>3 DEF Frozen

(* No step of a turn, a fault or the operator rewrites what is durable:    *)
(* messages, finished runs, finished executions, verdicts.                 *)
THEOREM HistoryStaysFrozen == Spec => HistoryIsFrozen
<1>1. Inv /\ [Next]_vars =>
        [ /\ \A c \in Conversation : PrefixOf(thread[c], thread'[c])
          /\ \A r \in RunId : /\ Settled(runs, r) => runs'[r] = runs[r]
                              /\ Settled(executions, r) => executions'[r] = executions[r]
                              /\ conformance[r] # None => conformance'[r] = conformance[r] ]_vars
  BY StepFreezes DEF Frozen
<1> QED
  BY <1>1, InitInv, NextInv, PTL DEF Spec, HistoryIsFrozen

-------------------------------------------------------------------------------
(* A step of p concerns the locals of p alone.                             *)
LEMMA StepIsLocal ==
  ASSUME Inv, NEW p \in Proc, (\E c \in Conversation : BeginTurn(p, c)) \/ Step(p)
  PROVE  OnlyLocalsOf(p)
<1> USE DEF OnlyLocalsOf, Goto, Leave, Raise, Inv, TypeOK, ProcTypeOK
<1>1. CASE \E c \in Conversation : BeginTurn(p, c)
  BY <1>1 DEF BeginTurn
<1>2. CASE RouterStep(p)
  BY <1>2 DEF RouterStep, RouterReplay, RouterClaim, RouterRefused, RouterCompletes, RouterFails
<1>3. CASE InferStep(p)
  BY <1>3 DEF InferStep, InferReplay, InferMisses, InferReadsCatalog, InferClaim, InferRefused,
              InferCompletes, InferFails
<1>4. CASE ConformStep(p)
  BY <1>4 DEF ConformStep, ConformAdmits, ConformRefused, ConformReplays, ConformMisses,
              ConformInserts, ConformConflicts, AfterVerdict
<1>5. CASE ExecutionStep(p)
  BY <1>5 DEF ExecutionStep, ExecutionAdmits, ExecutionRefused, ExecutionReplays, ExecutionMisses,
              ExecutionBlocked, ExecutionClaims, ExecutionConflicts, ExecutionSucceeds,
              ExecutionSurfaceFails, ExecutionPackageChanged, ExecutionFailsTwice, Decides,
              ExecutionCommits, ExecutionUnreadable
<1>6. CASE SynthesisStep(p)
  BY <1>6 DEF SynthesisStep, AnswerReplay, AnswerMisses, SynthesisClaim, SynthesisRefused,
              SynthesisCompletes, SynthesisFails
<1>7. CASE \/ PackageLoads(p) \/ PackageVerified(p) \/ PackageRejected(p)
           \/ EvidencePrepared(p) \/ EvidenceRefused(p) \/ StageRaises(p) \/ ReturnAnswer(p)
           \/ MarkFailed(p)
  BY <1>7 DEF PackageLoads, PackageVerified, PackageRejected, EvidencePrepared, EvidenceRefused,
              StageRaises, ReturnAnswer, MarkFailed
<1> QED
  BY <1>1, <1>2, <1>3, <1>4, <1>5, <1>6, <1>7 DEF Step

(* What runs after a step of p ran before without p, or is p's now.        *)
Owns(p, r) == pc[p] \in OwningPc /\ turn[p].run = r
Executes(p, r) == pc[p] = "exec_run" /\ turn[p].retrieval = r

KeepsClaims(p) ==
  \A r \in RunId :
    /\ runs'[r] # None /\ runs'[r].status = "running" =>
         \/ Running(r) /\ ~Owns(p, r)
         \/ pc'[p] \in OwningPc /\ turn'[p].run = r
    /\ executions'[r] # None /\ executions'[r].status = "running" =>
         \/ Executing(r) /\ ~Executes(p, r)
         \/ pc'[p] = "exec_run" /\ turn'[p].retrieval = r

LEMMA KeptClaimsHaveOwners ==
  ASSUME NEW p \in Proc, OnlyLocalsOf(p), KeepsClaims(p), NEW r \in RunId, Orphaned(r)'
  PROVE  Orphaned(r)
<1>1. ASSUME runs'[r] # None, runs'[r].status = "running",
             \A q \in Proc : ~(pc'[q] \in OwningPc /\ turn'[q].run = r)
      PROVE  Orphaned(r)
  BY <1>1 DEF KeepsClaims, Owns, OnlyLocalsOf, Orphaned
<1>2. ASSUME executions'[r] # None, executions'[r].status = "running",
             \A q \in Proc : ~(pc'[q] = "exec_run" /\ turn'[q].retrieval = r)
      PROVE  Orphaned(r)
  BY <1>2 DEF KeepsClaims, Executes, OnlyLocalsOf, Orphaned
<1> QED
  BY <1>1, <1>2 DEF Orphaned, Running, Executing

(* A step from where p holds nothing, which claims nothing.                *)
LEMMA FreeStepKeeps ==
  ASSUME NEW p \in Proc, pc[p] \notin OwningPc, pc[p] # "exec_run", UNCHANGED <<runs, executions>>
  PROVE  KeepsClaims(p)
BY DEF KeepsClaims, Owns, Executes, Running, Executing

(* A claim is p's own at once.                                             *)
LEMMA ClaimKeeps ==
  ASSUME Inv, NEW p \in Proc, pc[p] \notin OwningPc, pc[p] # "exec_run",
         NEW row, InsertRun(row), executions' = executions,
         turn' = [turn EXCEPT ![p].run = FreshId], NEW label \in CallPc, Goto(p, label)
  PROVE  KeepsClaims(p)
<1>1. FreshId \in RunId /\ \A r \in RunId \ {FreshId} : runs'[r] = runs[r]
  BY FreshIdFree DEF InsertRun, Inv, TypeOK, StoreTypeOK, RunsTypeOK
<1>2. pc'[p] \in OwningPc /\ turn'[p].run = FreshId
  BY DEF Goto, OwningPc, Inv, TypeOK, ProcTypeOK, Turn
<1> QED
  BY <1>1, <1>2 DEF KeepsClaims, Owns, Executes, Running, Executing

(* A completed or failed claim is no longer running.                       *)
LEMMA EndKeeps ==
  ASSUME Inv, NEW p \in Proc, pc[p] \in OwningPc, executions' = executions,
         runs'[turn[p].run].status # "running",
         \A r \in RunId \ {turn[p].run} : runs'[r] = runs[r]
  PROVE  KeepsClaims(p)
BY DEF KeepsClaims, Owns, Executes, Running, Executing, OwningPc, CallPc

LEMMA CompletionKeeps ==
  ASSUME Inv, NEW p \in Proc, pc[p] \in CallPc, executions' = executions,
         NEW output, NEW produced, CompleteRun(turn[p].run, output, produced)
  PROVE  KeepsClaims(p)
<1>1. turn[p].run \in RunId /\ runs[turn[p].run] \in Run
  BY OwnRun DEF OwningPc
<1>2. /\ runs'[turn[p].run].status = "succeeded"
      /\ \A r \in RunId \ {turn[p].run} : runs'[r] = runs[r]
  BY <1>1 DEF CompleteRun, Run, Inv, TypeOK, StoreTypeOK, RunsTypeOK
<1> QED
  BY <1>2, EndKeeps DEF OwningPc

(* A provider error leads to the handler, which still owns the claim.      *)
LEMMA FailingKeeps ==
  ASSUME Inv, NEW p \in Proc, pc[p] \in CallPc, Goto(p, "failing"), UNCHANGED <<runs, executions, turn>>
  PROVE  KeepsClaims(p)
<1>1. pc'[p] = "failing" /\ pc[p] # "exec_run"
  BY DEF Goto, CallPc, Inv, TypeOK, ProcTypeOK
<1> QED
  BY <1>1 DEF KeepsClaims, Owns, Executes, Running, Executing, OwningPc

LEMMA StepKeepsClaims ==
  ASSUME Inv, NEW p \in Proc, Step(p)
  PROVE  KeepsClaims(p)
<1>1. CASE RouterStep(p)
  <2>1. CASE RouterReplay(p) \/ RouterRefused(p)
    BY <2>1, FreeStepKeeps DEF RouterReplay, RouterRefused, Raise, storeVars, OwningPc, CallPc
  <2>2. CASE RouterClaim(p)
    <3>1. \E row : InsertRun(row)
      BY <2>2 DEF RouterClaim
    <3> QED
      BY <2>2, <3>1, ClaimKeeps DEF RouterClaim, OwningPc, CallPc
  <2>3. CASE RouterCompletes(p)
    BY <2>3, CompletionKeeps DEF RouterCompletes, CallPc
  <2>4. CASE RouterFails(p)
    BY <2>4, FailingKeeps DEF RouterFails, CallPc, storeVars
  <2> QED
    BY <1>1, <2>1, <2>2, <2>3, <2>4 DEF RouterStep
<1>2. CASE InferStep(p)
  <2>1. CASE InferReplay(p) \/ InferMisses(p) \/ InferReadsCatalog(p) \/ InferRefused(p)
    BY <2>1, FreeStepKeeps
       DEF InferReplay, InferMisses, InferReadsCatalog, InferRefused, Raise, storeVars, OwningPc, CallPc
  <2>2. CASE InferClaim(p)
    <3>1. \E row : InsertRun(row)
      BY <2>2 DEF InferClaim
    <3> QED
      BY <2>2, <3>1, ClaimKeeps DEF InferClaim, OwningPc, CallPc
  <2>3. CASE InferCompletes(p)
    BY <2>3, CompletionKeeps DEF InferCompletes, CallPc
  <2>4. CASE InferFails(p)
    BY <2>4, FailingKeeps DEF InferFails, CallPc, storeVars
  <2> QED
    BY <1>2, <2>1, <2>2, <2>3, <2>4 DEF InferStep
<1>3. CASE ConformStep(p)
  BY <1>3, FreeStepKeeps
     DEF ConformStep, ConformAdmits, ConformRefused, ConformReplays, ConformMisses,
         ConformInserts, ConformConflicts, Raise, storeVars, OwningPc, CallPc
<1>4. CASE ExecutionStep(p)
  <2>1. CASE \/ ExecutionAdmits(p) \/ ExecutionRefused(p) \/ ExecutionReplays(p)
             \/ ExecutionMisses(p) \/ ExecutionBlocked(p) \/ ExecutionConflicts(p)
    BY <2>1, FreeStepKeeps
       DEF ExecutionAdmits, ExecutionRefused, ExecutionReplays, ExecutionMisses, ExecutionBlocked,
           ExecutionConflicts, Raise, storeVars, OwningPc, CallPc
  <2>2. CASE ExecutionClaims(p)
    <3>1. /\ pc[p] = "exec_claim" /\ pc'[p] = "exec_run" /\ turn' = turn /\ runs' = runs
          /\ \A r \in RunId \ {turn[p].retrieval} : executions'[r] = executions[r]
      BY <2>2 DEF ExecutionClaims, Goto, Inv, TypeOK, StoreTypeOK, ProcTypeOK
    <3> QED
      BY <3>1 DEF KeepsClaims, Owns, Executes, Running, Executing, OwningPc, CallPc
  <2>3. CASE \/ ExecutionSucceeds(p) \/ ExecutionSurfaceFails(p)
             \/ ExecutionPackageChanged(p) \/ ExecutionFailsTwice(p)
    <3>1. PICK status, failure : Decides(p, status, failure)
      BY <2>3, Zenon DEF ExecutionSucceeds, ExecutionSurfaceFails, ExecutionPackageChanged, ExecutionFailsTwice
    <3>2. /\ pc[p] = "exec_run" /\ pc' = pc /\ runs' = runs /\ executions' = executions
          /\ turn'[p].retrieval = turn[p].retrieval
      BY <3>1 DEF Decides, storeVars, Inv, TypeOK, ProcTypeOK, Turn
    <3> QED
      BY <3>2 DEF KeepsClaims, Owns, Executes, Running, Executing, OwningPc, CallPc
  <2>4. CASE ExecutionCommits(p) \/ ExecutionUnreadable(p)
    <3>1. Finish(p) /\ pc[p] = "exec_run" /\ turn[p].outcome \in Outcome
      BY <2>4 DEF ExecutionCommits, ExecutionUnreadable, Finish, Inv, TypeOK, ProcTypeOK, Turn
    <3>2. turn[p].retrieval \in RunId /\ executions[turn[p].retrieval] \in Execution
      BY <3>1 DEF Inv, LocalsMatchStore, LocalsOf, ProposedPc, Executing, TypeOK, StoreTypeOK
    <3>3. /\ executions'[turn[p].retrieval].status # "running" /\ runs' = runs
          /\ \A r \in RunId \ {turn[p].retrieval} : executions'[r] = executions[r]
      BY <3>1, <3>2 DEF Finish, Outcome, Execution, Inv, TypeOK, StoreTypeOK
    <3> QED
      BY <3>1, <3>3 DEF KeepsClaims, Owns, Executes, Running, Executing, OwningPc, CallPc
  <2> QED
    BY <1>4, <2>1, <2>2, <2>3, <2>4 DEF ExecutionStep
<1>5. CASE SynthesisStep(p)
  <2>1. CASE AnswerReplay(p) \/ AnswerMisses(p) \/ SynthesisRefused(p)
    BY <2>1, FreeStepKeeps DEF AnswerReplay, AnswerMisses, SynthesisRefused, Raise, storeVars, OwningPc, CallPc
  <2>2. CASE SynthesisClaim(p)
    <3>1. \E row : InsertRun(row)
      BY <2>2 DEF SynthesisClaim
    <3> QED
      BY <2>2, <3>1, ClaimKeeps DEF SynthesisClaim, OwningPc, CallPc
  <2>3. CASE SynthesisCompletes(p)
    BY <2>3, CompletionKeeps DEF SynthesisCompletes, CallPc
  <2>4. CASE SynthesisFails(p)
    BY <2>4, FailingKeeps DEF SynthesisFails, CallPc, storeVars
  <2> QED
    BY <1>5, <2>1, <2>2, <2>3, <2>4 DEF SynthesisStep
<1>6. CASE \/ PackageLoads(p) \/ PackageVerified(p) \/ PackageRejected(p)
           \/ EvidencePrepared(p) \/ EvidenceRefused(p) \/ StageRaises(p) \/ ReturnAnswer(p)
  BY <1>6, FreeStepKeeps
     DEF PackageLoads, PackageVerified, PackageRejected, EvidencePrepared, EvidenceRefused,
         StageRaises, ReturnAnswer, Raise, storeVars, FreePc, OwningPc, CallPc
<1>7. CASE MarkFailed(p)
  <2>1. turn[p].run \in RunId /\ runs[turn[p].run] \in Run /\ pc[p] \in OwningPc
    BY <1>7, OwnRun DEF MarkFailed, OwningPc
  <2>2. /\ runs'[turn[p].run].status = "failed"
        /\ \A r \in RunId \ {turn[p].run} : runs'[r] = runs[r]
    BY <1>7, <2>1 DEF MarkFailed, FailRun, Run, Inv, TypeOK, StoreTypeOK, RunsTypeOK
  <2> QED
    BY <1>7, <2>1, <2>2, EndKeeps DEF MarkFailed
<1> QED
  BY <1>1, <1>2, <1>3, <1>4, <1>5, <1>6, <1>7 DEF Step

(* Every handler of the stages gives back what it claimed: a row is left   *)
(* running for ever only by a kill, a lost failure mark or an exception    *)
(* that escapes the execution, for any number of turns.                    *)
THEOREM OnlyFaultsEverOrphan == Spec => OnlyFaultsOrphan
<1>1. ASSUME Inv, Next, ~(\E p \in Proc : Fault(p)), NEW r \in RunId, Orphaned(r)'
      PROVE  Orphaned(r)
  <2>1. ASSUME NEW p \in Proc, (\E c \in Conversation : BeginTurn(p, c)) \/ Step(p)
        PROVE  Orphaned(r)
    <3>1. KeepsClaims(p)
      BY <1>1, <2>1, FreeStepKeeps, StepKeepsClaims DEF BeginTurn, storeVars, OwningPc, CallPc
    <3> QED
      BY <1>1, <2>1, <3>1, StepIsLocal, KeptClaimsHaveOwners
  <2>2. CASE Operator
    BY <1>1, <2>2 DEF Operator, AppendMessage, storeVars, procVars, Orphaned, Running, Executing
  <2> QED
    BY <1>1, <2>1, <2>2 DEF Next
<1>2. Inv /\ [Next]_vars =>
        [(\E p \in Proc : Fault(p)) \/ \A r \in RunId : Orphaned(r)' => Orphaned(r)]_vars
  BY <1>1
<1> QED
  BY <1>2, InitInv, NextInv, PTL DEF Spec, OnlyFaultsOrphan
===============================================================================
