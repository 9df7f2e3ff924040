----------------------------- MODULE AnswerProofs -----------------------------
(***************************************************************************)
(* Theorems about answers and the evidence behind them: what they match in *)
(* the store, what they were made from, and why they can be replayed for   *)
(* ever.  They rest on unique authority and on the history no step         *)
(* rewrites.                                                               *)
(***************************************************************************)
EXTENDS TurnRuntimeProofs, SequenceTheorems

LEMMA PrefixKeeps ==
  ASSUME Inv, Inv', Frozen, NEW c \in Conversation
  PROVE  /\ thread[c] \in Seq(Message) /\ thread'[c] \in Seq(Message)
         /\ Len(thread[c]) \in Nat /\ Len(thread'[c]) \in Nat /\ Len(thread[c]) <= Len(thread'[c])
         /\ \A i \in 1 .. Len(thread[c]) : thread'[c][i] = thread[c][i]
         /\ \A i \in 0 .. Len(thread[c]) : SubSeq(thread'[c], 1, i) = SubSeq(thread[c], 1, i)
<1>1. thread[c] \in Seq(Message) /\ thread'[c] \in Seq(Message)
  BY DEF Inv, TypeOK, StoreTypeOK
<1>2. Len(thread[c]) <= Len(thread'[c]) /\ thread[c] = SubSeq(thread'[c], 1, Len(thread[c]))
  BY DEF Frozen, PrefixOf
<1>3. \A i \in 1 .. Len(thread[c]) : thread'[c][i] = thread[c][i]
  BY <1>1, <1>2
<1>4. ASSUME NEW i \in 0 .. Len(thread[c])
      PROVE  SubSeq(thread'[c], 1, i) = SubSeq(thread[c], 1, i)
  <2>1. i \in Nat /\ i <= Len(thread[c]) /\ i <= Len(thread'[c])
    BY <1>1, <1>2
  <2>2. \A k \in 1 .. i : thread'[c][k] = thread[c][k]
    BY <1>1, <1>3, <2>1
  <2> QED
    BY <1>1, <2>1, <2>2
<1> QED
  BY <1>1, <1>2, <1>3, <1>4

-------------------------------------------------------------------------------
(* What a synthesis attempt, running or ended, was given: the whole thread *)
(* up to the user message it answers.                                      *)
Asked(row) ==
  LET messages == thread[row.conv]
  IN  /\ row.trigger \in 1 .. Len(messages)
      /\ messages[row.trigger].role = "user"
      /\ row.input = SubSeq(messages, 1, row.trigger)

(* The router run it was claimed under, and the retrieval of a semantic    *)
(* turn: both ended before it began.                                       *)
Founded(row) ==
  \E router \in RunId :
    /\ Done(router, "router")
    /\ runs[router].conv = row.conv /\ runs[router].trigger = row.trigger
    /\ ParentValid(router, row.parent)
    /\ row.parent \in RunId /\ runs[row.parent] # None
    /\ router = IF runs[row.parent].kind = "router" THEN row.parent ELSE runs[row.parent].parent

Grounded ==
  \A r \in RunId : runs[r] # None /\ runs[r].kind = "synthesis" => Asked(runs[r]) /\ Founded(runs[r])

AnswerInv == Inv /\ OneAuthority /\ Grounded /\ AnswersMatchRuns

(* Nothing a grounded attempt rests on can change.                         *)
LEMMA ParentStaysValid ==
  ASSUME Inv, Inv', Frozen, NEW router \in RunId, NEW parent \in RunId,
         Done(router, "router"), ParentValid(router, parent), runs[parent] # None
  PROVE  /\ ParentValid(router, parent)' /\ runs'[parent] = runs[parent]
<1>1. runs'[router] = runs[router]
  BY DEF Done, Frozen, Settled
<1>2. CASE runs[router].output = "direct"
  BY <1>1, <1>2 DEF ParentValid, Done
<1>3. CASE runs[router].output # "direct"
  <2>1. RetrievalOf(router, parent)
    BY <1>3 DEF ParentValid
  <2>2. runs'[parent] = runs[parent]
    BY <2>1 DEF RetrievalOf, Frozen, Settled
  <2>3. conformance'[parent] = conformance[parent]
    BY <2>1 DEF RetrievalOf, Approved, Frozen
  <2>4. executions'[parent] = executions[parent]
    BY <2>1 DEF RetrievalOf, Terminal, Frozen, Settled
  <2> QED
    BY <1>1, <1>3, <2>1, <2>2, <2>3, <2>4 DEF ParentValid, RetrievalOf, Approved, Terminal
<1> QED
  BY <1>2, <1>3

LEMMA GroundStays ==
  ASSUME Inv, Inv', Frozen, NEW row \in Run, Asked(row), Founded(row)
  PROVE  Asked(row)' /\ Founded(row)'
<1>1. row.conv \in Conversation
  BY DEF Run
<1>2. Asked(row)'
  <2> DEFINE old == thread[row.conv]  new == thread'[row.conv]
  <2>1. row.trigger \in 1 .. Len(old) /\ old[row.trigger].role = "user" /\ row.input = SubSeq(old, 1, row.trigger)
    BY DEF Asked
  <2>2. /\ Len(old) \in Nat /\ Len(new) \in Nat /\ Len(old) <= Len(new)
        /\ \A i \in 1 .. Len(old) : new[i] = old[i]
        /\ \A i \in 0 .. Len(old) : SubSeq(new, 1, i) = SubSeq(old, 1, i)
    BY <1>1, PrefixKeeps
  <2> HIDE DEF old, new
  <2>3. row.trigger \in 1 .. Len(new) /\ new[row.trigger].role = "user" /\ row.input = SubSeq(new, 1, row.trigger)
    BY <2>1, <2>2
  <2> QED
    BY <2>3 DEF Asked, new
<1>3. Founded(row)'
  <2>1. PICK router \in RunId :
          /\ Done(router, "router")
          /\ runs[router].conv = row.conv /\ runs[router].trigger = row.trigger
          /\ ParentValid(router, row.parent)
          /\ row.parent \in RunId /\ runs[row.parent] # None
          /\ router = IF runs[row.parent].kind = "router" THEN row.parent ELSE runs[row.parent].parent
    BY DEF Founded
  <2>2. ParentValid(router, row.parent)' /\ runs'[row.parent] = runs[row.parent]
    BY <2>1, ParentStaysValid
  <2>3. runs'[router] = runs[router]
    BY <2>1 DEF Done, Frozen, Settled
  <2> QED
    BY <2>1, <2>2, <2>3 DEF Founded, Done
<1> QED
  BY <1>2, <1>3

(* A claim records the thread and what the turn carries.                   *)
LEMMA ClaimIsGrounded ==
  ASSUME Inv, NEW p \in Proc, SynthesisClaim(p)
  PROVE  /\ FreshId \in RunId /\ runs[FreshId] = None /\ runs'[FreshId] \in Run
         /\ Asked(runs'[FreshId]) /\ Founded(runs'[FreshId])
         /\ \A r \in RunId \ {FreshId} : runs'[r] = runs[r]
<1> DEFINE router == turn[p].router
           row == NewRun("synthesis", turn[p].conv, runs[router].trigger, SynthesisParent(p), None,
                         thread[turn[p].conv])
<1>1. /\ router \in RunId /\ Done(router, "router") /\ runs[router].conv = turn[p].conv
      /\ turn[p].conv \in Conversation /\ pc[p] = "synthesize"
  BY DEF SynthesisClaim, Inv, LocalsMatchStore, LocalsOf, RoutedPc, Pc, FreePc
<1>2. SynthesisClaimable(router, turn[p].conv, turn[p].retrieval)
  BY DEF SynthesisClaim
<1>3. thread[turn[p].conv] \in Seq(Message)
  BY <1>1 DEF Inv, TypeOK, StoreTypeOK
<1>4. runs[router] \in Run /\ runs[router].output \in Route
  BY <1>1, RowTyped DEF Done, Inv, TypeOK, RowShape, OutputOf
<1>5. SynthesisParent(p) \in RunId /\ runs[SynthesisParent(p)] # None /\ ParentValid(router, SynthesisParent(p))
      /\ router = IF runs[SynthesisParent(p)].kind = "router" THEN SynthesisParent(p)
                  ELSE runs[SynthesisParent(p)].parent
  <2>1. CASE runs[router].output = "direct"
    BY <1>1, <2>1 DEF SynthesisParent, ParentValid, Done
  <2>2. CASE runs[router].output # "direct"
    <3>1. RetrievalOf(router, turn[p].retrieval) /\ SynthesisParent(p) = turn[p].retrieval
      BY <1>2, <1>4, <2>2 DEF SynthesisClaimable, SynthesisParent, Route
    <3>2. turn[p].retrieval \in RunId
      BY <3>1 DEF RetrievalOf, Inv, TypeOK, ProcTypeOK, Turn
    <3> QED
      BY <2>2, <3>1, <3>2 DEF ParentValid, RetrievalOf
  <2> QED
    BY <2>1, <2>2
<1>6. row \in Run /\ row.conv = turn[p].conv /\ row.trigger = runs[router].trigger
      /\ row.parent = SynthesisParent(p) /\ row.input = thread[turn[p].conv]
  BY <1>1, <1>3, <1>4, <1>5 DEF NewRun, Run, Kind, Status
<1>7. Asked(row)
  <2>1. runs[router].trigger \in 1 .. Len(thread[turn[p].conv])
        /\ thread[turn[p].conv][runs[router].trigger].role = "user"
        /\ runs[router].trigger = Len(thread[turn[p].conv])
    BY <1>2 DEF SynthesisClaimable, IsCurrent, UserPositions
  <2>2. thread[turn[p].conv] = SubSeq(thread[turn[p].conv], 1, Len(thread[turn[p].conv]))
    BY <1>3
  <2> HIDE DEF row
  <2> QED
    BY <1>6, <2>1, <2>2 DEF Asked
<1>8. Founded(row)
  <2> HIDE DEF row
  <2> QED
    BY <1>1, <1>5, <1>6 DEF Founded
<1>9. InsertRun(row)
  BY DEF SynthesisClaim
<1> HIDE DEF row
<1>10. FreshId \in RunId /\ runs[FreshId] = None
  BY <1>9, FreshIdFree DEF InsertRun
<1>11. runs'[FreshId] = row /\ \A r \in RunId \ {FreshId} : runs'[r] = runs[r]
  BY <1>9, <1>10 DEF InsertRun, Inv, TypeOK, StoreTypeOK, RunsTypeOK
<1> QED
  BY <1>6, <1>7, <1>8, <1>10, <1>11

-------------------------------------------------------------------------------
SameRequest(old, new) ==
  /\ new.kind = old.kind /\ new.conv = old.conv /\ new.trigger = old.trigger
  /\ new.parent = old.parent /\ new.input = old.input

(* What a step may do to a row: nothing, insert it, running and grounded,  *)
(* or end it with what was asked unchanged.  Only the completion of the    *)
(* synthesis stage makes an answer.                                        *)
RowStep(r) ==
  \/ runs'[r] = runs[r]
  \/ /\ runs[r] = None /\ runs'[r] # None /\ runs'[r].status = "running"
     /\ runs'[r].kind = "synthesis" => Asked(runs'[r]) /\ Founded(runs'[r])
  \/ /\ Running(r) /\ runs'[r] # None /\ SameRequest(runs[r], runs'[r])
     /\ \/ runs'[r].status = "failed"
        \/ runs'[r].kind # "synthesis"
        \/ \E p \in Proc : SynthesisCompletes(p) /\ turn[p].run = r

LEMMA InsertRowStep ==
  ASSUME Inv, NEW row \in Run, row.status = "running", row.kind # "synthesis", InsertRun(row)
  PROVE  \A r \in RunId : RowStep(r)
<1>1. FreshId \in RunId /\ runs[FreshId] = None
  BY FreshIdFree DEF InsertRun
<1>2. runs'[FreshId] = row /\ \A s \in RunId \ {FreshId} : runs'[s] = runs[s]
  BY <1>1 DEF InsertRun, Inv, TypeOK, StoreTypeOK, RunsTypeOK
<1> QED
  BY <1>1, <1>2, StoreAssumption DEF RowStep

LEMMA CompleteRowStep ==
  ASSUME Inv, NEW p \in Proc, pc[p] \in CallPc,
         NEW output \in Route \cup Verdict \cup {None}, NEW produced \in Nat \cup {None},
         CompleteRun(turn[p].run, output, produced),
         pc[p] = "synth_call" => SynthesisCompletes(p)
  PROVE  \A r \in RunId : RowStep(r)
<1> DEFINE r == turn[p].run
           row == [runs[r] EXCEPT !.status = "succeeded", !.output = output,
                                  !.produced = produced]
<1>1. r \in RunId /\ Running(r) /\ runs[r] \in Run /\ runs[r].kind = CallKind[pc[p]]
  BY OwnRun DEF OwningPc, Inv, LocalsMatchStore, LocalsOf
<1>2. row \in Run /\ SameRequest(runs[r], row) /\ row.status = "succeeded"
  BY <1>1 DEF Run, Status, SameRequest
<1>3. runs' = [runs EXCEPT ![r] = row]
  BY DEF CompleteRun
<1> HIDE DEF row
<1>4. /\ runs'[r] = row /\ row # None
      /\ \A s \in RunId \ {r} : runs'[s] = runs[s]
  BY <1>1, <1>2, <1>3, StoreAssumption DEF Inv, TypeOK, StoreTypeOK, RunsTypeOK
<1>5. pc[p] # "synth_call" => runs'[r].kind # "synthesis"
  BY <1>1, <1>2, <1>4 DEF SameRequest, CallPc, CallKind
<1>6. RowStep(r)
  BY <1>1, <1>2, <1>4, <1>5 DEF RowStep
<1> QED
  BY <1>4, <1>6 DEF RowStep

LEMMA StageRowSteps ==
  ASSUME Inv, NEW p \in Proc, Step(p)
  PROVE  \A r \in RunId : RowStep(r)
<1>1. CASE RouterClaim(p)
  <2>1. PICK t \in UserPositions(turn[p].conv) :
          InsertRun(NewRun("router", turn[p].conv, t, None, None, << >>))
    BY <1>1 DEF RouterClaim
  <2> DEFINE row == NewRun("router", turn[p].conv, t, None, None, << >>)
  <2>2. turn[p].conv \in Conversation /\ t \in Nat
    BY <1>1 DEF RouterClaim, Inv, LocalsMatchStore, LocalsOf, UserPositions
  <2>3. row \in Run /\ row.status = "running" /\ row.kind # "synthesis"
    BY <2>2 DEF NewRun, Run, Kind, Status
  <2> QED
    BY <2>1, <2>3, InsertRowStep
<1>2. CASE InferClaim(p)
  <2> DEFINE router == runs[turn[p].router]
             row == NewRun("inference", router.conv, router.trigger, turn[p].router,
                           turn[p].catalog, << >>)
  <2>1. turn[p].router \in RunId /\ turn[p].catalog \in Version /\ router # None
    BY <1>2 DEF InferClaim, Inv, LocalsMatchStore, LocalsOf, RoutedPc, Pc, FreePc, Done
  <2>2. router \in Run
    BY <2>1, RowTyped DEF Inv, TypeOK
  <2>3. row \in Run /\ row.status = "running" /\ row.kind # "synthesis"
    BY <2>1, <2>2 DEF NewRun, Run, Kind, Status
  <2>4. InsertRun(row)
    BY <1>2 DEF InferClaim
  <2> QED
    BY <2>3, <2>4, InsertRowStep
<1>3. CASE SynthesisClaim(p)
  <2>1. /\ FreshId \in RunId /\ runs[FreshId] = None /\ runs'[FreshId] \in Run
        /\ Asked(runs'[FreshId]) /\ Founded(runs'[FreshId])
        /\ \A r \in RunId \ {FreshId} : runs'[r] = runs[r]
    BY <1>3, ClaimIsGrounded
  <2>2. runs'[FreshId].status = "running"
    BY <1>3, <2>1 DEF SynthesisClaim, InsertRun, NewRun, Inv, TypeOK, StoreTypeOK, RunsTypeOK
  <2> QED
    BY <2>1, <2>2, StoreAssumption DEF RowStep
<1>4. CASE RouterCompletes(p)
  <2>1. PICK route \in ModelRoute : CompleteRun(turn[p].run, route, None)
    BY <1>4 DEF RouterCompletes
  <2> QED
    BY <1>4, <2>1, CompleteRowStep, RouteAssumption DEF RouterCompletes, CallPc
<1>5. CASE InferCompletes(p)
  <2>1. PICK verdict \in Verdict : CompleteRun(turn[p].run, verdict, None)
    BY <1>5 DEF InferCompletes
  <2> QED
    BY <1>5, <2>1, CompleteRowStep DEF InferCompletes, CallPc
<1>6. CASE SynthesisCompletes(p)
  <2> DEFINE position == Len(thread[runs[turn[p].run].conv]) + 1
  <2>1. pc[p] \in CallPc /\ CompleteRun(turn[p].run, None, position)
    BY <1>6 DEF SynthesisCompletes, CallPc
  <2>2. runs[turn[p].run].conv \in Conversation
    BY <2>1, OwnRun DEF Run, OwningPc
  <2>3. position \in Nat
    BY <2>2 DEF Inv, TypeOK, StoreTypeOK
  <2> QED
    BY <1>6, <2>1, <2>3, CompleteRowStep
<1>7. CASE MarkFailed(p)
  <2> DEFINE r == turn[p].run
  <2>1. r \in RunId /\ Running(r) /\ runs[r] \in Run
    BY <1>7, OwnRun DEF MarkFailed, OwningPc
  <2>2. runs'[r] = [runs[r] EXCEPT !.status = "failed"] /\ \A s \in RunId \ {r} : runs'[s] = runs[s]
    BY <1>7, <2>1 DEF MarkFailed, FailRun, Inv, TypeOK, StoreTypeOK, RunsTypeOK
  <2>3. SameRequest(runs[r], runs'[r]) /\ runs'[r].status = "failed" /\ runs'[r] # None
    BY <2>1, <2>2, StoreAssumption DEF Run, Status, SameRequest
  <2> QED
    BY <2>1, <2>2, <2>3 DEF RowStep
<1>8. runs' = runs => \A r \in RunId : RowStep(r)
  BY DEF RowStep
<1>9. CASE \/ RouterReplay(p) \/ RouterRefused(p) \/ RouterFails(p) \/ InferReplay(p) \/ InferMisses(p)
           \/ InferReadsCatalog(p) \/ InferRefused(p) \/ InferFails(p) \/ ConformStep(p)
  BY <1>8, <1>9 DEF RouterReplay, RouterRefused, RouterFails, InferReplay, InferMisses,
                    InferReadsCatalog, InferRefused, InferFails, ConformStep, ConformAdmits,
                    ConformRefused, ConformReplays, ConformMisses, ConformInserts,
                    ConformConflicts, Raise, storeVars
<1>10. CASE ExecutionStep(p)
  BY <1>8, <1>10 DEF ExecutionStep, ExecutionAdmits, ExecutionRefused, ExecutionReplays,
                     ExecutionMisses, ExecutionBlocked, ExecutionClaims, ExecutionConflicts,
                     ExecutionSucceeds, ExecutionSurfaceFails, ExecutionPackageChanged,
                     ExecutionFailsTwice, Decides, ExecutionCommits, ExecutionUnreadable,
                     Finish, Raise, storeVars
<1>11. CASE \/ PackageLoads(p) \/ PackageVerified(p) \/ PackageRejected(p) \/ EvidencePrepared(p)
            \/ EvidenceRefused(p) \/ StageRaises(p) \/ ReturnAnswer(p) \/ AnswerReplay(p)
            \/ AnswerMisses(p) \/ SynthesisRefused(p) \/ SynthesisFails(p)
  BY <1>8, <1>11 DEF PackageLoads, PackageVerified, PackageRejected, EvidencePrepared,
                     EvidenceRefused, StageRaises, ReturnAnswer, AnswerReplay, AnswerMisses,
                     SynthesisRefused, SynthesisFails, Raise, storeVars
<1> QED
  BY <1>1, <1>2, <1>3, <1>4, <1>5, <1>6, <1>7, <1>9, <1>10, <1>11
     DEF Step, RouterStep, InferStep, SynthesisStep

LEMMA RowSteps == Inv /\ [Next]_vars => \A r \in RunId : RowStep(r)
<1> SUFFICES ASSUME Inv, [Next]_vars PROVE \A r \in RunId : RowStep(r)
  OBVIOUS
<1>1. ASSUME NEW p \in Proc, (\E c \in Conversation : BeginTurn(p, c)) \/ Fault(p)
      PROVE  runs' = runs
  BY <1>1 DEF BeginTurn, Fault, MarkLost, ExecutionAbandons, Crash, Raise, storeVars
<1>2. Operator \/ UNCHANGED vars => runs' = runs
  BY DEF Operator, AppendMessage, vars, storeVars
<1>3. runs' = runs => \A r \in RunId : RowStep(r)
  BY DEF RowStep
<1> QED
  BY <1>1, <1>2, <1>3, StageRowSteps DEF Next

LEMMA GroundedStep == Inv /\ Inv' /\ Grounded /\ [Next]_vars => Grounded'
<1> SUFFICES ASSUME Inv, Inv', Grounded, [Next]_vars, NEW r \in RunId,
                    runs'[r] # None, runs'[r].kind = "synthesis"
             PROVE  (Asked(runs[r]) /\ Founded(runs[r]))'
  BY DEF Grounded
<1>1. Frozen /\ RowStep(r)
  BY StepFreezes, RowSteps
<1>2. PICK row \in Run : row = runs'[r]
  BY RowTyped DEF Inv, TypeOK, StoreTypeOK, RunsTypeOK
<1>3. Asked(row) /\ Founded(row)
  <2>1. CASE runs'[r] = runs[r]
    BY <1>2, <2>1 DEF Grounded
  <2>2. CASE Running(r) /\ SameRequest(runs[r], runs'[r])
    <3>1. Asked(runs[r]) /\ Founded(runs[r])
      BY <2>2 DEF Grounded, SameRequest, Running
    <3> QED
      BY <1>2, <2>2, <3>1 DEF Asked, Founded, SameRequest
  <2> QED
    BY <1>1, <1>2, <2>1, <2>2 DEF RowStep
<1>4. Asked(row)' /\ Founded(row)'
  BY <1>1, <1>2, <1>3, GroundStays
<1> QED
  BY <1>2, <1>4 DEF Asked, Founded

-------------------------------------------------------------------------------
(* Only two steps write to a thread: the completion of an answer, and      *)
(* append_message.                                                         *)
LEMMA WhoWrites ==
  ASSUME Inv, [Next]_vars, \A p \in Proc : ~SynthesisCompletes(p)
  PROVE  \/ thread' = thread
         \/ \E c \in Conversation, role \in Role : AppendMessage(c, role)
<1>1. ASSUME NEW p \in Proc, Step(p) PROVE thread' = thread
  <2>1. CASE RouterStep(p) \/ InferStep(p)
    BY <2>1 DEF RouterStep, RouterReplay, RouterClaim, RouterRefused, RouterCompletes, RouterFails,
                InferStep, InferReplay, InferMisses, InferReadsCatalog, InferClaim, InferRefused,
                InferCompletes, InferFails, Raise, storeVars
  <2>2. CASE ConformStep(p)
    BY <2>2 DEF ConformStep, ConformAdmits, ConformRefused, ConformReplays, ConformMisses,
                ConformInserts, ConformConflicts, Raise, storeVars
  <2>3. CASE ExecutionStep(p)
    BY <2>3 DEF ExecutionStep, ExecutionAdmits, ExecutionRefused, ExecutionReplays,
                ExecutionMisses, ExecutionBlocked, ExecutionClaims, ExecutionConflicts,
                ExecutionSucceeds, ExecutionSurfaceFails, ExecutionPackageChanged,
                ExecutionFailsTwice, Decides, ExecutionCommits, ExecutionUnreadable,
                Finish, Raise, storeVars
  <2>4. CASE SynthesisStep(p)
    BY <2>4 DEF SynthesisStep, AnswerReplay, AnswerMisses, SynthesisClaim, SynthesisRefused,
                SynthesisFails, Raise, storeVars
  <2>5. CASE \/ PackageLoads(p) \/ PackageVerified(p) \/ PackageRejected(p)
             \/ EvidencePrepared(p) \/ EvidenceRefused(p) \/ StageRaises(p) \/ ReturnAnswer(p)
             \/ MarkFailed(p)
    BY <2>5 DEF PackageLoads, PackageVerified, PackageRejected, EvidencePrepared, EvidenceRefused,
                StageRaises, ReturnAnswer, MarkFailed, Raise, storeVars
  <2> QED
    BY <1>1, <2>1, <2>2, <2>3, <2>4, <2>5 DEF Step
<1>2. ASSUME NEW p \in Proc, (\E c \in Conversation : BeginTurn(p, c)) \/ Fault(p)
      PROVE  thread' = thread
  BY <1>2 DEF BeginTurn, Fault, MarkLost, ExecutionAbandons, Crash, Raise, storeVars
<1>3. UNCHANGED vars => thread' = thread
  BY DEF vars, storeVars
<1>4. Operator => \/ thread' = thread
                  \/ \E c \in Conversation, role \in Role : AppendMessage(c, role)
  BY DEF Operator, storeVars
<1> QED
  BY <1>1, <1>2, <1>3, <1>4 DEF Next

(* Where no answer is completed, an answer found afterwards was there.     *)
LEMMA PlainAnswers ==
  ASSUME Inv, [Next]_vars, \A p \in Proc : ~SynthesisCompletes(p), NEW r \in RunId, Answers(r)'
  PROVE  runs'[r] = runs[r]
<1>1. runs'[r].kind = "synthesis" /\ runs'[r].status = "succeeded"
  BY DEF Answers
<1> QED
  BY <1>1, RowSteps DEF RowStep

(* The two halves of AnswersMatchRuns.                                     *)
RunHasMessage(r) ==
  LET messages == thread[runs[r].conv]
  IN  /\ runs[r].produced = runs[r].trigger + 1
      /\ runs[r].produced \in 1 .. Len(messages)
      /\ messages[runs[r].produced] = [role |-> "synthesis", run |-> r]
      /\ messages[runs[r].trigger].role = "user"

MessageHasRun(c, i) ==
  LET r == thread[c][i].run
  IN  r # None => Answers(r) /\ runs[r].conv = c /\ runs[r].produced = i

LEMMA HalvesMatch ==
  AnswersMatchRuns <=> /\ \A r \in RunId : Answers(r) => RunHasMessage(r)
                       /\ \A c \in Conversation : \A i \in 1 .. Len(thread[c]) : MessageHasRun(c, i)
BY DEF AnswersMatchRuns, RunHasMessage, MessageHasRun

(* What matched keeps matching.                                            *)
LEMMA OldAnswerKept ==
  ASSUME Inv, Inv', Frozen, Grounded, AnswersMatchRuns, NEW r \in RunId, Answers(r)
  PROVE  RunHasMessage(r)'
<1>1. runs'[r] = runs[r] /\ RunHasMessage(r) /\ Asked(runs[r])
  BY HalvesMatch DEF Answers, Frozen, Settled, Grounded
<1>2. runs[r] \in Run
  BY RowTyped DEF Answers, Inv, TypeOK
<1> DEFINE old == thread[runs[r].conv]  new == thread'[runs[r].conv]
<1>3. runs[r].conv \in Conversation
  BY <1>2 DEF Run
<1>4. /\ Len(old) \in Nat /\ Len(new) \in Nat /\ Len(old) <= Len(new)
      /\ \A i \in 1 .. Len(old) : new[i] = old[i]
  BY <1>3, PrefixKeeps
<1>5. /\ runs[r].produced = runs[r].trigger + 1 /\ runs[r].produced \in 1 .. Len(old)
      /\ old[runs[r].produced] = [role |-> "synthesis", run |-> r]
      /\ old[runs[r].trigger].role = "user" /\ runs[r].trigger \in 1 .. Len(old)
  BY <1>1 DEF RunHasMessage, Asked
<1> HIDE DEF old, new
<1>6. /\ runs[r].produced \in 1 .. Len(new)
      /\ new[runs[r].produced] = [role |-> "synthesis", run |-> r]
      /\ new[runs[r].trigger].role = "user"
  BY <1>4, <1>5
<1> QED
  BY <1>1, <1>5, <1>6 DEF RunHasMessage, new

LEMMA OldMessageKept ==
  ASSUME Inv, Inv', Frozen, AnswersMatchRuns, NEW c \in Conversation, NEW i \in 1 .. Len(thread[c])
  PROVE  MessageHasRun(c, i)'
<1>1. thread'[c][i] = thread[c][i] /\ thread[c][i] \in Message
  BY PrefixKeeps
<1>2. MessageHasRun(c, i)
  BY HalvesMatch
<1>3. SUFFICES ASSUME thread[c][i].run # None
               PROVE  LET r == thread[c][i].run
                      IN  runs'[r] # None /\ runs'[r].kind = "synthesis"
                          /\ runs'[r].status = "succeeded" /\ runs'[r].conv = c /\ runs'[r].produced = i
  BY <1>1 DEF MessageHasRun, Answers
<1>4. thread[c][i].run \in RunId
  BY <1>1, <1>3 DEF Message
<1>5. runs'[thread[c][i].run] = runs[thread[c][i].run]
  BY <1>2, <1>3, <1>4 DEF MessageHasRun, Answers, Frozen, Settled
<1> QED
  BY <1>2, <1>3, <1>5 DEF MessageHasRun, Answers

LEMMA PlainMatches ==
  ASSUME Inv, Inv', Grounded, AnswersMatchRuns, [Next]_vars, \A p \in Proc : ~SynthesisCompletes(p)
  PROVE  AnswersMatchRuns'
<1>1. Frozen
  BY StepFreezes
<1>2. ASSUME NEW r \in RunId, Answers(r)' PROVE RunHasMessage(r)'
  <2>1. runs'[r] = runs[r]
    BY <1>2, PlainAnswers
  <2>2. Answers(r)
    BY <1>2, <2>1 DEF Answers
  <2> QED
    BY <1>1, <2>2, OldAnswerKept
<1>3. ASSUME NEW c \in Conversation, NEW i \in 1 .. Len(thread'[c]) PROVE MessageHasRun(c, i)'
  <2>1. thread[c] \in Seq(Message) /\ Len(thread[c]) \in Nat /\ Len(thread'[c]) \in Nat
    BY <1>1, PrefixKeeps
  <2>2. CASE i \in 1 .. Len(thread[c])
    BY <1>1, <2>2, OldMessageKept
  <2>3. CASE i \notin 1 .. Len(thread[c])
    <3>1. thread' # thread
      BY <1>3, <2>3
    <3>2. PICK d \in Conversation, role \in Role :
            thread' = [thread EXCEPT ![d] = Append(@, [role |-> role, run |-> None])]
      BY <3>1, WhoWrites DEF AppendMessage
    <3>3. d = c /\ thread'[c] = Append(thread[c], [role |-> role, run |-> None])
      BY <1>3, <2>3, <3>2 DEF Inv, TypeOK, StoreTypeOK
    <3>4. i = Len(thread[c]) + 1 /\ thread'[c][i] = [role |-> role, run |-> None]
      BY <1>3, <2>1, <2>3, <3>3
    <3> QED
      BY <3>4 DEF MessageHasRun
  <2> QED
    BY <2>2, <2>3
<1> QED
  BY <1>2, <1>3, HalvesMatch DEF AnswersMatchRuns, RunHasMessage, MessageHasRun, Answers

(* The completion adds one answer and its message, right behind the        *)
(* trigger: the thread is the one the call was given.                      *)
LEMMA CompletionMatches ==
  ASSUME Inv, Inv', Grounded, AnswersMatchRuns, [Next]_vars, NEW p \in Proc, SynthesisCompletes(p)
  PROVE  AnswersMatchRuns'
<1> DEFINE own == turn[p].run
           home == runs[own].conv
           old == thread[home]
           message == [role |-> "synthesis", run |-> own]
<1>1. Frozen
  BY StepFreezes
<1>2. own \in RunId /\ Running(own) /\ runs[own] \in Run /\ runs[own].kind = "synthesis"
  BY OwnRun DEF SynthesisCompletes, OwningPc, CallPc, CallKind, Inv, LocalsMatchStore, LocalsOf
<1>3. home \in Conversation /\ runs[own].trigger \in Nat
  BY <1>2 DEF Run
<1>4. old \in Seq(Message) /\ Len(old) \in Nat
  BY <1>3 DEF Inv, TypeOK, StoreTypeOK
<1>5. runs[own].trigger = Len(old) /\ old[runs[own].trigger].role = "user" /\ runs[own].trigger \in 1 .. Len(old)
  <2>1. Asked(runs[own])
    BY <1>2 DEF Grounded, Running
  <2>2. old = SubSeq(old, 1, runs[own].trigger) /\ runs[own].trigger \in 1 .. Len(old)
        /\ old[runs[own].trigger].role = "user"
    BY <2>1 DEF Asked, SynthesisCompletes, AnswersCurrent
  <2>3. Len(SubSeq(old, 1, runs[own].trigger)) = runs[own].trigger
    BY <1>4, <2>2
  <2> QED
    BY <2>2, <2>3
<1>6. thread'[home] = Append(old, message) /\ \A c \in Conversation \ {home} : thread'[c] = thread[c]
  BY <1>3 DEF SynthesisCompletes, Inv, TypeOK, StoreTypeOK
<1>7. /\ runs'[own] = [runs[own] EXCEPT !.status = "succeeded", !.output = None,
                                        !.produced = Len(old) + 1]
      /\ \A s \in RunId \ {own} : runs'[s] = runs[s]
  BY <1>2 DEF SynthesisCompletes, CompleteRun, Inv, TypeOK, StoreTypeOK, RunsTypeOK
<1>8. /\ runs'[own].status = "succeeded" /\ runs'[own].kind = "synthesis" /\ runs'[own].conv = home
      /\ runs'[own].trigger = runs[own].trigger /\ runs'[own].produced = Len(old) + 1
  BY <1>2, <1>7 DEF Run
<1>9. runs'[own] # None
  <2>1. CASE runs'[own] = None
    BY <1>8, <2>1, <1>2, RowSteps DEF RowStep, Running
  <2> QED
    BY <2>1
<1> HIDE DEF old, message, home, own
<1>10. /\ Len(Append(old, message)) = Len(old) + 1
       /\ Append(old, message)[Len(old) + 1] = message
       /\ \A i \in 1 .. Len(old) : Append(old, message)[i] = old[i]
  BY <1>4
<1>11. ASSUME NEW r \in RunId, Answers(r)' PROVE RunHasMessage(r)'
  <2>1. CASE r = own
    <3>1. /\ runs'[own].produced = runs'[own].trigger + 1
          /\ runs'[own].produced \in 1 .. Len(thread'[home])
          /\ thread'[home][runs'[own].produced] = message
          /\ thread'[home][runs'[own].trigger].role = "user"
      BY <1>4, <1>5, <1>6, <1>8, <1>10
    <3> QED
      BY <1>8, <2>1, <3>1 DEF RunHasMessage, message
  <2>2. CASE r # own
    <3>1. Answers(r)
      BY <1>7, <1>11, <2>2 DEF Answers
    <3> QED
      BY <1>1, <3>1, OldAnswerKept
  <2> QED
    BY <2>1, <2>2
<1>12. ASSUME NEW c \in Conversation, NEW i \in 1 .. Len(thread'[c]) PROVE MessageHasRun(c, i)'
  <2>1. CASE i \in 1 .. Len(thread[c])
    BY <1>1, <2>1, OldMessageKept
  <2>2. CASE i \notin 1 .. Len(thread[c])
    <3>1. c = home
      BY <1>6, <1>12, <2>2
    <3>2. i = Len(old) + 1 /\ thread'[c][i] = message
      BY <1>4, <1>6, <1>10, <1>12, <2>2, <3>1 DEF old
    <3> QED
      BY <1>8, <1>9, <3>1, <3>2 DEF MessageHasRun, Answers, message
  <2> QED
    BY <2>1, <2>2
<1> QED
  BY <1>11, <1>12 DEF AnswersMatchRuns, RunHasMessage, MessageHasRun, Answers

LEMMA AnswerInit == Init => Grounded /\ AnswersMatchRuns
BY DEF Init, StoreInit, Grounded, AnswersMatchRuns, Answers

LEMMA AnswerStep == AnswerInv /\ [Next]_vars => AnswerInv'
<1> SUFFICES ASSUME AnswerInv, [Next]_vars PROVE AnswerInv'
  OBVIOUS
<1>1. Inv' /\ OneAuthority'
  BY NextInv, RunsMove, AuthorityStep DEF AnswerInv
<1>2. Grounded'
  BY <1>1, GroundedStep DEF AnswerInv
<1>3. AnswersMatchRuns'
  BY <1>1, PlainMatches, CompletionMatches DEF AnswerInv
<1> QED
  BY <1>1, <1>2, <1>3 DEF AnswerInv

(* No answer without its completed run, no completed run without its       *)
(* answer, and every answer right behind the message it answers, however   *)
(* turns interleave, fail and crash, and whatever is typed meanwhile.      *)
THEOREM AnswersAlwaysMatch == Spec => []AnswersMatchRuns
<1>1. Init => AnswerInv
  BY InitInv, AuthorityInit, AnswerInit DEF AnswerInv
<1>2. AnswerInv => AnswersMatchRuns
  BY DEF AnswerInv
<1> QED
  BY <1>1, <1>2, AnswerStep, PTL DEF Spec

-------------------------------------------------------------------------------
(* A lane's held attempt is the one a reader finds.                        *)
LEMMA HeldReplays ==
  ASSUME Inv, OneAuthority, NEW r \in RunId, runs[r] # None, runs[r].status = "succeeded"
  PROVE  Replays(LaneOf(runs[r]), r)
<1>1. r \in Attempts(LaneOf(runs[r]))
  BY DEF Attempts
<1>2. ASSUME NEW s \in Attempts(LaneOf(runs[r])) \ {r} PROVE runs[s].status = "failed"
  <2>1. s \in RunId /\ runs[s] # None /\ LaneOf(runs[s]) = LaneOf(runs[r]) /\ s # r
    BY <1>2 DEF Attempts
  <2>2. runs[s].status \in Status
    BY <2>1, RowTyped DEF Inv, TypeOK, Run
  <2> QED
    BY <2>1, <2>2 DEF OneAuthority, Held, Status
<1> QED
  BY <1>1, <1>2 DEF Replays

(* Two done router runs of one message are one.                            *)
LEMMA OneRouter ==
  ASSUME OneAuthority, NEW r \in RunId, NEW s \in RunId, Done(r, "router"), Done(s, "router"),
         runs[r].conv = runs[s].conv, runs[r].trigger = runs[s].trigger
  PROVE  r = s
<1>1. Held(r) /\ Held(s) /\ LaneOf(runs[r]) = LaneOf(runs[s])
  BY DEF Done, Held, LaneOf
<1> QED
  BY <1>1 DEF OneAuthority

(* The router run a grounded attempt names is the one it was made under.   *)
LEMMA FoundedRouter ==
  ASSUME NEW r \in RunId, Founded(runs[r])
  PROVE  /\ RouterOf(r) \in RunId /\ Done(RouterOf(r), "router")
         /\ runs[RouterOf(r)].conv = runs[r].conv /\ runs[RouterOf(r)].trigger = runs[r].trigger
         /\ ParentValid(RouterOf(r), runs[r].parent)
         /\ runs[r].parent \in RunId /\ runs[runs[r].parent] # None
BY DEF Founded, RouterOf

LEMMA AnswerReads ==
  ASSUME AnswerInv, NEW r \in RunId, Answers(r)
  PROVE  AnswerReplayable(RouterOf(r), runs[r].conv, r)
<1> DEFINE router == RouterOf(r)
<1>1. Asked(runs[r]) /\ Founded(runs[r]) /\ RunHasMessage(r) /\ Inv /\ OneAuthority
  BY HalvesMatch DEF AnswerInv, Grounded, Answers
<1>2. /\ router \in RunId /\ Done(router, "router")
      /\ runs[router].conv = runs[r].conv /\ runs[router].trigger = runs[r].trigger
      /\ ParentValid(router, runs[r].parent)
  BY <1>1, FoundedRouter
<1> HIDE DEF router
<1>3. MaySynthesize(router, runs[r].conv)
  <2>1. Replays(LaneOf(runs[router]), router)
    BY <1>1, <1>2, HeldReplays DEF Done
  <2>2. runs[router].trigger \in UserPositions(runs[router].conv)
    BY <1>1, <1>2 DEF Asked, UserPositions
  <2> QED
    BY <1>2, <2>1, <2>2 DEF MaySynthesize, AuthoritativeRouter, Done
<1>4. Replays(SynthesisLane(router), r)
  <2>1. SynthesisLane(router) = LaneOf(runs[r])
    BY <1>2 DEF SynthesisLane, TriggerLane, LaneOf, Answers
  <2> QED
    BY <1>1, <2>1, HeldReplays DEF Answers
<1>5. AnswerReadable(router, r)
  BY <1>1, <1>2 DEF AnswerReadable, Asked, RunHasMessage
<1> QED
  BY <1>3, <1>4, <1>5 DEF AnswerReplayable, router

(* A durable answer is for ever: the strict reader keeps accepting it,     *)
(* because what it was asked, what it was founded on and the message it    *)
(* left can no longer change, and no second attempt enters its lane.       *)
THEOREM AnswersAreAlwaysReadable == Spec => []AnswersStayReadable
<1>1. Init => AnswerInv
  BY InitInv, AuthorityInit, AnswerInit DEF AnswerInv
<1>2. AnswerInv => AnswersStayReadable
  BY AnswerReads DEF AnswersStayReadable
<1> QED
  BY <1>1, <1>2, AnswerStep, PTL DEF Spec

-------------------------------------------------------------------------------
(* The claim or the answer a turn carries was made under its router run.   *)
Serves(p) ==
  /\ pc[p] = "synth_call" => RouterOf(turn[p].run) = turn[p].router
  /\ pc[p] = "returned" => /\ Answers(turn[p].answer)
                           /\ runs[turn[p].answer].conv = turn[p].conv
                           /\ RouterOf(turn[p].answer) = turn[p].router

ServeInv == AnswerInv /\ \A p \in Proc : Serves(p)

ServingPc == {"synth_call", "returned"}

LEMMA ServingSteps ==
  ASSUME Inv, [Next]_vars, NEW p \in Proc
  PROVE  \/ pc'[p] = pc[p] /\ turn'[p] = turn[p]
         \/ pc'[p] \notin ServingPc
         \/ SynthesisClaim(p) \/ AnswerReplay(p) \/ SynthesisCompletes(p)
<1> DEFINE Same(q) == pc'[q] = pc[q] /\ turn'[q] = turn[q]
<1>1. pc \in [Proc -> Pc] /\ turn \in [Proc -> Turn]
  BY DEF Inv, TypeOK, ProcTypeOK
<1>2. ASSUME NEW q \in Proc, RouterStep(q) PROVE Same(p) \/ pc'[p] \notin ServingPc
  BY <1>1, <1>2 DEF RouterStep, RouterReplay, RouterClaim, RouterRefused, RouterCompletes, RouterFails,
                    Raise, Leave, Goto, ServingPc
<1>3. ASSUME NEW q \in Proc, InferStep(q) PROVE Same(p) \/ pc'[p] \notin ServingPc
  BY <1>1, <1>3 DEF InferStep, InferReplay, InferMisses, InferReadsCatalog, InferClaim, InferRefused,
                    InferCompletes, InferFails, Raise, Leave, Goto, ServingPc
<1>4. ASSUME NEW q \in Proc, ConformStep(q) PROVE Same(p) \/ pc'[p] \notin ServingPc
  BY <1>1, <1>4 DEF ConformStep, ConformAdmits, ConformRefused, ConformReplays, ConformMisses,
                    ConformInserts, ConformConflicts, AfterVerdict, Raise, Leave, Goto, ServingPc
<1>5. ASSUME NEW q \in Proc, ExecutionStep(q) PROVE Same(p) \/ pc'[p] \notin ServingPc
  <2>1. CASE \/ ExecutionAdmits(q) \/ ExecutionRefused(q) \/ ExecutionReplays(q)
             \/ ExecutionMisses(q) \/ ExecutionBlocked(q) \/ ExecutionClaims(q)
             \/ ExecutionConflicts(q) \/ ExecutionCommits(q) \/ ExecutionUnreadable(q)
    BY <1>1, <2>1 DEF ExecutionAdmits, ExecutionRefused, ExecutionReplays, ExecutionMisses,
                      ExecutionBlocked, ExecutionClaims, ExecutionConflicts, ExecutionCommits,
                      ExecutionUnreadable, Finish, Raise, Leave, Goto, ServingPc
  <2>2. CASE \/ ExecutionSucceeds(q) \/ ExecutionSurfaceFails(q)
             \/ ExecutionPackageChanged(q) \/ ExecutionFailsTwice(q)
    BY <1>1, <2>2 DEF ExecutionSucceeds, ExecutionSurfaceFails, ExecutionPackageChanged,
                      ExecutionFailsTwice, Decides, ServingPc
  <2> QED
    BY <1>5, <2>1, <2>2 DEF ExecutionStep
<1>6. ASSUME NEW q \in Proc, SynthesisStep(q)
      PROVE  \/ Same(p) \/ pc'[p] \notin ServingPc
             \/ SynthesisClaim(p) \/ AnswerReplay(p) \/ SynthesisCompletes(p)
  <2>1. CASE AnswerMisses(q) \/ SynthesisRefused(q) \/ SynthesisFails(q)
    BY <1>1, <2>1 DEF AnswerMisses, SynthesisRefused, SynthesisFails, Raise, Leave, Goto, ServingPc
  <2>2. CASE (SynthesisClaim(q) \/ AnswerReplay(q) \/ SynthesisCompletes(q)) /\ q # p
    BY <1>1, <2>2 DEF SynthesisClaim, AnswerReplay, SynthesisCompletes, Goto
  <2> QED
    BY <1>6, <2>1, <2>2 DEF SynthesisStep
<1>7. ASSUME NEW q \in Proc,
             \/ PackageLoads(q) \/ PackageVerified(q) \/ PackageRejected(q)
             \/ EvidencePrepared(q) \/ EvidenceRefused(q) \/ StageRaises(q) \/ ReturnAnswer(q)
             \/ MarkFailed(q) \/ Fault(q) \/ \E c \in Conversation : BeginTurn(q, c)
      PROVE  Same(p) \/ pc'[p] \notin ServingPc
  BY <1>1, <1>7 DEF PackageLoads, PackageVerified, PackageRejected, EvidencePrepared,
                    EvidenceRefused, StageRaises, ReturnAnswer, MarkFailed, Fault, MarkLost,
                    ExecutionAbandons, Crash, BeginTurn, Raise, Leave, Goto, ServingPc
<1>8. CASE Operator \/ UNCHANGED vars
  BY <1>8 DEF Operator, AppendMessage, vars, procVars
<1> QED
  BY <1>2, <1>3, <1>4, <1>5, <1>6, <1>7, <1>8 DEF Next, Step

LEMMA RouterOfStays ==
  ASSUME AnswerInv, AnswerInv', Frozen, NEW r \in RunId, runs[r] # None,
         runs[r].kind = "synthesis", runs'[r].parent = runs[r].parent
  PROVE  RouterOf(r)' = RouterOf(r)
<1>1. Founded(runs[r])
  BY DEF AnswerInv, Grounded
<1>2. /\ RouterOf(r) \in RunId /\ Done(RouterOf(r), "router") /\ ParentValid(RouterOf(r), runs[r].parent)
      /\ runs[r].parent \in RunId /\ runs[runs[r].parent] # None
  BY <1>1, FoundedRouter
<1>3. runs'[runs[r].parent] = runs[runs[r].parent]
  BY <1>2, ParentStaysValid DEF AnswerInv
<1> QED
  BY <1>3 DEF RouterOf

(* A replayed answer was made under the router run that replays it.        *)
LEMMA ReplayServes ==
  ASSUME AnswerInv, NEW router \in RunId, NEW c, NEW s \in RunId, AnswerReplayable(router, c, s)
  PROVE  Answers(s) /\ runs[s].conv = c /\ RouterOf(s) = router
<1>1. /\ Done(router, "router") /\ runs[router].conv = c
      /\ runs[s].conv = runs[router].conv /\ runs[s].trigger = runs[router].trigger
  BY DEF AnswerReplayable, MaySynthesize, AuthoritativeRouter, AnswerReadable, Done
<1>2. Answers(s)
  BY DEF AnswerReplayable, Replays, Attempts, LaneOf, SynthesisLane, TriggerLane, Answers
<1>3. Founded(runs[s])
  BY <1>2 DEF AnswerInv, Grounded, Answers
<1>4. /\ RouterOf(s) \in RunId /\ Done(RouterOf(s), "router")
      /\ runs[RouterOf(s)].conv = runs[s].conv /\ runs[RouterOf(s)].trigger = runs[s].trigger
  BY <1>3, FoundedRouter
<1>5. RouterOf(s) = router
  BY <1>1, <1>4, OneRouter DEF AnswerInv
<1> QED
  BY <1>1, <1>2, <1>5

LEMMA ServeStep == ServeInv /\ AnswerInv' /\ [Next]_vars => \A p \in Proc : Serves(p)'
<1> SUFFICES ASSUME ServeInv, AnswerInv', [Next]_vars, NEW p \in Proc PROVE Serves(p)'
  OBVIOUS
<1>1. AnswerInv /\ Inv /\ Serves(p) /\ LocalsOf(p) /\ Frozen
  BY StepFreezes DEF ServeInv, AnswerInv, Inv, LocalsMatchStore
<1>2. pc \in [Proc -> Pc] /\ turn \in [Proc -> Turn]
  BY <1>1 DEF Inv, TypeOK, ProcTypeOK
<1>3. CASE pc'[p] = pc[p] /\ turn'[p] = turn[p]
  <2>1. ASSUME pc[p] = "synth_call" PROVE RouterOf(turn[p].run)' = turn[p].router
    <3>1. /\ turn[p].run \in RunId /\ runs[turn[p].run] # None
          /\ runs[turn[p].run].kind = "synthesis"
      BY <1>1, <2>1, OwnRun DEF OwningPc, CallPc, CallKind, LocalsOf, Running
    <3>2. turn'[p].run = turn[p].run /\ pc'[p] = "synth_call" /\ runs'[turn[p].run] # None
      BY <1>3, <2>1, NextInv, <1>1, OwnRun DEF AnswerInv, Inv, LocalsMatchStore, LocalsOf, OwningPc,
         CallPc, Running
    <3>3. runs'[turn[p].run].parent = runs[turn[p].run].parent
      BY <1>1, <3>1, RowSteps DEF RowStep, SameRequest
    <3>4. PICK r \in RunId : r = turn[p].run
      BY <3>1
    <3>5. RouterOf(r)' = RouterOf(r)
      BY <1>1, <3>1, <3>3, <3>4, RouterOfStays
    <3> QED
      BY <1>1, <1>3, <2>1, <3>4, <3>5 DEF Serves, RouterOf
  <2>2. ASSUME pc[p] = "returned"
        PROVE  /\ Answers(turn[p].answer)'
               /\ runs'[turn[p].answer].conv = turn[p].conv
               /\ RouterOf(turn[p].answer)' = turn[p].router
    <3>1. turn[p].answer \in RunId /\ Answers(turn[p].answer) /\ turn'[p].answer = turn[p].answer
      BY <1>1, <1>3, <2>2 DEF LocalsOf, Serves
    <3>2. PICK r \in RunId : r = turn[p].answer
      BY <3>1
    <3>3. runs'[r] = runs[r]
      BY <1>1, <3>1, <3>2 DEF Frozen, Settled, Answers
    <3>4. RouterOf(r)' = RouterOf(r)
      BY <1>1, <3>1, <3>2, <3>3, RouterOfStays DEF Answers
    <3> QED
      BY <1>1, <1>3, <2>2, <3>1, <3>2, <3>3, <3>4 DEF Serves, RouterOf, Answers
  <2> QED
    BY <1>3, <2>1, <2>2 DEF Serves
<1>4. CASE pc'[p] \notin ServingPc
  BY <1>4 DEF Serves, ServingPc
<1>5. CASE SynthesisClaim(p)
  <2>1. /\ FreshId \in RunId /\ runs[FreshId] = None
        /\ Founded(runs'[FreshId])
        /\ \A r \in RunId \ {FreshId} : runs'[r] = runs[r]
    BY <1>1, <1>5, ClaimIsGrounded
  <2>2. PICK r \in RunId : r = FreshId
    BY <2>1
  <2>3. pc'[p] = "synth_call" /\ turn'[p].run = r /\ turn'[p].router = turn[p].router
    BY <1>2, <1>5, <2>2 DEF SynthesisClaim, Goto, Turn
  <2>4. /\ runs'[r].parent = SynthesisParent(p) /\ runs'[r].conv = turn[p].conv
        /\ runs'[r].trigger = runs[turn[p].router].trigger
    BY <1>1, <1>5, <2>1, <2>2 DEF SynthesisClaim, InsertRun, NewRun, Inv, TypeOK, StoreTypeOK, RunsTypeOK
  <2>5. turn[p].router \in RunId /\ Done(turn[p].router, "router") /\ runs[turn[p].router].conv = turn[p].conv
    BY <1>1, <1>5 DEF SynthesisClaim, LocalsOf, RoutedPc, Pc, FreePc
  <2>6. PICK router \in RunId :
          /\ Done(router, "router")
          /\ runs[router].conv = runs'[r].conv /\ runs[router].trigger = runs'[r].trigger
          /\ runs'[r].parent \in RunId /\ runs[runs'[r].parent] # None
          /\ router = IF runs[runs'[r].parent].kind = "router" THEN runs'[r].parent
                      ELSE runs[runs'[r].parent].parent
    BY <2>1, <2>2 DEF Founded
  <2>7. router = turn[p].router
    BY <1>1, <2>4, <2>5, <2>6, OneRouter DEF AnswerInv
  <2>8. runs'[r].parent # r /\ runs'[runs'[r].parent] = runs[runs'[r].parent]
    BY <2>1, <2>2, <2>6
  <2>9. (IF runs'[runs'[r].parent].kind = "router" THEN runs'[r].parent
         ELSE runs'[runs'[r].parent].parent) = turn[p].router
    BY <2>6, <2>7, <2>8
  <2> QED
    BY <2>3, <2>9 DEF Serves, RouterOf
<1>6. CASE AnswerReplay(p)
  <2>1. PICK s \in RunId : /\ AnswerReplayable(turn[p].router, turn[p].conv, s)
                           /\ turn' = [turn EXCEPT ![p].answer = s]
    BY <1>6 DEF AnswerReplay
  <2>2. turn[p].router \in RunId
    BY <1>1, <1>6 DEF AnswerReplay, LocalsOf, RoutedPc, Pc, FreePc
  <2>3. Answers(s) /\ runs[s].conv = turn[p].conv /\ RouterOf(s) = turn[p].router
    BY <1>1, <2>1, <2>2, ReplayServes
  <2>4. /\ pc'[p] = "returned" /\ turn'[p].answer = s /\ turn'[p].conv = turn[p].conv
        /\ turn'[p].router = turn[p].router /\ runs' = runs
    BY <1>2, <1>6, <2>1 DEF AnswerReplay, Goto, Turn, storeVars
  <2> QED
    BY <2>3, <2>4 DEF Serves, Answers, RouterOf
<1>7. CASE SynthesisCompletes(p)
  <2>1. /\ turn[p].run \in RunId /\ runs[turn[p].run] # None /\ runs[turn[p].run] \in Run
        /\ runs[turn[p].run].kind = "synthesis" /\ runs[turn[p].run].conv = turn[p].conv
        /\ pc[p] = "synth_call"
    BY <1>1, <1>7, OwnRun DEF SynthesisCompletes, OwningPc, CallPc, CallKind, LocalsOf, Running
  <2>2. PICK r \in RunId : r = turn[p].run
    BY <2>1
  <2>3. \E produced : runs'[r] = [runs[r] EXCEPT !.status = "succeeded", !.output = None,
                                                 !.produced = produced]
    BY <1>1, <1>7, <2>2 DEF SynthesisCompletes, CompleteRun, Inv, TypeOK, StoreTypeOK, RunsTypeOK
  <2>4. /\ runs'[r].status = "succeeded" /\ runs'[r].kind = "synthesis"
        /\ runs'[r].conv = turn[p].conv /\ runs'[r].parent = runs[r].parent
    BY <2>1, <2>2, <2>3 DEF Run
  <2>5. runs'[r] # None
    BY <1>1, <2>1, <2>2, <2>4, RowSteps DEF RowStep, Running
  <2>6. RouterOf(r)' = RouterOf(r)
    BY <1>1, <2>1, <2>2, <2>4, RouterOfStays
  <2>7. /\ pc'[p] = "returned" /\ turn'[p].answer = r /\ turn'[p].conv = turn[p].conv
        /\ turn'[p].router = turn[p].router
    BY <1>2, <1>7, <2>2 DEF SynthesisCompletes, Goto, Turn
  <2> QED
    BY <1>1, <2>1, <2>2, <2>4, <2>5, <2>6, <2>7 DEF Serves, Answers, RouterOf
<1> QED
  BY <1>1, <1>3, <1>4, <1>5, <1>6, <1>7, ServingSteps

(* What a turn returns is the authoritative answer of the conversation it  *)
(* was called for: committed before it is returned, by this process or by  *)
(* another one, and made under the router run the turn went through.       *)
THEOREM ReturnedAnswersAreDurable == Spec => []ReturnedAnswerIsDurable
<1>1. Init => ServeInv
  BY InitInv, AuthorityInit, AnswerInit DEF ServeInv, AnswerInv, Serves, Init, ProcInit
<1>2. ServeInv /\ [Next]_vars => ServeInv'
  BY AnswerStep, ServeStep DEF ServeInv
<1>3. ServeInv => ReturnedAnswerIsDurable
  <2> SUFFICES ASSUME ServeInv, NEW p \in Proc, pc[p] = "returned"
               PROVE  AnswerReplayable(turn[p].router, turn[p].conv, turn[p].answer)
    BY DEF ReturnedAnswerIsDurable
  <2>1. turn[p].answer \in RunId
    BY DEF ServeInv, AnswerInv, Inv, LocalsMatchStore, LocalsOf
  <2> QED
    BY <2>1, AnswerReads DEF ServeInv, Serves
<1> QED
  BY <1>1, <1>2, <1>3, PTL DEF Spec

-------------------------------------------------------------------------------
(* What a process past the verification of its package knows, and what it  *)
(* knows once the execution stage has admitted it.                         *)
VerifiedPc == PackagedPc \ {"verify"}
ClearedPc == {"exec_lookup", "exec_claim", "exec_run"}

Cleared(r, pkg) ==
  /\ r \in RunId /\ Done(r, "inference")
  /\ Approved(r) /\ conformance[r].catalog = runs[r].catalog
  /\ pkg.catalog = runs[r].catalog

Trusts(p) ==
  /\ pc[p] \in VerifiedPc => Coherent(turn[p].pkg)
  /\ pc[p] \in ClearedPc => Cleared(turn[p].retrieval, turn[p].pkg)

(* Every execution was admitted over a coherent package.                   *)
Admitted ==
  \A r \in RunId : executions[r] # None => Coherent(executions[r].pkg) /\ Cleared(r, executions[r].pkg)

EvidenceInv == Inv /\ Admitted /\ \A p \in Proc : Trusts(p)

LEMMA ClearedStays ==
  ASSUME Frozen, NEW r, NEW pkg, Cleared(r, pkg)
  PROVE  Cleared(r, pkg)'
BY DEF Cleared, Done, Approved, Frozen, Settled

LEMMA ExecutionsMove ==
  ASSUME Inv, [Next]_vars, NEW r \in RunId, executions'[r] # None
  PROVE  \/ executions[r] # None /\ executions'[r].pkg = executions[r].pkg
         \/ \E p \in Proc : /\ ExecutionClaims(p) /\ r = turn[p].retrieval
                            /\ executions'[r].pkg = turn[p].pkg
<1> DEFINE Kept == executions[r] # None /\ executions'[r].pkg = executions[r].pkg
<1>1. executions' = executions => Kept
  OBVIOUS
<1>2. ASSUME NEW p \in Proc, ExecutionClaims(p), ~Kept
      PROVE  r = turn[p].retrieval /\ executions'[r].pkg = turn[p].pkg
  BY <1>2 DEF ExecutionClaims, Inv, TypeOK, StoreTypeOK
<1>3. ASSUME NEW p \in Proc, Finish(p) PROVE Kept
  <2>1. Executing(turn[p].retrieval) /\ turn[p].retrieval \in RunId
    BY <1>3 DEF Finish, Inv, LocalsMatchStore, LocalsOf, ProposedPc
  <2>2. executions[turn[p].retrieval] \in Execution
    BY <2>1 DEF Executing, Inv, TypeOK, StoreTypeOK
  <2>3. CASE r = turn[p].retrieval
    BY <1>3, <2>1, <2>2, <2>3 DEF Finish, Executing, Execution, Inv, TypeOK, StoreTypeOK
  <2>4. CASE r # turn[p].retrieval
    BY <1>3, <2>1, <2>4 DEF Finish, Inv, TypeOK, StoreTypeOK
  <2> QED
    BY <2>3, <2>4
<1> HIDE DEF Kept
<1>4. ASSUME NEW p \in Proc, ExecutionStep(p)
      PROVE  Kept \/ ExecutionClaims(p)
  BY <1>1, <1>3, <1>4 DEF ExecutionStep, ExecutionAdmits, ExecutionRefused, ExecutionReplays,
                          ExecutionMisses, ExecutionBlocked, ExecutionConflicts, ExecutionSucceeds,
                          ExecutionSurfaceFails, ExecutionPackageChanged, ExecutionFailsTwice,
                          Decides, ExecutionCommits, ExecutionUnreadable, Raise, storeVars
<1>5. ASSUME NEW p \in Proc, Step(p), ~ExecutionStep(p) PROVE executions' = executions
  <2>1. CASE RouterStep(p) \/ InferStep(p)
    BY <2>1 DEF RouterStep, RouterReplay, RouterClaim, RouterRefused, RouterCompletes, RouterFails,
                InferStep, InferReplay, InferMisses, InferReadsCatalog, InferClaim, InferRefused,
                InferCompletes, InferFails, Raise, storeVars
  <2>2. CASE ConformStep(p) \/ SynthesisStep(p)
    BY <2>2 DEF ConformStep, ConformAdmits, ConformRefused, ConformReplays, ConformMisses,
                ConformInserts, ConformConflicts, SynthesisStep, AnswerReplay, AnswerMisses,
                SynthesisClaim, SynthesisRefused, SynthesisCompletes, SynthesisFails, Raise, storeVars
  <2>3. CASE \/ PackageLoads(p) \/ PackageVerified(p) \/ PackageRejected(p)
             \/ EvidencePrepared(p) \/ EvidenceRefused(p) \/ StageRaises(p) \/ ReturnAnswer(p)
             \/ MarkFailed(p)
    BY <2>3 DEF PackageLoads, PackageVerified, PackageRejected, EvidencePrepared, EvidenceRefused,
                StageRaises, ReturnAnswer, MarkFailed, Raise, storeVars
  <2> QED
    BY <1>5, <2>1, <2>2, <2>3 DEF Step
<1>6. ASSUME NEW p \in Proc, (\E c \in Conversation : BeginTurn(p, c)) \/ Fault(p)
      PROVE  executions' = executions
  BY <1>6 DEF BeginTurn, Fault, MarkLost, ExecutionAbandons, Crash, Raise, storeVars
<1>7. Operator \/ UNCHANGED vars => executions' = executions
  BY DEF Operator, AppendMessage, vars, storeVars
<1>8. Kept \/ \E p \in Proc : ExecutionClaims(p)
  BY <1>1, <1>4, <1>5, <1>6, <1>7 DEF Next
<1> QED
  BY <1>2, <1>8 DEF Kept

(* A process comes to trust its package by verifying it, and to its        *)
(* clearance by being admitted; it carries both along unchanged.           *)
LEMMA TrustSteps ==
  ASSUME Inv, [Next]_vars, NEW p \in Proc
  PROVE  \/ pc'[p] = pc[p] /\ turn'[p].pkg = turn[p].pkg /\ turn'[p].retrieval = turn[p].retrieval
         \/ pc'[p] \notin VerifiedPc
         \/ PackageVerified(p)
         \/ ExecutionAdmits(p)
         \/ /\ pc[p] \in VerifiedPc /\ turn'[p].pkg = turn[p].pkg
            /\ pc'[p] \notin ClearedPc \/ (pc[p] \in ClearedPc /\ turn'[p].retrieval = turn[p].retrieval)
<1> DEFINE Same(q) == pc'[q] = pc[q] /\ turn'[q].pkg = turn[q].pkg /\ turn'[q].retrieval = turn[q].retrieval
           Carries(q) == /\ pc[q] \in VerifiedPc /\ turn'[q].pkg = turn[q].pkg
                         /\ pc'[q] \notin ClearedPc \/ (pc[q] \in ClearedPc /\ turn'[q].retrieval = turn[q].retrieval)
           Goal == Same(p) \/ pc'[p] \notin VerifiedPc \/ Carries(p)
<1>1. pc \in [Proc -> Pc] /\ turn \in [Proc -> Turn]
  BY DEF Inv, TypeOK, ProcTypeOK
<1> USE DEF VerifiedPc, PackagedPc, ProposedPc, ClearedPc
<1>2. ASSUME NEW q \in Proc, RouterStep(q) PROVE Goal
  BY <1>1, <1>2 DEF RouterStep, RouterReplay, RouterClaim, RouterRefused, RouterCompletes, RouterFails,
                    Raise, Leave, Goto
<1>3. ASSUME NEW q \in Proc, InferStep(q) PROVE Goal
  <2>1. CASE InferReplay(q) \/ InferCompletes(q)
    <3>1. PICK locals : turn' = [turn EXCEPT ![q] = locals] /\ locals.pkg = turn[q].pkg
      <4>1. CASE InferReplay(q)
        <5>1. PICK r \in RunId : turn' = [turn EXCEPT ![q].retrieval = r]
          BY <4>1 DEF InferReplay
        <5> WITNESS [turn[q] EXCEPT !.retrieval = r]
        <5> QED
          BY <1>1, <5>1 DEF Turn
      <4>2. CASE InferCompletes(q)
        <5> WITNESS [turn[q] EXCEPT !.retrieval = turn[q].run, !.run = None]
        <5> QED
          BY <1>1, <4>2 DEF InferCompletes, Turn
      <4> QED
        BY <2>1, <4>1, <4>2
    <3>2. pc' = [pc EXCEPT ![q] = "conform"] /\ pc[q] \in VerifiedPc
      BY <2>1 DEF InferReplay, InferCompletes, Goto
    <3> QED
      BY <1>1, <3>1, <3>2
  <2>2. CASE InferReadsCatalog(q) \/ InferClaim(q)
    BY <1>1, <2>2 DEF InferReadsCatalog, InferClaim, Goto, Turn
  <2>3. CASE InferMisses(q) \/ InferRefused(q) \/ InferFails(q)
    BY <1>1, <2>3 DEF InferMisses, InferRefused, InferFails, Raise, Leave, Goto
  <2> QED
    BY <1>3, <2>1, <2>2, <2>3 DEF InferStep
<1>4. ASSUME NEW q \in Proc, ConformStep(q) PROVE Goal
  BY <1>1, <1>4 DEF ConformStep, ConformAdmits, ConformRefused, ConformReplays, ConformMisses,
                    ConformInserts, ConformConflicts, AfterVerdict, Raise, Leave, Goto
<1>5. ASSUME NEW q \in Proc, ExecutionStep(q), ~ExecutionAdmits(p) PROVE Goal
  <2>1. CASE \/ ExecutionAdmits(q) /\ q # p
             \/ ExecutionRefused(q) \/ ExecutionReplays(q)
             \/ ExecutionMisses(q) \/ ExecutionBlocked(q) \/ ExecutionClaims(q)
             \/ ExecutionConflicts(q) \/ ExecutionCommits(q) \/ ExecutionUnreadable(q)
    BY <1>1, <2>1 DEF ExecutionAdmits, ExecutionRefused, ExecutionReplays, ExecutionMisses,
                      ExecutionBlocked, ExecutionClaims, ExecutionConflicts, ExecutionCommits,
                      ExecutionUnreadable, Finish, Raise, Leave, Goto
  <2>2. CASE \/ ExecutionSucceeds(q) \/ ExecutionSurfaceFails(q)
             \/ ExecutionPackageChanged(q) \/ ExecutionFailsTwice(q)
    <3>1. PICK outcome : turn' = [turn EXCEPT ![q].outcome = outcome] /\ pc' = pc
      BY <2>2 DEF ExecutionSucceeds, ExecutionSurfaceFails, ExecutionPackageChanged,
                  ExecutionFailsTwice, Decides
    <3> QED
      BY <1>1, <3>1 DEF Turn
  <2> QED
    BY <1>5, <2>1, <2>2 DEF ExecutionStep
<1>6. ASSUME NEW q \in Proc, SynthesisStep(q) PROVE Goal
  BY <1>1, <1>6 DEF SynthesisStep, AnswerReplay, AnswerMisses, SynthesisClaim, SynthesisRefused,
                    SynthesisCompletes, SynthesisFails, Raise, Leave, Goto
<1>7. ASSUME NEW q \in Proc,
             \/ PackageLoads(q) \/ (PackageVerified(q) /\ q # p) \/ PackageRejected(q)
             \/ EvidencePrepared(q) \/ EvidenceRefused(q) \/ StageRaises(q) \/ ReturnAnswer(q)
             \/ MarkFailed(q) \/ Fault(q) \/ \E c \in Conversation : BeginTurn(q, c)
      PROVE  Goal
  BY <1>1, <1>7 DEF PackageLoads, PackageVerified, PackageRejected, EvidencePrepared,
                    EvidenceRefused, StageRaises, ReturnAnswer, MarkFailed, Fault, MarkLost,
                    ExecutionAbandons, Crash, BeginTurn, Raise, Leave, Goto
<1>8. Operator \/ UNCHANGED vars => Same(p)
  BY DEF Operator, AppendMessage, vars, procVars
<1> HIDE DEF VerifiedPc, ClearedPc
<1> QED
  BY <1>2, <1>3, <1>4, <1>5, <1>6, <1>7, <1>8 DEF Next, Step

LEMMA EvidenceStep == EvidenceInv /\ Inv' /\ [Next]_vars => EvidenceInv'
<1> SUFFICES ASSUME EvidenceInv, Inv', [Next]_vars PROVE Admitted' /\ \A p \in Proc : Trusts(p)'
  BY DEF EvidenceInv
<1>1. Inv /\ Frozen
  BY StepFreezes DEF EvidenceInv
<1>2. ASSUME NEW r \in RunId, executions'[r] # None
      PROVE  Coherent(executions'[r].pkg) /\ (Cleared(r, executions[r].pkg))'
  <2>1. CASE executions[r] # None /\ executions'[r].pkg = executions[r].pkg
    <3>1. Coherent(executions[r].pkg) /\ Cleared(r, executions[r].pkg)
      BY <2>1 DEF EvidenceInv, Admitted
    <3>2. PICK pkg : pkg = executions[r].pkg
      OBVIOUS
    <3>3. Cleared(r, pkg)'
      BY <1>1, <3>1, <3>2, ClearedStays
    <3> QED
      BY <2>1, <3>1, <3>2, <3>3 DEF Cleared
  <2>2. ASSUME NEW p \in Proc, ExecutionClaims(p), r = turn[p].retrieval, executions'[r].pkg = turn[p].pkg
        PROVE  Coherent(executions'[r].pkg) /\ (Cleared(r, executions[r].pkg))'
    <3>1. Coherent(turn[p].pkg) /\ Cleared(r, turn[p].pkg)
      BY <2>2 DEF EvidenceInv, Trusts, ExecutionClaims, VerifiedPc, PackagedPc, ProposedPc, ClearedPc
    <3>2. PICK pkg : pkg = turn[p].pkg
      OBVIOUS
    <3>3. Cleared(r, pkg)'
      BY <1>1, <3>1, <3>2, ClearedStays
    <3> QED
      BY <2>2, <3>1, <3>2, <3>3 DEF Cleared
  <2> QED
    BY <1>1, <1>2, <2>1, <2>2, ExecutionsMove
<1>3. ASSUME NEW p \in Proc PROVE Trusts(p)'
  <2>1. Trusts(p) /\ LocalsOf(p) /\ pc \in [Proc -> Pc] /\ turn \in [Proc -> Turn]
    BY <1>1 DEF EvidenceInv, Inv, LocalsMatchStore, TypeOK, ProcTypeOK
  <2>2. ASSUME pc'[p] \in ClearedPc,
               Cleared(turn[p].retrieval, turn[p].pkg),
               turn'[p].pkg = turn[p].pkg, turn'[p].retrieval = turn[p].retrieval
        PROVE  (Cleared(turn[p].retrieval, turn[p].pkg))'
    <3>1. PICK r, pkg : r = turn[p].retrieval /\ pkg = turn[p].pkg
      OBVIOUS
    <3>2. Cleared(r, pkg)'
      BY <1>1, <2>2, <3>1, ClearedStays
    <3> QED
      BY <2>2, <3>1, <3>2 DEF Cleared
  <2>3. CASE pc'[p] = pc[p] /\ turn'[p].pkg = turn[p].pkg /\ turn'[p].retrieval = turn[p].retrieval
    BY <2>1, <2>2, <2>3 DEF Trusts
  <2>4. CASE pc'[p] \notin VerifiedPc
    BY <2>4 DEF Trusts, VerifiedPc, PackagedPc, ProposedPc, ClearedPc
  <2>5. CASE PackageVerified(p)
    BY <2>1, <2>5 DEF PackageVerified, Verifies, Goto, Trusts, ClearedPc
  <2>6. CASE ExecutionAdmits(p)
    <3>1. pc'[p] = "exec_lookup" /\ turn' = turn /\ Coherent(turn[p].pkg)
      BY <2>1, <2>6 DEF ExecutionAdmits, Goto, Trusts, VerifiedPc, PackagedPc, ProposedPc
    <3>2. Cleared(turn[p].retrieval, turn[p].pkg)
      BY <2>1, <2>6 DEF ExecutionAdmits, MayExecute, Cleared, Done, LocalsOf, ProposedPc
    <3> QED
      BY <2>2, <3>1, <3>2 DEF Trusts
  <2>7. CASE /\ pc[p] \in VerifiedPc /\ turn'[p].pkg = turn[p].pkg
             /\ pc'[p] \notin ClearedPc \/ (pc[p] \in ClearedPc /\ turn'[p].retrieval = turn[p].retrieval)
    BY <2>1, <2>2, <2>7 DEF Trusts
  <2> QED
    BY <1>1, <2>3, <2>4, <2>5, <2>6, <2>7, TrustSteps
<1> QED
  BY <1>2, <1>3 DEF Admitted

(* Every execution ran over a package whose catalog describes its build,   *)
(* for a proposal approved against that catalog, although the package's    *)
(* files, the catalog shown to the model included, are rewritten under the *)
(* turn at any point.                                                      *)
THEOREM EvidenceIsAlwaysCoherent == Spec => []EvidenceIsCoherent
<1>1. Init => EvidenceInv
  BY InitInv DEF Init, StoreInit, ProcInit, EvidenceInv, Admitted, Trusts, VerifiedPc, PackagedPc,
                 ProposedPc, ClearedPc
<1>2. EvidenceInv /\ [Next]_vars => EvidenceInv'
  BY NextInv, EvidenceStep DEF EvidenceInv
<1>3. EvidenceInv => EvidenceIsCoherent
  BY DEF EvidenceInv, Admitted, Cleared, EvidenceIsCoherent
<1> QED
  BY <1>1, <1>2, <1>3, PTL DEF Spec

-------------------------------------------------------------------------------
(* What stands behind the evidence of a turn: the proposal of its router   *)
(* run, executed to the end over the package the turn verified.            *)
Retrieved(router, r, pkg) ==
  /\ r \in RunId /\ Done(r, "inference") /\ runs[r].parent = router
  /\ Terminal(r) /\ executions[r].pkg = pkg

(* What a turn carries to that point, lookup by lookup.  Only a turn that  *)
(* loaded a package holds evidence; the others replay or answer directly.  *)
Backed(p) ==
  /\ pc[p] \in {"route", "router_call", "lookup"} => turn[p].pkg = None
  /\ pc[p] \in {"package"} \cup PackagedPc => runs[turn[p].router].output = "semantic"
  /\ pc[p] = "infer_call" => runs[turn[p].run].parent = turn[p].router
  /\ pc[p] \in ProposedPc => runs[turn[p].retrieval].parent = turn[p].router
  /\ pc[p] = "exec_run" => executions[turn[p].retrieval].pkg = turn[p].pkg
  /\ pc[p] \in EvidencePc /\ turn[p].pkg # None =>
       /\ Coherent(turn[p].pkg) /\ runs[turn[p].router].output = "semantic"
       /\ Retrieved(turn[p].router, turn[p].retrieval, turn[p].pkg)
  /\ pc[p] = "synth_call" /\ turn[p].pkg # None =>
       runs[turn[p].run].parent = turn[p].retrieval
  /\ pc[p] = "returned" /\ turn[p].pkg # None =>
       runs[turn[p].answer].parent = turn[p].retrieval

BackedInv == ServeInv /\ EvidenceInv /\ \A p \in Proc : Backed(p)

LEMMA RetrievedStays ==
  ASSUME Frozen, NEW router, NEW r, NEW pkg, Retrieved(router, r, pkg)
  PROVE  Retrieved(router, r, pkg)'
BY DEF Retrieved, Done, Terminal, Frozen, Settled

(* A turn that does not move keeps what backs it, whatever others do.      *)
LEMMA BackedStays ==
  ASSUME BackedInv, [Next]_vars, NEW p \in Proc, pc'[p] = pc[p], turn'[p] = turn[p]
  PROVE  Backed(p)'
<1>1. Inv /\ Inv' /\ Frozen /\ LocalsOf(p) /\ Backed(p) /\ ServeInv
  BY NextInv, StepFreezes DEF BackedInv, EvidenceInv, Inv, LocalsMatchStore
<1>2. ASSUME pc[p] \in {"package"} \cup PackagedPc \cup EvidencePc
      PROVE  runs'[turn[p].router] = runs[turn[p].router]
  BY <1>1, <1>2 DEF LocalsOf, RoutedPc, Pc, FreePc, OwningPc, CallPc, PackagedPc, ProposedPc,
                    EvidencePc, Done, Frozen, Settled
<1>3. ASSUME pc[p] \in CallPc
      PROVE  runs'[turn[p].run].parent = runs[turn[p].run].parent
  <2>1. turn[p].run \in RunId /\ Running(turn[p].run) /\ runs'[turn[p].run].status = "running"
    BY <1>1, <1>3 DEF Inv, LocalsMatchStore, LocalsOf, OwningPc, Running
  <2> QED
    BY <1>1, <2>1, RowSteps DEF RowStep, SameRequest, Running
<1>4. ASSUME pc[p] \in ProposedPc
      PROVE  runs'[turn[p].retrieval] = runs[turn[p].retrieval]
  BY <1>1, <1>4 DEF LocalsOf, Done, Frozen, Settled
<1>5. ASSUME pc[p] = "exec_run"
      PROVE  executions'[turn[p].retrieval].pkg = executions[turn[p].retrieval].pkg
  <2>1. /\ turn[p].retrieval \in RunId /\ executions[turn[p].retrieval] # None
        /\ executions'[turn[p].retrieval] # None
    BY <1>1, <1>5 DEF Inv, LocalsMatchStore, LocalsOf, Executing, ProposedPc
  <2> QED
    BY <1>1, <2>1, ExecutionsMove DEF ExecutionClaims
<1>6. ASSUME pc[p] = "returned"
      PROVE  runs'[turn[p].answer] = runs[turn[p].answer]
  BY <1>1, <1>6 DEF ServeInv, Serves, Answers, LocalsOf, Frozen, Settled
<1>7. PICK router, r, pkg : router = turn[p].router /\ r = turn[p].retrieval /\ pkg = turn[p].pkg
  OBVIOUS
<1>8. Retrieved(router, r, pkg) => Retrieved(router, r, pkg)'
  BY <1>1, RetrievedStays
<1>9. /\ (Retrieved(turn[p].router, turn[p].retrieval, turn[p].pkg))'
            <=> Retrieved(router, r, pkg)'
      /\ Coherent(turn[p].pkg)' <=> Coherent(turn[p].pkg)
  BY <1>7 DEF Retrieved, Coherent
<1> QED
  BY <1>1, <1>2, <1>3, <1>4, <1>5, <1>6, <1>7, <1>8, <1>9 DEF Backed, CallPc

(* Two done proposals of one router run are one.                           *)
LEMMA OneProposal ==
  ASSUME OneAuthority, NEW r \in RunId, NEW s \in RunId, Done(r, "inference"), Done(s, "inference"),
         runs[r].parent = runs[s].parent
  PROVE  r = s
<1>1. Held(r) /\ Held(s) /\ LaneOf(runs[r]) = LaneOf(runs[s])
  BY DEF Done, Held, LaneOf
<1> QED
  BY <1>1 DEF OneAuthority

(* The stages, one by one.                                                 *)
LEMMA RouterBacked ==
  ASSUME BackedInv, [Next]_vars, NEW p \in Proc, RouterStep(p)
  PROVE  Backed(p)'
<1>1. pc \in [Proc -> Pc] /\ turn \in [Proc -> Turn] /\ Backed(p)
  BY DEF BackedInv, EvidenceInv, Inv, TypeOK, ProcTypeOK
<1>2. ASSUME pc'[p] \in {"lookup", "router_call"} PROVE turn'[p].pkg = None
  <2>1. CASE RouterReplay(p) \/ RouterClaim(p)
    BY <1>1, <2>1 DEF RouterReplay, RouterClaim, Turn, Backed
  <2>2. CASE RouterCompletes(p)
    <3>1. turn'[p] = [turn[p] EXCEPT !.router = turn[p].run, !.run = None]
      BY <1>1, <2>2 DEF RouterCompletes
    <3> QED
      BY <1>1, <2>2, <3>1 DEF RouterCompletes, Turn, Backed
  <2>3. CASE RouterRefused(p) \/ RouterFails(p)
    BY <1>1, <1>2, <2>3 DEF RouterRefused, RouterFails, Raise, Leave, Goto
  <2> QED
    BY <2>1, <2>2, <2>3 DEF RouterStep
<1>3. pc'[p] \in {"lookup", "router_call", "failing", "idle"}
  BY <1>1 DEF RouterStep, RouterReplay, RouterClaim, RouterRefused, RouterCompletes, RouterFails,
              Raise, Leave, Goto
<1> QED
  BY <1>2, <1>3 DEF Backed, PackagedPc, ProposedPc, EvidencePc

LEMMA InferBacked ==
  ASSUME BackedInv, [Next]_vars, NEW p \in Proc, InferStep(p)
  PROVE  Backed(p)'
<1>1. /\ pc \in [Proc -> Pc] /\ turn \in [Proc -> Turn] /\ Backed(p) /\ LocalsOf(p)
      /\ Inv /\ Inv' /\ Frozen
  BY NextInv, StepFreezes DEF BackedInv, EvidenceInv, Inv, TypeOK, ProcTypeOK, LocalsMatchStore
<1>2. CASE InferRefused(p) \/ InferFails(p)
  BY <1>1, <1>2 DEF InferRefused, InferFails, Raise, Leave, Goto, Backed, PackagedPc, ProposedPc, EvidencePc
<1>3. /\ pc[p] \in PackagedPc /\ turn[p].router \in RunId
      /\ runs'[turn[p].router] = runs[turn[p].router] /\ runs[turn[p].router].output = "semantic"
  <2>1. pc[p] \in {"infer_replay", "infer_claim", "infer_catalog", "infer_call"}
    BY DEF InferStep, InferReplay, InferMisses, InferReadsCatalog, InferClaim, InferRefused,
           InferCompletes, InferFails
  <2> QED
    BY <1>1, <2>1 DEF LocalsOf, RoutedPc, Pc, FreePc, OwningPc, CallPc, PackagedPc, Done, Frozen,
                      Settled, Backed
<1>4. CASE InferMisses(p) \/ InferReadsCatalog(p)
  <2>1. pc'[p] \in {"infer_catalog", "infer_claim"} /\ turn'[p].router = turn[p].router
    BY <1>1, <1>4 DEF InferMisses, InferReadsCatalog, Goto, Turn
  <2> QED
    BY <1>3, <2>1 DEF Backed, PackagedPc, ProposedPc, EvidencePc
<1>5. CASE InferClaim(p)
  <2>1. FreshId \in RunId /\ runs[FreshId] = None
    BY <1>5, FreshIdFree DEF InferClaim, InsertRun
  <2>2. runs'[FreshId].parent = turn[p].router
    BY <1>1, <1>5, <2>1 DEF InferClaim, InsertRun, NewRun, Inv, TypeOK, StoreTypeOK, RunsTypeOK
  <2>3. pc'[p] = "infer_call" /\ turn'[p].router = turn[p].router /\ turn'[p].run = FreshId
    BY <1>1, <1>5, <2>1 DEF InferClaim, Goto, Turn
  <2> QED
    BY <1>3, <2>2, <2>3 DEF Backed, PackagedPc, ProposedPc, EvidencePc
<1>6. CASE InferReplay(p)
  <2>1. PICK r \in RunId : InferReplayable(turn[p].router, r) /\ turn' = [turn EXCEPT ![p].retrieval = r]
    BY <1>6 DEF InferReplay
  <2>2. runs[r].parent = turn[p].router
    BY <2>1 DEF InferReplayable, Replays, Attempts, InferenceLane, LaneOf
  <2>3. pc'[p] = "conform" /\ turn'[p].router = turn[p].router /\ turn'[p].retrieval = r /\ runs' = runs
    BY <1>1, <1>6, <2>1 DEF InferReplay, Goto, Turn, storeVars
  <2> QED
    BY <1>3, <2>2, <2>3 DEF Backed, PackagedPc, ProposedPc, EvidencePc
<1>7. CASE InferCompletes(p)
  <2>1. /\ turn[p].run \in RunId /\ Running(turn[p].run) /\ runs[turn[p].run] \in Run
        /\ runs[turn[p].run].parent = turn[p].router
    BY <1>1, <1>7, OwnRun DEF InferCompletes, OwningPc, CallPc, Backed
  <2>2. PICK verdict \in Verdict : CompleteRun(turn[p].run, verdict, None)
    BY <1>7 DEF InferCompletes
  <2>3. runs'[turn[p].run].parent = runs[turn[p].run].parent
    BY <1>1, <2>1, <2>2 DEF CompleteRun, Run, Inv, TypeOK, StoreTypeOK, RunsTypeOK
  <2>4. /\ pc'[p] = "conform" /\ turn'[p].router = turn[p].router /\ turn'[p].retrieval = turn[p].run
    BY <1>1, <1>7 DEF InferCompletes, Goto, Turn
  <2> QED
    BY <1>3, <2>1, <2>3, <2>4 DEF Backed, PackagedPc, ProposedPc, EvidencePc
<1> QED
  BY <1>2, <1>4, <1>5, <1>6, <1>7 DEF InferStep

(* The stages between the proposal and its execution leave the run rows    *)
(* and the locals they were given as they are.                             *)
LEMMA ProposedMoves ==
  ASSUME BackedInv, [Next]_vars, NEW p \in Proc, pc[p] \in ProposedPc,
         pc'[p] \in ProposedPc \ {"exec_run", "prepare"},
         turn'[p].router = turn[p].router, turn'[p].retrieval = turn[p].retrieval
  PROVE  Backed(p)'
<1>1. Backed(p) /\ LocalsOf(p) /\ Frozen
  BY StepFreezes DEF BackedInv, EvidenceInv, Inv, LocalsMatchStore
<1>2. /\ runs'[turn[p].router] = runs[turn[p].router]
      /\ runs'[turn[p].retrieval] = runs[turn[p].retrieval]
  BY <1>1 DEF LocalsOf, RoutedPc, Pc, FreePc, ProposedPc, Done, Frozen, Settled
<1> QED
  BY <1>1, <1>2 DEF Backed, PackagedPc, ProposedPc, EvidencePc

LEMMA ConformBacked ==
  ASSUME BackedInv, [Next]_vars, NEW p \in Proc, ConformStep(p)
  PROVE  Backed(p)'
<1>1. pc \in [Proc -> Pc] /\ turn \in [Proc -> Turn]
  BY DEF BackedInv, EvidenceInv, Inv, TypeOK, ProcTypeOK
<1>2. /\ pc[p] \in {"conform", "conform_lookup", "conform_insert"}
      /\ pc'[p] = "idle" \/ (pc'[p] \in {"conform_lookup", "conform_insert", "execute"} /\ turn' = turn)
  BY <1>1 DEF ConformStep, ConformAdmits, ConformRefused, ConformReplays, ConformMisses,
              ConformInserts, ConformConflicts, AfterVerdict, Raise, Leave, Goto
<1>3. CASE pc'[p] = "idle"
  BY <1>3 DEF Backed, PackagedPc, ProposedPc, EvidencePc
<1> QED
  BY <1>2, <1>3, ProposedMoves DEF ProposedPc

LEMMA ExecutionBacked ==
  ASSUME BackedInv, [Next]_vars, NEW p \in Proc, ExecutionStep(p)
  PROVE  Backed(p)'
<1>1. /\ pc \in [Proc -> Pc] /\ turn \in [Proc -> Turn] /\ Backed(p) /\ LocalsOf(p) /\ Trusts(p)
      /\ Inv /\ Frozen
  BY StepFreezes DEF BackedInv, EvidenceInv, Inv, TypeOK, ProcTypeOK, LocalsMatchStore
<1>2. /\ pc[p] \in ProposedPc
      /\ turn[p].router \in RunId /\ Done(turn[p].router, "router")
      /\ turn[p].retrieval \in RunId /\ Done(turn[p].retrieval, "inference")
      /\ runs[turn[p].router].output = "semantic" /\ runs[turn[p].retrieval].parent = turn[p].router
  <2>1. pc[p] \in {"execute", "exec_lookup", "exec_claim", "exec_run"}
    BY DEF ExecutionStep, ExecutionAdmits, ExecutionRefused, ExecutionReplays, ExecutionMisses,
           ExecutionBlocked, ExecutionClaims, ExecutionConflicts, ExecutionSucceeds,
           ExecutionSurfaceFails, ExecutionPackageChanged, ExecutionFailsTwice, Decides,
           ExecutionCommits, ExecutionUnreadable, Finish
  <2> QED
    BY <1>1, <2>1 DEF LocalsOf, RoutedPc, Pc, FreePc, PackagedPc, ProposedPc, Backed
<1>3. /\ runs'[turn[p].router] = runs[turn[p].router]
      /\ runs'[turn[p].retrieval] = runs[turn[p].retrieval]
  BY <1>1, <1>2 DEF Done, Frozen, Settled
<1>4. CASE \/ ExecutionRefused(p) \/ ExecutionBlocked(p) \/ ExecutionConflicts(p)
           \/ ExecutionUnreadable(p)
  BY <1>1, <1>4 DEF ExecutionRefused, ExecutionBlocked, ExecutionConflicts, ExecutionUnreadable,
                    Raise, Leave, Goto, Backed, PackagedPc, ProposedPc, EvidencePc
<1>5. CASE ExecutionAdmits(p) \/ ExecutionMisses(p)
  BY <1>1, <1>2, <1>5, ProposedMoves DEF ExecutionAdmits, ExecutionMisses, Goto, ProposedPc
<1>6. ASSUME pc'[p] = "prepare", turn' = turn, Terminal(turn[p].retrieval)',
             executions'[turn[p].retrieval].pkg = turn[p].pkg, Coherent(turn[p].pkg)
      PROVE  Backed(p)'
  BY <1>2, <1>3, <1>6 DEF Backed, Retrieved, Terminal, Done, Coherent, PackagedPc, ProposedPc, EvidencePc
<1>7. CASE ExecutionReplays(p)
  <2>1. pc'[p] = "prepare" /\ turn' = turn /\ executions' = executions
    BY <1>1, <1>7 DEF ExecutionReplays, Goto, storeVars
  <2>2. /\ Terminal(turn[p].retrieval) /\ executions[turn[p].retrieval].pkg = turn[p].pkg
        /\ Coherent(turn[p].pkg)
    BY <1>1, <1>7 DEF ExecutionReplays, ExecutionReplayable, Trusts, VerifiedPc, PackagedPc, ProposedPc
  <2> QED
    BY <1>6, <2>1, <2>2 DEF Terminal
<1>8. CASE ExecutionClaims(p)
  <2>1. pc'[p] = "exec_run" /\ turn' = turn
    BY <1>1, <1>8 DEF ExecutionClaims, Goto
  <2>2. executions'[turn[p].retrieval].pkg = turn[p].pkg
    BY <1>1, <1>2, <1>8 DEF ExecutionClaims, Inv, TypeOK, StoreTypeOK
  <2> QED
    BY <1>2, <1>3, <2>1, <2>2 DEF Backed, PackagedPc, ProposedPc, EvidencePc
<1>9. CASE \/ ExecutionSucceeds(p) \/ ExecutionSurfaceFails(p)
           \/ ExecutionPackageChanged(p) \/ ExecutionFailsTwice(p)
  <2>1. PICK outcome : turn' = [turn EXCEPT ![p].outcome = outcome]
    BY <1>9 DEF ExecutionSucceeds, ExecutionSurfaceFails, ExecutionPackageChanged,
                ExecutionFailsTwice, Decides
  <2>2. /\ pc[p] = "exec_run" /\ pc'[p] = "exec_run" /\ executions' = executions
        /\ turn'[p].router = turn[p].router /\ turn'[p].retrieval = turn[p].retrieval
        /\ turn'[p].pkg = turn[p].pkg
    BY <1>1, <1>9, <2>1 DEF ExecutionSucceeds, ExecutionSurfaceFails, ExecutionPackageChanged,
                            ExecutionFailsTwice, Decides, Turn, storeVars
  <2> QED
    BY <1>1, <1>2, <1>3, <2>2 DEF Backed, PackagedPc, ProposedPc, EvidencePc
<1>10. CASE ExecutionCommits(p)
  <2>1. pc[p] = "exec_run" /\ pc'[p] = "prepare" /\ turn' = turn
    BY <1>1, <1>10 DEF ExecutionCommits, Finish, Goto
  <2>2. /\ executions[turn[p].retrieval] \in Execution /\ turn[p].outcome \in Outcome
        /\ executions[turn[p].retrieval].pkg = turn[p].pkg /\ Coherent(turn[p].pkg)
    BY <1>1, <1>2, <1>10, <2>1 DEF ExecutionCommits, Finish, LocalsOf, Executing, Inv, TypeOK, StoreTypeOK,
                                   Turn, Backed, Trusts, VerifiedPc, PackagedPc, ProposedPc
  <2>3. executions'[turn[p].retrieval] =
          [executions[turn[p].retrieval] EXCEPT !.status = turn[p].outcome.status,
                                                !.failure = turn[p].outcome.failure]
    BY <1>2, <1>10, <1>1 DEF ExecutionCommits, Finish, Inv, TypeOK, StoreTypeOK
  <2>4. /\ executions'[turn[p].retrieval] \in Execution
        /\ executions'[turn[p].retrieval].pkg = turn[p].pkg
        /\ executions'[turn[p].retrieval].status # "running"
    BY <2>2, <2>3 DEF Execution, Outcome, Failure
  <2>5. Terminal(turn[p].retrieval)'
    BY <2>1, <2>4, StoreAssumption DEF Terminal
  <2> QED
    BY <1>6, <2>1, <2>2, <2>4, <2>5 DEF Terminal
<1> QED
  BY <1>4, <1>5, <1>7, <1>8, <1>9, <1>10 DEF ExecutionStep

(* The answer a turn with evidence finds or claims stands on its own       *)
(* retrieval, because a router run has one.                                *)
LEMMA SynthesisBacked ==
  ASSUME BackedInv, [Next]_vars, NEW p \in Proc, SynthesisStep(p)
  PROVE  Backed(p)'
<1>1. /\ pc \in [Proc -> Pc] /\ turn \in [Proc -> Turn] /\ Backed(p) /\ LocalsOf(p)
      /\ Inv /\ Frozen /\ AnswerInv
  BY StepFreezes DEF BackedInv, ServeInv, EvidenceInv, Inv, TypeOK, ProcTypeOK, LocalsMatchStore
<1>2. CASE SynthesisRefused(p) \/ SynthesisFails(p)
  BY <1>1, <1>2 DEF SynthesisRefused, SynthesisFails, Raise, Leave, Goto, Backed, PackagedPc, ProposedPc,
                    EvidencePc
<1>3. CASE AnswerMisses(p)
  <2>1. /\ pc[p] = "lookup" /\ turn[p].pkg = None /\ turn' = turn /\ runs' = runs
        /\ pc'[p] = IF runs[turn[p].router].output = "direct" THEN "synthesize" ELSE "package"
    BY <1>1, <1>3 DEF AnswerMisses, Goto, Backed, storeVars
  <2>2. turn[p].router \in RunId /\ Done(turn[p].router, "router")
    BY <1>1, <2>1 DEF LocalsOf, RoutedPc, Pc, FreePc
  <2>3. runs[turn[p].router].output \in Route
    BY <1>1, <2>2, RowTyped DEF Done, Inv, TypeOK, RowShape, OutputOf
  <2> QED
    BY <2>1, <2>3 DEF Backed, Route, PackagedPc, ProposedPc, EvidencePc
<1>4. ASSUME pc[p] \in {"synthesize", "synth_call"}, turn[p].pkg # None
      PROVE  /\ turn[p].router \in RunId /\ Done(turn[p].router, "router")
             /\ Coherent(turn[p].pkg) /\ runs[turn[p].router].output = "semantic"
             /\ Retrieved(turn[p].router, turn[p].retrieval, turn[p].pkg)
             /\ runs'[turn[p].router].output = "semantic"
  <2>1. turn[p].router \in RunId /\ Done(turn[p].router, "router")
    BY <1>1, <1>4 DEF LocalsOf, RoutedPc, Pc, FreePc, OwningPc, CallPc
  <2>2. runs'[turn[p].router] = runs[turn[p].router]
    BY <1>1, <2>1 DEF Done, Frozen, Settled
  <2> QED
    BY <1>1, <1>4, <2>1, <2>2 DEF Backed, EvidencePc
<1>5. ASSUME pc[p] \in {"synthesize", "synth_call"}, pc'[p] \in {"synth_call", "returned"},
             turn'[p].router = turn[p].router, turn'[p].retrieval = turn[p].retrieval,
             turn'[p].pkg = turn[p].pkg,
             turn[p].pkg # None /\ pc'[p] = "synth_call" => runs'[turn'[p].run].parent = turn[p].retrieval,
             turn[p].pkg # None /\ pc'[p] = "returned" => runs'[turn'[p].answer].parent = turn[p].retrieval
      PROVE  Backed(p)'
  <2>1. PICK router, r, pkg : router = turn[p].router /\ r = turn[p].retrieval /\ pkg = turn[p].pkg
    OBVIOUS
  <2>2. Retrieved(router, r, pkg) => Retrieved(router, r, pkg)'
    BY <1>1, RetrievedStays
  <2>3. /\ (Retrieved(turn[p].router, turn[p].retrieval, turn[p].pkg))'
              <=> Retrieved(router, r, pkg)'
        /\ Coherent(turn[p].pkg)' <=> Coherent(turn[p].pkg)
    BY <1>5, <2>1 DEF Retrieved, Coherent
  <2> QED
    BY <1>4, <1>5, <2>1, <2>2, <2>3 DEF Backed, PackagedPc, ProposedPc, EvidencePc
<1>6. CASE SynthesisClaim(p)
  <2>1. FreshId \in RunId /\ runs[FreshId] = None /\ \A r \in RunId \ {FreshId} : runs'[r] = runs[r]
    BY <1>1, <1>6, ClaimIsGrounded
  <2>2. runs'[FreshId].parent = SynthesisParent(p)
    BY <1>1, <1>6, <2>1 DEF SynthesisClaim, InsertRun, NewRun, Inv, TypeOK, StoreTypeOK, RunsTypeOK
  <2>3. /\ pc[p] = "synthesize" /\ pc'[p] = "synth_call" /\ turn'[p].run = FreshId
        /\ turn'[p].router = turn[p].router
        /\ turn'[p].retrieval = turn[p].retrieval /\ turn'[p].pkg = turn[p].pkg
    BY <1>1, <1>6, <2>1 DEF SynthesisClaim, Goto, Turn
  <2>4. turn[p].pkg # None => SynthesisParent(p) = turn[p].retrieval
    BY <1>4, <2>3 DEF SynthesisParent
  <2> QED
    BY <1>5, <2>2, <2>3, <2>4
<1>7. CASE AnswerReplay(p)
  <2>1. PICK s \in RunId : /\ AnswerReplayable(turn[p].router, turn[p].conv, s)
                           /\ turn' = [turn EXCEPT ![p].answer = s]
    BY <1>7 DEF AnswerReplay
  <2>2. /\ pc'[p] = "returned" /\ turn'[p].answer = s /\ turn'[p].router = turn[p].router
        /\ turn'[p].retrieval = turn[p].retrieval /\ turn'[p].pkg = turn[p].pkg /\ runs' = runs
    BY <1>1, <1>7, <2>1 DEF AnswerReplay, Goto, Turn, storeVars
  <2>3. CASE pc[p] = "lookup"
    BY <1>1, <2>2, <2>3 DEF Backed, PackagedPc, ProposedPc, EvidencePc
  <2>4. CASE pc[p] = "synthesize"
    <3>1. ASSUME turn[p].pkg # None PROVE runs[s].parent = turn[p].retrieval
      <4>1. RetrievalOf(turn[p].router, runs[s].parent)
        BY <1>4, <2>1, <2>4, <3>1 DEF AnswerReplayable, AnswerReadable, ParentValid
      <4>2. runs[s] # None
        BY <2>1 DEF AnswerReplayable, Replays, Attempts
      <4>3. runs[s].parent \in RunId
        BY <1>1, <4>1, <4>2, RowTyped DEF RetrievalOf, Inv, TypeOK, Run
      <4> QED
        BY <1>1, <1>4, <2>4, <3>1, <4>1, <4>3, OneProposal DEF RetrievalOf, Retrieved, Done, AnswerInv
    <3> QED
      BY <1>5, <2>2, <2>4, <3>1
  <2> QED
    BY <1>7, <2>3, <2>4 DEF AnswerReplay
<1>8. CASE SynthesisCompletes(p)
  <2>1. turn[p].run \in RunId /\ runs[turn[p].run] \in Run /\ pc[p] = "synth_call"
    BY <1>1, <1>8, OwnRun DEF SynthesisCompletes, OwningPc, CallPc
  <2>2. runs'[turn[p].run].parent = runs[turn[p].run].parent
    BY <1>1, <1>8, <2>1 DEF SynthesisCompletes, CompleteRun, Run, Inv, TypeOK, StoreTypeOK, RunsTypeOK
  <2>3. /\ pc'[p] = "returned" /\ turn'[p].answer = turn[p].run /\ turn'[p].router = turn[p].router
        /\ turn'[p].retrieval = turn[p].retrieval /\ turn'[p].pkg = turn[p].pkg
    BY <1>1, <1>8 DEF SynthesisCompletes, Goto, Turn
  <2> QED
    BY <1>1, <1>5, <2>1, <2>2, <2>3 DEF Backed
<1> QED
  BY <1>2, <1>3, <1>6, <1>7, <1>8 DEF SynthesisStep

LEMMA OtherBacked ==
  ASSUME BackedInv, [Next]_vars, NEW p \in Proc,
         \/ PackageLoads(p) \/ PackageVerified(p) \/ PackageRejected(p) \/ EvidencePrepared(p)
         \/ EvidenceRefused(p) \/ StageRaises(p) \/ ReturnAnswer(p) \/ MarkFailed(p)
         \/ Fault(p) \/ \E c \in Conversation : BeginTurn(p, c)
  PROVE  Backed(p)'
<1>1. /\ pc \in [Proc -> Pc] /\ turn \in [Proc -> Turn] /\ Backed(p)
  BY DEF BackedInv, EvidenceInv, Inv, TypeOK, ProcTypeOK
<1>2. CASE \/ PackageRejected(p) \/ EvidenceRefused(p) \/ StageRaises(p) \/ ReturnAnswer(p)
           \/ MarkFailed(p) \/ Fault(p)
  BY <1>1, <1>2 DEF PackageRejected, EvidenceRefused, StageRaises, ReturnAnswer, MarkFailed, Fault,
                    MarkLost, ExecutionAbandons, Crash, Raise, Leave, Goto, Backed, PackagedPc,
                    ProposedPc, EvidencePc
<1>3. CASE PackageLoads(p) \/ PackageVerified(p)
  BY <1>1, <1>3 DEF PackageLoads, PackageVerified, Goto, Turn, storeVars, Backed, PackagedPc, ProposedPc,
                    EvidencePc
<1>4. CASE EvidencePrepared(p)
  BY <1>1, <1>4 DEF EvidencePrepared, Goto, storeVars, Backed, Retrieved, Done, Terminal, Coherent,
                    PackagedPc, ProposedPc, EvidencePc
<1>5. CASE \E c \in Conversation : BeginTurn(p, c)
  BY <1>1, <1>5 DEF BeginTurn, Goto, NoTurn, Backed, PackagedPc, ProposedPc, EvidencePc
<1> QED
  BY <1>2, <1>3, <1>4, <1>5

LEMMA BackedStep == BackedInv /\ [Next]_vars => \A p \in Proc : Backed(p)'
<1> SUFFICES ASSUME BackedInv, [Next]_vars, NEW p \in Proc PROVE Backed(p)'
  OBVIOUS
<1>1. Inv /\ pc \in [Proc -> Pc] /\ turn \in [Proc -> Turn]
  BY DEF BackedInv, EvidenceInv, Inv, TypeOK, ProcTypeOK
<1>2. ASSUME NEW q \in Proc \ {p}, (\E c \in Conversation : BeginTurn(q, c)) \/ Step(q) \/ Fault(q)
      PROVE  pc'[p] = pc[p] /\ turn'[p] = turn[p]
  BY <1>1, <1>2, StepIsLocal DEF OnlyLocalsOf, Fault, MarkLost, ExecutionAbandons, Crash, Raise, Leave, Goto
<1>3. CASE Operator \/ UNCHANGED vars
  <2>1. pc' = pc /\ turn' = turn
    BY <1>3 DEF Operator, vars, procVars
  <2> QED
    BY <2>1, BackedStays
<1>4. CASE (\E c \in Conversation : BeginTurn(p, c)) \/ Step(p) \/ Fault(p)
  BY <1>4, RouterBacked, InferBacked, ConformBacked, ExecutionBacked, SynthesisBacked, OtherBacked
     DEF Step
<1> QED
  BY <1>2, <1>3, <1>4, BackedStays DEF Next

(* A turn answers from the build it verified: the execution it prepared    *)
(* evidence from ran over that very build, whoever ran it, and the answer  *)
(* it claims or returns stands on that execution, whoever wrote it.        *)
THEOREM EvidenceIsAlwaysOfVerifiedBuild == Spec => []EvidenceOfVerifiedBuild
<1>1. Init => BackedInv
  BY InitInv, AuthorityInit, AnswerInit
     DEF Init, StoreInit, ProcInit, BackedInv, ServeInv, AnswerInv, Serves, EvidenceInv, Admitted,
         Trusts, Backed, VerifiedPc, PackagedPc, ProposedPc, ClearedPc, EvidencePc
<1>2. BackedInv /\ [Next]_vars => BackedInv'
  BY NextInv, AnswerStep, ServeStep, EvidenceStep, BackedStep DEF BackedInv, ServeInv, EvidenceInv
<1>3. BackedInv => EvidenceOfVerifiedBuild
  BY DEF BackedInv, Backed, Retrieved, EvidenceOfVerifiedBuild
<1> QED
  BY <1>1, <1>2, <1>3, PTL DEF Spec

-------------------------------------------------------------------------------
(* The mapped state: the threads with lanes for runs.  Lanes come from a   *)
(* bounded set because only append_message writes user messages.           *)
History == [c \in Conversation |-> [i \in 1 .. Len(thread[c]) |-> AsLedgerMessage(thread[c][i])]]

UsersFit ==
  \A c \in Conversation : \A i \in 1 .. Len(thread[c]) : thread[c][i].role = "user" => i <= MaxMessages

LanesFit == \A r \in RunId : runs[r] # None => LaneOf(runs[r]) \in LedgerLane

LedgerInv == AnswerInv /\ UsersFit /\ LanesFit

-------------------------------------------------------------------------------
(* The lanes before and after a step that moves one row.                   *)
LEMMA SameLanes ==
  ASSUME NEW status, runs' = runs
  PROVE  LanesWith(status)' = LanesWith(status)
BY DEF LanesWith

LEMMA ClaimedLanes ==
  ASSUME NEW r \in RunId, Claims(r), \A s \in RunId \ {r} : runs'[s] = runs[s]
  PROVE  /\ LanesWith("running")' = LanesWith("running") \cup {LaneOf(runs'[r])}
         /\ LanesWith("succeeded")' = LanesWith("succeeded")
         /\ LaneOf(runs'[r]) \notin LanesWith("running") \cup LanesWith("succeeded")
<1>1. \A s \in RunId : s # r => runs'[s] = runs[s]
  OBVIOUS
<1>2. runs[r] = None /\ runs'[r] # None /\ runs'[r].status = "running"
  BY DEF Claims
<1>3. LanesWith("running")' = LanesWith("running") \cup {LaneOf(runs'[r])}
  BY <1>1, <1>2 DEF LanesWith
<1>4. LanesWith("succeeded")' = LanesWith("succeeded")
  BY <1>1, <1>2 DEF LanesWith
<1>5. LaneOf(runs'[r]) \notin LanesWith("running") \cup LanesWith("succeeded")
  BY DEF Claims, Unclaimed, Attempts, LanesWith
<1> QED
  BY <1>3, <1>4, <1>5

LEMMA FinishedLanes ==
  ASSUME OneAuthority, NEW r \in RunId, Finishes(r), \A s \in RunId \ {r} : runs'[s] = runs[s]
  PROVE  /\ LaneOf(runs[r]) \in LanesWith("running")
         /\ LanesWith("running")' = LanesWith("running") \ {LaneOf(runs[r])}
         /\ LanesWith("succeeded")' = IF runs'[r].status = "succeeded"
                                      THEN LanesWith("succeeded") \cup {LaneOf(runs[r])}
                                      ELSE LanesWith("succeeded")
<1>1. \A s \in RunId : s # r => runs'[s] = runs[s]
  OBVIOUS
<1>2. /\ runs[r] # None /\ runs[r].status = "running"
      /\ runs'[r] # None /\ runs'[r].status \in {"succeeded", "failed"}
      /\ LaneOf(runs'[r]) = LaneOf(runs[r])
  BY DEF Finishes, Running
<1>3. LaneOf(runs[r]) \in LanesWith("running")
  BY <1>2 DEF LanesWith
<1>4. \A s \in RunId : s # r /\ Held(s) => LaneOf(runs[s]) # LaneOf(runs[r])
  BY <1>2 DEF OneAuthority, Held
<1>5. LanesWith("running")' = LanesWith("running") \ {LaneOf(runs[r])}
  BY <1>1, <1>2, <1>4 DEF LanesWith, Held
<1>6. CASE runs'[r].status = "succeeded"
  BY <1>1, <1>2, <1>3, <1>5, <1>6 DEF LanesWith
<1>7. CASE runs'[r].status # "succeeded"
  BY <1>1, <1>2, <1>3, <1>5, <1>7 DEF LanesWith
<1> QED
  BY <1>6, <1>7

-------------------------------------------------------------------------------
(* A message keeps its lane: the run behind it no longer changes.          *)
LEMMA MessagesKept ==
  ASSUME Inv, Inv', Frozen, AnswersMatchRuns,
         NEW c \in Conversation, NEW i \in 1 .. Len(thread[c])
  PROVE  (AsLedgerMessage(thread[c][i]))' = AsLedgerMessage(thread[c][i])
<1>1. thread'[c][i] = thread[c][i] /\ thread[c][i] \in Message
  BY PrefixKeeps
<1>2. CASE thread[c][i].run = None
  BY <1>1, <1>2 DEF AsLedgerMessage
<1>3. CASE thread[c][i].run # None
  <2>1. thread[c][i].run \in RunId
    BY <1>1, <1>3 DEF Message
  <2>2. runs'[thread[c][i].run] = runs[thread[c][i].run]
    BY <1>3, <2>1 DEF AnswersMatchRuns, Answers, Frozen, Settled
  <2> QED
    BY <1>1, <2>2 DEF AsLedgerMessage
<1> QED
  BY <1>2, <1>3

LEMMA SameHistory ==
  ASSUME Inv, Inv', Frozen, AnswersMatchRuns, thread' = thread
  PROVE  History' = History
<1>1. ASSUME NEW c \in Conversation
      PROVE  [i \in 1 .. Len(thread[c]) |-> AsLedgerMessage(thread[c][i])]' =
             [i \in 1 .. Len(thread[c]) |-> AsLedgerMessage(thread[c][i])]
  <2>1. \A i \in 1 .. Len(thread[c]) :
          (AsLedgerMessage(thread[c][i]))' = AsLedgerMessage(thread[c][i])
    BY MessagesKept
  <2> QED
    BY <2>1
<1> QED
  BY <1>1 DEF History

LEMMA InLonger ==
  ASSUME NEW n \in Nat, NEW f, NEW g, \A i \in 1 .. n : g[i] = f[i]
  PROVE  \A i \in 1 .. n : f[i] \in {g[k] : k \in 1 .. n + 1}
<1> SUFFICES ASSUME NEW i \in 1 .. n PROVE f[i] \in {g[k] : k \in 1 .. n + 1}
  OBVIOUS
<1>1. i \in 1 .. n + 1 /\ g[i] = f[i]
  OBVIOUS
<1> QED
  BY <1>1

(* A function that goes one further is the sequence with one more.         *)
LEMMA OneMore ==
  ASSUME NEW n \in Nat, NEW S, NEW f \in [1 .. n -> S], NEW g \in [1 .. n + 1 -> S],
         \A i \in 1 .. n : g[i] = f[i]
  PROVE  g = Append(f, g[n + 1]) /\ Len(f) = n
<1>1. f \in Seq(S) /\ Len(f) = n
  OBVIOUS
<1>2. g \in Seq(S) /\ Len(g) = n + 1 /\ g[n + 1] \in S
  OBVIOUS
<1>3. /\ Append(f, g[n + 1]) \in Seq(S) /\ Len(Append(f, g[n + 1])) = n + 1
      /\ \A i \in 1 .. n : Append(f, g[n + 1])[i] = f[i]
      /\ Append(f, g[n + 1])[n + 1] = g[n + 1]
  BY <1>1, <1>2
<1>4. \A i \in 1 .. n + 1 : Append(f, g[n + 1])[i] = g[i]
  <2> SUFFICES ASSUME NEW i \in 1 .. n + 1 PROVE Append(f, g[n + 1])[i] = g[i]
    OBVIOUS
  <2>1. CASE i = n + 1
    BY <1>3, <2>1
  <2>2. CASE i \in 1 .. n
    BY <1>3, <2>2
  <2> QED
    BY <2>1, <2>2
<1>5. g = Append(f, g[n + 1])
  BY <1>2, <1>3, <1>4, SeqEqual
<1> QED
  BY <1>1, <1>5

LEMMA GrownHistory ==
  ASSUME Inv, Inv', Frozen, AnswersMatchRuns, NEW c \in Conversation, NEW m \in Message,
         thread' = [thread EXCEPT ![c] = Append(@, m)]
  PROVE  /\ History' = [History EXCEPT ![c] = Append(@, AsLedgerMessage(m)')]
         /\ Len(History[c]) = Len(thread[c])
<1> DEFINE n == Len(thread[c])
           f == [i \in 1 .. Len(thread[c]) |-> AsLedgerMessage(thread[c][i])]
           g == f'
<1>1. thread[c] \in Seq(Message) /\ n \in Nat /\ thread'[c] = Append(thread[c], m)
      /\ \A d \in Conversation \ {c} : thread'[d] = thread[d]
  BY DEF Inv, TypeOK, StoreTypeOK
<1>2. Len(thread'[c]) = n + 1 /\ thread'[c][n + 1] = m
  BY <1>1
<1>3. g = [i \in 1 .. n + 1 |-> g[i]] /\ f = [i \in 1 .. n |-> f[i]]
  BY <1>2
<1>4. g[n + 1] = AsLedgerMessage(m)'
  BY <1>1, <1>2 DEF AsLedgerMessage
<1>5. ASSUME NEW i \in 1 .. n PROVE g[i] = f[i]
  <2>1. (AsLedgerMessage(thread[c][i]))' = AsLedgerMessage(thread[c][i])
    BY MessagesKept
  <2> QED
    BY <1>1, <1>2, <2>1
<1>6. History'[c] = g /\ History[c] = f
  BY DEF History
<1>7. ASSUME NEW d \in Conversation \ {c} PROVE History'[d] = History[d]
  <2>1. \A i \in 1 .. Len(thread[d]) :
          (AsLedgerMessage(thread[d][i]))' = AsLedgerMessage(thread[d][i])
    BY MessagesKept
  <2> QED
    BY <1>1, <2>1 DEF History
<1>8. History = [d \in Conversation |-> History[d]] /\ History' = [d \in Conversation |-> History'[d]]
  BY DEF History
<1> HIDE DEF f, g, n
<1>9. g = Append(f, AsLedgerMessage(m)') /\ Len(f) = n
  <2>1. PICK k, before, after : k = n /\ before = f /\ after = g
    OBVIOUS
  <2>2. /\ k \in Nat /\ before = [i \in 1 .. k |-> before[i]] /\ after = [i \in 1 .. k + 1 |-> after[i]]
        /\ \A i \in 1 .. k : after[i] = before[i]
    BY <1>1, <1>3, <1>5, <2>1
  <2>3. PICK S : S = {after[i] : i \in 1 .. k + 1}
    OBVIOUS
  <2>4. (\A i \in 1 .. k + 1 : after[i] \in S) /\ \A i \in 1 .. k : before[i] \in S
    BY <2>1, <2>3, <1>1, <1>5, InLonger
  <2>5. before \in [1 .. k -> S] /\ after \in [1 .. k + 1 -> S]
    BY <2>2, <2>4
  <2>6. after = Append(before, after[k + 1]) /\ Len(before) = k
    BY <2>2, <2>5, OneMore
  <2> QED
    BY <1>4, <2>1, <2>6
<1> QED
  BY <1>6, <1>7, <1>8, <1>9 DEF n

-------------------------------------------------------------------------------
(* What the completion of an answer does to the store.                     *)
LEMMA CompletionSteps ==
  ASSUME Inv, Grounded, NEW p \in Proc, SynthesisCompletes(p), NEW r, r = turn[p].run
  PROVE  /\ r \in RunId /\ runs[r] # None /\ runs[r] \in Run /\ runs[r].conv \in Conversation
         /\ runs[r].kind = "synthesis" /\ runs[r].status = "running"
         /\ runs[r].trigger \in 1 .. Len(thread[runs[r].conv])
         /\ runs[r].trigger = Len(thread[runs[r].conv])
         /\ thread[runs[r].conv][runs[r].trigger].role = "user"
         /\ [role |-> "synthesis", run |-> r] \in Message
         /\ thread' = [thread EXCEPT ![runs[r].conv] = Append(@, [role |-> "synthesis", run |-> r])]
         /\ runs'[r] # None /\ runs'[r].status = "succeeded" /\ LaneOf(runs'[r]) = LaneOf(runs[r])
         /\ \A s \in RunId \ {r} : runs'[s] = runs[s]
<1>1. r \in RunId /\ Running(r) /\ runs[r] \in Run /\ runs[r].kind = "synthesis"
  BY OwnRun DEF SynthesisCompletes, OwningPc, CallPc, CallKind, Inv, LocalsMatchStore, LocalsOf
<1>2. runs[r].conv \in Conversation /\ [role |-> "synthesis", run |-> r] \in Message
  BY <1>1 DEF Run, Message, Role
<1>3. thread[runs[r].conv] \in Seq(Message)
  BY <1>2 DEF Inv, TypeOK, StoreTypeOK
<1>4. Asked(runs[r])
  BY <1>1 DEF Grounded, Running
<1>5. /\ thread[runs[r].conv] = SubSeq(thread[runs[r].conv], 1, runs[r].trigger)
      /\ runs[r].trigger \in 1 .. Len(thread[runs[r].conv])
      /\ thread[runs[r].conv][runs[r].trigger].role = "user"
  BY <1>4 DEF Asked, SynthesisCompletes, AnswersCurrent
<1>6. Len(SubSeq(thread[runs[r].conv], 1, runs[r].trigger)) = runs[r].trigger
  BY <1>3, <1>5
<1>7. thread' = [thread EXCEPT ![runs[r].conv] = Append(@, [role |-> "synthesis", run |-> r])]
  BY DEF SynthesisCompletes
<1>8. /\ runs'[r] = [runs[r] EXCEPT !.status = "succeeded", !.output = None,
                                    !.produced = Len(thread[runs[r].conv]) + 1]
      /\ \A s \in RunId \ {r} : runs'[s] = runs[s]
  BY <1>1 DEF SynthesisCompletes, CompleteRun, Inv, TypeOK, StoreTypeOK, RunsTypeOK
<1>9. /\ runs'[r].status = "succeeded" /\ runs'[r].kind = runs[r].kind
      /\ runs'[r].parent = runs[r].parent /\ runs'[r].conv = runs[r].conv
      /\ runs'[r].trigger = runs[r].trigger
  BY <1>1, <1>8 DEF Run
<1>10. LaneOf(runs'[r]) = LaneOf(runs[r])
  BY <1>9 DEF LaneOf
<1>11. runs'[r] # None
  <2>1. Len(thread[runs[r].conv]) + 1 \in Nat
    BY <1>3
  <2>2. runs'[r] \in Run
    BY <1>1, <1>8, <2>1 DEF Run, Status
  <2> QED
    BY <2>2, StoreAssumption
<1> QED
  BY <1>1, <1>2, <1>5, <1>6, <1>7, <1>8, <1>9, <1>10, <1>11 DEF Running

LEMMA UsersFitStep ==
  ASSUME Inv, Inv', Grounded, UsersFit, [Next]_vars
  PROVE  UsersFit'
<1>1. ASSUME NEW c \in Conversation, NEW m \in Message, m.role = "user" => Len(thread[c]) < MaxMessages,
             thread' = [thread EXCEPT ![c] = Append(@, m)]
      PROVE  UsersFit'
  <2> SUFFICES ASSUME NEW d \in Conversation, NEW i \in 1 .. Len(thread'[d]), thread'[d][i].role = "user"
               PROVE  i <= MaxMessages
    BY DEF UsersFit
  <2>1. thread[d] \in Seq(Message) /\ thread[c] \in Seq(Message) /\ MaxMessages \in Nat
    BY StoreAssumption DEF Inv, TypeOK, StoreTypeOK
  <2>2. CASE d # c
    BY <1>1, <2>2 DEF UsersFit, Inv, TypeOK, StoreTypeOK
  <2>3. CASE d = c
    <3>1. thread'[c] = Append(thread[c], m)
      BY <1>1 DEF Inv, TypeOK, StoreTypeOK
    <3>2. CASE i \in 1 .. Len(thread[c])
      BY <2>1, <2>3, <3>1, <3>2 DEF UsersFit
    <3>3. CASE i = Len(thread[c]) + 1
      BY <1>1, <2>1, <2>3, <3>1, <3>3
    <3> QED
      BY <2>1, <2>3, <3>1, <3>2, <3>3
  <2> QED
    BY <2>2, <2>3
<1>2. ASSUME NEW p \in Proc, SynthesisCompletes(p) PROVE UsersFit'
  <2>1. PICK r : r = turn[p].run
    OBVIOUS
  <2> DEFINE m == [role |-> "synthesis", run |-> r]
  <2>2. /\ runs[r].conv \in Conversation /\ m \in Message
        /\ thread' = [thread EXCEPT ![runs[r].conv] = Append(@, m)]
    BY <1>2, <2>1, CompletionSteps
  <2>3. PICK c \in Conversation : c = runs[r].conv
    BY <2>2
  <2>4. m.role # "user"
    OBVIOUS
  <2> HIDE DEF m
  <2> QED
    BY <1>1, <2>2, <2>3, <2>4
<1>3. ASSUME NEW c \in Conversation, NEW role \in Role, AppendMessage(c, role) PROVE UsersFit'
  <2>1. [role |-> role, run |-> None] \in Message
    BY DEF Message
  <2> QED
    BY <1>1, <1>3, <2>1 DEF AppendMessage
<1>4. thread' = thread => UsersFit'
  BY DEF UsersFit
<1> QED
  BY <1>2, <1>3, <1>4, WhoWrites

LEMMA LanesFitStep ==
  ASSUME Inv, Inv', UsersFit, LanesFit, OneRowMoves
  PROVE  LanesFit'
<1>1. ASSUME NEW r \in RunId, Claims(r) PROVE LaneOf(runs'[r]) \in LedgerLane
  <2>1. PICK row \in Run : row = runs'[r] /\ RowShape(row)
    BY <1>1, RowTyped DEF Claims, Inv, TypeOK, StoreTypeOK, RunsTypeOK
  <2>2. CASE row.kind = "inference"
    BY <2>1, <2>2 DEF LaneOf, LedgerLane, RowShape, Run
  <2>3. CASE row.kind # "inference"
    <3>1. row.conv \in Conversation /\ row.kind \in {"router", "synthesis"}
      BY <2>1, <2>3 DEF Run, Kind
    <3>2. row.trigger \in Position
      <4>1. CASE row.trigger \in UserPositions(row.conv)
        <5>1. row.trigger \in Nat /\ row.trigger <= MaxMessages /\ row.trigger >= 1 /\ MaxMessages \in Nat
          BY <3>1, <4>1, StoreAssumption DEF UsersFit, UserPositions, Inv, TypeOK, StoreTypeOK
        <5> QED
          BY <5>1 DEF Position
      <4>2. ASSUME NEW s \in RunId, Done(s, "router"), runs[s].trigger = row.trigger
            PROVE  row.trigger \in Position
        BY <4>2 DEF LanesFit, LedgerLane, LaneOf, Done
      <4> QED
        BY <1>1, <2>1, <4>1, <4>2 DEF Claims, Placed
    <3> QED
      BY <2>1, <2>3, <3>1, <3>2 DEF LaneOf, LedgerLane
  <2> QED
    BY <2>2, <2>3
<1>2. ASSUME NEW r \in RunId, Finishes(r) PROVE LaneOf(runs'[r]) \in LedgerLane
  BY <1>2 DEF Finishes, Running, LanesFit
<1> QED
  BY <1>1, <1>2 DEF OneRowMoves, LanesFit

LEMMA LedgerInvStep == LedgerInv /\ [Next]_vars => LedgerInv'
<1> SUFFICES ASSUME LedgerInv, [Next]_vars PROVE LedgerInv'
  OBVIOUS
<1>1. AnswerInv'
  BY AnswerStep DEF LedgerInv
<1>2. UsersFit'
  BY <1>1, UsersFitStep DEF LedgerInv, AnswerInv
<1>3. LanesFit'
  BY <1>1, LanesFitStep, RunsMove DEF LedgerInv, AnswerInv
<1> QED
  BY <1>1, <1>2, <1>3 DEF LedgerInv

-------------------------------------------------------------------------------
(* Each step is a step of the ledger, or none.                             *)
LEMMA AnswerIsLedgerStep ==
  ASSUME LedgerInv, LedgerInv', Frozen, NEW p \in Proc, SynthesisCompletes(p)
  PROVE  Ledger!Next
<1>1. PICK r : r = turn[p].run
  OBVIOUS
<1>2. Inv /\ Inv' /\ Grounded /\ OneAuthority /\ AnswersMatchRuns /\ AnswersMatchRuns'
  BY DEF LedgerInv, AnswerInv
<1>3. PICK c \in Conversation, t \in Nat : c = runs[r].conv /\ t = runs[r].trigger
  BY <1>1, <1>2, CompletionSteps DEF Run
<1> DEFINE m == [role |-> "synthesis", run |-> r]
           lane == <<"synthesis", <<c, t>>>>
<1>4. /\ r \in RunId /\ runs[r] # None /\ runs[r].kind = "synthesis" /\ runs[r].status = "running"
      /\ t \in 1 .. Len(thread[c]) /\ t = Len(thread[c]) /\ thread[c][t].role = "user"
      /\ m \in Message /\ thread' = [thread EXCEPT ![c] = Append(@, m)]
      /\ runs'[r] # None /\ runs'[r].status = "succeeded" /\ LaneOf(runs'[r]) = LaneOf(runs[r])
      /\ \A s \in RunId \ {r} : runs'[s] = runs[s]
  BY <1>1, <1>2, <1>3, CompletionSteps
<1>5. LaneOf(runs[r]) = lane
  BY <1>3, <1>4 DEF LaneOf
<1>6. /\ lane \in LanesWith("running")
      /\ LanesWith("running")' = LanesWith("running") \ {lane}
      /\ LanesWith("succeeded")' = LanesWith("succeeded") \cup {lane}
  <2>1. Finishes(r)
    BY <1>4 DEF Finishes, Running
  <2> QED
    BY <1>2, <1>4, <1>5, <2>1, FinishedLanes
<1>7. /\ History' = [History EXCEPT ![c] = Append(@, AsLedgerMessage(m)')]
      /\ Len(History[c]) = Len(thread[c])
  BY <1>2, <1>4, GrownHistory
<1>8. AsLedgerMessage(m)' = [role |-> "synthesis", lane |-> lane]
  BY <1>4, <1>5, StoreAssumption DEF AsLedgerMessage
<1>9. History[c][t].role = "user"
  BY <1>4 DEF History, AsLedgerMessage
<1>10. Ledger!Answer(c, t)
  <2>1. /\ lane \in LanesWith("running")
        /\ Len(History[c]) = t /\ History[c][t].role = "user"
        /\ LanesWith("running")' = LanesWith("running") \ {lane}
        /\ LanesWith("succeeded")' = LanesWith("succeeded") \cup {lane}
        /\ History' = [History EXCEPT ![c] = Append(@, [role |-> "synthesis", lane |-> lane])]
    BY <1>4, <1>6, <1>7, <1>8, <1>9
  <2> QED
    BY <2>1 DEF History, Ledger!Answer
<1>11. t \in 1 .. Len(History[c])
  BY <1>4, <1>7
<1> QED
  BY <1>10, <1>11 DEF History, Ledger!Next

LEMMA SayIsLedgerStep ==
  ASSUME LedgerInv, LedgerInv', Frozen, NEW c \in Conversation, NEW role \in Role, AppendMessage(c, role)
  PROVE  Ledger!Next
<1> DEFINE m == [role |-> role, run |-> None]
<1>1. m \in Message /\ thread' = [thread EXCEPT ![c] = Append(@, m)] /\ runs' = runs
  BY DEF Message, AppendMessage
<1>2. Inv /\ Inv' /\ AnswersMatchRuns
  BY DEF LedgerInv, AnswerInv
<1>3. History' = [History EXCEPT ![c] = Append(@, AsLedgerMessage(m)')]
  BY <1>1, <1>2, GrownHistory
<1>4. AsLedgerMessage(m)' = [role |-> role, lane |-> None]
  BY DEF AsLedgerMessage
<1>5. LanesWith("running")' = LanesWith("running") /\ LanesWith("succeeded")' = LanesWith("succeeded")
  BY <1>1, SameLanes
<1>6. Ledger!Say(c, role)
  BY <1>3, <1>4, <1>5 DEF History, Ledger!Say
<1> QED
  BY <1>6 DEF Ledger!Next, Role

LEMMA RowIsLedgerStep ==
  ASSUME LedgerInv, LedgerInv', [Next]_vars, \A p \in Proc : ~SynthesisCompletes(p), thread' = thread
  PROVE  Ledger!Next \/ UNCHANGED Ledger!ledgerVars
<1>1. Inv /\ Inv' /\ OneAuthority /\ AnswersMatchRuns /\ Frozen
  BY StepFreezes DEF LedgerInv, AnswerInv
<1>2. History' = History
  BY <1>1, SameHistory
<1>3. CASE runs' = runs
  <2>1. LanesWith("running")' = LanesWith("running") /\ LanesWith("succeeded")' = LanesWith("succeeded")
    BY <1>3, SameLanes
  <2> QED
    BY <1>2, <2>1 DEF History, Ledger!ledgerVars
<1>4. ASSUME NEW r \in RunId, Claims(r), \A s \in RunId \ {r} : runs'[s] = runs[s]
      PROVE  Ledger!Next
  <2>1. PICK lane \in LedgerLane : lane = LaneOf(runs'[r])
    BY <1>4 DEF Claims, LedgerInv, LanesFit
  <2>2. Ledger!Claim(lane)
    BY <1>2, <1>4, <2>1, ClaimedLanes DEF History, Ledger!Claim
  <2> QED
    BY <2>2 DEF Ledger!Next
<1>5. ASSUME NEW r \in RunId, Finishes(r), \A s \in RunId \ {r} : runs'[s] = runs[s]
      PROVE  Ledger!Next
  <2>1. PICK lane \in LedgerLane : lane = LaneOf(runs[r])
    BY <1>5 DEF Finishes, Running, LedgerInv, LanesFit
  <2>2. /\ lane \in LanesWith("running")
        /\ LanesWith("running")' = LanesWith("running") \ {lane}
        /\ LanesWith("succeeded")' = IF runs'[r].status = "succeeded"
                                     THEN LanesWith("succeeded") \cup {lane}
                                     ELSE LanesWith("succeeded")
    BY <1>1, <1>5, <2>1, FinishedLanes
  <2>3. CASE runs'[r].status = "succeeded"
    <3>1. runs'[r].kind # "synthesis"
      BY <1>1, <1>5, <2>3, RowSteps DEF RowStep, Finishes, Running
    <3>2. lane[1] # "synthesis"
      BY <1>5, <2>1, <3>1 DEF Finishes, LaneOf
    <3>3. Ledger!Settle(lane)
      BY <1>2, <2>2, <2>3, <3>2 DEF History, Ledger!Settle
    <3> QED
      BY <3>3 DEF Ledger!Next
  <2>4. CASE runs'[r].status # "succeeded"
    <3>1. Ledger!Release(lane)
      BY <1>2, <2>2, <2>4 DEF History, Ledger!Release
    <3> QED
      BY <3>1 DEF Ledger!Next
  <2> QED
    BY <2>3, <2>4
<1> QED
  BY <1>1, <1>3, <1>4, <1>5, RunsMove DEF OneRowMoves

(* The runtime implements the ledger of lanes, for any number of turns,    *)
(* conversations and attempts and under every fault: whatever the stages   *)
(* do, all a reader of the lanes can see is a claim, a release, a          *)
(* settlement, an answer put behind its message, or a message typed.       *)
THEOREM RuntimeIsLedger == Spec => ImplementsLedger
<1>1. Init => LedgerInv
  BY InitInv, AuthorityInit, AnswerInit
     DEF LedgerInv, AnswerInv, UsersFit, LanesFit, Init, StoreInit
<1>2. Init => Ledger!Init
  BY DEF Init, StoreInit, Ledger!Init, LanesWith
<1>3. LedgerInv /\ [Next]_vars => [Ledger!Next]_(Ledger!ledgerVars)
  <2> SUFFICES ASSUME LedgerInv, [Next]_vars
               PROVE  Ledger!Next \/ UNCHANGED Ledger!ledgerVars
    OBVIOUS
  <2>1. LedgerInv' /\ Frozen
    BY LedgerInvStep, StepFreezes DEF LedgerInv, AnswerInv
  <2>2. CASE \E p \in Proc : SynthesisCompletes(p)
    BY <2>1, <2>2, AnswerIsLedgerStep
  <2>3. CASE \A p \in Proc : ~SynthesisCompletes(p)
    <3>1. CASE thread' = thread
      BY <2>1, <2>3, <3>1, RowIsLedgerStep
    <3>2. ASSUME NEW c \in Conversation, NEW role \in Role, AppendMessage(c, role)
          PROVE  Ledger!Next
      BY <2>1, <3>2, SayIsLedgerStep
    <3> QED
      BY <2>3, <3>1, <3>2, WhoWrites DEF LedgerInv, AnswerInv
  <2> QED
    BY <2>2, <2>3
<1> QED
  BY <1>1, <1>2, <1>3, LedgerInvStep, PTL DEF Spec, ImplementsLedger, Ledger!Spec

===============================================================================
