----------------------------- MODULE TurnRuntime ------------------------------
(***************************************************************************)
(* The runtime as a whole: any number of turn processes over one store and *)
(* one build directory, an operator who appends messages and replaces      *)
(* artifacts meanwhile, and the faults a run allows.                       *)
(***************************************************************************)
EXTENDS SynthesisStage

Init == StoreInit /\ DiskInit /\ ProcInit

Step(p) ==
  \/ RouterStep(p) \/ InferStep(p) \/ ConformStep(p) \/ ExecutionStep(p)
  \/ PackageLoads(p) \/ PackageVerified(p) \/ PackageRejected(p)
  \/ EvidencePrepared(p) \/ EvidenceRefused(p) \/ SynthesisStep(p)
  \/ MarkFailed(p) \/ StageRaises(p) \/ ReturnAnswer(p)

Fault(p) == MarkLost(p) \/ ExecutionAbandons(p) \/ Crash(p)

Operator ==
  \/ /\ \E c \in Conversation, role \in Role : AppendMessage(c, role)
     /\ UNCHANGED <<disk, procVars>>
  \/ /\ \E v \in Version : ReplaceBuild(v) \/ ReplaceCatalog(v)
     /\ UNCHANGED <<storeVars, procVars>>

Next ==
  \/ \E p \in Proc : (\E c \in Conversation : BeginTurn(p, c)) \/ Step(p) \/ Fault(p)
  \/ Operator

Spec == Init /\ [][Next]_vars

(* A started process is scheduled until it ends, and its provider calls    *)
(* return or time out.  Nobody has to start one, type or replace anything. *)
FairSpec == Spec /\ \A p \in Proc : WF_vars(Step(p))

-------------------------------------------------------------------------------
CallKind == [router_call |-> "router", infer_call |-> "inference", synth_call |-> "synthesis"]

ProposedPc == {"conform", "conform_lookup", "conform_insert", "execute", "exec_lookup",
               "exec_claim", "exec_run", "prepare"}

TypeOK == StoreTypeOK /\ disk \in Package /\ ProcTypeOK

Running(r) == runs[r] # None /\ runs[r].status = "running"
Executing(r) == executions[r] # None /\ executions[r].status = "running"
Held(r) == runs[r] # None /\ runs[r].status \in {"running", "succeeded"}

(* However turns interleave, fail and are retried, a lane never has two    *)
(* attempts that are running or succeeded: the claim transactions of the   *)
(* router, inference and synthesis stages exclude each other and respect   *)
(* what is already durable.                                                *)
OneAuthority ==
  \A r, s \in RunId : Held(r) /\ Held(s) /\ LaneOf(runs[r]) = LaneOf(runs[s]) => r = s

RoutedPc == Pc \ {"idle", "route", "router_call", "failing"}
PackagedPc == {"verify", "infer_replay", "infer_catalog", "infer_claim", "infer_call"} \cup
              ProposedPc
Done(r, kind) == runs[r] # None /\ runs[r].kind = kind /\ runs[r].status = "succeeded"

LocalsOf(p) ==
  /\ pc[p] # "idle" => turn[p].conv \in Conversation
  /\ pc[p] \in RoutedPc =>
       /\ turn[p].router \in RunId /\ Done(turn[p].router, "router")
       /\ runs[turn[p].router].conv = turn[p].conv
  /\ pc[p] \in OwningPc =>
       /\ turn[p].run \in RunId /\ Running(turn[p].run)
       /\ runs[turn[p].run].conv = turn[p].conv
  /\ pc[p] \in CallPc => runs[turn[p].run].kind = CallKind[pc[p]]
  /\ pc[p] \in PackagedPc => turn[p].pkg \in Package
  /\ pc[p] \in {"infer_claim", "infer_call"} => turn[p].catalog \in Version
  /\ pc[p] \in ProposedPc =>
       turn[p].retrieval \in RunId /\ Done(turn[p].retrieval, "inference")
  /\ pc[p] = "exec_run" => Executing(turn[p].retrieval)
  /\ pc[p] = "returned" => turn[p].answer \in RunId

(* What a process remembers between two transactions is still true in the  *)
(* store: its claim, of a run or of an execution, is running and nobody    *)
(* else's, the router run and the proposal it carries have succeeded, and  *)
(* they belong to its conversation.                                        *)
LocalsMatchStore ==
  /\ \A p \in Proc : LocalsOf(p)
  /\ \A p, q \in Proc :
       (p # q /\ pc[p] \in OwningPc /\ pc[q] \in OwningPc) => turn[p].run # turn[q].run
  /\ \A p, q \in Proc :
       (p # q /\ pc[p] = "exec_run" /\ pc[q] = "exec_run") => turn[p].retrieval # turn[q].retrieval

(* Two processes inside a provider call are never making the same one:     *)
(* "the running claim prevents a duplicate provider call".                 *)
NoDuplicateProviderCall ==
  \A p, q \in Proc :
    (p # q /\ pc[p] \in CallPc /\ pc[q] \in CallPc) =>
      LaneOf(runs[turn[p].run]) # LaneOf(runs[turn[q].run])

Answers(r) == runs[r] # None /\ runs[r].kind = "synthesis" /\ runs[r].status = "succeeded"

(* Answer messages and succeeded synthesis runs match one to one: no       *)
(* answer without its completed run, no completed run without its answer,  *)
(* and the answer stands right behind the user message it was asked for.   *)
AnswersMatchRuns ==
  /\ \A r \in RunId : Answers(r) =>
       LET messages == thread[runs[r].conv]
       IN  /\ runs[r].produced = runs[r].trigger + 1
           /\ runs[r].produced \in 1 .. Len(messages)
           /\ messages[runs[r].produced] = [role |-> "synthesis", run |-> r]
           /\ messages[runs[r].trigger].role = "user"
  /\ \A c \in Conversation : \A i \in 1 .. Len(thread[c]) :
       LET r == thread[c][i].run
       IN  r # None => Answers(r) /\ runs[r].conv = c /\ runs[r].produced = i

(* The router run an answer or a proposal was made under.                  *)
RouterOf(r) == IF runs[runs[r].parent].kind = "router" THEN runs[r].parent
                                                       ELSE runs[runs[r].parent].parent

(* A durable answer can always be replayed: whatever is appended, replaced *)
(* or retried later, the strict reader keeps accepting it under the        *)
(* router run it was made for.                                             *)
AnswersStayReadable ==
  \A r \in RunId : Answers(r) => AnswerReplayable(RouterOf(r), runs[r].conv, r)

(* The result a turn hands to its caller is the authoritative answer of    *)
(* the conversation it was called for, durable before it is returned.      *)
ReturnedAnswerIsDurable ==
  \A p \in Proc : pc[p] = "returned" => AnswerReplayable(turn[p].router, turn[p].conv, turn[p].answer)

(* Every execution ran over a package whose catalog describes its build,   *)
(* for a proposal approved against exactly that catalog, although the      *)
(* inference stage reads the catalog again from a path anyone may rewrite. *)
EvidenceIsCoherent ==
  \A r \in RunId : executions[r] # None =>
    /\ Coherent(executions[r].pkg)
    /\ Approved(r)
    /\ executions[r].pkg.catalog = runs[r].catalog
    /\ conformance[r].catalog = runs[r].catalog

EvidencePc == {"prepare", "synthesize", "synth_call", "returned"}

(* What a turn answers from was retrieved from the very build it verified: *)
(* its execution may be the work of another turn, over a build since       *)
(* replaced by one the same catalog describes, and the answer it returns   *)
(* may be another turn's too.                                              *)
EvidenceOfVerifiedBuild ==
  \A p \in Proc : pc[p] \in EvidencePc /\ turn[p].pkg # None =>
    LET retrieval == turn[p].retrieval
    IN  /\ Coherent(turn[p].pkg)
        /\ Terminal(retrieval) /\ executions[retrieval].pkg = turn[p].pkg
        /\ pc[p] = "synth_call" => runs[turn[p].run].parent = retrieval
        /\ pc[p] = "returned" => runs[turn[p].answer].parent = retrieval

(* A running attempt or execution no live process will finish.             *)
Orphaned(r) ==
  \/ Running(r) /\ \A p \in Proc : ~(pc[p] \in OwningPc /\ turn[p].run = r)
  \/ Executing(r) /\ \A p \in Proc : ~(pc[p] = "exec_run" /\ turn[p].retrieval = r)

(* Claims have owners: but for a kill, a lost failure mark or an escaping  *)
(* exception (the faults), no step leaves a running row to nobody, so what *)
(* blocks a lane for ever is always one of them.                           *)
OnlyFaultsOrphan ==
  [][(\E p \in Proc : Fault(p)) \/ \A r \in RunId : Orphaned(r)' => Orphaned(r)]_vars

PrefixOf(s, t) == Len(s) <= Len(t) /\ s = SubSeq(t, 1, Len(s))

Settled(table, r) == table[r] # None /\ table[r].status # "running"

(* What is durable stays: no message is changed or dropped, no finished    *)
(* attempt or execution is touched again, and a verdict is for ever.       *)
HistoryIsFrozen ==
  [][ /\ \A c \in Conversation : PrefixOf(thread[c], thread'[c])
      /\ \A r \in RunId : /\ Settled(runs, r) => runs'[r] = runs[r]
                          /\ Settled(executions, r) => executions'[r] = executions[r]
                          /\ conformance[r] # None => conformance'[r] = conformance[r] ]_vars

(* The catalog shown to the model is the one that was verified: inference  *)
(* must not consume an unverified package catalog.                         *)
InferenceSeesVerifiedCatalog ==
  \A p \in Proc : pc[p] = "infer_call" => turn[p].catalog = turn[p].pkg.catalog

(* Every claim whose process lives is finished one way or the other, even  *)
(* while other lanes stay claimed for ever by what faults left behind.     *)
ClaimsResolve ==
  \A r \in RunId : /\ Running(r) ~> ~Running(r) \/ Orphaned(r)
                   /\ Executing(r) ~> ~Executing(r) \/ Orphaned(r)

(* Every invocation returns or raises; no turn waits for another.          *)
InvocationsEnd == \A p \in Proc : pc[p] # "idle" ~> pc[p] = "idle"

-------------------------------------------------------------------------------
(* The store as the ledger of lanes it implements.                         *)
Position == 1 .. MaxMessages + 1

LedgerLane ==
  ({"router", "synthesis"} \X (Conversation \X Position)) \cup ({"inference"} \X RunId)

LanesWith(status) ==
  {LaneOf(runs[r]) : r \in {x \in RunId : runs[x] # None /\ runs[x].status = status}}

AsLedgerMessage(m) ==
  [role |-> m.role, lane |-> IF m.run = None THEN None ELSE LaneOf(runs[m.run])]

Ledger == INSTANCE AttemptLedger WITH
  Lane <- LedgerLane,
  NoLane <- None,
  history <- [c \in Conversation |-> [i \in 1 .. Len(thread[c]) |-> AsLedgerMessage(thread[c][i])]],
  claimed <- LanesWith("running"),
  settled <- LanesWith("succeeded")

(* Seen through its lanes, the runtime is the attempt ledger.              *)
ImplementsLedger == Ledger!Spec
===============================================================================
