---------------------------- MODULE InferenceStage ----------------------------
(***************************************************************************)
(* infer_retrieval (runtime/retrieval/inference.py) and conform_retrieval  *)
(* (runtime/retrieval/control_plane.py): a model proposes requests against *)
(* a capability catalog, and the proposal is judged against that catalog.  *)
(***************************************************************************)
EXTENDS RouterStage

(* load_retrieval_package: the identity of what the paths hold now.        *)
PackageLoads(p) ==
  /\ pc[p] = "package"
  /\ turn' = [turn EXCEPT ![p].pkg = disk]
  /\ Goto(p, "verify")
  /\ UNCHANGED <<storeVars, disk>>

PackageVerified(p) ==
  /\ pc[p] = "verify"
  /\ Verifies(turn[p].pkg)
  /\ Goto(p, "infer_replay")
  /\ UNCHANGED <<storeVars, disk, turn>>

PackageRejected(p) == pc[p] = "verify" /\ ~Verifies(turn[p].pkg) /\ Raise(p)

-------------------------------------------------------------------------------
MayInfer(router) == AuthoritativeRouter(router) /\ runs[router].output = "semantic"

InferReplayable(router, r) == MayInfer(router) /\ Replays(InferenceLane(router), r)

(* Both transactions look for a durable proposal before anything else.     *)
InferReplay(p) ==
  /\ pc[p] \in {"infer_replay", "infer_claim"}
  /\ \E r \in RunId : /\ InferReplayable(turn[p].router, r)
                      /\ turn' = [turn EXCEPT ![p].retrieval = r]
  /\ Goto(p, "conform")
  /\ UNCHANGED <<storeVars, disk>>

InferUnclaimed(router) == MayInfer(router) /\ Unclaimed(InferenceLane(router))

InferMisses(p) ==
  /\ pc[p] = "infer_replay"
  /\ InferUnclaimed(turn[p].router)
  /\ Goto(p, "infer_catalog")
  /\ UNCHANGED <<storeVars, disk, turn>>

(* The catalog shown to the model is read from its path here, outside any  *)
(* transaction and after the package that holds it was verified.           *)
InferReadsCatalog(p) ==
  /\ pc[p] = "infer_catalog"
  /\ turn' = [turn EXCEPT ![p].catalog = disk.catalog]
  /\ Goto(p, "infer_claim")
  /\ UNCHANGED <<storeVars, disk>>

(* Slip: the second transaction trusts the lookup of the first.            *)
InferClaimableUnchecked(router) ==
  MayInfer(router) /\ IsCurrent(runs[router].conv, runs[router].trigger)

InferClaimable(router) ==
  /\ InferUnclaimed(router)
  /\ IsCurrent(runs[router].conv, runs[router].trigger)

InferClaim(p) ==
  /\ pc[p] = "infer_claim"
  /\ InferClaimable(turn[p].router)
  /\ LET router == runs[turn[p].router]
     IN  InsertRun(NewRun("inference", router.conv, router.trigger,
                          turn[p].router, turn[p].catalog, << >>))
  /\ turn' = [turn EXCEPT ![p].run = FreshId]
  /\ Goto(p, "infer_call")
  /\ UNCHANGED <<thread, conformance, executions, disk>>

(* An attempt running elsewhere, or a trigger no longer current.           *)
InferRefused(p) ==
  /\ \/ pc[p] = "infer_replay" /\ ~InferUnclaimed(turn[p].router)
     \/ pc[p] = "infer_claim" /\ ~InferClaimable(turn[p].router)
  /\ \A r \in RunId : ~InferReplayable(turn[p].router, r)
  /\ Raise(p)

(* The proposal is stored; what it will be found to be is settled by the   *)
(* catalog of the row.                                                     *)
InferCompletes(p) ==
  /\ pc[p] = "infer_call"
  /\ \E verdict \in Verdict : CompleteRun(turn[p].run, verdict, None)
  /\ turn' = [turn EXCEPT ![p] = [@ EXCEPT !.retrieval = turn[p].run, !.run = None]]
  /\ Goto(p, "conform")
  /\ UNCHANGED <<thread, conformance, executions, disk>>

InferFails(p) ==
  /\ pc[p] = "infer_call"
  /\ Goto(p, "failing")
  /\ UNCHANGED <<storeVars, disk, turn>>

InferStep(p) ==
  \/ InferReplay(p) \/ InferMisses(p) \/ InferReadsCatalog(p) \/ InferClaim(p)
  \/ InferRefused(p) \/ InferCompletes(p) \/ InferFails(p)

-------------------------------------------------------------------------------
(* The catalog on disk must be the one the proposal was made for; the run  *)
(* row no longer changes, so reading it and the file is one step.          *)
MayConform(r) ==
  /\ runs[r].kind = "inference" /\ runs[r].status = "succeeded"
  /\ disk.catalog = runs[r].catalog

ConformAdmits(p) ==
  /\ pc[p] = "conform"
  /\ MayConform(turn[p].retrieval)
  /\ Goto(p, "conform_lookup")
  /\ UNCHANGED <<storeVars, disk, turn>>

ConformRefused(p) ==
  /\ pc[p] = "conform"
  /\ ~MayConform(turn[p].retrieval)
  /\ Raise(p)

(* The verdict is recomputed on every call, from the run row alone.        *)
VerdictOn(r) == [catalog |-> runs[r].catalog, status |-> runs[r].output]

(* The turn goes on only with an approval.                                 *)
AfterVerdict(p, verdict) ==
  IF verdict \in {"valid", "partial"} THEN Goto(p, "execute") /\ UNCHANGED turn ELSE Leave(p)

ConformReplays(p) ==
  /\ pc[p] = "conform_lookup"
  /\ conformance[turn[p].retrieval] = VerdictOn(turn[p].retrieval)
  /\ AfterVerdict(p, conformance[turn[p].retrieval].status)
  /\ UNCHANGED <<storeVars, disk>>

ConformMisses(p) ==
  /\ pc[p] = "conform_lookup"
  /\ conformance[turn[p].retrieval] = None
  /\ Goto(p, "conform_insert")
  /\ UNCHANGED <<storeVars, disk, turn>>

ConformInserts(p) ==
  /\ pc[p] = "conform_insert"
  /\ conformance[turn[p].retrieval] = None
  /\ conformance' = [conformance EXCEPT ![turn[p].retrieval] = VerdictOn(turn[p].retrieval)]
  /\ AfterVerdict(p, runs[turn[p].retrieval].output)
  /\ UNCHANGED <<thread, runs, executions, disk>>

(* Another process inserted after this one looked: the UNIQUE constraint.  *)
ConformConflicts(p) ==
  /\ pc[p] = "conform_insert"
  /\ conformance[turn[p].retrieval] # None
  /\ Raise(p)

ConformStep(p) ==
  \/ ConformAdmits(p) \/ ConformRefused(p) \/ ConformReplays(p)
  \/ ConformMisses(p) \/ ConformInserts(p) \/ ConformConflicts(p)
===============================================================================
