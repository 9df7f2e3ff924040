---------------------------- MODULE ExecutionStage ----------------------------
(***************************************************************************)
(* execute_retrieval (runtime/retrieval/execution.py) as other processes   *)
(* and later stages see it, and the identity check of prepare_evidence     *)
(* (runtime/retrieval/evidence_preparation.py).  The run over the single   *)
(* requests is a decision and a commit; RequestExecution models it, and    *)
(* shows that it takes these steps only.                                   *)
(***************************************************************************)
EXTENDS InferenceStage

(* Slip: the catalog the proposal was approved for is not compared.        *)
MayExecuteUnbound(r, pkg) ==
  /\ SamePackage(pkg)
  /\ Approved(r)
  /\ runs[r].kind = "inference" /\ runs[r].status = "succeeded"
  /\ conformance[r].catalog = runs[r].catalog

(* The package still on disk, and the approval of the proposal made for    *)
(* its catalog.  The approval no longer changes: one step.                 *)
MayExecute(r, pkg) ==
  /\ SamePackage(pkg)
  /\ Approved(r)
  /\ runs[r].kind = "inference" /\ runs[r].status = "succeeded"
  /\ conformance[r].catalog = runs[r].catalog
  /\ pkg.catalog = conformance[r].catalog

ExecutionAdmits(p) ==
  /\ pc[p] = "execute"
  /\ MayExecute(turn[p].retrieval, turn[p].pkg)
  /\ Goto(p, "exec_lookup")
  /\ UNCHANGED <<storeVars, disk, turn>>

ExecutionRefused(p) ==
  /\ pc[p] = "execute"
  /\ ~MayExecute(turn[p].retrieval, turn[p].pkg)
  /\ Raise(p)

(* Slip: the approval matches, so does the catalog; the build is not asked. *)
ReplaysAnyBuild(r, pkg) == Terminal(r) /\ executions[r].pkg.catalog = pkg.catalog /\ Readable(r)

(* A finished execution over the same package is the answer.               *)
ExecutionReplayable(r, pkg) == Terminal(r) /\ executions[r].pkg = pkg /\ Readable(r)

ExecutionReplays(p) ==
  /\ pc[p] = "exec_lookup"
  /\ ExecutionReplayable(turn[p].retrieval, turn[p].pkg)
  /\ Goto(p, "prepare")
  /\ UNCHANGED <<storeVars, disk, turn>>

ExecutionMisses(p) ==
  /\ pc[p] = "exec_lookup"
  /\ executions[turn[p].retrieval] = None
  /\ Goto(p, "exec_claim")
  /\ UNCHANGED <<storeVars, disk, turn>>

(* Running elsewhere, made over another package, or unreadable.            *)
ExecutionBlocked(p) ==
  /\ pc[p] = "exec_lookup"
  /\ executions[turn[p].retrieval] # None
  /\ ~ExecutionReplayable(turn[p].retrieval, turn[p].pkg)
  /\ Raise(p)

(* Slip: the row is written over, whoever inserted it first.               *)
ExecutionReplaces(p) ==
  /\ pc[p] = "exec_claim"
  /\ executions' = [executions EXCEPT ![turn[p].retrieval] =
                      [pkg |-> turn[p].pkg, status |-> "running", failure |-> "none"]]
  /\ Goto(p, "exec_run")
  /\ UNCHANGED <<thread, runs, conformance, disk, turn>>

ExecutionClaims(p) ==
  /\ pc[p] = "exec_claim"
  /\ executions[turn[p].retrieval] = None
  /\ executions' = [executions EXCEPT ![turn[p].retrieval] =
                      [pkg |-> turn[p].pkg, status |-> "running", failure |-> "none"]]
  /\ Goto(p, "exec_run")
  /\ UNCHANGED <<thread, runs, conformance, disk, turn>>

(* Another process claimed after this one looked: the UNIQUE constraint.   *)
ExecutionConflicts(p) ==
  /\ pc[p] = "exec_claim"
  /\ executions[turn[p].retrieval] # None
  /\ Raise(p)

(* The loop over the requests and the last identity check are over: what   *)
(* this process found is still its own.                                    *)
Decides(p, status, failure) ==
  /\ pc[p] = "exec_run" /\ turn[p].outcome = None
  /\ turn' = [turn EXCEPT ![p].outcome = [status |-> status, failure |-> failure]]
  /\ UNCHANGED <<storeVars, disk, pc>>

ExecutionSucceeds(p) ==
  /\ SamePackage(turn[p].pkg)
  /\ Decides(p, IF conformance[turn[p].retrieval].status = "partial" THEN "partial"
                                                                     ELSE "succeeded", "none")

(* A failed request ends the run; the final identity check still passes.   *)
ExecutionSurfaceFails(p) == SamePackage(turn[p].pkg) /\ Decides(p, "failed", "surface")

(* An identity check, before a request or at the end, finds other bytes.   *)
ExecutionPackageChanged(p) == ~SamePackage(turn[p].pkg) /\ Decides(p, "failed", "package")

(* A request failed and then the final identity check failed too.          *)
ExecutionFailsTwice(p) == ~SamePackage(turn[p].pkg) /\ Decides(p, "failed", "both")

(* The final update of the row, whatever the paths hold by now.            *)
Finish(p) ==
  /\ pc[p] = "exec_run" /\ turn[p].outcome # None
  /\ executions' = [executions EXCEPT ![turn[p].retrieval] =
                      [@ EXCEPT !.status = turn[p].outcome.status,
                                !.failure = turn[p].outcome.failure]]
  /\ UNCHANGED <<thread, runs, conformance, disk>>

ExecutionCommits(p) ==
  /\ Finish(p) /\ turn[p].outcome.failure # "both"
  /\ Goto(p, "prepare") /\ UNCHANGED turn

(* The row is committed, and reading it back raises.                       *)
ExecutionUnreadable(p) == Finish(p) /\ turn[p].outcome.failure = "both" /\ Leave(p)

(* An exception no surface declares, an unopenable substrate or a store    *)
(* error: the row stays running.                                           *)
ExecutionAbandons(p) == "abandon" \in Faults /\ pc[p] = "exec_run" /\ Raise(p)

ExecutionStep(p) ==
  \/ ExecutionAdmits(p) \/ ExecutionRefused(p) \/ ExecutionReplays(p)
  \/ ExecutionMisses(p) \/ ExecutionBlocked(p) \/ ExecutionClaims(p)
  \/ ExecutionConflicts(p) \/ ExecutionSucceeds(p) \/ ExecutionSurfaceFails(p)
  \/ ExecutionPackageChanged(p) \/ ExecutionFailsTwice(p)
  \/ ExecutionCommits(p) \/ ExecutionUnreadable(p)

-------------------------------------------------------------------------------
(* Candidates are composed from the substrate: the identity once more, and *)
(* the execution must be of the package that was verified.                 *)
MayPrepare(r, pkg) == SamePackage(pkg) /\ executions[r].pkg = pkg

EvidencePrepared(p) ==
  /\ pc[p] = "prepare"
  /\ MayPrepare(turn[p].retrieval, turn[p].pkg)
  /\ Goto(p, "synthesize")
  /\ UNCHANGED <<storeVars, disk, turn>>

EvidenceRefused(p) ==
  pc[p] = "prepare" /\ ~MayPrepare(turn[p].retrieval, turn[p].pkg) /\ Raise(p)
===============================================================================
