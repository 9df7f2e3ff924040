--------------------------- MODULE RequestExecution ---------------------------
(***************************************************************************)
(* The inside of execute_retrieval (runtime/retrieval/execution.py) and of *)
(* the identity checks of prepare_evidence, for one approved retrieval and *)
(* the processes that reached it: the loop over the requests, what it      *)
(* persists after each of them, the two places where the package is        *)
(* compared again, and the strict reader every persisted row must pass.    *)
(* The artifacts stand for one content, and the result of a request for    *)
(* the content it was read from.  Request k has ordinal k - 1.             *)
(***************************************************************************)
EXTENDS Naturals, Sequences, FiniteSets

CONSTANTS
  Proc,         \* processes whose turn reached this retrieval
  Version,      \* contents of the build
  None,
  MaxRequests,  \* length of the longest proposal
  Restores      \* whether a replaced build may come back

VARIABLES
  requests,    \* number of requests of the proposal
  executable,  \* the requests its conformance found valid
  disk,        \* content of the build paths
  gone,        \* contents the paths held before
  row,         \* the retrieval_executions row
  pc, pkg,     \* per process: where it is, the package it loaded,
  opened,      \*   the file its substrate connection is open on,
  found,       \*   outcomes of the requests so far,
  broken       \*   execution_failure is package_identity_changed

locals == <<pc, pkg, opened, found, broken>>
vars == <<requests, executable, disk, gone, row, locals>>

Pc == {"execute", "lookup", "claim", "open", "request", "surface", "progress", "final",
       "commit", "prepare", "hydrate", "evidence", "empty", "done"}

Failure == {"none", "surface_error", "conformance_rejected", "prior_request_failed",
            "package_identity_changed"}

(* after is the failed request a prior_request_failed outcome names.       *)
Outcome == [status : {"succeeded", "failed", "not_executed"}, failure : Failure,
            after : 0 .. MaxRequests, result : Version \cup {None}]

Row == [pkg : Version, status : {"running", "succeeded", "partial", "failed"},
        outcomes : Seq(Outcome), broken : BOOLEAN]

ASSUME RequestAssumption ==
  /\ MaxRequests \in Nat /\ Restores \in BOOLEAN
  /\ None \notin Version /\ None \notin Row

TypeOK ==
  /\ requests \in 0 .. MaxRequests /\ executable \subseteq 1 .. requests
  /\ disk \in Version /\ gone \subseteq Version
  /\ row \in Row \cup {None} /\ (row # None => Len(row.outcomes) <= requests)
  /\ pc \in [Proc -> Pc] /\ pkg \in [Proc -> Version]
  /\ opened \in [Proc -> Version \cup {None}]
  /\ found \in [Proc -> Seq(Outcome)]
  /\ \A p \in Proc : Len(found[p]) <= requests
  /\ broken \in [Proc -> BOOLEAN]

(* An approval has a valid request unless the proposal is empty.  A turn   *)
(* loaded and verified what the paths held at some time before.            *)
Init ==
  /\ requests \in 0 .. MaxRequests
  /\ executable \in SUBSET (1 .. requests) /\ (executable = {} => requests = 0)
  /\ disk \in Version /\ gone \in SUBSET (Version \ {disk})
  /\ row = None
  /\ pc = [p \in Proc |-> "execute"]
  /\ pkg \in [Proc -> gone \cup {disk}]
  /\ opened = [p \in Proc |-> None]
  /\ found = [p \in Proc |-> << >>] /\ broken = [p \in Proc |-> FALSE]

-------------------------------------------------------------------------------
Goto(p, label) == pc' = [pc EXCEPT ![p] = label]

(* Slip: the file that is open is compared, not what the paths hold.       *)
SameOpen(p) == (IF opened[p] = None THEN disk ELSE opened[p]) = pkg[p]

Same(p) == disk = pkg[p]
Untouched == UNCHANGED <<requests, executable, disk, gone>>

Rejected == [status |-> "not_executed", failure |-> "conformance_rejected",
             after |-> 0, result |-> None]

(* Slip: one outcome too many.                                             *)
RestTooLong(k, failure, after) ==
  [i \in 1 .. requests - k + 1 |->
     IF k + i \notin executable THEN Rejected
     ELSE [status |-> "not_executed", failure |-> failure, after |-> after, result |-> None]]

(* The requests left when the loop stops at k: a rejected one stays        *)
(* rejected, the others name the reason.                                   *)
Rest(k, failure, after) ==
  [i \in 1 .. requests - k |->
     IF k + i \notin executable THEN Rejected
     ELSE [status |-> "not_executed", failure |-> failure, after |-> after, result |-> None]]

-------------------------------------------------------------------------------
(* _result_from_row: what a persisted row must look like to be read.       *)
Dispositions(outcomes) ==
  /\ Len(outcomes) <= requests
  /\ \A i \in 1 .. Len(outcomes) : (i \in executable) <=> (outcomes[i] # Rejected)

AllSucceed(outcomes) ==
  \A i \in executable : i <= Len(outcomes) => outcomes[i].status = "succeeded"

FailFast(outcomes, k) ==
  /\ \A i \in executable : i < k => outcomes[i].status = "succeeded"
  /\ \A i \in executable : i > k => /\ outcomes[i].failure = "prior_request_failed"
                                    /\ outcomes[i].after = k

PackageBoundary(outcomes, k) ==
  /\ \A i \in executable : i < k => outcomes[i].status = "succeeded"
  /\ \A i \in executable : i >= k => outcomes[i].failure = "package_identity_changed"

ReadsBack(r) ==
  LET failed == {i \in 1 .. Len(r.outcomes) : r.outcomes[i].status = "failed"}
      complete == Len(r.outcomes) = requests
  IN  /\ Dispositions(r.outcomes)
      /\ r.status \in {"running", "succeeded", "partial"} => AllSucceed(r.outcomes) /\ ~r.broken
      /\ r.status # "running" => complete
      /\ r.status = "succeeded" => executable = 1 .. requests
      /\ r.status = "partial" => executable # 1 .. requests
      /\ r.status = "failed" =>
           \/ ~r.broken /\ \E k \in 1 .. requests : failed = {k} /\ FailFast(r.outcomes, k)
           \/ r.broken /\ failed = {} /\ AllSucceed(r.outcomes)
           \/ r.broken /\ failed = {} /\ \E k \in executable : PackageBoundary(r.outcomes, k)

-------------------------------------------------------------------------------
Admits(p) ==
  /\ pc[p] = "execute" /\ Same(p)
  /\ Goto(p, "lookup")
  /\ Untouched /\ UNCHANGED <<row, pkg, opened, found, broken>>

Refused(p) ==
  /\ pc[p] = "execute" /\ ~Same(p)
  /\ Goto(p, "done")
  /\ Untouched /\ UNCHANGED <<row, pkg, opened, found, broken>>

Replayable(p) == row.pkg = pkg[p] /\ row.status # "running" /\ ReadsBack(row)

Replays(p) ==
  /\ pc[p] = "lookup" /\ row # None /\ Replayable(p)
  /\ found' = [found EXCEPT ![p] = row.outcomes]
  /\ Goto(p, "prepare")
  /\ Untouched /\ UNCHANGED <<row, pkg, opened, broken>>

Blocked(p) ==
  /\ pc[p] = "lookup" /\ row # None /\ ~Replayable(p)
  /\ Goto(p, "done")
  /\ Untouched /\ UNCHANGED <<row, pkg, opened, found, broken>>

Misses(p) ==
  /\ pc[p] = "lookup" /\ row = None
  /\ Goto(p, "claim")
  /\ Untouched /\ UNCHANGED <<row, pkg, opened, found, broken>>

(* The vector provider cannot be made: nothing was claimed.                *)
FactoryFails(p) ==
  /\ pc[p] = "claim"
  /\ Goto(p, "done")
  /\ Untouched /\ UNCHANGED <<row, pkg, opened, found, broken>>

(* Slip: INSERT OR REPLACE.                                                *)
ClaimsOver(p) ==
  /\ pc[p] = "claim"
  /\ row' = [pkg |-> pkg[p], status |-> "running", outcomes |-> << >>, broken |-> FALSE]
  /\ Goto(p, "open")
  /\ Untouched /\ UNCHANGED <<pkg, opened, found, broken>>

Claims(p) ==
  /\ pc[p] = "claim" /\ row = None
  /\ row' = [pkg |-> pkg[p], status |-> "running", outcomes |-> << >>, broken |-> FALSE]
  /\ Goto(p, "open")
  /\ Untouched /\ UNCHANGED <<pkg, opened, found, broken>>

Conflicts(p) ==
  /\ pc[p] = "claim" /\ row # None
  /\ Goto(p, "done")
  /\ Untouched /\ UNCHANGED <<row, pkg, opened, found, broken>>

(* The substrate file is opened after the claim, before the next check.    *)
Opens(p) ==
  /\ pc[p] = "open"
  /\ opened' = [opened EXCEPT ![p] = disk]
  /\ Goto(p, "request")
  /\ Untouched /\ UNCHANGED <<row, pkg, found, broken>>

AtRequest(p) == Len(found[p]) + 1

Skips(p) ==
  /\ pc[p] = "request" /\ AtRequest(p) \in (1 .. requests) \ executable
  /\ found' = [found EXCEPT ![p] = Append(@, Rejected)]
  /\ Untouched /\ UNCHANGED <<row, pc, pkg, opened, broken>>

Checks(p) ==
  /\ pc[p] = "request" /\ AtRequest(p) \in executable /\ Same(p)
  /\ Goto(p, "surface")
  /\ Untouched /\ UNCHANGED <<row, pkg, opened, found, broken>>

CheckFails(p) ==
  /\ pc[p] = "request" /\ AtRequest(p) \in executable /\ ~Same(p)
  /\ found' = [found EXCEPT ![p] = @ \o Rest(Len(@), "package_identity_changed", 0)]
  /\ broken' = [broken EXCEPT ![p] = TRUE]
  /\ Goto(p, "commit")
  /\ Untouched /\ UNCHANGED <<row, pkg, opened>>

(* SQL reads the open file, a vector lookup the path: an in-place rewrite  *)
(* reaches both.                                                           *)
SurfaceSucceeds(p) ==
  /\ pc[p] = "surface"
  /\ \E v \in {opened[p], disk} :
       found' = [found EXCEPT ![p] = Append(@, [status |-> "succeeded", failure |-> "none",
                                                after |-> 0, result |-> v])]
  /\ Goto(p, "progress")
  /\ Untouched /\ UNCHANGED <<row, pkg, opened, broken>>

(* Slip: the requests after the failed one are all called skipped by it.   *)
SurfaceFailsBlindly(p) ==
  /\ pc[p] = "surface"
  /\ LET k == AtRequest(p)
         failed == [status |-> "failed", failure |-> "surface_error", after |-> 0, result |-> None]
         skipped == [i \in 1 .. requests - k |->
                       [status |-> "not_executed", failure |-> "prior_request_failed",
                        after |-> k, result |-> None]]
     IN  found' = [found EXCEPT ![p] = Append(@, failed) \o skipped]
  /\ Goto(p, "final")
  /\ Untouched /\ UNCHANGED <<row, pkg, opened, broken>>

SurfaceFails(p) ==
  /\ pc[p] = "surface"
  /\ LET k == AtRequest(p)
         failed == [status |-> "failed", failure |-> "surface_error", after |-> 0, result |-> None]
     IN  found' = [found EXCEPT ![p] = Append(@, failed) \o Rest(k, "prior_request_failed", k)]
  /\ Goto(p, "final")
  /\ Untouched /\ UNCHANGED <<row, pkg, opened, broken>>

SavesProgress(p) ==
  /\ pc[p] = "progress"
  /\ row' = IF row.status = "running" THEN [row EXCEPT !.outcomes = found[p]] ELSE row
  /\ Goto(p, "request")
  /\ Untouched /\ UNCHANGED <<pkg, opened, found, broken>>

LoopEnds(p) ==
  /\ pc[p] = "request" /\ Len(found[p]) = requests
  /\ Goto(p, "final")
  /\ Untouched /\ UNCHANGED <<row, pkg, opened, found, broken>>

(* Slip: the last check is left out.                                       *)
FinalCheckSkipped(p) ==
  /\ pc[p] = "final"
  /\ Goto(p, "commit")
  /\ Untouched /\ UNCHANGED <<row, pkg, opened, found, broken>>

(* The identity once more, whatever the loop found.                        *)
FinalCheck(p) ==
  /\ pc[p] = "final"
  /\ broken' = [broken EXCEPT ![p] = ~Same(p)]
  /\ Goto(p, "commit")
  /\ Untouched /\ UNCHANGED <<row, pkg, opened, found>>

AnyFailed(outcomes) == \E i \in 1 .. Len(outcomes) : outcomes[i].status = "failed"

Result(p) ==
  IF broken[p] \/ AnyFailed(found[p]) THEN "failed"
  ELSE IF executable # 1 .. requests THEN "partial" ELSE "succeeded"

(* The final update, and the row read back in the same breath.             *)
Commits(p) ==
  /\ pc[p] = "commit" /\ row.status = "running"
  /\ row' = [row EXCEPT !.status = Result(p), !.outcomes = found[p], !.broken = broken[p]]
  /\ Goto(p, IF ReadsBack(row') THEN "prepare" ELSE "done")
  /\ Untouched /\ UNCHANGED <<pkg, opened, found, broken>>

(* Slip: the topology trusts the last check of the execution.              *)
DerivesUnchecked(p) ==
  /\ pc[p] = "prepare"
  /\ Goto(p, "hydrate")
  /\ Untouched /\ UNCHANGED <<row, pkg, opened, found, broken>>

MayPrepare(p) == Same(p) /\ row.pkg = pkg[p]

(* derive_candidate_ownership_topology, then hydrate_candidate_selection:  *)
(* each compares the package before it reads the substrate, the first also *)
(* with the package of the execution.                                      *)
DerivesTopology(p) ==
  /\ pc[p] = "prepare" /\ MayPrepare(p)
  /\ Goto(p, "hydrate")
  /\ Untouched /\ UNCHANGED <<row, pkg, opened, found, broken>>

(* No request found anything: there is nothing to hydrate or to compare.   *)
HydratesNothing(p) ==
  /\ pc[p] = "hydrate"
  /\ Goto(p, "empty")
  /\ Untouched /\ UNCHANGED <<row, pkg, opened, found, broken>>

Hydrates(p) ==
  /\ pc[p] = "hydrate" /\ Same(p)
  /\ \E i \in 1 .. Len(found[p]) : found[p][i].status = "succeeded"
  /\ Goto(p, "evidence")
  /\ Untouched /\ UNCHANGED <<row, pkg, opened, found, broken>>

EvidenceRefused(p) ==
  /\ \/ pc[p] = "prepare" /\ ~MayPrepare(p)
     \/ pc[p] = "hydrate" /\ ~Same(p)
  /\ Goto(p, "done")
  /\ Untouched /\ UNCHANGED <<row, pkg, opened, found, broken>>

(* An unopenable substrate, an error no surface declares, a store error,   *)
(* a kill: the row stays as it is.                                         *)
Abandons(p) ==
  /\ pc[p] \in {"open", "request", "surface", "progress", "final", "commit"}
  /\ Goto(p, "done")
  /\ Untouched /\ UNCHANGED <<row, pkg, opened, found, broken>>

(* The operator puts another build in place.                               *)
Replaces(v) ==
  /\ v # disk /\ (v \in gone => Restores)
  /\ disk' = v /\ gone' = gone \cup {disk}
  /\ UNCHANGED <<requests, executable, row, locals>>

Step(p) ==
  \/ Admits(p) \/ Refused(p) \/ Replays(p) \/ Blocked(p) \/ Misses(p) \/ FactoryFails(p)
  \/ Claims(p) \/ Conflicts(p) \/ Opens(p) \/ Skips(p) \/ Checks(p) \/ CheckFails(p)
  \/ SurfaceSucceeds(p) \/ SurfaceFails(p) \/ SavesProgress(p) \/ LoopEnds(p)
  \/ FinalCheck(p) \/ Commits(p) \/ DerivesTopology(p) \/ HydratesNothing(p) \/ Hydrates(p)
  \/ EvidenceRefused(p)

Next == (\E p \in Proc : Step(p) \/ Abandons(p)) \/ (\E v \in Version : Replaces(v))

Spec == Init /\ [][Next]_vars

-------------------------------------------------------------------------------
(* The reader takes every row the writer persists, at any moment of any    *)
(* interleaving with crashes and replaced builds, except one that records  *)
(* a failed request and a changed package together.                        *)
ReaderTakesWriter ==
  row # None => ReadsBack(row) \/ (row.broken /\ AnyFailed(row.outcomes))

(* A persisted outcome is never revised: later updates of the row extend   *)
(* the outcomes before them, and a finished row is not written again.      *)
OutcomesOnlyGrow ==
  [][row # None =>
       /\ row'.pkg = row.pkg
       /\ row.status # "running" => row' = row
       /\ Len(row.outcomes) <= Len(row'.outcomes)
       /\ row.outcomes = SubSeq(row'.outcomes, 1, Len(row.outcomes))]_vars

ReadFrom(outcomes, v) ==
  \A i \in 1 .. Len(outcomes) : outcomes[i].status = "succeeded" => outcomes[i].result = v

(* An execution that did not fail read every result from the build its row *)
(* names, though each check passed before the request it guards and only   *)
(* the last one came after, if no replaced build ever comes back.          *)
SuccessReadOneBuild ==
  row # None /\ row.status \in {"succeeded", "partial"} => ReadFrom(row.outcomes, row.pkg)

(* Whatever is handed on as evidence was read from the build the process   *)
(* loaded and verified, in failed and partial executions and in replays of *)
(* another process's work too, if no replaced build ever comes back.       *)
EvidenceFromPackage == \A p \in Proc : pc[p] = "evidence" => ReadFrom(found[p], pkg[p])

(* A terminal execution can be read back and is eligible for evidence      *)
(* preparation, failed ones included.                                      *)
TerminalRowsReadBack == row # None /\ row.status # "running" => ReadsBack(row)

-------------------------------------------------------------------------------
(* The same retrieval as the turns of TurnRuntime see it: one proposal of  *)
(* one routed message, its verdict and execution, and the processes at it. *)
Catalog == CHOOSE v \in Version : TRUE
AsPackage(v) == [build |-> v, catalog |-> Catalog]
AsVerdict == IF executable = 1 .. requests THEN "valid" ELSE "partial"

AsRun(kind, parent, catalog, output) ==
  [kind |-> kind, conv |-> "conversation", trigger |-> 1, parent |-> parent,
   catalog |-> catalog, input |-> << >>, status |-> "succeeded",
   output |-> output, produced |-> None]

AsFailure(outcomes, changed) ==
  IF AnyFailed(outcomes) THEN (IF changed THEN "both" ELSE "surface")
                         ELSE (IF changed THEN "package" ELSE "none")

AsExecution ==
  IF row = None THEN None
  ELSE [pkg |-> AsPackage(row.pkg), status |-> row.status,
        failure |-> AsFailure(row.outcomes, row.broken)]

AsPc ==
  [execute |-> "execute", lookup |-> "exec_lookup", claim |-> "exec_claim",
   open |-> "exec_run", request |-> "exec_run", surface |-> "exec_run",
   progress |-> "exec_run", final |-> "exec_run", commit |-> "exec_run",
   prepare |-> "prepare", hydrate |-> "synthesize", evidence |-> "synthesize",
   empty |-> "synthesize", done |-> "idle"]

Decided(p) == opened[p] # None /\ pc[p] \in {"commit", "prepare", "hydrate", "evidence", "empty"}

AsTurn(p) ==
  IF pc[p] = "done"
  THEN [conv |-> None, router |-> None, run |-> None, pkg |-> None, catalog |-> None,
        retrieval |-> None, outcome |-> None, answer |-> None]
  ELSE [conv |-> "conversation", router |-> "routed", run |-> None,
        pkg |-> AsPackage(pkg[p]), catalog |-> None, retrieval |-> "proposed",
        outcome |-> IF Decided(p) THEN [status |-> Result(p),
                                        failure |-> AsFailure(found[p], broken[p])]
                                  ELSE None,
        answer |-> None]

Turn == INSTANCE TurnRuntime WITH
  Conversation <- {"conversation"}, RunId <- {"routed", "proposed"}, MaxMessages <- 1,
  Describes <- {Catalog} \X Version, Faults <- {"abandon"}, ModelRoute <- {"semantic"},
  thread <- [c \in {"conversation"} |-> << [role |-> "user", run |-> None] >>],
  runs <- [routed |-> AsRun("router", None, None, "semantic"),
           proposed |-> AsRun("inference", "routed", Catalog, AsVerdict)],
  conformance <- [routed |-> None, proposed |-> [catalog |-> Catalog, status |-> AsVerdict]],
  executions <- [routed |-> None, proposed |-> AsExecution],
  disk <- AsPackage(disk),
  pc <- [p \in Proc |-> AsPc[pc[p]]],
  turn <- [p \in Proc |-> AsTurn(p)]

(* NULL is no row and no decision.                                         *)
ASSUME MappingAssumption == None \notin Turn!Conformance \cup Turn!Execution \cup Turn!Outcome

(* The loop does nothing the coarse execution of TurnRuntime does not: all *)
(* its steps, checks and partial writes are one of its steps or invisible. *)
StepsAreTurnSteps == [][Turn!Next]_(Turn!vars)
===============================================================================
