----------------------------- MODULE RuntimeStore -----------------------------
(***************************************************************************)
(* The runtime SQLite store (runtime/conversation.py, runtime/             *)
(* model_runs.py): conversations with their ordered messages, one row per  *)
(* model call, one conformance verdict per retrieval proposal and one      *)
(* execution per verdict.  Every BEGIN IMMEDIATE .. COMMIT of the code is  *)
(* one atomic action of the modules that extend this one; this module      *)
(* gives the tables, the row lifecycle and the lane queries they share.    *)
(*                                                                         *)
(* A conversation not created yet is one whose thread is empty: every      *)
(* operation refuses both.  A message's ordinal is its position less one,  *)
(* and its content is abstracted to the synthesis run that wrote it, None  *)
(* for text handed to append_message.  RunId bounds the model_runs table:  *)
(* an INSERT into a full store fails like any other sqlite3.Error.         *)
(***************************************************************************)
EXTENDS Naturals, Sequences, FiniteSets

CONSTANTS
  Conversation,   \* conversation identities
  RunId,          \* the uuid4 run identities the store has room for
  Version,        \* contents of a retrieval artifact (its sha256)
  None,           \* SQL NULL, an absent row, an unset local variable
  MaxMessages     \* the operator appends no message beyond this position

Role    == {"user", "synthesis"}
Kind    == {"router", "inference", "synthesis"}
Route   == {"direct", "semantic"}
Verdict == {"valid", "partial", "invalid"}
Status  == {"running", "succeeded", "failed"}

(* A retrieval package: the completed build (substrate and vectors) and    *)
(* the capability catalog shipped with it, each by content identity.       *)
Package == [build : Version, catalog : Version]

Message == [role : Role, run : RunId \cup {None}]

(* A model_runs row.  output is what later stages read of the model's      *)
(* result: the route, or the verdict the proposal will get from the        *)
(* catalog it was made for.  produced is the position of the answer.       *)
Run == [kind : Kind, conv : Conversation, trigger : Nat,
        parent : RunId \cup {None}, catalog : Version \cup {None},
        input : Seq(Message), status : Status,
        output : Route \cup Verdict \cup {None}, produced : Nat \cup {None}]

Conformance == [catalog : Version, status : Verdict]

(* failure is what the persisted result says went wrong: one request's     *)
(* surface, the package identity, or both in the same row.                 *)
Failure == {"none", "surface", "package", "both"}
Outcome == [status : {"succeeded", "partial", "failed"}, failure : Failure]

Execution == [pkg : Package, status : {"running", "succeeded", "partial", "failed"},
              failure : Failure]

ASSUME StoreAssumption ==
  /\ None \notin RunId \cup Version \cup Conversation \cup Route \cup Verdict \cup Nat
  /\ None \notin Package
  /\ None \notin Run
  /\ None \notin Conformance
  /\ None \notin Execution
  /\ MaxMessages \in Nat

VARIABLES
  thread,       \* messages of each conversation, by ordinal
  runs,         \* table model_runs, by run_id
  conformance,  \* table retrieval_conformance, by its UNIQUE retrieval_run_id
  executions    \* table retrieval_executions, by its UNIQUE retrieval_run_id

storeVars == <<thread, runs, conformance, executions>>

(* What the schema's CHECK and the result readers demand of a row: only a  *)
(* router run has no parent, only an inference names a catalog, and a      *)
(* success carries the output of its kind.                                 *)
OutputOf == [router |-> Route, inference |-> Verdict, synthesis |-> {None}]

RowShape(row) ==
  /\ row.kind = "router" <=> row.parent = None
  /\ row.kind = "inference" <=> row.catalog # None
  /\ row.status = "succeeded" => row.output \in OutputOf[row.kind]

RunsTypeOK ==
  /\ runs \in [RunId -> Run \cup {None}]
  /\ \A r \in RunId : runs[r] # None => RowShape(runs[r])

StoreTypeOK ==
  /\ thread \in [Conversation -> Seq(Message)]
  /\ RunsTypeOK
  /\ conformance \in [RunId -> Conformance \cup {None}]
  /\ executions \in [RunId -> Execution \cup {None}]

StoreInit ==
  /\ thread = [c \in Conversation |-> << >>]
  /\ runs = [r \in RunId |-> None]
  /\ conformance = [r \in RunId |-> None]
  /\ executions = [r \in RunId |-> None]

-------------------------------------------------------------------------------
(* append_message: the message gets the ordinal after the last one.  Both  *)
(* roles are legal arguments of the command.                               *)
AppendMessage(c, role) ==
  /\ Len(thread[c]) < MaxMessages
  /\ thread' = [thread EXCEPT ![c] = Append(@, [role |-> role, run |-> None])]
  /\ UNCHANGED <<runs, conformance, executions>>

UserPositions(c) == {i \in 1 .. Len(thread[c]) : thread[c][i].role = "user"}

(* The position of the latest user message, the trigger of a turn.         *)
IsLatestUser(c, t) ==
  /\ t \in UserPositions(c)
  /\ \A i \in UserPositions(c) : i <= t

(* The trigger is still the last message of its conversation.              *)
IsCurrent(c, t) == t \in UserPositions(c) /\ t = Len(thread[c])

-------------------------------------------------------------------------------
(* A lane is what one call may be made for: attempts of a router or of a   *)
(* synthesis share a trigger, attempts of an inference share a router run. *)
LaneOf(run) ==
  <<run.kind, IF run.kind = "inference" THEN run.parent ELSE <<run.conv, run.trigger>>>>

TriggerLane(kind, c, t) == <<kind, <<c, t>>>>
InferenceLane(router) == <<"inference", router>>

Attempts(lane) == {r \in RunId : runs[r] # None /\ LaneOf(runs[r]) = lane}

(* Slip: only durable results are looked for, running claims are not.      *)
UnclaimedIgnoringRunning(lane) == \A r \in Attempts(lane) : runs[r].status # "succeeded"

(* Slip: running claims block, a durable result does not.                  *)
UnclaimedIgnoringSuccess(lane) == \A r \in Attempts(lane) : runs[r].status # "running"

(* The lane holds neither a running nor a succeeded attempt.               *)
Unclaimed(lane) == \A r \in Attempts(lane) : runs[r].status = "failed"

(* r is the lane's one succeeded attempt and none is running.              *)
Replays(lane, r) ==
  /\ r \in Attempts(lane) /\ runs[r].status = "succeeded"
  /\ \A s \in Attempts(lane) \ {r} : runs[s].status = "failed"

(* A router run another stage may build on: the lane's one success, made  *)
(* for a user message of its conversation.                                 *)
AuthoritativeRouter(r) ==
  /\ runs[r] # None
  /\ runs[r].kind = "router" /\ runs[r].status = "succeeded"
  /\ Replays(LaneOf(runs[r]), r)
  /\ runs[r].trigger \in UserPositions(runs[r].conv)

FreeIds == {r \in RunId : runs[r] = None}
FreshId == CHOOSE r \in RunId : runs[r] = None

NewRun(kind, c, t, parent, catalog, input) ==
  [kind |-> kind, conv |-> c, trigger |-> t, parent |-> parent,
   catalog |-> catalog, input |-> input,
   status |-> "running", output |-> None, produced |-> None]

InsertRun(row) ==
  /\ FreeIds # {}
  /\ runs' = [runs EXCEPT ![FreshId] = row]

(* Slip: the result is written, the status is not.                         *)
CompleteWithoutStatus(r, output, produced) ==
  /\ runs[r].status = "running"
  /\ runs' = [runs EXCEPT ![r] = [@ EXCEPT !.output = output, !.produced = produced]]

(* Slip: the run succeeds before its result is written.                    *)
CompleteWithoutOutput(r, output, produced) ==
  /\ runs[r].status = "running"
  /\ runs' = [runs EXCEPT ![r] = [@ EXCEPT !.status = "succeeded", !.produced = produced]]

CompleteRun(r, output, produced) ==
  /\ runs[r].status = "running"
  /\ runs' = [runs EXCEPT ![r] = [@ EXCEPT !.status = "succeeded",
                                           !.output = output,
                                           !.produced = produced]]

FailRun(r) ==
  /\ runs[r].status = "running"
  /\ runs' = [runs EXCEPT ![r] = [@ EXCEPT !.status = "failed"]]

Approved(r) == conformance[r] # None /\ conformance[r].status \in {"valid", "partial"}

Terminal(r) == executions[r] # None /\ executions[r].status # "running"

(* The strict reader of a persisted execution rejects a row that records a *)
(* failed request together with an execution-level failure.                *)
Readable(r) == executions[r].failure # "both"
===============================================================================
