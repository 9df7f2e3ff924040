------------------------------ MODULE Invocation ------------------------------
(***************************************************************************)
(* A process running run_current_turn (runtime/orchestration.py): where it *)
(* stands between two accesses to shared state, and the locals it carries. *)
(* Several processes run at once, over one store and one build directory.  *)
(***************************************************************************)
EXTENDS RetrievalPackage

CONSTANTS
  Proc,     \* operating system processes, one `runtime turn run` each
  Faults    \* which of "crash", "unmarked", "abandon" may happen

ASSUME FaultAssumption == Faults \subseteq {"crash", "unmarked", "abandon"}

VARIABLES pc, turn

procVars == <<pc, turn>>
vars == <<storeVars, disk, procVars>>

CallPc == {"router_call", "infer_call", "synth_call"}

(* Where the process holds a claim: a running row only it will finish.     *)
OwningPc == CallPc \cup {"failing"}

(* Where an exception leaves nothing behind in the store.                  *)
FreePc == {"route", "lookup", "package", "verify", "infer_replay", "infer_catalog",
           "infer_claim", "conform", "conform_lookup", "conform_insert", "execute",
           "exec_lookup", "exec_claim", "prepare", "synthesize"}

Pc == {"idle", "exec_run", "returned"} \cup OwningPc \cup FreePc

Turn == [conv : Conversation \cup {None},
         router : RunId \cup {None},      \* RouterResult.run_id
         run : RunId \cup {None},         \* the run this process has claimed
         pkg : Package \cup {None},       \* the package it loaded
         catalog : Version \cup {None},   \* the catalog text it read for inference
         retrieval : RunId \cup {None},   \* RetrievalInferenceResult.run_id
         outcome : Outcome \cup {None},   \* what the run over the requests found
         answer : RunId \cup {None}]      \* SynthesisResult.run_id

NoTurn == [conv |-> None, router |-> None, run |-> None, pkg |-> None,
           catalog |-> None, retrieval |-> None, outcome |-> None, answer |-> None]

ProcTypeOK == pc \in [Proc -> Pc] /\ turn \in [Proc -> Turn]

ProcInit == pc = [p \in Proc |-> "idle"] /\ turn = [p \in Proc |-> NoTurn]

Goto(p, label) == pc' = [pc EXCEPT ![p] = label]

(* The invocation ends: an exception reached the caller, or the result did *)
Leave(p) == Goto(p, "idle") /\ turn' = [turn EXCEPT ![p] = NoTurn]

Raise(p) == Leave(p) /\ UNCHANGED <<storeVars, disk>>

-------------------------------------------------------------------------------
(* run_current_turn is called for a conversation.                          *)
BeginTurn(p, c) ==
  /\ pc[p] = "idle"
  /\ Goto(p, "route")
  /\ turn' = [turn EXCEPT ![p] = [NoTurn EXCEPT !.conv = c]]
  /\ UNCHANGED <<storeVars, disk>>

ReturnAnswer(p) == pc[p] = "returned" /\ Raise(p)

(* An unreadable artifact, a locked or full database, a provider factory   *)
(* that fails: the stage raises before it claimed anything.                *)
StageRaises(p) == pc[p] \in FreePc /\ Raise(p)

(* Slip: the handler calls the provider again.                             *)
CallsAgain(p) ==
  /\ pc[p] = "failing" /\ runs[turn[p].run].kind = "router"
  /\ Goto(p, "router_call")
  /\ UNCHANGED <<storeVars, disk, turn>>

(* The except clause of a stage: its claim becomes a failed attempt.       *)
MarkFailed(p) ==
  /\ pc[p] = "failing"
  /\ FailRun(turn[p].run)
  /\ Leave(p)
  /\ UNCHANGED <<thread, conformance, executions, disk>>

(* The write of the failed status fails too, and is swallowed.             *)
MarkLost(p) == "unmarked" \in Faults /\ pc[p] = "failing" /\ Raise(p)

(* The process is killed; what it committed stays.                         *)
Crash(p) == "crash" \in Faults /\ pc[p] # "idle" /\ Raise(p)
===============================================================================
