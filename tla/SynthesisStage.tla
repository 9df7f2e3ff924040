---------------------------- MODULE SynthesisStage ----------------------------
(***************************************************************************)
(* load_synthesis_success and synthesize_conversation (runtime/            *)
(* synthesis.py): the answer of a trigger, replayed or made once, appended *)
(* to the conversation in the transaction that completes its run.          *)
(***************************************************************************)
EXTENDS ExecutionStage

SynthesisLane(router) == TriggerLane("synthesis", runs[router].conv, runs[router].trigger)

MaySynthesize(router, c) == AuthoritativeRouter(router) /\ runs[router].conv = c

(* The retrieval that a persisted semantic answer names must still read as *)
(* an approved, finished retrieval of the same router run.                 *)
RetrievalOf(router, r) ==
  /\ r # None /\ runs[r] # None
  /\ runs[r].kind = "inference" /\ runs[r].status = "succeeded"
  /\ runs[r].parent = router
  /\ runs[r].conv = runs[router].conv /\ runs[r].trigger = runs[router].trigger
  /\ Approved(r) /\ conformance[r].catalog = runs[r].catalog
  /\ Terminal(r)

ParentValid(router, parent) ==
  IF runs[router].output = "direct" THEN parent = router ELSE RetrievalOf(router, parent)

(* The strict reader of a succeeded synthesis row: the input it persisted  *)
(* is the thread up to the trigger, its parent is valid, its answer is the *)
(* message it produced.                                                    *)
AnswerReadable(router, s) ==
  LET row == runs[s]  messages == thread[row.conv]
  IN  /\ row.conv = runs[router].conv /\ row.trigger = runs[router].trigger
      /\ row.input = SubSeq(messages, 1, row.trigger)
      /\ ParentValid(router, row.parent)
      /\ row.produced \in 1 .. Len(messages)
      /\ messages[row.produced] = [role |-> "synthesis", run |-> s]

AnswerReplayable(router, c, s) ==
  /\ MaySynthesize(router, c)
  /\ Replays(SynthesisLane(router), s)
  /\ AnswerReadable(router, s)

(* The durable answer comes back, before any retrieval artifact is read    *)
(* and again inside the claim transaction.                                 *)
AnswerReplay(p) ==
  /\ pc[p] \in {"lookup", "synthesize"}
  /\ \E s \in RunId : /\ AnswerReplayable(turn[p].router, turn[p].conv, s)
                      /\ turn' = [turn EXCEPT ![p].answer = s]
  /\ Goto(p, "returned")
  /\ UNCHANGED <<storeVars, disk>>

AnswerUnclaimed(router, c) == MaySynthesize(router, c) /\ Unclaimed(SynthesisLane(router))

(* No answer yet: the route decides where the turn goes.                   *)
AnswerMisses(p) ==
  /\ pc[p] = "lookup"
  /\ AnswerUnclaimed(turn[p].router, turn[p].conv)
  /\ Goto(p, IF runs[turn[p].router].output = "direct" THEN "synthesize" ELSE "package")
  /\ UNCHANGED <<storeVars, disk, turn>>

SynthesisClaimable(router, c, retrieval) ==
  /\ AnswerUnclaimed(router, c)
  /\ IsCurrent(c, runs[router].trigger)
  /\ runs[router].output = "semantic" => RetrievalOf(router, retrieval)

SynthesisParent(p) ==
  IF runs[turn[p].router].output = "direct" THEN turn[p].router ELSE turn[p].retrieval

(* The claim persists the whole conversation as the input of the call.     *)
SynthesisClaim(p) ==
  /\ pc[p] = "synthesize"
  /\ SynthesisClaimable(turn[p].router, turn[p].conv, turn[p].retrieval)
  /\ InsertRun(NewRun("synthesis", turn[p].conv, runs[turn[p].router].trigger,
                      SynthesisParent(p), None, thread[turn[p].conv]))
  /\ turn' = [turn EXCEPT ![p].run = FreshId]
  /\ Goto(p, "synth_call")
  /\ UNCHANGED <<thread, conformance, executions, disk>>

SynthesisRefused(p) ==
  /\ \/ pc[p] = "lookup" /\ ~AnswerUnclaimed(turn[p].router, turn[p].conv)
     \/ pc[p] = "synthesize"
          /\ ~SynthesisClaimable(turn[p].router, turn[p].conv, turn[p].retrieval)
  /\ \A s \in RunId : ~AnswerReplayable(turn[p].router, turn[p].conv, s)
  /\ Raise(p)

(* Slip: whatever was said meanwhile, the answer is appended.              *)
AnswersAnyway(r) == IsCurrent(runs[r].conv, Len(thread[runs[r].conv]))

(* The conversation the provider was given is still the whole thread.      *)
AnswersCurrent(r) ==
  /\ thread[runs[r].conv] = runs[r].input
  /\ IsCurrent(runs[r].conv, Len(runs[r].input))

(* Slip: the produced message is taken to be the trigger's.                *)
SynthesisLinksTrigger(p) ==
  /\ pc[p] = "synth_call"
  /\ AnswersCurrent(turn[p].run)
  /\ LET r == turn[p].run  c == runs[turn[p].run].conv
     IN  /\ thread' = [thread EXCEPT ![c] = Append(@, [role |-> "synthesis", run |-> r])]
         /\ CompleteRun(r, None, Len(thread[c]))
         /\ turn' = [turn EXCEPT ![p] = [@ EXCEPT !.answer = r, !.run = None]]
  /\ Goto(p, "returned")
  /\ UNCHANGED <<conformance, executions, disk>>

(* Slip: the answer is committed and returned, its run is completed later. *)
SynthesisAppendsOnly(p) ==
  /\ pc[p] = "synth_call"
  /\ AnswersCurrent(turn[p].run)
  /\ LET r == turn[p].run  c == runs[turn[p].run].conv
     IN  /\ thread' = [thread EXCEPT ![c] = Append(@, [role |-> "synthesis", run |-> r])]
         /\ turn' = [turn EXCEPT ![p] = [@ EXCEPT !.answer = r, !.run = None]]
  /\ Goto(p, "returned")
  /\ UNCHANGED <<runs, conformance, executions, disk>>

(* One transaction: the answer message and the completed run.              *)
SynthesisCompletes(p) ==
  /\ pc[p] = "synth_call"
  /\ AnswersCurrent(turn[p].run)
  /\ LET r == turn[p].run  c == runs[turn[p].run].conv
     IN  /\ thread' = [thread EXCEPT ![c] = Append(@, [role |-> "synthesis", run |-> r])]
         /\ CompleteRun(r, None, Len(thread[c]) + 1)
         /\ turn' = [turn EXCEPT ![p] = [@ EXCEPT !.answer = r, !.run = None]]
  /\ Goto(p, "returned")
  /\ UNCHANGED <<conformance, executions, disk>>

(* The provider fails, or the completion does: a changed conversation, a   *)
(* store error.                                                            *)
SynthesisFails(p) ==
  /\ pc[p] = "synth_call"
  /\ Goto(p, "failing")
  /\ UNCHANGED <<storeVars, disk, turn>>

SynthesisStep(p) ==
  \/ AnswerReplay(p) \/ AnswerMisses(p) \/ SynthesisClaim(p)
  \/ SynthesisRefused(p) \/ SynthesisCompletes(p) \/ SynthesisFails(p)
===============================================================================
