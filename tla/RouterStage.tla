----------------------------- MODULE RouterStage ------------------------------
(***************************************************************************)
(* route_conversation (runtime/router.py): the claim transaction, the      *)
(* provider call, and the transaction that completes the claim.            *)
(***************************************************************************)
EXTENDS Invocation

CONSTANT ModelRoute   \* the routes the router's model gives

ASSUME RouteAssumption == ModelRoute \subseteq Route

RouterLane(c, t) == TriggerLane("router", c, t)

(* A succeeded attempt of the trigger's lane is returned without a call.   *)
RouterReplay(p) ==
  /\ pc[p] = "route"
  /\ \E t \in UserPositions(turn[p].conv), r \in RunId :
       /\ IsLatestUser(turn[p].conv, t)
       /\ Replays(RouterLane(turn[p].conv, t), r)
       /\ turn' = [turn EXCEPT ![p].router = r]
  /\ Goto(p, "lookup")
  /\ UNCHANGED <<storeVars, disk>>

RouterClaimable(c, t) ==
  /\ IsLatestUser(c, t)
  /\ Unclaimed(RouterLane(c, t))
  /\ IsCurrent(c, t)

(* Slip: the claim is committed, the caller keeps its earlier run.         *)
RouterClaimsBlindly(p) ==
  /\ pc[p] = "route"
  /\ \E t \in UserPositions(turn[p].conv) :
       /\ RouterClaimable(turn[p].conv, t)
       /\ InsertRun(NewRun("router", turn[p].conv, t, None, None, << >>))
  /\ Goto(p, "router_call")
  /\ UNCHANGED <<thread, conformance, executions, disk, turn>>

RouterClaim(p) ==
  /\ pc[p] = "route"
  /\ \E t \in UserPositions(turn[p].conv) :
       /\ RouterClaimable(turn[p].conv, t)
       /\ InsertRun(NewRun("router", turn[p].conv, t, None, None, << >>))
  /\ turn' = [turn EXCEPT ![p].run = FreshId]
  /\ Goto(p, "router_call")
  /\ UNCHANGED <<thread, conformance, executions, disk>>

(* No user message, an attempt running elsewhere, or an answered thread.   *)
RouterRefused(p) ==
  /\ pc[p] = "route"
  /\ \A t \in UserPositions(turn[p].conv) :
       /\ ~RouterClaimable(turn[p].conv, t)
       /\ \A r \in RunId : ~(IsLatestUser(turn[p].conv, t)
                               /\ Replays(RouterLane(turn[p].conv, t), r))
  /\ Raise(p)

(* The provider answers with a legal route and the claim is completed.     *)
RouterCompletes(p) ==
  /\ pc[p] = "router_call"
  /\ \E route \in ModelRoute : CompleteRun(turn[p].run, route, None)
  /\ turn' = [turn EXCEPT ![p] = [@ EXCEPT !.router = turn[p].run, !.run = None]]
  /\ Goto(p, "lookup")
  /\ UNCHANGED <<thread, conformance, executions, disk>>

(* The call or the completion raises, whatever the error.                  *)
RouterFails(p) ==
  /\ pc[p] = "router_call"
  /\ Goto(p, "failing")
  /\ UNCHANGED <<storeVars, disk, turn>>

RouterStep(p) ==
  RouterReplay(p) \/ RouterClaim(p) \/ RouterRefused(p) \/ RouterCompletes(p) \/ RouterFails(p)
===============================================================================
