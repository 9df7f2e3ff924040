-------------------------- MODULE EvidencePreparation --------------------------
(***************************************************************************)
(* prepare_evidence: one completed execution becomes the evidence a model  *)
(* reads.  Its stages run in turn over immutable values: the occurrences   *)
(* of every request lane are composed into candidates, an owning object is *)
(* looked up for each, a bounded selection admits some of them, those are  *)
(* hydrated from the substrate and projected under one context per owner.  *)
(* A lane is the result of one request; a hit holds the one target of an   *)
(* occurrence, or the source and target of a relation.                     *)
(***************************************************************************)
EXTENDS Integers, Sequences, FiniteSets

CONSTANTS
  Ref,          \* canonical targets: units, objects, regions, scopes
  Owner,        \* semantic objects
  None,
  Executions,   \* sequences of lanes the executor can return
  Capacities,   \* max_candidates
  Fractions,    \* protected_owner_fraction, as a pair <<part, whole>>
  KindOf,       \* Ref -> target_kind
  OwnerOf       \* Ref -> the object whose rows hold it; None for a scope

Kind == {"unit", "object", "region", "scope"}
Protected == {"lexical", "vector"}
Operator == Protected \cup {"exact", "temporal", "discovery", "relation"}

Lane == [operator : Operator, status : {"succeeded", "failed", "not_executed"},
         hits : Seq(Seq(Ref))]

(* What the surfaces return: a hit of a relation lane has two targets and  *)
(* any other one; exact, lexical and temporal hits are units, vector hits  *)
(* units or objects; a request that did not succeed has no result.         *)
ReturnedBySurface(lane) ==
  /\ lane \in Lane
  /\ lane.status # "succeeded" => lane.hits = <<>>
  /\ \A i \in DOMAIN lane.hits :
       /\ Len(lane.hits[i]) = IF lane.operator = "relation" THEN 2 ELSE 1
       /\ lane.operator \in {"exact", "temporal", "lexical"} => KindOf[lane.hits[i][1]] = "unit"
       /\ lane.operator = "vector" => KindOf[lane.hits[i][1]] \in {"unit", "object"}

ASSUME EvidenceAssumption ==
  /\ None \notin Owner
  /\ KindOf \in [Ref -> Kind] /\ OwnerOf \in [Ref -> Owner \cup {None}]
  /\ \A r \in Ref : OwnerOf[r] = None <=> KindOf[r] = "scope"
  /\ Capacities \subseteq Nat
  /\ Fractions \subseteq {f \in Nat \X Nat : 0 < f[1] /\ f[1] <= f[2]}
  /\ \A x \in Executions : \A l \in DOMAIN x : ReturnedBySurface(x[l])
  /\ Executions \subseteq Seq(Lane)

VARIABLES
  execution,     \* the lanes, in request order
  capacity, limit,
  phase,
  pending,       \* the occurrences the running loop has not visited
  candidates,    \* composed targets, in first-seen order
  supports,      \* per target, the unary occurrences attached to it
  owners,        \* the ownership topology
  admissions,    \* the selection, in order
  ownerCounts,   \* protected admissions per owner
  deferred,      \* owner depth held a candidate back
  hydrated,      \* how many selected candidates are hydrated
  projected,     \* how many of them are projected
  loaded,        \* rows read from the substrate, in order
  contexts       \* object contexts of the projection, in order

selection == <<admissions, ownerCounts, deferred>>
workspace == <<candidates, supports>>
evidence == <<hydrated, projected, loaded, contexts>>
vars == <<execution, capacity, limit, phase, pending, workspace, owners, selection, evidence>>

Elements(s) == {s[i] : i \in DOMAIN s}

-------------------------------------------------------------------------------
(* An occurrence is the k-th hit of lane l: the seat <<l, k>>.             *)
Seats == UNION {{<<l, k>> : k \in DOMAIN execution[l].hits} : l \in DOMAIN execution}
Hit(s) == execution[s[1]].hits[s[2]]
Targets(s) == Elements(Hit(s))
IsRelation(s) == execution[s[1]].operator = "relation"
IsProtected(s) == execution[s[1]].operator \in Protected

LaneFirst(s, t) == s[1] < t[1] \/ (s[1] = t[1] /\ s[2] < t[2])
RoundFirst(s, t) == s[2] < t[2] \/ (s[2] = t[2] /\ s[1] < t[1])

Phase == {"compose", "own", "admit", "fallback", "hydrate", "project", "done", "raised"}
Admission == [ref : Ref, seat : Nat \X Nat, role : {"unary", "source", "target"},
              kind : {"ordinary", "owner_depth_fallback", "relation_endpoint_closure"}]

TypeOK ==
  /\ capacity \in Capacities /\ limit \in Nat
  /\ phase \in Phase /\ pending \subseteq Seats
  /\ candidates \in Seq(Ref) /\ supports \in [Ref -> Seq(Nat \X Nat)]
  /\ owners \in [Ref -> Owner \cup {None}]
  /\ admissions \in Seq(Admission) /\ ownerCounts \in [Owner -> Nat] /\ deferred \in BOOLEAN
  /\ hydrated \in 0..Len(admissions) /\ projected \in 0..hydrated
  /\ loaded \in Seq(Ref \cup Owner) /\ contexts \in Seq(Owner)

(* ceil(max_candidates * protected_owner_fraction)                         *)
OwnerLimit(max, fraction) == (max * fraction[1] + fraction[2] - 1) \div fraction[2]

Init ==
  /\ execution \in Executions /\ capacity \in Capacities
  /\ \E f \in Fractions : limit = OwnerLimit(capacity, f)
  /\ phase = "compose" /\ pending = Seats
  /\ candidates = <<>> /\ supports = [r \in Ref |-> <<>>]
  /\ owners = [r \in Ref |-> None]
  /\ admissions = <<>> /\ ownerCounts = [o \in Owner |-> 0] /\ deferred = FALSE
  /\ hydrated = 0 /\ projected = 0 /\ loaded = <<>> /\ contexts = <<>>

-------------------------------------------------------------------------------
(* Composition: lane by lane, every target once, in first-seen order.      *)
Joined(order, x) == IF x \in Elements(order) THEN order ELSE Append(order, x)
JoinedAll(order, xs) ==
  CASE Len(xs) = 0 -> order
    [] Len(xs) = 1 -> Joined(order, xs[1])
    [] OTHER -> Joined(Joined(order, xs[1]), xs[2])

(* Slip: only the first occurrence that names a target supports it.        *)
SupportsOnce(s) ==
  IF IsRelation(s) \/ Hit(s)[1] \in Elements(candidates) THEN supports
  ELSE [supports EXCEPT ![Hit(s)[1]] = Append(@, s)]

(* A unary occurrence supports its target; a relation supports neither of  *)
(* its endpoints, it stays evidence about the pair.                        *)
Supported(s) ==
  IF IsRelation(s) THEN supports ELSE [supports EXCEPT ![Hit(s)[1]] = Append(@, s)]

Composes ==
  /\ phase = "compose"
  /\ \E s \in pending :
       /\ \A t \in pending \ {s} : LaneFirst(s, t)
       /\ candidates' = JoinedAll(candidates, Hit(s))
       /\ supports' = Supported(s)
       /\ pending' = pending \ {s}
  /\ UNCHANGED <<execution, capacity, limit, phase, owners, selection, evidence>>

EndsComposition ==
  /\ phase = "compose" /\ pending = {}
  /\ phase' = "own"
  /\ UNCHANGED <<execution, capacity, limit, pending, workspace, owners, selection, evidence>>

(* Slip: an object candidate is left without its owner.                    *)
TopologyOfParts ==
  [r \in Ref |-> IF r \in Elements(candidates) /\ KindOf[r] # "object" THEN OwnerOf[r] ELSE None]

(* derive_candidate_ownership_topology over the candidates.                *)
Topology == [r \in Ref |-> IF r \in Elements(candidates) THEN OwnerOf[r] ELSE None]

DerivesOwners ==
  /\ phase = "own"
  /\ owners' = Topology
  /\ phase' = "admit" /\ pending' = Seats
  /\ UNCHANGED <<execution, capacity, limit, workspace, selection, evidence>>

-------------------------------------------------------------------------------
(* Selection: one occurrence of every lane per round.                      *)
Selected == {admissions[i].ref : i \in DOMAIN admissions}
Unseen(s) == Targets(s) \ Selected
Room == capacity - Len(admissions)
ClosureUsed == \E i \in DOMAIN admissions : admissions[i].kind = "relation_endpoint_closure"

Entry(r, s, role, kind) == [ref |-> r, seat |-> s, role |-> role, kind |-> kind]

(* Slip: the limit itself is still admitted.                               *)
PastDepth(o) == ownerCounts[o] > limit

AtDepth(o) == ownerCounts[o] >= limit

(* The first pass holds a protected target back once its owner has used    *)
(* its depth; the fallback pass does not.                                  *)
Ownerless(s) == IsProtected(s) /\ owners[Hit(s)[1]] = None
HeldBack(s) ==
  /\ phase = "admit" /\ IsProtected(s) /\ ~Ownerless(s)
  /\ AtDepth(owners[Hit(s)[1]])

(* Slip: a lane is exhausted before the next one.                          *)
ReachesByLane(s) ==
  /\ phase \in {"admit", "fallback"}
  /\ \A t \in pending \ {s} : LaneFirst(s, t)

(* The loops have come to occurrence s.                                    *)
Reaches(s) ==
  /\ phase \in {"admit", "fallback"}
  /\ \A t \in pending \ {s} : RoundFirst(s, t)

(* A visit leaves the admissions adm; a full selection ends the loops, and *)
(* a new protected target without an owner raises.                         *)
Visited(s, adm) ==
  /\ admissions' = adm
  /\ pending' = IF Len(adm) >= capacity THEN {} ELSE pending \ {s}
  /\ phase' = IF Ownerless(s) /\ Unseen(s) # {} /\ Room > 0 THEN "raised"
              ELSE IF Len(adm) >= capacity THEN "hydrate" ELSE phase
  /\ UNCHANGED <<execution, capacity, limit, workspace, owners, evidence>>

PassesOver(s) ==
  /\ Reaches(s)
  /\ \/ Unseen(s) = {} \/ Room <= 0
     \/ Room = 1 /\ ClosureUsed /\ Cardinality(Unseen(s)) = 2
  /\ Visited(s, admissions)
  /\ UNCHANGED <<ownerCounts, deferred>>

Defers(s) ==
  /\ Reaches(s)
  /\ ~IsRelation(s) /\ Unseen(s) # {} /\ Room > 0 /\ HeldBack(s)
  /\ deferred' = TRUE
  /\ Visited(s, admissions)
  /\ UNCHANGED ownerCounts

UnaryKind(s) ==
  IF phase = "fallback" /\ IsProtected(s) THEN "owner_depth_fallback" ELSE "ordinary"

AdmitsUnary(s) ==
  /\ Reaches(s)
  /\ ~IsRelation(s) /\ Unseen(s) # {} /\ Room > 0 /\ ~HeldBack(s)
  /\ LET r == Hit(s)[1] IN
       /\ ownerCounts' = IF IsProtected(s) THEN [ownerCounts EXCEPT ![owners[r]] = @ + 1] ELSE ownerCounts
       /\ Visited(s, Append(admissions, Entry(r, s, "unary", UnaryKind(s))))
  /\ UNCHANGED deferred

(* One endpoint is selected already, or both are the same target.          *)
AdmitsEndpoint(s) ==
  /\ Reaches(s)
  /\ IsRelation(s) /\ Room > 0
  /\ \E r \in Unseen(s) :
       /\ Unseen(s) = {r}
       /\ Visited(s, Append(admissions, Entry(r, s, IF r = Hit(s)[1] THEN "source" ELSE "target", "ordinary")))
  /\ UNCHANGED <<ownerCounts, deferred>>

(* Slip: the relation takes the last slot with its source alone.           *)
LoneSource(s) == <<Entry(Hit(s)[1], s, "source", "ordinary")>>

(* Both endpoints are new: with one slot left, the target is the one       *)
(* admission beyond the capacity.                                          *)
Endpoints(s) ==
  <<Entry(Hit(s)[1], s, "source", "ordinary"),
    Entry(Hit(s)[2], s, "target", IF Room = 1 THEN "relation_endpoint_closure" ELSE "ordinary")>>

AdmitsBothEndpoints(s) ==
  /\ Reaches(s)
  /\ IsRelation(s) /\ Unseen(s) = Targets(s) /\ Hit(s)[1] # Hit(s)[2]
  /\ Room >= 2 \/ (Room = 1 /\ ~ClosureUsed)
  /\ Visited(s, admissions \o Endpoints(s))
  /\ UNCHANGED <<ownerCounts, deferred>>

(* Slip: what depth held back stays out.                                   *)
NoFallback == FALSE

NeedsFallback == phase = "admit" /\ Room > 0 /\ deferred

EndsPass ==
  /\ phase \in {"admit", "fallback"} /\ pending = {}
  /\ IF NeedsFallback THEN phase' = "fallback" /\ pending' = Seats
                      ELSE phase' = "hydrate" /\ pending' = {}
  /\ UNCHANGED <<execution, capacity, limit, workspace, owners, selection, evidence>>

-------------------------------------------------------------------------------
(* Hydration reads each canonical row at most once.                        *)
RowsOf(r) ==
  CASE KindOf[r] = "scope" -> <<>>
    [] KindOf[r] = "object" -> <<OwnerOf[r]>>
    [] OTHER -> <<r, OwnerOf[r]>>

(* Slip: the caches are not consulted.                                     *)
ReadsAgain(rows) == loaded \o rows

Reads(rows) == JoinedAll(loaded, rows)

(* Slip: the omitted candidates are hydrated too.                          *)
HydratesAll ==
  /\ phase = "hydrate" /\ hydrated < Len(candidates)
  /\ hydrated' = hydrated + 1
  /\ UNCHANGED <<execution, capacity, limit, phase, pending, workspace, owners, selection, projected, loaded, contexts>>

Hydrates ==
  /\ phase = "hydrate" /\ hydrated < Len(admissions)
  /\ hydrated' = hydrated + 1
  /\ loaded' = Reads(RowsOf(admissions[hydrated + 1].ref))
  /\ UNCHANGED <<execution, capacity, limit, phase, pending, workspace, owners, selection, projected, contexts>>

EndsHydration ==
  /\ phase = "hydrate" /\ hydrated = Len(admissions)
  /\ phase' = "project"
  /\ UNCHANGED <<execution, capacity, limit, pending, workspace, owners, selection, evidence>>

(* The relations of the workspace whose endpoints are both selected.       *)
SelectedRelations == {s \in Seats : IsRelation(s) /\ Targets(s) \subseteq Selected}

(* Every owner of a projected candidate gets one object context.           *)
Projects ==
  /\ phase = "project" /\ projected < hydrated
  /\ projected' = projected + 1
  /\ LET r == admissions[projected + 1].ref IN
       contexts' = IF OwnerOf[r] = None THEN contexts ELSE Joined(contexts, OwnerOf[r])
  /\ UNCHANGED <<execution, capacity, limit, phase, pending, workspace, owners, selection, hydrated, loaded>>

EndsProjection ==
  /\ phase = "project" /\ projected = hydrated
  /\ phase' = "done"
  /\ UNCHANGED <<execution, capacity, limit, pending, workspace, owners, selection, evidence>>

(* The evidence is returned, or the error is.                              *)
Returned == phase \in {"done", "raised"} /\ UNCHANGED vars

Next ==
  \/ Composes \/ EndsComposition \/ DerivesOwners
  \/ \E s \in pending : \/ PassesOver(s) \/ Defers(s) \/ AdmitsUnary(s)
                        \/ AdmitsEndpoint(s) \/ AdmitsBothEndpoints(s)
  \/ EndsPass \/ Hydrates \/ EndsHydration \/ Projects \/ EndsProjection
  \/ Returned

Spec == Init /\ [][Next]_vars

-------------------------------------------------------------------------------
(* The selection is no larger than max_candidates but for one target, the  *)
(* last, whose relation took the final slot with its source; and whatever  *)
(* a relation admits, both its endpoints are in (selection.py, visit).     *)
ClosureIsLast ==
  \A i \in DOMAIN admissions : admissions[i].kind = "relation_endpoint_closure" =>
    /\ i = capacity + 1
    /\ admissions[capacity].seat = admissions[i].seat
    /\ admissions[capacity].role = "source"
EdgesWhole ==
  \A i \in DOMAIN admissions :
    admissions[i].role # "unary" => Targets(admissions[i].seat) \subseteq Selected
SelectionFits ==
  /\ Len(admissions) <= capacity \/ (Len(admissions) = capacity + 1 /\ ClosureUsed)
  /\ ClosureIsLast
  /\ EdgesWhole

(* No owner gets more than ceil(capacity * fraction) candidates through    *)
(* lexical and vector lanes while the first pass runs.                     *)
DepthUsed(o) ==
  {i \in DOMAIN admissions : /\ IsProtected(admissions[i].seat)
                             /\ admissions[i].kind = "ordinary"
                             /\ OwnerOf[admissions[i].ref] = o}
OwnerDepthHolds == \A o \in Owner : Cardinality(DepthUsed(o)) <= limit

(* Admission is fair between lanes: when the first pass admits a target,   *)
(* all an earlier round or an earlier lane of the round returned is in,    *)
(* but for protected targets whose owner had used its depth by then.       *)
BreadthFirst ==
  \A i \in DOMAIN admissions : admissions[i].kind # "owner_depth_fallback" =>
    \A s \in Seats : RoundFirst(s, admissions[i].seat) =>
      \A r \in Targets(s) :
        \/ \E j \in 1..(i - 1) : admissions[j].ref = r
        \/ /\ IsProtected(s)
           /\ Cardinality(DepthUsed(OwnerOf[r]) \cap 1..(i - 1)) >= limit

(* Nothing is left out while there is room, and the second pass only adds  *)
(* what owner depth held back, after everything else was admitted.         *)
RoomIsUsed ==
  /\ phase \in {"hydrate", "project", "done"} =>
       Room <= 0 \/ Elements(candidates) \subseteq Selected
  /\ \A i \in DOMAIN admissions : admissions[i].kind = "owner_depth_fallback" =>
       /\ IsProtected(admissions[i].seat)
       /\ Cardinality(DepthUsed(OwnerOf[admissions[i].ref])) >= limit
       /\ \A s \in Seats : IsProtected(s) \/ Targets(s) \subseteq {admissions[j].ref : j \in 1..(i - 1)}

(* A candidate carries the support of every unary occurrence that returned *)
(* it, in request order, whichever occurrence admitted it; every candidate *)
(* comes from some occurrence.                                             *)
SupportsComplete ==
  phase # "compose" =>
    /\ Elements(candidates) = UNION {Targets(s) : s \in Seats}
    /\ \A r \in Ref :
         /\ Elements(supports[r]) = {s \in Seats : ~IsRelation(s) /\ Targets(s) = {r}}
         /\ \A i, j \in DOMAIN supports[r] : i < j => LaneFirst(supports[r][i], supports[r][j])

(* The projected evidence is closed: the endpoints of its relations are    *)
(* among its candidates, each owner of a candidate has exactly one context *)
(* (in order of first use), and no row was read twice to build it.         *)
EvidenceIsClosed ==
  phase = "done" =>
    /\ UNION {Targets(s) : s \in SelectedRelations} \subseteq Selected
    /\ Elements(contexts) = {OwnerOf[r] : r \in Selected} \ {None}
    /\ Cardinality(Elements(contexts)) = Len(contexts)
    /\ \A r \in Selected : Elements(RowsOf(r)) \subseteq Elements(loaded)
    /\ Cardinality(Elements(loaded)) = Len(loaded)
    /\ Cardinality(Selected) = Len(admissions)

(* No completed execution makes the preparation raise.                     *)
NeverRaises == phase # "raised"
===============================================================================
