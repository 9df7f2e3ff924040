---------------------------- MODULE EvidenceProofs -----------------------------
(***************************************************************************)
(* Proofs about EvidencePreparation for any execution, capacity and        *)
(* fraction: types, the capacity with its one closure, owner depth, that   *)
(* the preparation of a completed execution never raises, the order and    *)
(* the fullness of the selection, complete support and closed evidence.    *)
(***************************************************************************)
EXTENDS EvidencePreparation, FiniteSetTheorems, TLAPS

(* The execution is one the surfaces can return; it never changes.         *)
Typed == TypeOK /\ execution \in Executions

(* An occurrence has one target, a relation two.                           *)
LEMMA HitShape ==
  ASSUME execution \in Executions, NEW s \in Seats
  PROVE  /\ s \in Nat \X Nat
         /\ Hit(s) \in Seq(Ref)
         /\ Len(Hit(s)) = IF IsRelation(s) THEN 2 ELSE 1
         /\ Hit(s)[1] \in Ref
         /\ IsRelation(s) => Hit(s)[2] \in Ref
         /\ IsProtected(s) => ~IsRelation(s) /\ OwnerOf[Hit(s)[1]] \in Owner
         /\ Targets(s) = IF IsRelation(s) THEN {Hit(s)[1], Hit(s)[2]} ELSE {Hit(s)[1]}
<1>1. execution \in Seq(Lane)
  BY EvidenceAssumption
<1>2. PICK l \in DOMAIN execution : \E k \in DOMAIN execution[l].hits : s = <<l, k>>
  BY DEF Seats
<1>3. PICK k \in DOMAIN execution[l].hits : s = <<l, k>>
  BY <1>2
<1>4. l \in Nat /\ execution[l] \in Lane /\ ReturnedBySurface(execution[l])
  BY <1>1, EvidenceAssumption
<1>5. execution[l].hits \in Seq(Seq(Ref))
  BY <1>4 DEF Lane
<1>6. k \in Nat /\ execution[l].hits[k] \in Seq(Ref)
  BY <1>5
<1>7. s[1] = l /\ s[2] = k
  BY <1>3
<1>8. Hit(s) = execution[l].hits[k]
  BY <1>7 DEF Hit
<1>9. Len(Hit(s)) = IF IsRelation(s) THEN 2 ELSE 1
  BY <1>4, <1>7, <1>8 DEF ReturnedBySurface, IsRelation
<1>10. Hit(s)[1] \in Ref /\ (IsRelation(s) => Hit(s)[2] \in Ref)
  BY <1>6, <1>8, <1>9
<1>11. IsProtected(s) => KindOf[Hit(s)[1]] \in {"unit", "object"} /\ ~IsRelation(s)
  BY <1>4, <1>7, <1>8 DEF ReturnedBySurface, IsProtected, IsRelation, Protected
<1>12. IsProtected(s) => OwnerOf[Hit(s)[1]] \in Owner
  BY <1>10, <1>11, EvidenceAssumption
<1>13. Targets(s) = IF IsRelation(s) THEN {Hit(s)[1], Hit(s)[2]} ELSE {Hit(s)[1]}
  <2>1. DOMAIN Hit(s) = 1..Len(Hit(s))
    BY <1>6, <1>8
  <2>2. CASE IsRelation(s)
    <3>1. DOMAIN Hit(s) = {1, 2}
      BY <1>9, <2>1, <2>2
    <3> QED
      BY <2>2, <3>1 DEF Targets, Elements
  <2>3. CASE ~IsRelation(s)
    <3>1. DOMAIN Hit(s) = {1}
      BY <1>9, <2>1, <2>3
    <3> QED
      BY <2>3, <3>1 DEF Targets, Elements
  <2> QED
    BY <2>2, <2>3
<1> QED
  BY <1>3, <1>4, <1>6, <1>8, <1>9, <1>10, <1>11, <1>12, <1>13

(* Joining a value keeps the type and the members, and adds the value.     *)
LEMMA JoinedFacts ==
  ASSUME NEW S, NEW order \in Seq(S), NEW x \in S
  PROVE  /\ Joined(order, x) \in Seq(S)
         /\ \A e : e \in Elements(Joined(order, x)) <=> e \in Elements(order) \/ e = x
<1>1. CASE x \in Elements(order)
  BY <1>1 DEF Joined
<1>2. CASE x \notin Elements(order)
  <2>1. Joined(order, x) = Append(order, x)
    BY <1>2 DEF Joined
  <2>2. /\ DOMAIN Append(order, x) = DOMAIN order \cup {Len(order) + 1}
        /\ \A i \in DOMAIN order : Append(order, x)[i] = order[i]
        /\ Append(order, x)[Len(order) + 1] = x
    OBVIOUS
  <2> QED
    BY <2>1, <2>2 DEF Elements
<1> QED
  BY <1>1, <1>2

(* The same for the targets of one occurrence, or the rows of one target.  *)
LEMMA JoinedAllFacts ==
  ASSUME NEW S, NEW order \in Seq(S), NEW xs \in Seq(S), Len(xs) \in {0, 1, 2}
  PROVE  /\ JoinedAll(order, xs) \in Seq(S)
         /\ \A e : e \in Elements(JoinedAll(order, xs)) <=> e \in Elements(order) \/ e \in Elements(xs)
<1>1. CASE Len(xs) = 0
  <2>1. Elements(xs) = {}
    BY <1>1 DEF Elements
  <2> QED
    BY <1>1, <2>1 DEF JoinedAll
<1>2. CASE Len(xs) = 1
  <2>1. DOMAIN xs = {1}
    BY <1>2
  <2>2. PICK x \in S : xs[1] = x
    BY <2>1
  <2>3. \A e : e \in Elements(xs) <=> e = x
    BY <2>1, <2>2 DEF Elements
  <2>4. JoinedAll(order, xs) = Joined(order, x)
    BY <1>2, <2>2 DEF JoinedAll
  <2>5. /\ Joined(order, x) \in Seq(S)
        /\ \A e : e \in Elements(Joined(order, x)) <=> e \in Elements(order) \/ e = x
    BY JoinedFacts
  <2> QED
    BY <2>3, <2>4, <2>5
<1>3. CASE Len(xs) = 2
  <2>1. DOMAIN xs = {1, 2}
    BY <1>3
  <2>2. PICK x \in S, y \in S : xs[1] = x /\ xs[2] = y
    BY <2>1
  <2>3. \A e : e \in Elements(xs) <=> e = x \/ e = y
    BY <2>1, <2>2 DEF Elements
  <2>4. PICK first \in Seq(S) :
          /\ first = Joined(order, x)
          /\ \A e : e \in Elements(first) <=> e \in Elements(order) \/ e = x
    BY JoinedFacts
  <2>5. JoinedAll(order, xs) = Joined(first, y)
    BY <1>3, <2>2, <2>4 DEF JoinedAll
  <2>6. /\ Joined(first, y) \in Seq(S)
        /\ \A e : e \in Elements(Joined(first, y)) <=> e \in Elements(first) \/ e = y
    BY JoinedFacts
  <2> QED
    BY <2>3, <2>4, <2>5, <2>6
<1> QED
  BY <1>1, <1>2, <1>3

-------------------------------------------------------------------------------
(* Selection step by step: every visit leaves the admissions longer by     *)
(* none, one or two entries for targets of the occurrence it visits.       *)
LEMMA RowsShape ==
  ASSUME NEW r \in Ref
  PROVE  RowsOf(r) \in Seq(Ref \cup Owner) /\ Len(RowsOf(r)) \in {0, 1, 2}
<1>1. CASE KindOf[r] = "scope"
  BY <1>1 DEF RowsOf
<1>2. CASE KindOf[r] = "object"
  <2>1. OwnerOf[r] \in Owner
    BY <1>2, EvidenceAssumption
  <2> QED
    BY <1>2, <2>1 DEF RowsOf
<1>3. CASE KindOf[r] \notin {"scope", "object"}
  <2>1. OwnerOf[r] \in Owner
    BY <1>3, EvidenceAssumption
  <2>2. RowsOf(r) = <<r, OwnerOf[r]>>
    BY <1>3 DEF RowsOf
  <2>3. <<r, OwnerOf[r]>> \in Seq(Ref \cup Owner) /\ Len(<<r, OwnerOf[r]>>) = 2
    BY <2>1
  <2> QED
    BY <2>2, <2>3
<1> QED
  BY <1>1, <1>2, <1>3

LEMMA EntryType ==
  ASSUME execution \in Executions, NEW s \in Seats, NEW r \in Ref,
         NEW role \in {"unary", "source", "target"},
         NEW kind \in {"ordinary", "owner_depth_fallback", "relation_endpoint_closure"}
  PROVE  Entry(r, s, role, kind) \in Admission
BY HitShape DEF Entry, Admission

LEMMA TypedInit == Init => Typed
<1> SUFFICES ASSUME Init PROVE Typed
  OBVIOUS
<1>1. PICK f \in Fractions : limit = OwnerLimit(capacity, f)
  BY DEF Init
<1>2. capacity \in Nat /\ f[1] \in Nat /\ f[2] \in Nat /\ f[1] > 0 /\ f[2] >= f[1]
  BY EvidenceAssumption DEF Init
<1>3. limit \in Nat
  BY <1>1, <1>2 DEF OwnerLimit
<1>4. candidates \in Seq(Ref) /\ admissions \in Seq(Admission) /\ loaded \in Seq(Ref \cup Owner) /\ contexts \in Seq(Owner)
  BY DEF Init
<1>5. Len(admissions) = 0
  BY DEF Init
<1>6. supports \in [Ref -> Seq(Nat \X Nat)]
  BY DEF Init
<1>7. owners \in [Ref -> Owner \cup {None}] /\ ownerCounts \in [Owner -> Nat]
  BY DEF Init
<1>8. hydrated \in 0..Len(admissions) /\ projected \in 0..hydrated
  BY <1>5 DEF Init
<1>9. capacity \in Capacities /\ phase \in Phase /\ pending \subseteq Seats /\ deferred \in BOOLEAN
  BY DEF Init, Phase
<1>10. execution \in Executions
  BY DEF Init
<1> QED
  BY <1>3, <1>4, <1>6, <1>7, <1>8, <1>9, <1>10 DEF Typed, TypeOK

LEMMA TypedVisit ==
  ASSUME Typed, NEW s \in pending, NEW adm \in Seq(Admission), Len(adm) >= Len(admissions),
         phase \in {"admit", "fallback"}, Visited(s, adm),
         ownerCounts' \in [Owner -> Nat], deferred' \in BOOLEAN
  PROVE  Typed'
<1>1. Seats' = Seats
  BY DEF Visited, Seats
<1>2. pending' \subseteq Seats /\ phase' \in Phase
  BY DEF Typed, TypeOK, Visited, Phase
<1>3. hydrated \in 0..Len(adm)
  BY DEF Typed, TypeOK
<1> QED
  BY <1>1, <1>2, <1>3 DEF Typed, TypeOK, Visited, workspace, evidence

LEMMA TypedStep == Typed /\ [Next]_vars => Typed'
<1> SUFFICES ASSUME Typed, [Next]_vars PROVE Typed'
  OBVIOUS
<1> USE DEF Typed
<1>1. CASE Composes
  <2>1. PICK s \in pending : /\ candidates' = JoinedAll(candidates, Hit(s))
                             /\ supports' = Supported(s)
                             /\ pending' = pending \ {s}
    BY <1>1 DEF Composes
  <2>2. s \in Seats
    BY <2>1 DEF TypeOK
  <2>3. /\ s \in Nat \X Nat /\ Hit(s) \in Seq(Ref) /\ Hit(s)[1] \in Ref
        /\ Len(Hit(s)) \in {0, 1, 2}
    BY <2>2, HitShape
  <2>4. candidates' \in Seq(Ref)
    BY <2>1, <2>3, JoinedAllFacts DEF TypeOK
  <2>5. supports' \in [Ref -> Seq(Nat \X Nat)]
    <3>1. CASE IsRelation(s)
      BY <2>1, <3>1 DEF Supported, TypeOK
    <3>2. CASE ~IsRelation(s)
      <4>1. PICK r \in Ref : r = Hit(s)[1]
        BY <2>3
      <4>2. Append(supports[r], s) \in Seq(Nat \X Nat)
        BY <2>3 DEF TypeOK
      <4>3. supports' = [supports EXCEPT ![r] = Append(supports[r], s)]
        BY <2>1, <3>2, <4>1 DEF Supported
      <4> QED
        BY <4>2, <4>3 DEF TypeOK
    <3> QED
      BY <3>1, <3>2
  <2>6. Seats' = Seats
    BY <1>1 DEF Composes, Seats
  <2> QED
    BY <1>1, <2>1, <2>4, <2>5, <2>6 DEF Composes, TypeOK, selection, evidence
<1>2. CASE EndsComposition
  BY <1>2 DEF EndsComposition, TypeOK, Seats, Phase, workspace, selection, evidence
<1>3. CASE DerivesOwners
  <2>1. owners' \in [Ref -> Owner \cup {None}]
    BY <1>3, EvidenceAssumption DEF DerivesOwners, Topology
  <2> QED
    BY <1>3, <2>1 DEF DerivesOwners, TypeOK, Seats, Phase, workspace, selection, evidence
<1>4. ASSUME NEW s \in pending,
             PassesOver(s) \/ Defers(s) \/ AdmitsUnary(s) \/ AdmitsEndpoint(s) \/ AdmitsBothEndpoints(s)
      PROVE  Typed'
  <2>1. /\ s \in Seats /\ s \in Nat \X Nat /\ Hit(s)[1] \in Ref /\ Targets(s) \subseteq Ref
        /\ IsRelation(s) => Hit(s)[2] \in Ref
    <3>1. pending \subseteq Seats
      BY DEF TypeOK
    <3>2. s \in Seats
      BY <3>1
    <3> QED
      BY <3>2, HitShape
  <2>2. phase \in {"admit", "fallback"}
    BY <1>4 DEF PassesOver, Defers, AdmitsUnary, AdmitsEndpoint, AdmitsBothEndpoints, Reaches
  <2>3. admissions \in Seq(Admission) /\ ownerCounts \in [Owner -> Nat] /\ deferred \in BOOLEAN
    BY DEF TypeOK
  <2>4. CASE PassesOver(s)
    BY <2>2, <2>3, <2>4, TypedVisit DEF PassesOver
  <2>5. CASE Defers(s)
    BY <2>2, <2>3, <2>5, TypedVisit DEF Defers
  <2>6. CASE AdmitsUnary(s)
    <3>1. PICK entry \in Admission : entry = Entry(Hit(s)[1], s, "unary", UnaryKind(s))
      BY <2>1, EntryType DEF UnaryKind
    <3>2. Append(admissions, entry) \in Seq(Admission) /\ Len(Append(admissions, entry)) >= Len(admissions)
      BY <2>3, <3>1
    <3>3. ownerCounts' \in [Owner -> Nat]
      <4> DEFINE o == owners[Hit(s)[1]]
      <4>1. ownerCounts' = IF IsProtected(s) THEN [ownerCounts EXCEPT ![o] = ownerCounts[o] + 1] ELSE ownerCounts
        BY <2>6 DEF AdmitsUnary
      <4> HIDE DEF o
      <4>2. CASE o \in Owner
        BY <2>3, <4>1, <4>2
      <4>3. CASE o \notin Owner
        BY <2>3, <4>1, <4>3
      <4> QED
        BY <4>2, <4>3
    <3>4. Visited(s, Append(admissions, entry)) /\ deferred' = deferred
      BY <2>6, <3>1 DEF AdmitsUnary
    <3> QED
      BY <2>2, <2>3, <3>2, <3>3, <3>4, TypedVisit
  <2>7. CASE AdmitsEndpoint(s)
    <3>1. PICK r \in Unseen(s) :
            Visited(s, Append(admissions, Entry(r, s, IF r = Hit(s)[1] THEN "source" ELSE "target", "ordinary")))
      BY <2>7 DEF AdmitsEndpoint
    <3>2. r \in Ref
      BY <2>1, <3>1 DEF Unseen
    <3>3. PICK entry \in Admission : entry = Entry(r, s, IF r = Hit(s)[1] THEN "source" ELSE "target", "ordinary")
      BY <2>1, <3>2, EntryType
    <3>4. Append(admissions, entry) \in Seq(Admission) /\ Len(Append(admissions, entry)) >= Len(admissions)
      BY <2>3, <3>3
    <3>5. Visited(s, Append(admissions, entry))
      BY <3>1, <3>3
    <3> QED
      BY <2>2, <2>3, <2>7, <3>4, <3>5, TypedVisit DEF AdmitsEndpoint
  <2>8. CASE AdmitsBothEndpoints(s)
    <3>1. PICK first \in Admission, second \in Admission : Endpoints(s) = <<first, second>>
      BY <2>1, <2>8, EntryType DEF Endpoints, AdmitsBothEndpoints
    <3>2. /\ admissions \o <<first, second>> \in Seq(Admission)
          /\ Len(admissions \o <<first, second>>) >= Len(admissions)
      BY <2>3, <3>1
    <3>3. Visited(s, admissions \o <<first, second>>)
      BY <2>8, <3>1 DEF AdmitsBothEndpoints
    <3> QED
      BY <2>2, <2>3, <2>8, <3>2, <3>3, TypedVisit DEF AdmitsBothEndpoints
  <2> QED
    BY <1>4, <2>4, <2>5, <2>6, <2>7, <2>8
<1>5. CASE EndsPass
  BY <1>5 DEF EndsPass, TypeOK, Seats, Phase, workspace, selection, evidence
<1>6. CASE Hydrates
  <2>1. PICK r \in Ref : r = admissions[hydrated + 1].ref
    <3>1. hydrated + 1 \in 1..Len(admissions)
      BY <1>6 DEF Hydrates, TypeOK
    <3>2. admissions[hydrated + 1] \in Admission
      BY <3>1 DEF TypeOK
    <3> QED
      BY <3>2 DEF Admission
  <2>2. loaded' \in Seq(Ref \cup Owner)
    BY <1>6, <2>1, RowsShape, JoinedAllFacts DEF Hydrates, Reads, TypeOK
  <2>3. hydrated' \in 0..Len(admissions) /\ projected \in 0..hydrated'
    BY <1>6 DEF Hydrates, TypeOK
  <2> QED
    BY <1>6, <2>2, <2>3 DEF Hydrates, TypeOK, Seats, workspace, selection
<1>7. CASE EndsHydration
  BY <1>7 DEF EndsHydration, TypeOK, Seats, Phase, workspace, selection, evidence
<1>8. CASE Projects
  <2>1. PICK r \in Ref : r = admissions[projected + 1].ref
    <3>1. projected + 1 \in 1..Len(admissions)
      BY <1>8 DEF Projects, TypeOK
    <3>2. admissions[projected + 1] \in Admission
      BY <3>1 DEF TypeOK
    <3> QED
      BY <3>2 DEF Admission
  <2>2. contexts' \in Seq(Owner)
    <3>1. CASE OwnerOf[r] = None
      BY <1>8, <2>1, <3>1 DEF Projects, TypeOK
    <3>2. CASE OwnerOf[r] # None
      <4>1. OwnerOf[r] \in Owner
        BY <3>2, EvidenceAssumption
      <4> QED
        BY <1>8, <2>1, <3>2, <4>1, JoinedFacts DEF Projects, TypeOK
    <3> QED
      BY <3>1, <3>2
  <2>3. projected' \in 0..hydrated
    BY <1>8 DEF Projects, TypeOK
  <2> QED
    BY <1>8, <2>2, <2>3 DEF Projects, TypeOK, Seats, workspace, selection
<1>9. CASE EndsProjection
  BY <1>9 DEF EndsProjection, TypeOK, Seats, Phase, workspace, selection, evidence
<1>10. CASE UNCHANGED vars
  BY <1>10 DEF vars, TypeOK, Seats, workspace, selection, evidence
<1> QED
  BY <1>1, <1>2, <1>3, <1>4, <1>5, <1>6, <1>7, <1>8, <1>9, <1>10 DEF Next, Returned

(* Every stage of the preparation keeps its values well typed, whatever    *)
(* the execution, the capacity and the fraction.                           *)
THEOREM EvidenceTypeCorrect == Spec => []TypeOK
<1>1. Typed => TypeOK
  BY DEF Typed
<1> QED
  BY <1>1, TypedInit, TypedStep, PTL DEF Spec

-------------------------------------------------------------------------------
(* While the loops run there is room, unless max_candidates is zero, and   *)
(* the closure is unused: it fills the selection, and that ends the loops. *)
Running == phase \in {"admit", "fallback"}
Fits ==
  /\ phase \in {"compose", "own"} => admissions = <<>>
  /\ Running => /\ Len(admissions) < capacity \/ admissions = <<>>
                /\ ~ClosureUsed
  /\ SelectionFits

(* What one more entry does to the list, its targets and its kinds.        *)
LEMMA OneMore ==
  ASSUME Typed, NEW e \in Admission
  PROVE  LET adm == Append(admissions, e) IN
         /\ Len(adm) = Len(admissions) + 1
         /\ DOMAIN adm = DOMAIN admissions \cup {Len(admissions) + 1}
         /\ \A i \in DOMAIN admissions : adm[i] = admissions[i] /\ i # Len(admissions) + 1
         /\ adm[Len(admissions) + 1] = e
BY DEF Typed, TypeOK

LEMMA TwoMore ==
  ASSUME Typed, NEW d \in Admission, NEW e \in Admission
  PROVE  LET adm == admissions \o <<d, e>> IN
         /\ Len(adm) = Len(admissions) + 2
         /\ DOMAIN adm = DOMAIN admissions \cup {Len(admissions) + 1, Len(admissions) + 2}
         /\ \A i \in DOMAIN admissions :
              adm[i] = admissions[i] /\ i # Len(admissions) + 1 /\ i # Len(admissions) + 2
         /\ adm[Len(admissions) + 1] = d /\ adm[Len(admissions) + 2] = e
BY DEF Typed, TypeOK

LEMMA FitsOne ==
  ASSUME Typed, Fits, Running, NEW s \in Seats, NEW e \in Admission, Room > 0,
         e.kind # "relation_endpoint_closure",
         e.role # "unary" => e.seat = s /\ Targets(s) \subseteq Selected \cup {e.ref},
         Visited(s, Append(admissions, e))
  PROVE  Fits'
<1> DEFINE adm == Append(admissions, e)
           n == Len(admissions)
<1>1. /\ Len(adm) = n + 1
      /\ DOMAIN adm = DOMAIN admissions \cup {n + 1}
      /\ \A i \in DOMAIN admissions : adm[i] = admissions[i] /\ i # n + 1
      /\ adm[n + 1] = e
  BY OneMore
<1>2. n \in Nat /\ capacity \in Nat /\ n < capacity /\ DOMAIN admissions = 1..n
  BY EvidenceAssumption DEF Typed, TypeOK, Room
<1>3. admissions' = adm /\ capacity' = capacity /\ execution' = execution
  BY DEF Visited
<1> HIDE DEF adm, n
<1>4. Selected' = Selected \cup {e.ref}
  BY <1>1, <1>3 DEF Selected
<1>6. ~ClosureUsed'
  BY <1>1, <1>3 DEF Fits, ClosureUsed
<1>7. Len(admissions') <= capacity
  BY <1>1, <1>2, <1>3
<1>8. EdgesWhole'
  <2> SUFFICES ASSUME NEW i \in DOMAIN admissions', admissions'[i].role # "unary"
               PROVE  Targets(admissions'[i].seat) \subseteq Selected'
    BY <1>3 DEF EdgesWhole, Targets, Hit
  <2>1. CASE i \in DOMAIN admissions
    BY <1>1, <1>3, <1>4, <2>1 DEF Fits, SelectionFits, EdgesWhole
  <2>2. CASE i = n + 1
    BY <1>1, <1>3, <1>4, <2>2
  <2> QED
    BY <1>1, <1>3, <2>1, <2>2
<1>9. SelectionFits'
  BY <1>3, <1>6, <1>7, <1>8 DEF SelectionFits, ClosureUsed, ClosureIsLast
<1>10. Running' => Len(admissions') < capacity
  BY <1>1, <1>2, <1>3 DEF Running, Visited, adm
<1>11. phase' \notin {"compose", "own"}
  BY DEF Visited, Running
<1> QED
  BY <1>3, <1>6, <1>9, <1>10, <1>11 DEF Fits

LEMMA FitsTwo ==
  ASSUME Typed, Fits, Running, NEW s \in Seats, IsRelation(s), Room > 0,
         NEW d \in Admission, NEW e \in Admission, Endpoints(s) = <<d, e>>,
         d = Entry(Hit(s)[1], s, "source", "ordinary"),
         e = Entry(Hit(s)[2], s, "target", IF Room = 1 THEN "relation_endpoint_closure" ELSE "ordinary"),
         Visited(s, admissions \o <<d, e>>)
  PROVE  Fits'
<1> DEFINE adm == admissions \o <<d, e>>
           n == Len(admissions)
<1>1. /\ Len(adm) = n + 2
      /\ DOMAIN adm = DOMAIN admissions \cup {n + 1, n + 2}
      /\ \A i \in DOMAIN admissions : adm[i] = admissions[i] /\ i # n + 1 /\ i # n + 2
      /\ adm[n + 1] = d /\ adm[n + 2] = e
  BY TwoMore
<1>2. n \in Nat /\ capacity \in Nat /\ n < capacity /\ DOMAIN admissions = 1..n
  BY EvidenceAssumption DEF Typed, TypeOK, Room
<1>3. admissions' = adm /\ capacity' = capacity /\ execution' = execution
  BY DEF Visited
<1>4. /\ d.ref = Hit(s)[1] /\ d.seat = s /\ d.role = "source" /\ d.kind = "ordinary"
      /\ e.ref = Hit(s)[2] /\ e.seat = s /\ e.role = "target"
      /\ e.kind = IF capacity = n + 1 THEN "relation_endpoint_closure" ELSE "ordinary"
  BY <1>2 DEF Entry, Room
<1>5. phase' = IF Len(adm) >= capacity THEN "hydrate" ELSE phase
  <2>1. ~Ownerless(s)
    BY HitShape DEF Typed, Ownerless
  <2> QED
    BY <2>1 DEF Visited
<1> HIDE DEF adm, n
<1>6. Selected' = Selected \cup {d.ref, e.ref}
  BY <1>1, <1>3 DEF Selected
<1>8. Targets(s) = {Hit(s)[1], Hit(s)[2]}
  BY HitShape DEF Typed
<1>9. EdgesWhole'
  <2> SUFFICES ASSUME NEW i \in DOMAIN admissions', admissions'[i].role # "unary"
               PROVE  Targets(admissions'[i].seat) \subseteq Selected'
    BY <1>3 DEF EdgesWhole, Targets, Hit
  <2>1. CASE i \in DOMAIN admissions
    BY <1>1, <1>3, <1>6, <2>1 DEF Fits, SelectionFits, EdgesWhole
  <2>2. CASE i \in {n + 1, n + 2}
    BY <1>1, <1>3, <1>4, <1>6, <1>8, <2>2
  <2> QED
    BY <1>1, <1>3, <2>1, <2>2
<1>10. \A i \in DOMAIN admissions : admissions'[i].kind # "relation_endpoint_closure"
  BY <1>1, <1>3 DEF Fits, ClosureUsed
<1>11. phase' \notin {"compose", "own"}
  BY <1>5 DEF Running
<1>12. CASE capacity = n + 1
  <2>1. admissions'[capacity + 1] = e /\ admissions'[n + 1] = d
    BY <1>1, <1>2, <1>3, <1>12
  <2>2. \A i \in DOMAIN admissions' : admissions'[i].kind = "relation_endpoint_closure" => i = n + 2
    BY <1>1, <1>3, <1>4, <1>10
  <2>3. n + 2 = capacity + 1 /\ admissions'[capacity] = d
    BY <1>2, <1>12, <2>1
  <2>4. SelectionFits'
    <3>1. Len(admissions') = capacity' + 1
      BY <1>1, <1>3, <2>3
    <3>2. ClosureUsed'
      BY <1>1, <1>3, <1>4, <1>12 DEF ClosureUsed
    <3>3. ClosureIsLast'
      BY <1>3, <1>4, <2>1, <2>2, <2>3 DEF ClosureIsLast
    <3> QED
      BY <1>9, <3>1, <3>2, <3>3 DEF SelectionFits
  <2>5. ~Running'
    BY <1>1, <1>2, <1>5, <1>12 DEF Running
  <2> QED
    BY <1>11, <2>4, <2>5 DEF Fits
<1>13. CASE capacity # n + 1
  <2>1. n + 2 <= capacity
    BY <1>2, <1>13
  <2>2. ~ClosureUsed'
    BY <1>1, <1>3, <1>4, <1>10, <1>13 DEF ClosureUsed
  <2>3. SelectionFits'
    BY <1>1, <1>3, <1>9, <2>1, <2>2 DEF SelectionFits, ClosureUsed, ClosureIsLast
  <2>4. Running' => Len(admissions') < capacity
    BY <1>1, <1>2, <1>3, <1>5, <2>1 DEF Running
  <2> QED
    BY <1>3, <1>11, <2>2, <2>3, <2>4 DEF Fits
<1> QED
  BY <1>12, <1>13

LEMMA FitsStep == Typed /\ Fits /\ [Next]_vars => Fits'
<1> SUFFICES ASSUME Typed, Fits, [Next]_vars PROVE Fits'
  OBVIOUS
<1>1. ASSUME UNCHANGED <<execution, capacity, admissions>>,
             phase' = phase \/ phase' \notin {"compose", "own", "admit", "fallback"}
      PROVE  Fits'
  BY <1>1 DEF Fits, SelectionFits, ClosureIsLast, EdgesWhole, ClosureUsed, Selected, Targets, Hit, Running
<1>2. CASE EndsComposition \/ DerivesOwners
  <2>1. admissions' = admissions /\ admissions = <<>> /\ capacity' = capacity /\ execution' = execution
    BY <1>2 DEF EndsComposition, DerivesOwners, Fits, selection
  <2>2. ~ClosureUsed'
    BY <2>1 DEF ClosureUsed
  <2>3. SelectionFits'
    BY <2>1 DEF Fits, SelectionFits, ClosureIsLast, EdgesWhole, ClosureUsed, Selected, Targets, Hit
  <2> QED
    BY <2>1, <2>2, <2>3 DEF Fits
<1>3. CASE EndsPass
  <2>1. UNCHANGED <<execution, capacity, admissions>> /\ phase' \in {"fallback", "hydrate"} /\ Running
    BY <1>3 DEF EndsPass, selection, Running
  <2> QED
    BY <2>1 DEF Fits, SelectionFits, ClosureIsLast, EdgesWhole, ClosureUsed, Selected, Targets, Hit, Running
<1>4. ASSUME NEW s \in pending,
             PassesOver(s) \/ Defers(s) \/ AdmitsUnary(s) \/ AdmitsEndpoint(s) \/ AdmitsBothEndpoints(s)
      PROVE  Fits'
  <2>1. s \in Seats /\ execution \in Executions
    BY DEF Typed, TypeOK
  <2>2. Running
    BY <1>4 DEF PassesOver, Defers, AdmitsUnary, AdmitsEndpoint, AdmitsBothEndpoints, Reaches, Running
  <2>3. /\ Hit(s)[1] \in Ref /\ (IsRelation(s) => Hit(s)[2] \in Ref)
        /\ Targets(s) = IF IsRelation(s) THEN {Hit(s)[1], Hit(s)[2]} ELSE {Hit(s)[1]}
    BY <2>1, HitShape
  <2>4. CASE PassesOver(s) \/ Defers(s)
    <3>1. UNCHANGED <<execution, capacity, admissions>>
      BY <2>4 DEF PassesOver, Defers, Visited
    <3>2. phase' \in {phase, "raised", "hydrate"}
      BY <2>4 DEF PassesOver, Defers, Visited
    <3> QED
      BY <1>1, <3>1, <3>2
  <2>5. CASE AdmitsUnary(s)
    <3>1. PICK e \in Admission : e = Entry(Hit(s)[1], s, "unary", UnaryKind(s))
      BY <2>1, <2>3, EntryType DEF UnaryKind
    <3>2. e.role = "unary" /\ e.kind # "relation_endpoint_closure"
      BY <3>1 DEF Entry, UnaryKind
    <3>3. Room > 0 /\ Visited(s, Append(admissions, e))
      BY <2>5, <3>1 DEF AdmitsUnary
    <3> QED
      BY <2>1, <2>2, <3>2, <3>3, FitsOne
  <2>6. CASE AdmitsEndpoint(s)
    <3>1. PICK r \in Unseen(s) :
            /\ Unseen(s) = {r}
            /\ Visited(s, Append(admissions, Entry(r, s, IF r = Hit(s)[1] THEN "source" ELSE "target", "ordinary")))
      BY <2>6 DEF AdmitsEndpoint
    <3>2. r \in Ref
      BY <2>3, <2>6, <3>1 DEF Unseen, AdmitsEndpoint
    <3>3. PICK e \in Admission : e = Entry(r, s, IF r = Hit(s)[1] THEN "source" ELSE "target", "ordinary")
      BY <2>1, <3>2, EntryType
    <3>4. e.seat = s /\ e.ref = r /\ e.kind = "ordinary"
      BY <3>3 DEF Entry
    <3>5. Targets(s) \subseteq Selected \cup {e.ref}
      BY <3>1, <3>4 DEF Unseen
    <3>6. Room > 0 /\ Visited(s, Append(admissions, e))
      BY <2>6, <3>1, <3>3 DEF AdmitsEndpoint
    <3> QED
      BY <2>1, <2>2, <3>4, <3>5, <3>6, FitsOne
  <2>7. CASE AdmitsBothEndpoints(s)
    <3>1. IsRelation(s) /\ Room > 0
      <4>1. capacity \in Nat /\ Len(admissions) \in Nat
        BY EvidenceAssumption DEF Typed, TypeOK
      <4> QED
        BY <2>7, <4>1 DEF AdmitsBothEndpoints, Room
    <3>2. PICK d \in Admission : d = Entry(Hit(s)[1], s, "source", "ordinary")
      BY <2>1, <2>3, EntryType
    <3>3. PICK e \in Admission :
            e = Entry(Hit(s)[2], s, "target", IF Room = 1 THEN "relation_endpoint_closure" ELSE "ordinary")
      BY <2>1, <2>3, <3>1, EntryType
    <3>4. Endpoints(s) = <<d, e>>
      BY <3>2, <3>3 DEF Endpoints
    <3>5. Visited(s, admissions \o <<d, e>>)
      BY <2>7, <3>4 DEF AdmitsBothEndpoints
    <3> QED
      BY <2>1, <2>2, <3>1, <3>2, <3>3, <3>4, <3>5, FitsTwo
  <2> QED
    BY <1>4, <2>4, <2>5, <2>6, <2>7
<1>5. CASE Composes \/ Hydrates \/ EndsHydration \/ Projects \/ EndsProjection \/ UNCHANGED vars
  <2>1. UNCHANGED <<execution, capacity, admissions>>
    BY <1>5 DEF Composes, Hydrates, EndsHydration, Projects, EndsProjection, vars, selection
  <2>2. phase' = phase \/ phase' \in {"project", "done"}
    BY <1>5 DEF Composes, Hydrates, EndsHydration, Projects, EndsProjection, vars
  <2> QED
    BY <1>1, <2>1, <2>2
<1> QED
  BY <1>2, <1>3, <1>4, <1>5 DEF Next, Returned

LEMMA FitsAlways == Spec => [](Typed /\ Fits)
<1>1. Init => Typed /\ Fits
  <2> SUFFICES ASSUME Init PROVE Typed /\ Fits
    OBVIOUS
  <2>1. Typed /\ admissions = <<>> /\ phase = "compose"
    BY TypedInit DEF Init
  <2>2. capacity \in Nat
    BY <2>1, EvidenceAssumption DEF Typed, TypeOK
  <2>3. Len(admissions) <= capacity /\ DOMAIN admissions = {}
    BY <2>1, <2>2
  <2> QED
    BY <2>1, <2>3 DEF Fits, SelectionFits, ClosureIsLast, EdgesWhole, Running
<1> QED
  BY <1>1, TypedStep, FitsStep, PTL DEF Spec

(* The selection never outgrows max_candidates but for one closing target, *)
(* and a relation is admitted with both endpoints, for every execution.    *)
THEOREM SelectionAlwaysFits == Spec => []SelectionFits
<1>1. Fits => SelectionFits
  BY DEF Fits
<1> QED
  BY <1>1, FitsAlways, PTL

-------------------------------------------------------------------------------
(* Composition leaves no target out, so the topology has an entry for each *)
(* target a lane can admit, and the counters bound what depth was used.    *)
Composed ==
  \A s \in Seats : (phase = "compose" /\ s \in pending) \/ Targets(s) \subseteq Elements(candidates)
Owned == phase \notin {"compose", "own"} => owners = Topology
DepthCounted ==
  \A o \in Owner : /\ IsFiniteSet(DepthUsed(o))
                   /\ Cardinality(DepthUsed(o)) <= ownerCounts[o]
                   /\ Cardinality(DepthUsed(o)) <= limit
Deep == Composed /\ Owned /\ DepthCounted /\ NeverRaises

LEMMA ProtectedOwned ==
  ASSUME Typed, Deep, NEW s \in Seats, phase \notin {"compose", "own"}, IsProtected(s)
  PROVE  /\ owners[Hit(s)[1]] = OwnerOf[Hit(s)[1]]
         /\ OwnerOf[Hit(s)[1]] \in Owner
         /\ ~Ownerless(s)
<1>1. /\ Hit(s)[1] \in Ref /\ OwnerOf[Hit(s)[1]] \in Owner /\ Hit(s)[1] \in Targets(s)
  BY HitShape DEF Typed
<1>2. Hit(s)[1] \in Elements(candidates)
  BY <1>1 DEF Deep, Composed
<1>3. owners[Hit(s)[1]] = OwnerOf[Hit(s)[1]]
  BY <1>1, <1>2 DEF Deep, Owned, Topology
<1> QED
  BY <1>1, <1>3, EvidenceAssumption DEF Ownerless

(* An entry uses depth only if a protected lane admits it as ordinary.     *)
LEMMA DepthKept ==
  ASSUME Typed, DepthCounted, NEW adm \in Seq(Admission),
         DOMAIN admissions \subseteq DOMAIN adm,
         \A i \in DOMAIN admissions : adm[i] = admissions[i],
         \A i \in DOMAIN adm \ DOMAIN admissions : ~IsProtected(adm[i].seat) \/ adm[i].kind # "ordinary",
         admissions' = adm, execution' = execution, limit' = limit,
         ownerCounts' \in [Owner -> Nat],
         \A o \in Owner : ownerCounts'[o] >= ownerCounts[o]
  PROVE  DepthCounted'
<1> SUFFICES ASSUME NEW o \in Owner
             PROVE  /\ IsFiniteSet(DepthUsed(o)')
                    /\ Cardinality(DepthUsed(o)') <= ownerCounts'[o]
                    /\ Cardinality(DepthUsed(o)') <= limit
  BY DEF DepthCounted
<1>1. DepthUsed(o)' = DepthUsed(o)
  BY DEF DepthUsed, IsProtected
<1>2. /\ IsFiniteSet(DepthUsed(o)) /\ Cardinality(DepthUsed(o)) <= ownerCounts[o]
      /\ Cardinality(DepthUsed(o)) <= limit
  BY DEF DepthCounted
<1>3. Cardinality(DepthUsed(o)) \in Nat /\ ownerCounts[o] \in Nat /\ ownerCounts'[o] \in Nat
  BY <1>2, FS_CardinalityType DEF Typed, TypeOK
<1>4. ownerCounts'[o] >= ownerCounts[o]
  OBVIOUS
<1> QED
  BY <1>1, <1>2, <1>3, <1>4

LEMMA DepthUsedOnce ==
  ASSUME Typed, Deep, NEW s \in Seats, IsProtected(s), phase = "admit", ~HeldBack(s),
         NEW e \in Admission, e = Entry(Hit(s)[1], s, "unary", "ordinary"),
         admissions' = Append(admissions, e), execution' = execution, limit' = limit,
         ownerCounts' = [ownerCounts EXCEPT ![owners[Hit(s)[1]]] = @ + 1]
  PROVE  DepthCounted'
<1> DEFINE n == Len(admissions)
           mine == OwnerOf[Hit(s)[1]]
<1>1. mine \in Owner /\ owners[Hit(s)[1]] = mine /\ ~Ownerless(s)
  BY ProtectedOwned
<1>2. ownerCounts \in [Owner -> Nat] /\ limit \in Nat
  BY DEF Typed, TypeOK
<1>3. ownerCounts[mine] < limit
  BY <1>1, <1>2 DEF HeldBack, AtDepth
<1>4. ownerCounts' = [ownerCounts EXCEPT ![mine] = ownerCounts[mine] + 1]
  BY <1>1
<1>5. LET adm == Append(admissions, e) IN
      /\ DOMAIN adm = DOMAIN admissions \cup {n + 1}
      /\ \A i \in DOMAIN admissions : adm[i] = admissions[i] /\ i # n + 1
      /\ adm[n + 1] = e
  BY OneMore
<1>6. e.ref = Hit(s)[1] /\ e.seat = s /\ e.kind = "ordinary"
  BY DEF Entry
<1> HIDE DEF n
<1>7. \A o \in Owner : DepthUsed(o)' = IF o = mine THEN DepthUsed(o) \cup {n + 1} ELSE DepthUsed(o)
  BY <1>5, <1>6 DEF DepthUsed, IsProtected
<1>8. n + 1 \notin DepthUsed(mine)
  BY <1>5 DEF DepthUsed
<1> HIDE DEF mine
<1> SUFFICES ASSUME NEW o \in Owner
             PROVE  /\ IsFiniteSet(DepthUsed(o)')
                    /\ Cardinality(DepthUsed(o)') <= ownerCounts'[o]
                    /\ Cardinality(DepthUsed(o)') <= limit
  BY DEF DepthCounted
<1>9. /\ IsFiniteSet(DepthUsed(o)) /\ Cardinality(DepthUsed(o)) \in Nat
      /\ Cardinality(DepthUsed(o)) <= ownerCounts[o] /\ Cardinality(DepthUsed(o)) <= limit
  BY FS_CardinalityType DEF Deep, DepthCounted
<1>10. CASE o # mine
  BY <1>2, <1>4, <1>7, <1>9, <1>10
<1>11. CASE o = mine
  <2>1. DepthUsed(o)' = DepthUsed(o) \cup {n + 1}
    BY <1>7, <1>11
  <2>2. /\ IsFiniteSet(DepthUsed(o) \cup {n + 1})
        /\ Cardinality(DepthUsed(o) \cup {n + 1}) = Cardinality(DepthUsed(o)) + 1
    BY <1>8, <1>9, <1>11, FS_AddElement
  <2>3. ownerCounts'[o] = ownerCounts[o] + 1
    BY <1>1, <1>2, <1>4, <1>11
  <2>4. ownerCounts[o] \in Nat /\ ownerCounts[o] < limit
    BY <1>1, <1>2, <1>3, <1>11
  <2> QED
    BY <1>2, <1>9, <2>1, <2>2, <2>3, <2>4
<1> QED
  BY <1>10, <1>11

LEMMA DeepVisit ==
  ASSUME Typed, Deep, Running, NEW s \in Seats, NEW adm \in Seq(Admission),
         Visited(s, adm), DepthCounted'
  PROVE  Deep'
<1>1. IsProtected(s) => ~Ownerless(s)
  BY ProtectedOwned DEF Running
<1>2. ~Ownerless(s)
  BY <1>1 DEF Ownerless
<1>3. phase' \in {"admit", "fallback", "hydrate"}
  BY <1>2 DEF Visited, Running
<1>4. UNCHANGED <<execution, candidates, owners>>
  BY DEF Visited, workspace
<1>5. Composed'
  BY <1>3, <1>4 DEF Deep, Composed, Seats, Targets, Hit, Running
<1>6. Owned'
  BY <1>3, <1>4 DEF Deep, Owned, Topology, Running
<1> QED
  BY <1>3, <1>5, <1>6 DEF Deep, NeverRaises

LEMMA DeepStep == Typed /\ Deep /\ [Next]_vars => Deep'
<1> SUFFICES ASSUME Typed, Deep, [Next]_vars PROVE Deep'
  OBVIOUS
<1>1. CASE Composes
  <2>1. PICK s \in pending : /\ candidates' = JoinedAll(candidates, Hit(s))
                             /\ pending' = pending \ {s}
    BY <1>1 DEF Composes
  <2>2. s \in Seats /\ candidates \in Seq(Ref) /\ phase = "compose" /\ phase' = phase /\ execution' = execution
    BY <1>1, <2>1 DEF Typed, TypeOK, Composes
  <2>3. Hit(s) \in Seq(Ref) /\ Len(Hit(s)) \in {0, 1, 2}
    BY <2>2, HitShape DEF Typed
  <2>4. \A e : e \in Elements(candidates') <=> e \in Elements(candidates) \/ e \in Targets(s)
    BY <2>1, <2>2, <2>3, JoinedAllFacts DEF Targets
  <2>5. Composed'
    <3> SUFFICES ASSUME NEW t \in Seats, t \notin pending'
                 PROVE  Targets(t) \subseteq Elements(candidates')
      BY <2>2 DEF Composed, Seats, Targets, Hit
    <3>1. CASE t = s
      BY <2>4, <3>1
    <3>2. CASE t # s
      BY <2>1, <2>2, <2>4, <3>2 DEF Deep, Composed
    <3> QED
      BY <3>1, <3>2
  <2>6. UNCHANGED <<execution, limit, admissions, ownerCounts>>
    BY <1>1 DEF Composes, selection
  <2>7. DepthCounted'
    BY <2>6 DEF Deep, DepthCounted, DepthUsed, IsProtected
  <2> QED
    BY <2>2, <2>5, <2>7 DEF Deep, Owned, NeverRaises
<1>2. CASE EndsComposition
  <2>1. UNCHANGED <<execution, limit, candidates, admissions, ownerCounts>> /\ phase' = "own" /\ pending = {}
    BY <1>2 DEF EndsComposition, workspace, selection
  <2>3. Composed'
    BY <2>1 DEF Deep, Composed, Seats, Targets, Hit
  <2>4. DepthCounted'
    BY <2>1 DEF Deep, DepthCounted, DepthUsed, IsProtected
  <2> QED
    BY <2>1, <2>3, <2>4 DEF Deep, Owned, NeverRaises
<1>3. CASE DerivesOwners
  <2>1. UNCHANGED <<execution, limit, candidates, admissions, ownerCounts>> /\ phase' = "admit" /\ phase = "own"
    BY <1>3 DEF DerivesOwners, workspace, selection
  <2>2. Owned'
    BY <1>3, <2>1 DEF DerivesOwners, Owned, Topology
  <2>4. Composed'
    BY <2>1 DEF Deep, Composed, Seats, Targets, Hit
  <2>5. DepthCounted'
    BY <2>1 DEF Deep, DepthCounted, DepthUsed, IsProtected
  <2> QED
    BY <2>1, <2>2, <2>4, <2>5 DEF Deep, NeverRaises
<1>4. ASSUME NEW s \in pending,
             PassesOver(s) \/ Defers(s) \/ AdmitsUnary(s) \/ AdmitsEndpoint(s) \/ AdmitsBothEndpoints(s)
      PROVE  Deep'
  <2>1. /\ s \in Seats /\ execution \in Executions
        /\ admissions \in Seq(Admission) /\ ownerCounts \in [Owner -> Nat]
    BY DEF Typed, TypeOK
  <2>2. Running
    BY <1>4 DEF PassesOver, Defers, AdmitsUnary, AdmitsEndpoint, AdmitsBothEndpoints, Reaches, Running
  <2>3. /\ Hit(s)[1] \in Ref /\ (IsRelation(s) => Hit(s)[2] \in Ref /\ ~IsProtected(s))
        /\ Targets(s) = IF IsRelation(s) THEN {Hit(s)[1], Hit(s)[2]} ELSE {Hit(s)[1]}
    BY <2>1, HitShape
  <2>4. DepthCounted
    BY DEF Deep
  <2>5. CASE PassesOver(s) \/ Defers(s)
    <3>1. Visited(s, admissions) /\ ownerCounts' = ownerCounts
      BY <2>5 DEF PassesOver, Defers
    <3>2. UNCHANGED <<execution, limit, admissions>>
      BY <3>1 DEF Visited
    <3>3. DepthCounted'
      BY <2>4, <3>1, <3>2 DEF DepthCounted, DepthUsed, IsProtected
    <3> QED
      BY <2>1, <2>2, <3>1, <3>3, DeepVisit
  <2>6. CASE AdmitsUnary(s)
    <3>1. PICK e \in Admission : e = Entry(Hit(s)[1], s, "unary", UnaryKind(s))
      BY <2>1, <2>3, EntryType DEF UnaryKind
    <3>2. e.seat = s /\ e.kind = UnaryKind(s)
      BY <3>1 DEF Entry
    <3>3. Visited(s, Append(admissions, e)) /\ ~HeldBack(s)
      BY <2>6, <3>1 DEF AdmitsUnary
    <3>4. ownerCounts' = IF IsProtected(s) THEN [ownerCounts EXCEPT ![owners[Hit(s)[1]]] = @ + 1] ELSE ownerCounts
      BY <2>6 DEF AdmitsUnary
    <3>5. /\ admissions' = Append(admissions, e) /\ execution' = execution /\ limit' = limit
          /\ Append(admissions, e) \in Seq(Admission)
      BY <2>1, <3>3 DEF Visited
    <3>6. DepthCounted'
      <4>1. CASE phase = "admit" /\ IsProtected(s)
        <5>1. UnaryKind(s) = "ordinary"
          BY <4>1 DEF UnaryKind
        <5> QED
          BY <2>1, <3>1, <3>3, <3>4, <3>5, <4>1, <5>1, DepthUsedOnce
      <4>2. CASE ~IsProtected(s) \/ phase = "fallback"
        <5>1. ~IsProtected(e.seat) \/ e.kind # "ordinary"
          BY <3>2, <4>2 DEF UnaryKind
        <5>2. LET adm == Append(admissions, e) IN
              /\ DOMAIN adm = DOMAIN admissions \cup {Len(admissions) + 1}
              /\ \A i \in DOMAIN admissions : adm[i] = admissions[i]
              /\ adm[Len(admissions) + 1] = e
          BY OneMore
        <5>3. ownerCounts' \in [Owner -> Nat] /\ \A o \in Owner : ownerCounts'[o] >= ownerCounts[o]
          <6>1. CASE IsProtected(s)
            <7>1. owners[Hit(s)[1]] \in Owner
              BY <2>1, <2>2, <6>1, ProtectedOwned DEF Running
            <7> QED
              BY <2>1, <3>4, <6>1, <7>1
          <6>2. CASE ~IsProtected(s)
            BY <2>1, <3>4, <6>2
          <6> QED
            BY <6>1, <6>2
        <5> QED
          BY <2>4, <3>5, <5>1, <5>2, <5>3, DepthKept
      <4> QED
        BY <2>2, <4>1, <4>2 DEF Running
    <3> QED
      BY <2>1, <2>2, <3>3, <3>5, <3>6, DeepVisit
  <2>7. CASE AdmitsEndpoint(s)
    <3>1. PICK r \in Unseen(s) :
            Visited(s, Append(admissions, Entry(r, s, IF r = Hit(s)[1] THEN "source" ELSE "target", "ordinary")))
      BY <2>7 DEF AdmitsEndpoint
    <3>2. r \in Ref /\ ~IsProtected(s) /\ ownerCounts' = ownerCounts
      BY <2>3, <2>7, <3>1 DEF Unseen, AdmitsEndpoint
    <3>3. PICK e \in Admission : e = Entry(r, s, IF r = Hit(s)[1] THEN "source" ELSE "target", "ordinary")
      BY <2>1, <3>2, EntryType
    <3>4. e.seat = s
      BY <3>3 DEF Entry
    <3>5. Visited(s, Append(admissions, e))
      BY <3>1, <3>3
    <3>6. /\ admissions' = Append(admissions, e) /\ execution' = execution /\ limit' = limit
          /\ Append(admissions, e) \in Seq(Admission)
      BY <2>1, <3>5 DEF Visited
    <3>7. LET adm == Append(admissions, e) IN
          /\ DOMAIN adm = DOMAIN admissions \cup {Len(admissions) + 1}
          /\ \A i \in DOMAIN admissions : adm[i] = admissions[i]
          /\ adm[Len(admissions) + 1] = e
      BY OneMore
    <3>8. ownerCounts' \in [Owner -> Nat] /\ \A o \in Owner : ownerCounts'[o] >= ownerCounts[o]
      BY <2>1, <3>2
    <3>9. DepthCounted'
      BY <2>4, <3>2, <3>4, <3>6, <3>7, <3>8, DepthKept
    <3> QED
      BY <2>1, <2>2, <3>5, <3>6, <3>9, DeepVisit
  <2>8. CASE AdmitsBothEndpoints(s)
    <3>1. ~IsProtected(s) /\ IsRelation(s) /\ ownerCounts' = ownerCounts
      BY <2>3, <2>8 DEF AdmitsBothEndpoints
    <3>2. PICK d \in Admission : d = Entry(Hit(s)[1], s, "source", "ordinary")
      BY <2>1, <2>3, EntryType
    <3>3. PICK e \in Admission :
            e = Entry(Hit(s)[2], s, "target", IF Room = 1 THEN "relation_endpoint_closure" ELSE "ordinary")
      BY <2>1, <2>3, <3>1, EntryType
    <3>4. d.seat = s /\ e.seat = s /\ Endpoints(s) = <<d, e>>
      BY <3>2, <3>3 DEF Endpoints, Entry
    <3>5. Visited(s, admissions \o <<d, e>>)
      BY <2>8, <3>4 DEF AdmitsBothEndpoints
    <3>6. /\ admissions' = admissions \o <<d, e>> /\ execution' = execution /\ limit' = limit
          /\ admissions \o <<d, e>> \in Seq(Admission)
      BY <2>1, <3>5 DEF Visited
    <3>7. LET adm == admissions \o <<d, e>> IN
          /\ DOMAIN adm = DOMAIN admissions \cup {Len(admissions) + 1, Len(admissions) + 2}
          /\ \A i \in DOMAIN admissions : adm[i] = admissions[i]
          /\ adm[Len(admissions) + 1] = d /\ adm[Len(admissions) + 2] = e
      BY TwoMore
    <3>8. ownerCounts' \in [Owner -> Nat] /\ \A o \in Owner : ownerCounts'[o] >= ownerCounts[o]
      BY <2>1, <3>1
    <3>9. DepthCounted'
      BY <2>4, <3>1, <3>4, <3>6, <3>7, <3>8, DepthKept
    <3> QED
      BY <2>1, <2>2, <3>5, <3>6, <3>9, DeepVisit
  <2> QED
    BY <1>4, <2>5, <2>6, <2>7, <2>8
<1>5. CASE EndsPass \/ Hydrates \/ EndsHydration \/ Projects \/ EndsProjection
  <2>1. UNCHANGED <<execution, limit, candidates, owners, admissions, ownerCounts>>
    BY <1>5 DEF EndsPass, Hydrates, EndsHydration, Projects, EndsProjection, workspace, selection
  <2>2. /\ phase \notin {"compose", "own", "raised"}
        /\ phase' \in {"fallback", "hydrate", "project", "done"}
    BY <1>5 DEF EndsPass, Hydrates, EndsHydration, Projects, EndsProjection
  <2>3. Composed'
    BY <2>1, <2>2 DEF Deep, Composed, Seats, Targets, Hit
  <2>4. Owned'
    BY <2>1, <2>2 DEF Deep, Owned, Topology
  <2>5. DepthCounted'
    BY <2>1 DEF Deep, DepthCounted, DepthUsed, IsProtected
  <2> QED
    BY <2>2, <2>3, <2>4, <2>5 DEF Deep, NeverRaises
<1>6. CASE UNCHANGED vars
  <2>1. UNCHANGED <<execution, limit, phase, pending, candidates, owners, admissions, ownerCounts>>
    BY <1>6 DEF vars, workspace, selection
  <2>2. Composed'
    BY <2>1 DEF Deep, Composed, Seats, Targets, Hit
  <2>3. Owned'
    BY <2>1 DEF Deep, Owned, Topology
  <2>4. DepthCounted'
    BY <2>1 DEF Deep, DepthCounted, DepthUsed, IsProtected
  <2> QED
    BY <2>1, <2>2, <2>3, <2>4 DEF Deep, NeverRaises
<1> QED
  BY <1>1, <1>2, <1>3, <1>4, <1>5, <1>6 DEF Next, Returned

LEMMA DeepAlways == Spec => [](Typed /\ Deep)
<1>1. Init => Typed /\ Deep
  <2> SUFFICES ASSUME Init PROVE Deep
    BY TypedInit
  <2>1. /\ Typed /\ admissions = <<>> /\ phase = "compose" /\ pending = Seats
        /\ ownerCounts = [o \in Owner |-> 0]
    BY TypedInit DEF Init
  <2>2. limit \in Nat
    BY <2>1 DEF Typed, TypeOK
  <2>3. \A o \in Owner : DepthUsed(o) = {}
    BY <2>1 DEF DepthUsed
  <2>4. DepthCounted
    BY <2>1, <2>2, <2>3, FS_EmptySet DEF DepthCounted
  <2> QED
    BY <2>1, <2>4 DEF Deep, Composed, Owned, NeverRaises
<1> QED
  BY <1>1, TypedStep, DeepStep, PTL DEF Spec

(* In the first pass no owner gets more than its limit through protected   *)
(* lanes, for every execution, capacity and fraction.                      *)
THEOREM OwnerDepthAlwaysHolds == Spec => []OwnerDepthHolds
<1>1. Deep => OwnerDepthHolds
  BY DEF Deep, DepthCounted, OwnerDepthHolds
<1> QED
  BY <1>1, DeepAlways, PTL

(* No execution the surfaces can return makes the preparation raise.       *)
THEOREM PreparationNeverRaises == Spec => []NeverRaises
<1>1. Deep => NeverRaises
  BY DEF Deep
<1> QED
  BY <1>1, DeepAlways, PTL

-------------------------------------------------------------------------------
(* What the loops have visited is in, or owner depth holds it back.        *)
Kept(s, r) ==
  r \in Selected \/ (IsProtected(s) /\ Cardinality(DepthUsed(OwnerOf[r])) >= limit)

FirstPass ==
  phase = "admit" => \A s \in Seats \ pending :
    /\ \A r \in Targets(s) : Kept(s, r)
    /\ ~deferred => Targets(s) \subseteq Selected
SecondPass ==
  phase = "fallback" => \A s \in Seats :
    /\ \A r \in Targets(s) : Kept(s, r)
    /\ s \notin pending => Targets(s) \subseteq Selected
Finished ==
  phase \in {"hydrate", "project", "done"} =>
    Room <= 0 \/ \A s \in Seats : Targets(s) \subseteq Selected

FromLanes == \A r \in Elements(candidates) : \E s \in Seats : r \in Targets(s)

CountsExact ==
  phase \in {"compose", "own", "admit"} =>
    \A o \in Owner : ownerCounts[o] <= Cardinality(DepthUsed(o))

FallbackLast ==
  \A i \in DOMAIN admissions : admissions[i].kind = "owner_depth_fallback" =>
    /\ IsProtected(admissions[i].seat)
    /\ Cardinality(DepthUsed(OwnerOf[admissions[i].ref])) >= limit
    /\ \A s \in Seats : IsProtected(s) \/ Targets(s) \subseteq {admissions[j].ref : j \in 1..(i - 1)}

AdmittedOnce ==
  \A i, j \in DOMAIN admissions : admissions[i].ref = admissions[j].ref => i = j

Passes == FirstPass /\ SecondPass /\ Finished /\ FromLanes /\ CountsExact
Fair == Passes /\ BreadthFirst /\ FallbackLast /\ AdmittedOnce

(* What a visit adds comes from the occurrence and was not in before.      *)
Lengthens(s, adm) ==
  /\ adm \in Seq(Admission) /\ Len(admissions) <= Len(adm)
  /\ \A i \in 1..Len(admissions) : adm[i] = admissions[i]
  /\ \A i \in (Len(admissions) + 1)..Len(adm) :
       /\ adm[i].seat = s /\ adm[i].ref \in Unseen(s)
       /\ adm[i].kind = "owner_depth_fallback" <=> phase = "fallback" /\ IsProtected(s)
  /\ \A i, j \in (Len(admissions) + 1)..Len(adm) : adm[i].ref = adm[j].ref => i = j

LEMMA Enough ==
  ASSUME NEW k \in Nat, NEW B, B \subseteq 1..k, NEW A, A \subseteq B,
         NEW l \in Nat, Cardinality(A) >= l
  PROVE  Cardinality(B) >= l
<1>1. IsFiniteSet(B)
  <2>1. IsFiniteSet(1..k)
    BY FS_Interval
  <2> QED
    BY <2>1, FS_Subset
<1>2. IsFiniteSet(A) /\ Cardinality(A) <= Cardinality(B)
  BY <1>1, FS_Subset
<1>3. Cardinality(A) \in Nat /\ Cardinality(B) \in Nat
  BY <1>1, <1>2, FS_CardinalityType
<1> QED
  BY <1>2, <1>3

(* The state of a visit that all the cases share.                          *)
LEMMA Lengthened ==
  ASSUME Typed, NEW s \in Seats, NEW adm, Lengthens(s, adm), admissions' = adm,
         execution' = execution, limit' = limit
  PROVE  /\ Len(admissions) \in Nat /\ Len(adm) \in Nat
         /\ DOMAIN admissions = 1..Len(admissions) /\ DOMAIN adm = 1..Len(adm)
         /\ Selected \subseteq Selected'
         /\ \A o : /\ DepthUsed(o) \subseteq 1..Len(admissions) /\ DepthUsed(o)' \subseteq 1..Len(adm)
                   /\ DepthUsed(o)' \cap 1..Len(admissions) = DepthUsed(o)
         /\ \A t \in Seats : \A r : Kept(t, r) => Kept(t, r)'
<1>1. /\ Len(admissions) \in Nat /\ Len(adm) \in Nat /\ limit \in Nat /\ Len(admissions) <= Len(adm)
      /\ DOMAIN admissions = 1..Len(admissions) /\ DOMAIN adm = 1..Len(adm)
  BY DEF Typed, TypeOK, Lengthens
<1>2. \A i \in 1..Len(admissions) : i \in 1..Len(adm) /\ adm[i] = admissions[i]
  BY <1>1 DEF Lengthens
<1>3. Selected \subseteq Selected'
  BY <1>1, <1>2 DEF Selected
<1>4. ASSUME NEW o
      PROVE  /\ DepthUsed(o) \subseteq 1..Len(admissions) /\ DepthUsed(o)' \subseteq 1..Len(adm)
             /\ DepthUsed(o)' \cap 1..Len(admissions) = DepthUsed(o)
  BY <1>1, <1>2 DEF DepthUsed, IsProtected
<1>5. ASSUME NEW t \in Seats, NEW r, Kept(t, r) PROVE Kept(t, r)'
  <2>1. CASE r \in Selected
    BY <1>3, <2>1 DEF Kept
  <2>2. CASE r \notin Selected
    <3>1. IsProtected(t) /\ Cardinality(DepthUsed(OwnerOf[r])) >= limit
      BY <1>5, <2>2 DEF Kept
    <3>2. PICK o : o = OwnerOf[r]
      OBVIOUS
    <3>3. Cardinality(DepthUsed(o)') >= limit
      <4> DEFINE A == DepthUsed(o)
                 B == DepthUsed(o)'
      <4>1. A \subseteq B /\ B \subseteq 1..Len(adm) /\ Cardinality(A) >= limit
        BY <1>4, <3>1, <3>2
      <4> HIDE DEF A, B
      <4>2. Cardinality(B) >= limit
        BY <1>1, <4>1, Enough
      <4> QED
        BY <4>2 DEF B
    <3>4. IsProtected(t)' /\ Cardinality(DepthUsed(OwnerOf[r])') >= limit'
      BY <3>1, <3>2, <3>3 DEF IsProtected
    <3> QED
      BY <3>4 DEF Kept
  <2> QED
    BY <2>1, <2>2
<1> QED
  BY <1>1, <1>3, <1>4, <1>5

(* The loop has come to s only after all that comes before it.             *)
LEMMA VisitedBefore ==
  ASSUME Typed, NEW s \in pending, Reaches(s), NEW t \in Seats, RoundFirst(t, s)
  PROVE  t \notin pending
<1>1. s \in Nat \X Nat /\ t \in Nat \X Nat
  BY HitShape DEF Typed, TypeOK
<1>2. s[1] \in Nat /\ s[2] \in Nat /\ t[1] \in Nat /\ t[2] \in Nat
  BY <1>1
<1>3. ~RoundFirst(s, t) /\ t # s
  BY <1>2 DEF RoundFirst
<1> QED
  BY <1>3 DEF Reaches

LEMMA BreadthVisit ==
  ASSUME Typed, FirstPass, SecondPass, BreadthFirst, NEW s \in pending, Reaches(s),
         NEW adm, Lengthens(s, adm), admissions' = adm, execution' = execution, limit' = limit
  PROVE  BreadthFirst'
<1> DEFINE n == Len(admissions)
<1>1. /\ n \in Nat /\ Len(adm) \in Nat /\ s \in Seats /\ phase \in {"admit", "fallback"} /\ limit \in Nat
      /\ DOMAIN admissions = 1..n /\ DOMAIN adm = 1..Len(adm)
      /\ \A o : /\ DepthUsed(o) \subseteq 1..n /\ DepthUsed(o)' \subseteq 1..Len(adm)
                /\ DepthUsed(o)' \cap 1..n = DepthUsed(o)
  <2>1. s \in Seats /\ limit \in Nat
    BY DEF Typed, TypeOK
  <2> QED
    BY <2>1, Lengthened DEF Reaches
<1>2. Seats' = Seats /\ \A t : Targets(t)' = Targets(t) /\ IsProtected(t)' = IsProtected(t)
  BY DEF Seats, Targets, Hit, IsProtected
<1> SUFFICES ASSUME NEW i \in 1..Len(adm), adm[i].kind # "owner_depth_fallback",
                    NEW t \in Seats, RoundFirst(t, adm[i].seat), NEW r \in Targets(t)
             PROVE  \/ \E j \in 1..(i - 1) : adm[j].ref = r
                    \/ /\ IsProtected(t)
                       /\ Cardinality(DepthUsed(OwnerOf[r])' \cap 1..(i - 1)) >= limit
  BY <1>1, <1>2 DEF BreadthFirst
<1>3. PICK o : o = OwnerOf[r]
  OBVIOUS
<1> HIDE DEF n
<1>4. CASE i \in 1..n
  <2>1. adm[i] = admissions[i] /\ \A j \in 1..(i - 1) : adm[j] = admissions[j]
    BY <1>1, <1>4 DEF Lengthens, n
  <2>2. \/ \E j \in 1..(i - 1) : admissions[j].ref = r
        \/ IsProtected(t) /\ Cardinality(DepthUsed(o) \cap 1..(i - 1)) >= limit
    BY <1>1, <1>3, <1>4, <2>1 DEF BreadthFirst
  <2>3. DepthUsed(o)' \cap 1..(i - 1) = DepthUsed(o) \cap 1..(i - 1)
    <3>1. 1..(i - 1) \subseteq 1..n
      BY <1>1, <1>4
    <3> QED
      BY <1>1, <3>1
  <2> QED
    BY <1>3, <2>1, <2>2, <2>3
<1>5. CASE i \notin 1..n
  <2>1. /\ i \in (n + 1)..Len(adm) /\ adm[i].seat = s /\ adm[i].ref \in Unseen(s)
        /\ ~(phase = "fallback" /\ IsProtected(s))
    <3>1. i \in (n + 1)..Len(adm)
      BY <1>1, <1>5
    <3> QED
      BY <3>1 DEF Lengthens, n
  <2>2. adm[i].ref \in Targets(s) /\ adm[i].ref \notin Selected
    BY <2>1 DEF Unseen
  <2>3. phase = "admit"
    BY <1>1, <2>1, <2>2 DEF SecondPass, Kept
  <2>4. t \notin pending
    BY <2>1, VisitedBefore
  <2>5. Kept(t, r)
    BY <2>3, <2>4 DEF FirstPass
  <2>6. 1..n \subseteq 1..(i - 1) /\ i - 1 \in Nat
    BY <1>1, <2>1
  <2>7. CASE r \in Selected
    <3>1. PICK j \in 1..n : admissions[j].ref = r
      BY <1>1, <2>7 DEF Selected
    <3>2. adm[j] = admissions[j]
      BY <3>1 DEF Lengthens, n
    <3> QED
      BY <2>6, <3>1, <3>2
  <2>8. CASE r \notin Selected
    <3>1. IsProtected(t) /\ Cardinality(DepthUsed(o)) >= limit
      BY <1>3, <2>5, <2>8 DEF Kept
    <3> DEFINE A == DepthUsed(o)
               B == DepthUsed(o)' \cap 1..(i - 1)
    <3>2. A \subseteq B /\ B \subseteq 1..(i - 1)
      BY <1>1, <2>6
    <3>3. Cardinality(A) >= limit
      BY <3>1
    <3> HIDE DEF A, B
    <3>4. Cardinality(B) >= limit
      BY <1>1, <2>6, <3>2, <3>3, Enough
    <3> QED
      BY <1>3, <3>1, <3>4 DEF B
  <2> QED
    BY <2>7, <2>8
<1> QED
  BY <1>4, <1>5

LEMMA FallbackVisit ==
  ASSUME Typed, SecondPass, FallbackLast, NEW s \in pending, Reaches(s),
         NEW adm, Lengthens(s, adm), admissions' = adm, execution' = execution, limit' = limit
  PROVE  FallbackLast'
<1> DEFINE n == Len(admissions)
<1>1. /\ n \in Nat /\ Len(adm) \in Nat /\ s \in Seats /\ limit \in Nat
      /\ DOMAIN admissions = 1..n /\ DOMAIN adm = 1..Len(adm)
      /\ \A o : /\ DepthUsed(o) \subseteq 1..n /\ DepthUsed(o)' \subseteq 1..Len(adm)
                /\ DepthUsed(o)' \cap 1..n = DepthUsed(o)
  <2>1. s \in Seats /\ limit \in Nat
    BY DEF Typed, TypeOK
  <2> QED
    BY <2>1, Lengthened
<1>2. Seats' = Seats /\ \A t : Targets(t)' = Targets(t) /\ IsProtected(t)' = IsProtected(t)
  BY DEF Seats, Targets, Hit, IsProtected
<1> SUFFICES ASSUME NEW i \in 1..Len(adm), adm[i].kind = "owner_depth_fallback"
             PROVE  /\ IsProtected(adm[i].seat)
                    /\ Cardinality(DepthUsed(OwnerOf[adm[i].ref])') >= limit
                    /\ \A t \in Seats : IsProtected(t) \/ Targets(t) \subseteq {adm[j].ref : j \in 1..(i - 1)}
  BY <1>1, <1>2 DEF FallbackLast, IsProtected
<1>3. PICK o : o = OwnerOf[adm[i].ref]
  OBVIOUS
<1>4. Cardinality(DepthUsed(o)) >= limit => Cardinality(DepthUsed(o)') >= limit
  <2> DEFINE A == DepthUsed(o)
             B == DepthUsed(o)'
  <2> SUFFICES ASSUME Cardinality(A) >= limit PROVE Cardinality(B) >= limit
    OBVIOUS
  <2>1. A \subseteq B /\ B \subseteq 1..Len(adm)
    BY <1>1
  <2> HIDE DEF A, B
  <2> QED
    BY <1>1, <2>1, Enough
<1> HIDE DEF n
<1>5. CASE i \in 1..n
  <2>1. adm[i] = admissions[i] /\ \A j \in 1..(i - 1) : adm[j] = admissions[j]
    BY <1>1, <1>5 DEF Lengthens, n
  <2>2. /\ IsProtected(adm[i].seat) /\ Cardinality(DepthUsed(o)) >= limit
        /\ \A t \in Seats : IsProtected(t) \/ Targets(t) \subseteq {admissions[j].ref : j \in 1..(i - 1)}
    BY <1>1, <1>3, <1>5, <2>1 DEF FallbackLast
  <2>3. {admissions[j].ref : j \in 1..(i - 1)} = {adm[j].ref : j \in 1..(i - 1)}
    BY <2>1
  <2> QED
    BY <1>3, <1>4, <2>2, <2>3
<1>6. CASE i \notin 1..n
  <2>1. i \in (n + 1)..Len(adm)
    BY <1>1, <1>6
  <2>2. adm[i].seat = s /\ adm[i].ref \in Unseen(s) /\ phase = "fallback" /\ IsProtected(s)
    BY <2>1 DEF Lengthens, n
  <2>3. adm[i].ref \in Targets(s) /\ adm[i].ref \notin Selected
    BY <2>2 DEF Unseen
  <2>4. Cardinality(DepthUsed(o)) >= limit
    BY <1>1, <1>3, <2>2, <2>3 DEF SecondPass, Kept
  <2>5. ASSUME NEW t \in Seats, ~IsProtected(t), NEW r \in Targets(t)
        PROVE  \E j \in 1..(i - 1) : adm[j].ref = r
    <3>1. r \in Selected
      BY <2>2, <2>5 DEF SecondPass, Kept
    <3>2. PICK j \in 1..n : admissions[j].ref = r
      BY <1>1, <3>1 DEF Selected
    <3>3. adm[j] = admissions[j] /\ j \in 1..(i - 1)
      BY <1>1, <2>1, <3>2 DEF Lengthens, n
    <3> QED
      BY <3>2, <3>3
  <2> QED
    BY <1>3, <1>4, <2>2, <2>4, <2>5
<1> QED
  BY <1>5, <1>6

LEMMA OnceVisit ==
  ASSUME Typed, AdmittedOnce, NEW s \in Seats, NEW adm, Lengthens(s, adm), admissions' = adm
  PROVE  AdmittedOnce'
<1> DEFINE n == Len(admissions)
<1>1. n \in Nat /\ Len(adm) \in Nat /\ DOMAIN admissions = 1..n /\ DOMAIN adm = 1..Len(adm)
  BY DEF Typed, TypeOK, Lengthens
<1>2. /\ \A i \in 1..n : adm[i] = admissions[i]
      /\ \A i \in (n + 1)..Len(adm) : adm[i].ref \notin Selected
      /\ \A i, j \in (n + 1)..Len(adm) : adm[i].ref = adm[j].ref => i = j
  BY DEF Lengthens, Unseen
<1> HIDE DEF n
<1> SUFFICES ASSUME NEW i \in 1..Len(adm), NEW j \in 1..Len(adm), adm[i].ref = adm[j].ref
             PROVE  i = j
  BY <1>1 DEF AdmittedOnce
<1>3. \A k \in 1..n : adm[k].ref \in Selected
  BY <1>1, <1>2 DEF Selected
<1>4. CASE i \in 1..n /\ j \in 1..n
  BY <1>1, <1>2, <1>4 DEF AdmittedOnce
<1>5. CASE i \notin 1..n /\ j \notin 1..n
  <2>1. i \in (n + 1)..Len(adm) /\ j \in (n + 1)..Len(adm)
    BY <1>1, <1>5
  <2> QED
    BY <1>2, <2>1
<1>6. CASE i \in 1..n /\ j \notin 1..n
  <2>1. j \in (n + 1)..Len(adm)
    BY <1>1, <1>6
  <2> QED
    BY <1>2, <1>3, <1>6, <2>1
<1>7. CASE i \notin 1..n /\ j \in 1..n
  <2>1. i \in (n + 1)..Len(adm)
    BY <1>1, <1>7
  <2> QED
    BY <1>2, <1>3, <1>7, <2>1
<1> QED
  BY <1>4, <1>5, <1>6, <1>7

(* A visit keeps the order, if it fills the selection, takes in all the    *)
(* occurrence returned, or defers what owner depth holds back.             *)
LEMMA FairVisit ==
  ASSUME Typed, Deep, Fair, NEW s \in pending, Reaches(s), NEW adm, Lengthens(s, adm), Visited(s, adm),
         deferred => deferred', CountsExact',
         \/ Len(adm) >= capacity
         \/ Targets(s) \subseteq Selected'
         \/ phase = "admit" /\ deferred' /\ \A r \in Targets(s) : Kept(s, r)'
  PROVE  Fair'
<1>1. /\ s \in Seats /\ phase \in {"admit", "fallback"} /\ capacity \in Nat /\ Len(adm) \in Nat
      /\ admissions' = adm /\ UNCHANGED <<execution, limit, capacity, candidates>>
  <2>1. s \in Seats /\ capacity \in Nat
    BY EvidenceAssumption DEF Typed, TypeOK
  <2> QED
    BY <2>1 DEF Reaches, Visited, workspace, Lengthens
<1>2. Seats' = Seats /\ \A t : Targets(t)' = Targets(t)
  BY <1>1 DEF Seats, Targets, Hit
<1>3. Selected \subseteq Selected' /\ \A t \in Seats : \A r : Kept(t, r) => Kept(t, r)'
  BY <1>1, Lengthened
<1>4. /\ phase' = IF Len(adm) >= capacity THEN "hydrate" ELSE phase
      /\ pending' = IF Len(adm) >= capacity THEN {} ELSE pending \ {s}
  <2>1. ~Ownerless(s)
    BY <1>1, ProtectedOwned DEF Ownerless
  <2> QED
    BY <2>1 DEF Visited
<1>5. FirstPass'
  <2> SUFFICES ASSUME phase' = "admit", NEW t \in Seats, t \notin pending'
               PROVE  /\ \A r \in Targets(t) : Kept(t, r)'
                      /\ ~deferred' => Targets(t) \subseteq Selected'
    BY <1>2 DEF FirstPass
  <2>1. phase = "admit" /\ ~(Len(adm) >= capacity) /\ pending' = pending \ {s}
    BY <1>4
  <2>2. CASE t = s
    BY <1>1, <1>2, <2>1, <2>2 DEF Kept
  <2>3. CASE t # s
    BY <1>2, <1>3, <2>1, <2>3 DEF Fair, Passes, FirstPass
  <2> QED
    BY <2>2, <2>3
<1>6. SecondPass'
  <2> SUFFICES ASSUME phase' = "fallback", NEW t \in Seats
               PROVE  /\ \A r \in Targets(t) : Kept(t, r)'
                      /\ t \notin pending' => Targets(t) \subseteq Selected'
    BY <1>2 DEF SecondPass
  <2>1. phase = "fallback" /\ ~(Len(adm) >= capacity) /\ pending' = pending \ {s}
    BY <1>4
  <2>2. Targets(s) \subseteq Selected'
    BY <2>1
  <2> QED
    BY <1>2, <1>3, <2>1, <2>2 DEF Fair, Passes, SecondPass
<1>7. Finished'
  <2> SUFFICES ASSUME phase' \in {"hydrate", "project", "done"} PROVE Room' <= 0
    BY DEF Finished
  <2>1. Len(adm) >= capacity
    BY <1>1, <1>4
  <2> QED
    BY <1>1, <2>1 DEF Room
<1>8. FromLanes'
  BY <1>1, <1>2 DEF Fair, Passes, FromLanes
<1>9. BreadthFirst' /\ FallbackLast'
  BY <1>1, BreadthVisit, FallbackVisit DEF Fair, Passes
<1>10. AdmittedOnce'
  BY <1>1, OnceVisit DEF Fair
<1> QED
  BY <1>5, <1>6, <1>7, <1>8, <1>9, <1>10 DEF Fair, Passes

(* A step outside the loops leaves the admissions alone.                   *)
LEMMA FairFrame ==
  ASSUME Fair, UNCHANGED <<execution, capacity, limit, admissions, ownerCounts>>, FirstPass', SecondPass', Finished',
         FromLanes', phase' \in {"compose", "own", "admit"} => phase \in {"compose", "own", "admit"}
  PROVE  Fair'
<1>1. /\ Seats' = Seats /\ \A o : DepthUsed(o)' = DepthUsed(o)
      /\ \A t : Targets(t)' = Targets(t) /\ IsProtected(t)' = IsProtected(t)
  BY DEF Seats, Targets, Hit, IsProtected, DepthUsed
<1>2. CountsExact'
  BY <1>1 DEF Fair, Passes, CountsExact
<1>3. BreadthFirst'
  BY <1>1 DEF Fair, BreadthFirst
<1>4. FallbackLast'
  BY <1>1 DEF Fair, FallbackLast
<1> QED
  BY <1>2, <1>3, <1>4 DEF Fair, Passes, AdmittedOnce

(* An entry leaves the counters exact unless it used depth uncounted.      *)
LEMMA CountsKept ==
  ASSUME Typed, CountsExact, NEW s \in Seats, NEW adm, Lengthens(s, adm),
         admissions' = adm, execution' = execution, limit' = limit,
         ownerCounts' = ownerCounts, phase \in {"admit", "fallback"}, phase' \in {phase, "hydrate"}
  PROVE  CountsExact'
<1> SUFFICES ASSUME phase = "admit", NEW o \in Owner PROVE ownerCounts[o] <= Cardinality(DepthUsed(o)')
  BY DEF CountsExact
<1>1. /\ ownerCounts[o] \in Nat /\ Len(adm) \in Nat /\ ownerCounts[o] <= Cardinality(DepthUsed(o))
      /\ DepthUsed(o) \subseteq DepthUsed(o)' /\ DepthUsed(o)' \subseteq 1..Len(adm)
  <2>1. ownerCounts[o] \in Nat /\ ownerCounts[o] <= Cardinality(DepthUsed(o))
    BY DEF CountsExact, Typed, TypeOK
  <2> QED
    BY <2>1, Lengthened
<1> DEFINE A == DepthUsed(o)
           B == DepthUsed(o)'
<1>2. A \subseteq B /\ B \subseteq 1..Len(adm) /\ ownerCounts[o] <= Cardinality(A)
  BY <1>1
<1> HIDE DEF A, B
<1>3. PICK l \in Nat : l = ownerCounts[o]
  BY <1>1
<1>4. IsFiniteSet(A)
  <2>1. IsFiniteSet(1..Len(adm))
    BY <1>1, FS_Interval
  <2> QED
    BY <1>2, <2>1, FS_Subset
<1>5. Cardinality(A) \in Nat /\ Cardinality(A) >= l
  BY <1>2, <1>3, <1>4, FS_CardinalityType
<1>6. Cardinality(B) >= l
  BY <1>1, <1>2, <1>5, Enough
<1>7. IsFiniteSet(B)
  <2>1. IsFiniteSet(1..Len(adm))
    BY <1>1, FS_Interval
  <2> QED
    BY <1>2, <2>1, FS_Subset
<1>8. Cardinality(B) \in Nat
  BY <1>7, FS_CardinalityType
<1> QED
  BY <1>3, <1>6, <1>8 DEF B

LEMMA CountsOnce ==
  ASSUME Typed, Deep, CountsExact, NEW s \in Seats, IsProtected(s), phase = "admit",
         NEW e \in Admission, e = Entry(Hit(s)[1], s, "unary", "ordinary"),
         admissions' = Append(admissions, e), execution' = execution,
         ownerCounts' = [ownerCounts EXCEPT ![owners[Hit(s)[1]]] = @ + 1]
  PROVE  CountsExact'
<1> DEFINE n == Len(admissions)
           mine == OwnerOf[Hit(s)[1]]
<1>1. mine \in Owner /\ owners[Hit(s)[1]] = mine
  BY ProtectedOwned
<1>2. ownerCounts \in [Owner -> Nat] /\ ownerCounts' = [ownerCounts EXCEPT ![mine] = ownerCounts[mine] + 1]
  BY <1>1 DEF Typed, TypeOK
<1>3. LET adm == Append(admissions, e) IN
      /\ DOMAIN adm = DOMAIN admissions \cup {n + 1}
      /\ \A i \in DOMAIN admissions : adm[i] = admissions[i] /\ i # n + 1
      /\ adm[n + 1] = e
  BY OneMore
<1>4. e.ref = Hit(s)[1] /\ e.seat = s /\ e.kind = "ordinary"
  BY DEF Entry
<1> HIDE DEF n
<1>5. \A o \in Owner : DepthUsed(o)' = IF o = mine THEN DepthUsed(o) \cup {n + 1} ELSE DepthUsed(o)
  BY <1>3, <1>4 DEF DepthUsed, IsProtected
<1>6. n + 1 \notin DepthUsed(mine)
  BY <1>3 DEF DepthUsed
<1> HIDE DEF mine
<1> SUFFICES ASSUME NEW o \in Owner PROVE ownerCounts'[o] <= Cardinality(DepthUsed(o)')
  BY DEF CountsExact
<1>7. /\ IsFiniteSet(DepthUsed(o)) /\ Cardinality(DepthUsed(o)) \in Nat
      /\ ownerCounts[o] <= Cardinality(DepthUsed(o))
  BY FS_CardinalityType DEF Deep, DepthCounted, CountsExact
<1>8. CASE o # mine
  BY <1>2, <1>5, <1>7, <1>8
<1>9. CASE o = mine
  <2>1. Cardinality(DepthUsed(o) \cup {n + 1}) = Cardinality(DepthUsed(o)) + 1
    BY <1>6, <1>7, <1>9, FS_AddElement
  <2>2. ownerCounts'[o] = ownerCounts[o] + 1 /\ ownerCounts[o] \in Nat
    BY <1>1, <1>2, <1>9
  <2>3. DepthUsed(o)' = DepthUsed(o) \cup {n + 1}
    BY <1>5, <1>9
  <2> QED
    BY <1>7, <2>1, <2>2, <2>3
<1> QED
  BY <1>8, <1>9

LEMMA LengthensNone == ASSUME Typed, NEW s PROVE Lengthens(s, admissions)
BY DEF Typed, TypeOK, Lengthens

LEMMA LengthensOne ==
  ASSUME Typed, NEW s, NEW e \in Admission, e.seat = s, e.ref \in Unseen(s),
         e.kind = "owner_depth_fallback" <=> phase = "fallback" /\ IsProtected(s)
  PROVE  /\ Lengthens(s, Append(admissions, e))
         /\ admissions' = Append(admissions, e) => Selected' = Selected \cup {e.ref}
<1>1. LET adm == Append(admissions, e) IN
      /\ Len(adm) = Len(admissions) + 1
      /\ DOMAIN adm = DOMAIN admissions \cup {Len(admissions) + 1}
      /\ \A i \in DOMAIN admissions : adm[i] = admissions[i] /\ i # Len(admissions) + 1
      /\ adm[Len(admissions) + 1] = e
  BY OneMore
<1>2. admissions \in Seq(Admission) /\ Len(admissions) \in Nat /\ DOMAIN admissions = 1..Len(admissions)
  BY DEF Typed, TypeOK
<1> DEFINE adm == Append(admissions, e)
<1>3. adm \in Seq(Admission)
  BY <1>2
<1> HIDE DEF adm
<1>4. \A i \in (Len(admissions) + 1)..Len(adm) : i = Len(admissions) + 1
  BY <1>1, <1>2 DEF adm
<1>5. Lengthens(s, adm)
  BY <1>1, <1>2, <1>3, <1>4 DEF Lengthens, adm
<1>6. admissions' = adm => Selected' = Selected \cup {e.ref}
  BY <1>1 DEF Selected, adm
<1> QED
  BY <1>5, <1>6 DEF adm

LEMMA LengthensTwo ==
  ASSUME Typed, NEW s, NEW d \in Admission, NEW e \in Admission, d.seat = s, e.seat = s,
         d.ref \in Unseen(s), e.ref \in Unseen(s), d.ref # e.ref, ~IsProtected(s),
         d.kind # "owner_depth_fallback", e.kind # "owner_depth_fallback"
  PROVE  /\ Lengthens(s, admissions \o <<d, e>>)
         /\ admissions' = admissions \o <<d, e>> => Selected' = Selected \cup {d.ref, e.ref}
<1>1. LET adm == admissions \o <<d, e>> IN
      /\ Len(adm) = Len(admissions) + 2
      /\ DOMAIN adm = DOMAIN admissions \cup {Len(admissions) + 1, Len(admissions) + 2}
      /\ \A i \in DOMAIN admissions :
           adm[i] = admissions[i] /\ i # Len(admissions) + 1 /\ i # Len(admissions) + 2
      /\ adm[Len(admissions) + 1] = d /\ adm[Len(admissions) + 2] = e
  BY TwoMore
<1>2. admissions \in Seq(Admission) /\ Len(admissions) \in Nat /\ DOMAIN admissions = 1..Len(admissions)
  BY DEF Typed, TypeOK
<1> DEFINE adm == admissions \o <<d, e>>
<1>3. adm \in Seq(Admission)
  BY <1>2
<1> HIDE DEF adm
<1>4. \A i \in (Len(admissions) + 1)..Len(adm) : i = Len(admissions) + 1 \/ i = Len(admissions) + 2
  BY <1>1, <1>2 DEF adm
<1>5. Lengthens(s, adm)
  <2>1. /\ Len(admissions) <= Len(adm)
        /\ adm[Len(admissions) + 1] = d /\ adm[Len(admissions) + 2] = e
        /\ \A i \in 1..Len(admissions) : adm[i] = admissions[i]
    BY <1>1, <1>2 DEF adm
  <2>2. \A i \in (Len(admissions) + 1)..Len(adm) : adm[i] = d \/ adm[i] = e
    BY <1>4, <2>1
  <2>3. \A i, j \in (Len(admissions) + 1)..Len(adm) : adm[i].ref = adm[j].ref => i = j
    <3> SUFFICES ASSUME NEW i \in (Len(admissions) + 1)..Len(adm),
                        NEW j \in (Len(admissions) + 1)..Len(adm), adm[i].ref = adm[j].ref
                 PROVE  i = j
      OBVIOUS
    <3>1. i = Len(admissions) + 1 => adm[i] = d
      BY <2>1
    <3>2. i = Len(admissions) + 2 => adm[i] = e
      BY <2>1
    <3>3. j = Len(admissions) + 1 => adm[j] = d
      BY <2>1
    <3>4. j = Len(admissions) + 2 => adm[j] = e
      BY <2>1
    <3> QED
      BY <1>4, <3>1, <3>2, <3>3, <3>4
  <2>4. \A i \in (Len(admissions) + 1)..Len(adm) :
          /\ adm[i].seat = s /\ adm[i].ref \in Unseen(s)
          /\ adm[i].kind = "owner_depth_fallback" <=> phase = "fallback" /\ IsProtected(s)
    BY <2>2
  <2> QED
    BY <1>3, <2>1, <2>3, <2>4 DEF Lengthens
<1>6. ASSUME admissions' = adm PROVE Selected' = Selected \cup {d.ref, e.ref}
  <2>1. Selected' = {adm[i].ref : i \in DOMAIN adm}
    BY <1>6 DEF Selected
  <2>2. /\ DOMAIN adm = DOMAIN admissions \cup {Len(admissions) + 1, Len(admissions) + 2}
        /\ \A i \in DOMAIN admissions : adm[i] = admissions[i]
        /\ adm[Len(admissions) + 1] = d /\ adm[Len(admissions) + 2] = e
    BY <1>1 DEF adm
  <2>3. ASSUME NEW r \in Selected' PROVE r \in Selected \cup {d.ref, e.ref}
    <3>1. PICK i \in DOMAIN adm : r = adm[i].ref
      BY <2>1
    <3>2. CASE i \in DOMAIN admissions
      <4>1. r = admissions[i].ref
        BY <2>2, <3>1, <3>2
      <4> QED
        BY <3>2, <4>1 DEF Selected
    <3>3. CASE i \in {Len(admissions) + 1, Len(admissions) + 2}
      <4>1. adm[i] = d \/ adm[i] = e
        BY <2>2, <3>3
      <4> QED
        BY <3>1, <4>1
    <3> QED
      BY <2>2, <3>1, <3>2, <3>3
  <2>4. Selected \subseteq Selected'
    BY <2>1, <2>2 DEF Selected
  <2>5. d.ref \in Selected' /\ e.ref \in Selected'
    BY <2>1, <2>2
  <2> QED
    BY <2>3, <2>4, <2>5
<1> QED
  BY <1>5, <1>6 DEF adm

LEMMA FairVisits ==
  ASSUME Typed, Fits, Deep, Fair, NEW s \in pending,
         PassesOver(s) \/ Defers(s) \/ AdmitsUnary(s) \/ AdmitsEndpoint(s) \/ AdmitsBothEndpoints(s)
  PROVE  Fair'
<1>1. /\ s \in Seats /\ execution \in Executions /\ limit \in Nat /\ capacity \in Nat
      /\ admissions \in Seq(Admission) /\ Len(admissions) \in Nat
      /\ ownerCounts \in [Owner -> Nat] /\ deferred \in BOOLEAN
  BY EvidenceAssumption DEF Typed, TypeOK
<1>2. Running /\ Reaches(s)
  BY DEF PassesOver, Defers, AdmitsUnary, AdmitsEndpoint, AdmitsBothEndpoints, Reaches, Running
<1>3. /\ Hit(s)[1] \in Ref /\ (IsRelation(s) => Hit(s)[2] \in Ref)
      /\ IsProtected(s) => ~IsRelation(s) /\ OwnerOf[Hit(s)[1]] \in Owner /\ owners[Hit(s)[1]] = OwnerOf[Hit(s)[1]]
      /\ ~Ownerless(s)
      /\ Targets(s) = IF IsRelation(s) THEN {Hit(s)[1], Hit(s)[2]} ELSE {Hit(s)[1]}
  BY <1>1, <1>2, HitShape, ProtectedOwned DEF Running, Ownerless
<1>4. ASSUME NEW adm, Visited(s, adm)
      PROVE  /\ admissions' = adm /\ phase' \in {phase, "hydrate"}
             /\ UNCHANGED <<execution, limit, capacity>>
  BY <1>3, <1>4 DEF Visited
<1>5. ASSUME NEW adm, Visited(s, adm), Lengthens(s, adm), ownerCounts' = ownerCounts
      PROVE  CountsExact'
  BY <1>1, <1>2, <1>4, <1>5, CountsKept DEF Running, Fair, Passes
<1>6. CASE PassesOver(s)
  <2>1. Visited(s, admissions) /\ ownerCounts' = ownerCounts /\ deferred' = deferred
    BY <1>6 DEF PassesOver
  <2>2. Lengthens(s, admissions) /\ CountsExact' /\ Selected' = Selected
    BY <1>4, <1>5, <2>1, LengthensNone DEF Selected
  <2>3. Len(admissions) >= capacity \/ Targets(s) \subseteq Selected'
    <3>1. Unseen(s) = {} \/ Room <= 0 \/ (Room = 1 /\ ClosureUsed)
      BY <1>6 DEF PassesOver
    <3>2. CASE Unseen(s) = {}
      BY <2>2, <3>2 DEF Unseen
    <3>3. CASE Room <= 0
      BY <1>1, <3>3 DEF Room
    <3> QED
      BY <1>2, <3>1, <3>2, <3>3 DEF Fits
  <2> QED
    BY <1>2, <2>1, <2>2, <2>3, FairVisit
<1>7. CASE Defers(s)
  <2>1. Visited(s, admissions) /\ ownerCounts' = ownerCounts /\ deferred' = TRUE /\ HeldBack(s) /\ ~IsRelation(s)
    BY <1>7 DEF Defers
  <2>2. Lengthens(s, admissions) /\ CountsExact' /\ Selected' = Selected
    BY <1>4, <1>5, <2>1, LengthensNone DEF Selected
  <2>3. phase = "admit" /\ IsProtected(s) /\ ownerCounts[OwnerOf[Hit(s)[1]]] >= limit
    BY <1>3, <2>1 DEF HeldBack, AtDepth
  <2>4. \A r \in Targets(s) : Kept(s, r)
    <3>1. PICK o \in Owner : o = OwnerOf[Hit(s)[1]]
      BY <1>3, <2>3
    <3>2. /\ ownerCounts[o] \in Nat /\ ownerCounts[o] >= limit /\ ownerCounts[o] <= Cardinality(DepthUsed(o))
          /\ Cardinality(DepthUsed(o)) \in Nat
      BY <1>1, <2>3, <3>1, FS_CardinalityType DEF Fair, Passes, CountsExact, Deep, DepthCounted
    <3>3. Cardinality(DepthUsed(o)) >= limit
      BY <1>1, <3>2
    <3> QED
      BY <1>3, <2>1, <2>3, <3>1, <3>3 DEF Kept
  <2>5. \A r \in Targets(s) : Kept(s, r)'
    BY <1>1, <1>4, <2>1, <2>2, <2>4, Lengthened
  <2> QED
    BY <1>2, <2>1, <2>2, <2>3, <2>5, FairVisit
<1>8. CASE AdmitsUnary(s)
  <2>1. PICK e \in Admission : e = Entry(Hit(s)[1], s, "unary", UnaryKind(s))
    BY <1>1, <1>3, EntryType DEF UnaryKind
  <2>2. e.seat = s /\ e.ref = Hit(s)[1] /\ e.kind = UnaryKind(s)
    BY <2>1 DEF Entry
  <2>3. /\ Visited(s, Append(admissions, e)) /\ ~HeldBack(s) /\ deferred' = deferred /\ ~IsRelation(s)
        /\ Unseen(s) # {}
        /\ ownerCounts' = IF IsProtected(s) THEN [ownerCounts EXCEPT ![owners[Hit(s)[1]]] = @ + 1] ELSE ownerCounts
    BY <1>8, <2>1 DEF AdmitsUnary
  <2>4. e.ref \in Unseen(s) /\ Targets(s) = {e.ref}
    BY <1>3, <2>2, <2>3 DEF Unseen
  <2>5. e.kind = "owner_depth_fallback" <=> phase = "fallback" /\ IsProtected(s)
    BY <2>2 DEF UnaryKind
  <2>6. Lengthens(s, Append(admissions, e)) /\ Selected' = Selected \cup {e.ref}
    BY <1>4, <2>2, <2>3, <2>4, <2>5, LengthensOne
  <2>7. CountsExact'
    <3>1. CASE ~IsProtected(s)
      BY <1>5, <2>3, <2>6, <3>1
    <3>2. CASE IsProtected(s) /\ phase = "admit"
      <4>1. e = Entry(Hit(s)[1], s, "unary", "ordinary")
        BY <2>1, <3>2 DEF UnaryKind
      <4>2. ownerCounts' = [ownerCounts EXCEPT ![owners[Hit(s)[1]]] = @ + 1]
        BY <2>3, <3>2
      <4>3. admissions' = Append(admissions, e) /\ execution' = execution
        BY <1>4, <2>3
      <4> QED
        BY <1>1, <3>2, <4>1, <4>2, <4>3, CountsOnce DEF Fair, Passes
    <3>3. CASE phase = "fallback"
      BY <1>4, <2>3, <3>3 DEF CountsExact
    <3> QED
      BY <1>2, <3>1, <3>2, <3>3 DEF Running
  <2> QED
    BY <1>2, <2>3, <2>4, <2>6, <2>7, FairVisit
<1>9. CASE AdmitsEndpoint(s)
  <2>1. PICK r \in Unseen(s) :
          /\ Unseen(s) = {r}
          /\ Visited(s, Append(admissions, Entry(r, s, IF r = Hit(s)[1] THEN "source" ELSE "target", "ordinary")))
    BY <1>9 DEF AdmitsEndpoint
  <2>2. r \in Ref /\ IsRelation(s) /\ ~IsProtected(s) /\ ownerCounts' = ownerCounts /\ deferred' = deferred
    BY <1>3, <1>9, <2>1 DEF Unseen, AdmitsEndpoint
  <2>3. PICK e \in Admission : e = Entry(r, s, IF r = Hit(s)[1] THEN "source" ELSE "target", "ordinary")
    BY <1>1, <2>2, EntryType
  <2>4. e.seat = s /\ e.ref = r /\ e.kind = "ordinary"
    BY <2>3 DEF Entry
  <2>5. Visited(s, Append(admissions, e))
    BY <2>1, <2>3
  <2>6. Lengthens(s, Append(admissions, e)) /\ Selected' = Selected \cup {e.ref}
    BY <1>4, <2>1, <2>2, <2>4, <2>5, LengthensOne
  <2>7. Targets(s) \subseteq Selected'
    BY <2>1, <2>4, <2>6 DEF Unseen
  <2> QED
    BY <1>2, <1>5, <2>2, <2>5, <2>6, <2>7, FairVisit
<1>10. CASE AdmitsBothEndpoints(s)
  <2>1. ~IsProtected(s) /\ IsRelation(s) /\ Unseen(s) = Targets(s) /\ ownerCounts' = ownerCounts /\ deferred' = deferred
    BY <1>3, <1>10 DEF AdmitsBothEndpoints
  <2>2. PICK d \in Admission : d = Entry(Hit(s)[1], s, "source", "ordinary")
    BY <1>1, <1>3, EntryType
  <2>3. PICK e \in Admission :
          e = Entry(Hit(s)[2], s, "target", IF Room = 1 THEN "relation_endpoint_closure" ELSE "ordinary")
    BY <1>1, <1>3, <2>1, EntryType
  <2>4. /\ d.seat = s /\ e.seat = s /\ Endpoints(s) = <<d, e>> /\ d.ref = Hit(s)[1] /\ e.ref = Hit(s)[2]
        /\ d.kind # "owner_depth_fallback" /\ e.kind # "owner_depth_fallback"
    BY <2>2, <2>3 DEF Endpoints, Entry
  <2>5. Visited(s, admissions \o <<d, e>>)
    BY <1>10, <2>4 DEF AdmitsBothEndpoints
  <2>6. Lengthens(s, admissions \o <<d, e>>) /\ Selected' = Selected \cup {d.ref, e.ref}
    <3>1. d.ref \in Unseen(s) /\ e.ref \in Unseen(s) /\ d.ref # e.ref
      BY <1>3, <1>10, <2>1, <2>4 DEF AdmitsBothEndpoints
    <3>2. admissions' = admissions \o <<d, e>>
      BY <1>4, <2>5
    <3> QED
      BY <2>1, <2>4, <3>1, <3>2, LengthensTwo
  <2>7. Targets(s) \subseteq Selected'
    BY <1>3, <2>1, <2>4, <2>6
  <2> QED
    BY <1>2, <1>5, <2>1, <2>5, <2>6, <2>7, FairVisit
<1> QED
  BY <1>6, <1>7, <1>8, <1>9, <1>10

LEMMA FairStep == Typed /\ Fits /\ Deep /\ Fair /\ [Next]_vars => Fair'
<1> SUFFICES ASSUME Typed, Fits, Deep, Fair, [Next]_vars PROVE Fair'
  OBVIOUS
<1>1. ASSUME UNCHANGED execution PROVE Seats' = Seats /\ \A t : Targets(t)' = Targets(t) /\ IsProtected(t)' = IsProtected(t)
  BY <1>1 DEF Seats, Targets, Hit, IsProtected
<1>2. CASE Composes
  <2>1. PICK s \in pending : candidates' = JoinedAll(candidates, Hit(s))
    BY <1>2 DEF Composes
  <2>2. s \in Seats /\ candidates \in Seq(Ref) /\ phase = "compose" /\ phase' = phase
        /\ UNCHANGED <<execution, capacity, limit, admissions, ownerCounts>>
    BY <1>2, <2>1 DEF Typed, TypeOK, Composes, selection
  <2>3. Hit(s) \in Seq(Ref) /\ Len(Hit(s)) \in {0, 1, 2}
    BY <2>2, HitShape DEF Typed
  <2>4. \A e : e \in Elements(candidates') <=> e \in Elements(candidates) \/ e \in Targets(s)
    BY <2>1, <2>2, <2>3, JoinedAllFacts DEF Targets
  <2>5. FromLanes'
    BY <1>1, <2>2, <2>4 DEF Fair, Passes, FromLanes
  <2> QED
    BY <2>2, <2>5, FairFrame DEF FirstPass, SecondPass, Finished
<1>3. CASE EndsComposition \/ DerivesOwners
  <2>1. /\ UNCHANGED <<execution, capacity, limit, admissions, ownerCounts, candidates>>
        /\ phase \in {"compose", "own"} /\ (phase' = "own" \/ (phase' = "admit" /\ pending' = Seats))
    BY <1>3 DEF EndsComposition, DerivesOwners, selection, workspace
  <2>2. FromLanes' /\ Seats' = Seats
    BY <1>1, <2>1 DEF Fair, Passes, FromLanes
  <2> QED
    BY <2>1, <2>2, FairFrame DEF FirstPass, SecondPass, Finished
<1>4. CASE EndsPass
  <2>1. /\ UNCHANGED <<execution, capacity, limit, admissions, ownerCounts, candidates, deferred>>
        /\ phase \in {"admit", "fallback"} /\ pending = {}
        /\ IF NeedsFallback THEN phase' = "fallback" /\ pending' = Seats ELSE phase' = "hydrate" /\ pending' = {}
    BY <1>4 DEF EndsPass, selection, workspace
  <2>2. /\ FromLanes' /\ Seats' = Seats /\ Selected' = Selected /\ Room' = Room
        /\ \A t, r : Kept(t, r)' = Kept(t, r)
    BY <1>1, <2>1 DEF Fair, Passes, FromLanes, Selected, Room, Kept, DepthUsed, IsProtected
  <2>3. CASE NeedsFallback
    <3>1. phase = "admit" /\ phase' = "fallback" /\ pending' = Seats
      BY <2>1, <2>3 DEF NeedsFallback
    <3>2. SecondPass'
      BY <1>1, <2>1, <2>2, <3>1 DEF SecondPass, Fair, Passes, FirstPass
    <3> QED
      BY <2>1, <2>2, <3>1, <3>2, FairFrame DEF FirstPass, Finished
  <2>4. CASE ~NeedsFallback
    <3>1. phase' = "hydrate"
      BY <2>1, <2>4
    <3>2. Room <= 0 \/ \A t \in Seats : Targets(t) \subseteq Selected
      <4>1. Room \in Int
        BY EvidenceAssumption DEF Typed, TypeOK, Room
      <4>2. CASE phase = "admit" /\ ~deferred
        BY <2>1, <4>2 DEF Fair, Passes, FirstPass
      <4>3. CASE phase = "fallback"
        BY <2>1, <4>3 DEF Fair, Passes, SecondPass
      <4> QED
        BY <2>1, <2>4, <4>1, <4>2, <4>3 DEF NeedsFallback
    <3>3. Finished'
      BY <1>1, <2>1, <2>2, <3>2 DEF Finished
    <3> QED
      BY <2>1, <2>2, <3>1, <3>3, FairFrame DEF FirstPass, SecondPass
  <2> QED
    BY <2>3, <2>4
<1>5. CASE Hydrates \/ EndsHydration \/ Projects \/ EndsProjection
  <2>1. /\ UNCHANGED <<execution, capacity, limit, admissions, ownerCounts, candidates>>
        /\ phase \in {"hydrate", "project"} /\ phase' \in {"hydrate", "project", "done"}
    BY <1>5 DEF Hydrates, EndsHydration, Projects, EndsProjection, selection, workspace
  <2>2. FromLanes' /\ Seats' = Seats /\ Selected' = Selected /\ Room' = Room
    BY <1>1, <2>1 DEF Fair, Passes, FromLanes, Selected, Room
  <2>3. Finished'
    BY <1>1, <2>1, <2>2 DEF Fair, Passes, Finished
  <2> QED
    BY <2>1, <2>2, <2>3, FairFrame DEF FirstPass, SecondPass
<1>6. CASE UNCHANGED vars
  <2>1. UNCHANGED <<execution, capacity, limit, phase, pending, admissions, ownerCounts, candidates, deferred>>
    BY <1>6 DEF vars, selection, workspace
  <2>2. /\ FromLanes' /\ Seats' = Seats /\ Selected' = Selected /\ Room' = Room
        /\ \A t, r : Kept(t, r)' = Kept(t, r)
    BY <1>1, <2>1 DEF Fair, Passes, FromLanes, Selected, Room, Kept, DepthUsed, IsProtected
  <2>3. FirstPass' /\ SecondPass' /\ Finished'
    BY <1>1, <2>1, <2>2 DEF Fair, Passes, FirstPass, SecondPass, Finished
  <2> QED
    BY <2>1, <2>2, <2>3, FairFrame
<1> QED
  BY <1>2, <1>3, <1>4, <1>5, <1>6, FairVisits DEF Next, Returned

LEMMA FairAlways == Spec => [](Typed /\ Fits /\ Deep /\ Fair)
<1>1. Init => Fair
  <2> SUFFICES ASSUME Init PROVE Fair
    OBVIOUS
  <2>1. /\ admissions = <<>> /\ phase = "compose" /\ candidates = <<>>
        /\ ownerCounts = [o \in Owner |-> 0]
    BY DEF Init
  <2>2. \A o \in Owner : DepthUsed(o) = {}
    BY <2>1 DEF DepthUsed
  <2>3. CountsExact
    <3> SUFFICES ASSUME NEW o \in Owner PROVE ownerCounts[o] <= Cardinality(DepthUsed(o))
      BY DEF CountsExact
    <3>1. Cardinality(DepthUsed(o)) = 0
      BY <2>2, FS_EmptySet
    <3>2. ownerCounts[o] = 0
      BY <2>1
    <3> QED
      BY <3>1, <3>2
  <2>4. BreadthFirst /\ FallbackLast /\ AdmittedOnce /\ FromLanes
    BY <2>1 DEF BreadthFirst, FallbackLast, AdmittedOnce, FromLanes, Elements
  <2> QED
    BY <2>1, <2>3, <2>4 DEF Fair, Passes, FirstPass, SecondPass, Finished
<1> QED
  BY <1>1, FitsAlways, DeepAlways, FairStep, PTL DEF Spec

(* Admission is fair between lanes, for every execution, capacity and      *)
(* fraction: the first pass admits a target only after all that an earlier *)
(* round or an earlier lane returned, but for what owner depth held back.  *)
THEOREM AdmissionIsBreadthFirst == Spec => []BreadthFirst
<1>1. Fair => BreadthFirst
  BY DEF Fair
<1> QED
  BY <1>1, FairAlways, PTL

(* Nothing is left out while there is room, and the second pass adds only  *)
(* what owner depth held back, after everything else.                      *)
THEOREM RoomIsAlwaysUsed == Spec => []RoomIsUsed
<1>1. Fair => RoomIsUsed
  <2> SUFFICES ASSUME Fair PROVE RoomIsUsed
    OBVIOUS
  <2>1. phase \in {"hydrate", "project", "done"} => Room <= 0 \/ Elements(candidates) \subseteq Selected
    BY DEF Fair, Passes, Finished, FromLanes
  <2> QED
    BY <2>1 DEF Fair, FallbackLast, RoomIsUsed
<1> QED
  BY <1>1, FairAlways, PTL

-------------------------------------------------------------------------------
(* Composition visits the lanes in request order, so the support of every  *)
(* candidate grows in that order.                                          *)
Done == IF phase = "compose" THEN Seats \ pending ELSE Seats
Supporting ==
  /\ phase = "compose" => \A s \in Seats \ pending, t \in pending : LaneFirst(s, t)
  /\ \A r \in Ref :
       /\ Elements(supports[r]) = {s \in Done : ~IsRelation(s) /\ Targets(s) = {r}}
       /\ \A i, j \in DOMAIN supports[r] : i < j => LaneFirst(supports[r][i], supports[r][j])

LEMMA AppendFacts ==
  ASSUME NEW S, NEW q \in Seq(S), NEW x \in S
  PROVE  /\ Len(q) \in Nat /\ DOMAIN q = 1..Len(q)
         /\ DOMAIN Append(q, x) = DOMAIN q \cup {Len(q) + 1}
         /\ \A i \in DOMAIN q : Append(q, x)[i] = q[i]
         /\ Append(q, x)[Len(q) + 1] = x
         /\ Elements(Append(q, x)) = Elements(q) \cup {x}
<1>1. /\ Len(q) \in Nat /\ DOMAIN q = 1..Len(q)
      /\ DOMAIN Append(q, x) = DOMAIN q \cup {Len(q) + 1}
      /\ \A i \in DOMAIN q : Append(q, x)[i] = q[i]
      /\ Append(q, x)[Len(q) + 1] = x
  OBVIOUS
<1>2. Elements(Append(q, x)) = Elements(q) \cup {x}
  BY <1>1 DEF Elements
<1> QED
  BY <1>1, <1>2

LEMMA SupportingComposes == ASSUME Typed, Supporting, Composes PROVE Supporting'
<1>1. PICK s \in pending : /\ \A t \in pending \ {s} : LaneFirst(s, t)
                           /\ supports' = Supported(s)
                           /\ pending' = pending \ {s}
  BY DEF Composes
<1>2. s \in Seats /\ phase = "compose" /\ phase' = phase /\ execution' = execution
      /\ supports \in [Ref -> Seq(Nat \X Nat)]
  BY <1>1 DEF Typed, TypeOK, Composes
<1>3. /\ s \in Nat \X Nat /\ Hit(s)[1] \in Ref
      /\ ~IsRelation(s) => Targets(s) = {Hit(s)[1]}
  BY <1>2, HitShape DEF Typed
<1>4. Seats' = Seats /\ \A t : Targets(t)' = Targets(t) /\ IsRelation(t)' = IsRelation(t)
  BY <1>2 DEF Seats, Targets, Hit, IsRelation
<1>5. Done = Seats \ pending /\ Done' = Done \cup {s} /\ s \notin Done
  BY <1>1, <1>2, <1>4 DEF Done
<1>6. \A t \in Done : LaneFirst(t, s)
  BY <1>1, <1>2, <1>5 DEF Supporting
<1>7. phase' = "compose" => \A t \in Seats' \ pending', u \in pending' : LaneFirst(t, u)
  BY <1>1, <1>2, <1>4 DEF Supporting
<1>8. ASSUME NEW r \in Ref
      PROVE  /\ Elements(supports'[r]) = {t \in Done' : ~IsRelation(t)' /\ Targets(t)' = {r}}
             /\ \A i, j \in DOMAIN supports'[r] : i < j => LaneFirst(supports'[r][i], supports'[r][j])
  <2>1. /\ Elements(supports[r]) = {t \in Done : ~IsRelation(t) /\ Targets(t) = {r}}
        /\ \A i, j \in DOMAIN supports[r] : i < j => LaneFirst(supports[r][i], supports[r][j])
    BY DEF Supporting
  <2>2. {t \in Done' : ~IsRelation(t)' /\ Targets(t)' = {r}}
          = IF ~IsRelation(s) /\ Targets(s) = {r}
            THEN {t \in Done : ~IsRelation(t) /\ Targets(t) = {r}} \cup {s}
            ELSE {t \in Done : ~IsRelation(t) /\ Targets(t) = {r}}
    BY <1>4, <1>5
  <2>3. CASE IsRelation(s) \/ Hit(s)[1] # r
    <3>1. supports'[r] = supports[r]
      BY <1>1, <1>2, <1>3, <2>3 DEF Supported
    <3>2. ~(~IsRelation(s) /\ Targets(s) = {r})
      BY <1>3, <2>3
    <3> QED
      BY <2>1, <2>2, <3>1, <3>2
  <2>4. CASE ~IsRelation(s) /\ Hit(s)[1] = r
    <3>1. PICK q \in Seq(Nat \X Nat) : q = supports[r]
      BY <1>2
    <3>2. supports'[r] = Append(q, s)
      BY <1>1, <1>2, <2>4, <3>1 DEF Supported
    <3>3. /\ Len(q) \in Nat /\ DOMAIN q = 1..Len(q)
          /\ DOMAIN Append(q, s) = DOMAIN q \cup {Len(q) + 1}
          /\ \A i \in DOMAIN q : Append(q, s)[i] = q[i]
          /\ Append(q, s)[Len(q) + 1] = s
          /\ Elements(Append(q, s)) = Elements(q) \cup {s}
      BY <1>3, AppendFacts
    <3>4. \A i \in DOMAIN q : q[i] \in Done
      BY <2>1, <3>1 DEF Elements
    <3>5. \A i, j \in DOMAIN Append(q, s) : i < j => LaneFirst(Append(q, s)[i], Append(q, s)[j])
      <4> SUFFICES ASSUME NEW i \in DOMAIN Append(q, s), NEW j \in DOMAIN Append(q, s), i < j
                   PROVE  LaneFirst(Append(q, s)[i], Append(q, s)[j])
        OBVIOUS
      <4>1. i \in DOMAIN q
        BY <3>3
      <4>2. CASE j \in DOMAIN q
        BY <2>1, <3>1, <3>3, <4>1, <4>2
      <4>3. CASE j = Len(q) + 1
        BY <1>6, <3>3, <3>4, <4>1, <4>3
      <4> QED
        BY <3>3, <4>2, <4>3
    <3>6. Elements(Append(q, s)) = {t \in Done : ~IsRelation(t) /\ Targets(t) = {r}} \cup {s}
      BY <2>1, <3>1, <3>3
    <3> QED
      BY <1>3, <2>2, <2>4, <3>2, <3>5, <3>6
  <2> QED
    BY <2>3, <2>4
<1> QED
  BY <1>7, <1>8 DEF Supporting

LEMMA SupportingStep == Typed /\ Supporting /\ [Next]_vars => Supporting'
<1> SUFFICES ASSUME Typed, Supporting, [Next]_vars PROVE Supporting'
  OBVIOUS
<1>1. ASSUME UNCHANGED <<execution, supports>>,
             \/ phase # "compose" /\ phase' # "compose"
             \/ phase = "compose" /\ pending = {} /\ phase' # "compose"
             \/ phase' = phase /\ pending' = pending
      PROVE  Supporting'
  <2>1. Seats' = Seats /\ \A t : Targets(t)' = Targets(t) /\ IsRelation(t)' = IsRelation(t)
    BY <1>1 DEF Seats, Targets, Hit, IsRelation
  <2>2. Done' = Done
    BY <1>1, <2>1 DEF Done
  <2>3. phase' = "compose" => \A s \in Seats' \ pending', t \in pending' : LaneFirst(s, t)
    BY <1>1, <2>1 DEF Supporting
  <2> QED
    BY <1>1, <2>1, <2>2, <2>3 DEF Supporting
<1>2. CASE EndsComposition
  BY <1>1, <1>2 DEF EndsComposition, workspace
<1>3. ASSUME NEW s \in pending,
             PassesOver(s) \/ Defers(s) \/ AdmitsUnary(s) \/ AdmitsEndpoint(s) \/ AdmitsBothEndpoints(s)
      PROVE  Supporting'
  <2>1. PICK adm : Visited(s, adm)
    BY <1>3 DEF PassesOver, Defers, AdmitsUnary, AdmitsEndpoint, AdmitsBothEndpoints
  <2>2. phase # "compose"
    BY <1>3 DEF PassesOver, Defers, AdmitsUnary, AdmitsEndpoint, AdmitsBothEndpoints, Reaches
  <2> QED
    BY <1>1, <2>1, <2>2 DEF Visited, workspace
<1>4. CASE DerivesOwners \/ EndsPass \/ Hydrates \/ EndsHydration \/ Projects \/ EndsProjection
  <2>1. UNCHANGED <<execution, supports>> /\ phase # "compose" /\ phase' # "compose"
    BY <1>4 DEF DerivesOwners, EndsPass, Hydrates, EndsHydration, Projects, EndsProjection, workspace
  <2> QED
    BY <1>1, <2>1
<1>5. CASE UNCHANGED vars
  BY <1>1, <1>5 DEF vars, workspace
<1> QED
  BY <1>2, <1>3, <1>4, <1>5, SupportingComposes DEF Next, Returned

(* Every candidate carries all its unary support, in request order, and    *)
(* every target a lane returned is a candidate, for every execution.       *)
THEOREM SupportIsAlwaysComplete == Spec => []SupportsComplete
<1>1. Init => Supporting
  <2> SUFFICES ASSUME Init PROVE Supporting
    OBVIOUS
  <2>1. pending = Seats /\ phase = "compose" /\ supports = [r \in Ref |-> <<>>]
    BY DEF Init
  <2>2. Done = {}
    BY <2>1 DEF Done
  <2>3. \A r \in Ref : Elements(supports[r]) = {} /\ DOMAIN supports[r] = {}
    BY <2>1 DEF Elements
  <2> QED
    BY <2>1, <2>2, <2>3 DEF Supporting
<1>2. Deep /\ Fair /\ Supporting => SupportsComplete
  <2> SUFFICES ASSUME Deep, Fair, Supporting, phase # "compose"
               PROVE  /\ Elements(candidates) = UNION {Targets(s) : s \in Seats}
                      /\ \A r \in Ref :
                           /\ Elements(supports[r]) = {s \in Seats : ~IsRelation(s) /\ Targets(s) = {r}}
                           /\ \A i, j \in DOMAIN supports[r] : i < j => LaneFirst(supports[r][i], supports[r][j])
    BY DEF SupportsComplete
  <2>1. Elements(candidates) = UNION {Targets(s) : s \in Seats}
    BY DEF Deep, Composed, Fair, Passes, FromLanes
  <2> QED
    BY <2>1 DEF Supporting, Done
<1> QED
  BY <1>1, <1>2, FairAlways, SupportingStep, PTL DEF Spec

-------------------------------------------------------------------------------
(* Hydration and projection go through the selection once; what they read  *)
(* and the contexts they open hold no value twice.                         *)
Once(q) == \A i, j \in DOMAIN q : q[i] = q[j] => i = j

LEMMA JoinedOnce ==
  ASSUME NEW S, NEW order \in Seq(S), NEW x \in S, Once(order)
  PROVE  Once(Joined(order, x))
<1>1. CASE x \in Elements(order)
  BY <1>1 DEF Joined
<1>2. CASE x \notin Elements(order)
  <2>1. Joined(order, x) = Append(order, x)
    BY <1>2 DEF Joined
  <2>2. /\ DOMAIN Append(order, x) = DOMAIN order \cup {Len(order) + 1}
        /\ \A i \in DOMAIN order : Append(order, x)[i] = order[i]
        /\ Append(order, x)[Len(order) + 1] = x
    BY AppendFacts
  <2>3. \A i \in DOMAIN order : order[i] # x
    BY <1>2 DEF Elements
  <2> QED
    BY <2>1, <2>2, <2>3 DEF Once
<1> QED
  BY <1>1, <1>2

LEMMA CellTypes ==
  ASSUME NEW S, NEW xs \in Seq(S)
  PROVE  /\ Len(xs) = 1 => xs[1] \in S
         /\ Len(xs) = 2 => xs[1] \in S /\ xs[2] \in S
OBVIOUS

LEMMA JoinedAllOnce ==
  ASSUME NEW S, NEW order \in Seq(S), NEW xs \in Seq(S), Len(xs) \in {0, 1, 2}, Once(order)
  PROVE  Once(JoinedAll(order, xs))
<1>1. CASE Len(xs) = 0
  BY <1>1 DEF JoinedAll
<1>2. CASE Len(xs) = 1
  <2>1. PICK x \in S : xs[1] = x
    BY <1>2, CellTypes
  <2>2. JoinedAll(order, xs) = Joined(order, x)
    BY <1>2, <2>1 DEF JoinedAll
  <2> QED
    BY <2>2, JoinedOnce
<1>3. CASE Len(xs) = 2
  <2>1. PICK x \in S, y \in S : xs[1] = x /\ xs[2] = y
    BY <1>3, CellTypes
  <2>2. JoinedAll(order, xs) = Joined(Joined(order, x), y)
    BY <1>3, <2>1 DEF JoinedAll
  <2>3. PICK q \in Seq(S) : q = Joined(order, x) /\ Once(q)
    BY JoinedFacts, JoinedOnce
  <2>4. Once(Joined(q, y))
    BY <2>3, JoinedOnce
  <2> QED
    BY <2>2, <2>3, <2>4
<1> QED
  BY <1>1, <1>2, <1>3

(* A sequence that holds no value twice has as many members as entries.    *)
LEMMA OnceCounts ==
  ASSUME NEW S, NEW q \in Seq(S), Once(q)
  PROVE  Cardinality(Elements(q)) = Len(q)
<1> DEFINE T == Elements(q)
<1>1. Len(q) \in Nat /\ DOMAIN q = 1..Len(q)
  OBVIOUS
<1>2. q \in [1..Len(q) -> T]
  BY <1>1 DEF Elements
<1>3. IsFiniteSet(1..Len(q)) /\ Cardinality(1..Len(q)) = Len(q)
  <2>1. /\ IsFiniteSet(1..Len(q))
        /\ Cardinality(1..Len(q)) = IF 1 > Len(q) THEN 0 ELSE Len(q) - 1 + 1
    BY <1>1, FS_Interval
  <2> QED
    BY <1>1, <2>1
<1>4. \A t \in T : \E i \in 1..Len(q) : q[i] = t
  BY <1>1 DEF Elements
<1>5. IsInjective(q)
  BY DEF Once, IsInjective
<1> HIDE DEF T
<1>6. q \in Surjection(1..Len(q), T) /\ q \in Injection(1..Len(q), T)
  BY <1>2, <1>4, <1>5 DEF Surjection, Injection
<1>7. Cardinality(T) = Cardinality(1..Len(q))
  BY <1>3, <1>6, FS_Surjection
<1> QED
  BY <1>3, <1>7 DEF T

Closing ==
  /\ Once(loaded) /\ Once(contexts)
  /\ phase \notin {"hydrate", "project", "done"} => hydrated = 0
  /\ phase \notin {"project", "done"} => projected = 0
  /\ phase \in {"project", "done"} => hydrated = Len(admissions)
  /\ phase = "done" => projected = hydrated
  /\ \A i \in 1..hydrated : Elements(RowsOf(admissions[i].ref)) \subseteq Elements(loaded)
  /\ \A o : o \in Elements(contexts) <=>
               o # None /\ \E i \in 1..projected : OwnerOf[admissions[i].ref] = o

LEMMA ClosingHydrates == ASSUME Typed, Closing, Hydrates PROVE Closing'
<1> DEFINE n == hydrated + 1
<1>1. /\ hydrated \in Nat /\ n \in 1..Len(admissions) /\ n \in Nat /\ Len(admissions) \in Nat
      /\ hydrated' = n /\ phase = "hydrate" /\ phase' = phase
      /\ UNCHANGED <<admissions, projected, contexts>>
      /\ admissions \in Seq(Admission) /\ loaded \in Seq(Ref \cup Owner)
  BY DEF Typed, TypeOK, Hydrates, selection
<1>2. loaded' = Reads(RowsOf(admissions[n].ref))
  BY DEF Hydrates
<1> HIDE DEF n
<1>3. PICK r \in Ref : r = admissions[n].ref
  <2>1. admissions[n] \in Admission
    BY <1>1
  <2> QED
    BY <2>1 DEF Admission
<1>4. RowsOf(r) \in Seq(Ref \cup Owner) /\ Len(RowsOf(r)) \in {0, 1, 2}
  BY RowsShape
<1>5. PICK rows \in Seq(Ref \cup Owner) : rows = RowsOf(r)
  BY <1>4
<1>6. Once(JoinedAll(loaded, rows))
  BY <1>1, <1>4, <1>5, JoinedAllOnce DEF Closing
<1>7. \A e : e \in Elements(JoinedAll(loaded, rows)) <=> e \in Elements(loaded) \/ e \in Elements(rows)
  BY <1>1, <1>4, <1>5, JoinedAllFacts
<1>8. loaded' = JoinedAll(loaded, rows)
  BY <1>2, <1>3, <1>5 DEF Reads
<1>9. \A i \in 1..hydrated' : Elements(RowsOf(admissions'[i].ref)) \subseteq Elements(loaded')
  <2> SUFFICES ASSUME NEW i \in 1..n PROVE Elements(RowsOf(admissions[i].ref)) \subseteq Elements(loaded')
    BY <1>1
  <2>1. CASE i = n
    BY <1>3, <1>5, <1>7, <1>8, <2>1
  <2>2. CASE i # n
    <3>1. i \in 1..hydrated
      BY <1>1, <2>2 DEF n
    <3> QED
      BY <1>7, <1>8, <3>1 DEF Closing
  <2> QED
    BY <2>1, <2>2
<1> QED
  BY <1>1, <1>6, <1>8, <1>9 DEF Closing

LEMMA ClosingProjects == ASSUME Typed, Closing, Projects PROVE Closing'
<1> DEFINE n == projected + 1
<1>1. /\ projected \in Nat /\ n \in 1..Len(admissions) /\ n \in Nat /\ Len(admissions) \in Nat
      /\ projected' = n /\ phase = "project" /\ phase' = phase
      /\ UNCHANGED <<admissions, hydrated, loaded>>
      /\ admissions \in Seq(Admission) /\ contexts \in Seq(Owner)
  BY DEF Typed, TypeOK, Projects, selection
<1>2. contexts' = IF OwnerOf[admissions[n].ref] = None THEN contexts
                  ELSE Joined(contexts, OwnerOf[admissions[n].ref])
  BY DEF Projects
<1>3. \A i : i \in 1..n <=> i \in 1..projected \/ i = n
  BY <1>1
<1> HIDE DEF n
<1>4. PICK o \in Owner \cup {None} : o = OwnerOf[admissions[n].ref]
  <2>1. admissions[n] \in Admission
    BY <1>1
  <2>2. admissions[n].ref \in Ref
    BY <2>1 DEF Admission
  <2> QED
    BY <2>2, EvidenceAssumption
<1>5. /\ Once(contexts')
      /\ \A p : p \in Elements(contexts') <=> p \in Elements(contexts) \/ (p = o /\ p # None)
  <2>1. CASE o = None
    BY <1>2, <1>4, <2>1 DEF Closing
  <2>2. CASE o # None
    <3>1. o \in Owner /\ contexts' = Joined(contexts, o)
      BY <1>2, <1>4, <2>2
    <3>2. Once(Joined(contexts, o))
      BY <1>1, <3>1, JoinedOnce DEF Closing
    <3>3. \A p : p \in Elements(Joined(contexts, o)) <=> p \in Elements(contexts) \/ p = o
      BY <1>1, <3>1, JoinedFacts
    <3> QED
      BY <2>2, <3>1, <3>2, <3>3
  <2> QED
    BY <2>1, <2>2
<1>6. \A p : p \in Elements(contexts') <=>
               p # None /\ \E i \in 1..projected' : OwnerOf[admissions'[i].ref] = p
  <2> SUFFICES ASSUME NEW p
               PROVE  p \in Elements(contexts') <=> p # None /\ \E i \in 1..n : OwnerOf[admissions[i].ref] = p
    BY <1>1
  <2>1. p \in Elements(contexts) <=> p # None /\ \E i \in 1..projected : OwnerOf[admissions[i].ref] = p
    BY DEF Closing
  <2> QED
    BY <1>3, <1>4, <1>5, <2>1
<1> QED
  BY <1>1, <1>5, <1>6 DEF Closing

LEMMA ClosingStep == Typed /\ Closing /\ [Next]_vars => Closing'
<1> SUFFICES ASSUME Typed, Closing, [Next]_vars PROVE Closing'
  OBVIOUS
<1>1. hydrated \in 0..Len(admissions) /\ projected \in 0..hydrated /\ Len(admissions) \in Nat
  BY DEF Typed, TypeOK
<1>2. ASSUME UNCHANGED evidence, phase \notin {"hydrate", "project", "done"},
             phase' \notin {"project", "done"}
      PROVE  Closing'
  <2>1. hydrated = 0 /\ projected = 0 /\ hydrated' = 0 /\ projected' = 0
        /\ UNCHANGED <<loaded, contexts>>
    BY <1>2 DEF Closing, evidence
  <2>2. \A o : o \notin Elements(contexts)
    BY <2>1 DEF Closing
  <2>3. 1..hydrated' = {} /\ 1..projected' = {}
    BY <2>1
  <2> QED
    BY <1>2, <2>1, <2>2, <2>3 DEF Closing
<1>3. ASSUME UNCHANGED <<evidence, admissions>>, phase' = phase PROVE Closing'
  BY <1>3 DEF Closing, evidence
<1>4. CASE Composes \/ EndsComposition \/ DerivesOwners \/ EndsPass
  <2>1. UNCHANGED evidence /\ phase \notin {"hydrate", "project", "done"} /\ phase' \notin {"project", "done"}
    BY <1>4 DEF Composes, EndsComposition, DerivesOwners, EndsPass
  <2> QED
    BY <1>2, <2>1
<1>5. ASSUME NEW s \in pending,
             PassesOver(s) \/ Defers(s) \/ AdmitsUnary(s) \/ AdmitsEndpoint(s) \/ AdmitsBothEndpoints(s)
      PROVE  Closing'
  <2>1. PICK adm : Visited(s, adm)
    BY <1>5 DEF PassesOver, Defers, AdmitsUnary, AdmitsEndpoint, AdmitsBothEndpoints
  <2>2. phase \in {"admit", "fallback"}
    BY <1>5 DEF PassesOver, Defers, AdmitsUnary, AdmitsEndpoint, AdmitsBothEndpoints, Reaches
  <2>3. UNCHANGED evidence /\ phase' \in {"raised", "hydrate", phase}
    BY <2>1 DEF Visited
  <2> QED
    BY <1>2, <2>2, <2>3
<1>6. CASE EndsHydration
  <2>1. /\ UNCHANGED <<admissions, hydrated, projected, loaded, contexts>> /\ phase = "hydrate"
        /\ phase' = "project" /\ hydrated = Len(admissions)
    BY <1>6 DEF EndsHydration, selection, evidence
  <2> QED
    BY <2>1 DEF Closing
<1>7. CASE EndsProjection
  <2>1. /\ UNCHANGED <<admissions, hydrated, projected, loaded, contexts>> /\ phase = "project"
        /\ phase' = "done" /\ projected = hydrated
    BY <1>7 DEF EndsProjection, selection, evidence
  <2> QED
    BY <2>1 DEF Closing
<1>8. CASE UNCHANGED vars
  BY <1>3, <1>8 DEF vars, selection
<1> QED
  BY <1>4, <1>5, <1>6, <1>7, <1>8, ClosingHydrates, ClosingProjects DEF Next, Returned

(* What is returned is closed under relations, owners and rows, and built  *)
(* without reading a row twice, for every execution.                       *)
THEOREM EvidenceIsAlwaysClosed == Spec => []EvidenceIsClosed
<1>1. Init => Closing
  <2> SUFFICES ASSUME Init PROVE Closing
    OBVIOUS
  <2>1. hydrated = 0 /\ projected = 0 /\ loaded = <<>> /\ contexts = <<>> /\ phase = "compose"
    BY DEF Init
  <2>2. Once(<<>>) /\ Elements(<<>>) = {} /\ 1..0 = {}
    BY DEF Once, Elements
  <2> QED
    BY <2>1, <2>2 DEF Closing
<1>2. Typed /\ Fair /\ Closing => EvidenceIsClosed
  <2> SUFFICES ASSUME Typed, Fair, Closing, phase = "done"
               PROVE  /\ UNION {Targets(s) : s \in SelectedRelations} \subseteq Selected
                      /\ Elements(contexts) = {OwnerOf[r] : r \in Selected} \ {None}
                      /\ Cardinality(Elements(contexts)) = Len(contexts)
                      /\ \A r \in Selected : Elements(RowsOf(r)) \subseteq Elements(loaded)
                      /\ Cardinality(Elements(loaded)) = Len(loaded)
                      /\ Cardinality(Selected) = Len(admissions)
    BY DEF EvidenceIsClosed
  <2>1. /\ hydrated = Len(admissions) /\ projected = Len(admissions) /\ Once(loaded) /\ Once(contexts)
        /\ admissions \in Seq(Admission) /\ DOMAIN admissions = 1..Len(admissions) /\ Len(admissions) \in Nat
        /\ loaded \in Seq(Ref \cup Owner) /\ contexts \in Seq(Owner)
    BY DEF Closing, Typed, TypeOK
  <2>2. UNION {Targets(s) : s \in SelectedRelations} \subseteq Selected
    BY DEF SelectedRelations
  <2>3. Elements(contexts) = {OwnerOf[r] : r \in Selected} \ {None}
    <3>1. \A o : o \in Elements(contexts) <=>
                   o # None /\ \E i \in DOMAIN admissions : OwnerOf[admissions[i].ref] = o
      BY <2>1 DEF Closing
    <3> QED
      BY <3>1 DEF Selected
  <2>4. \A r \in Selected : Elements(RowsOf(r)) \subseteq Elements(loaded)
    <3>1. \A i \in DOMAIN admissions : Elements(RowsOf(admissions[i].ref)) \subseteq Elements(loaded)
      BY <2>1 DEF Closing
    <3> QED
      BY <3>1 DEF Selected
  <2>5. Cardinality(Elements(contexts)) = Len(contexts) /\ Cardinality(Elements(loaded)) = Len(loaded)
    BY <2>1, OnceCounts
  <2>6. Cardinality(Selected) = Len(admissions)
    <3> DEFINE q == [i \in 1..Len(admissions) |-> admissions[i].ref]
    <3>1. \A i \in 1..Len(admissions) : admissions[i].ref \in Ref
      <4>1. \A i \in 1..Len(admissions) : admissions[i] \in Admission
        BY <2>1
      <4> QED
        BY <4>1 DEF Admission
    <3>2. q \in Seq(Ref) /\ Len(q) = Len(admissions) /\ DOMAIN q = 1..Len(admissions)
      BY <2>1, <3>1
    <3>3. \A i \in 1..Len(admissions) : q[i] = admissions[i].ref
      OBVIOUS
    <3> HIDE DEF q
    <3>4. Once(q)
      BY <2>1, <3>2, <3>3 DEF Once, Fair, AdmittedOnce
    <3>5. Elements(q) = Selected
      BY <2>1, <3>2, <3>3 DEF Elements, Selected
    <3>6. Cardinality(Elements(q)) = Len(q)
      BY <3>2, <3>4, OnceCounts
    <3> QED
      BY <3>2, <3>5, <3>6
  <2> QED
    BY <2>2, <2>3, <2>4, <2>5, <2>6
<1> QED
  BY <1>1, <1>2, FairAlways, ClosingStep, PTL DEF Spec
===============================================================================
