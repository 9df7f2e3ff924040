----------------------------- MODULE CatalogProofs -----------------------------
(***************************************************************************)
(* What the four grammars of the capability catalog share, for every vault *)
(* and every request: the catalog written from a build is one admission    *)
(* accepts, a request that conforms to it never fails at its surface, and  *)
(* what the build represents answers some conforming request.              *)
(***************************************************************************)
EXTENDS BuildDirectory, FiniteSetTheorems, TLAPS

(* A vault every surface was derived from.                                 *)
Built(v) == IsVault(v) /\ Ingests(v) /\ ExactBuilds(v) /\ TemporalBuilds(v)

ExactDims(v) == {<<r.class, r.name>> : r \in ExactRows(v)}

-------------------------------------------------------------------------------
LEMMA Element == \A S : \A q \in Seq(S) : \A k \in DOMAIN q : q[k] \in S
OBVIOUS

(* A unit stands in a parsed note, and inherits a typed value per field.   *)
LEMMA UnitShape ==
  ASSUME NEW v, IsVault(v), NEW u \in Units(v)
  PROVE  /\ u[1] \in DOMAIN v /\ Parsed(v[u[1]]) /\ v[u[1]] \in NoteRecord
         /\ u[2] \in DOMAIN v[u[1]].units /\ u = <<u[1], u[2]>>
         /\ UnitAt(v, u).under \in 0..Len(v[u[1]].headings)
         /\ UnitAt(v, u).text \in Texts
<1>1. PICK i \in DOMAIN v : \E k \in DOMAIN v[i].units : u = <<i, k>>
  BY DEF Units
<1>2. PICK k \in DOMAIN v[i].units : u = <<i, k>>
  BY <1>1
<1>3. u[1] = i /\ u[2] = k
  BY <1>2
<1>4. Parsed(v[i]) /\ v[i] \in NoteRecord
  BY <1>1 DEF IsVault, Parsed
<1>5. /\ v[i].units \in Seq([under : Nat, raw : Texts, text : Texts])
      /\ v[i].headings \in Seq([under : Nat, text : Texts])
  BY <1>4 DEF NoteRecord
<1>6. v[i].units[k] \in [under : Nat, raw : Texts, text : Texts]
  BY <1>2, <1>5, Element
<1>7. v[i].units[k].under \in 0..Len(v[i].headings)
  BY <1>2, <1>4, <1>5, <1>6 DEF Parsed
<1> QED
  BY <1>1, <1>2, <1>3, <1>4, <1>6, <1>7 DEF UnitAt

LEMMA ValueShape ==
  ASSUME NEW v, IsVault(v), NEW u \in Units(v), NEW f \in Fields
  PROVE  /\ Inherited(v, u, f) \in Value
         /\ Inherited(v, u, f).shape = "scalar" => Len(Inherited(v, u, f).members) = 1
<1>1. Parsed(v[u[1]]) /\ v[u[1]] \in NoteRecord
  BY UnitShape
<1>2. v[u[1]].fields \in [Fields -> Value]
  BY <1>1 DEF NoteRecord
<1> QED
  BY <1>1, <1>2 DEF Parsed, Inherited

(* Its members are typed; a scalar has exactly one.                        *)
LEMMA MemberShape ==
  ASSUME NEW x \in Value
  PROVE  /\ \A a \in Members(x) : a.domain \in Domains /\ a.text \in Texts
         /\ Members(x) # {} => Present(x)
         /\ x.shape = "scalar" /\ Len(x.members) = 1 => Members(x) = {x.members[1]}
         /\ \A t : t \in DirectText(x) <=> \E a \in Members(x) : a.domain = "string" /\ a.text = t
<1>1. x.members \in Seq([domain : Domains, text : Texts])
  BY DEF Value
<1>2. \A k \in DOMAIN x.members : x.members[k] \in [domain : Domains, text : Texts]
  BY <1>1, Element
<1>3. \A a \in Members(x) : a.domain \in Domains /\ a.text \in Texts
  BY <1>2 DEF Members
<1>4. Members(x) # {} => Present(x)
  BY DEF Members
<1>5. ASSUME x.shape = "scalar", Len(x.members) = 1 PROVE Members(x) = {x.members[1]}
  <2>1. DOMAIN x.members = {1}
    BY <1>1, <1>5
  <2>2. Present(x)
    BY <1>5 DEF Present
  <2> QED
    BY <2>1, <2>2 DEF Members
<1>6. \A t : t \in DirectText(x) <=> \E a \in Members(x) : a.domain = "string" /\ a.text = t
  BY DEF DirectText
<1> QED
  BY <1>3, <1>4, <1>5, <1>6

-------------------------------------------------------------------------------
(* The dimensions of the unit surfaces.  A field has an exact dimension if *)
(* some unit shows a member of it, a lexical one if some member is text.   *)
LEMMA ExactDimension ==
  ASSUME NEW v
  PROVE  /\ \A d \in ExactDims(v) : d \in FixedExact \/ \E f \in Fields : d = Identifier(f)
         /\ \A f : Identifier(f) \in ExactDims(v)
                     <=> f \in Fields /\ \E u \in Units(v) : Members(Inherited(v, u, f)) # {}
<1>1. ASSUME NEW r \in ExactRows(v)
      PROVE  \/ <<r.class, r.name>> \in FixedExact
             \/ \E f \in Fields, u \in Units(v) : <<r.class, r.name>> = Identifier(f) /\ Members(Inherited(v, u, f)) # {}
  <2>1. PICK u \in Units(v) :
          \/ r \in {ExactRow("intrinsic", "raw_markdown", TextKey(UnitAt(v, u).raw), u),
                    ExactRow("intrinsic", "parsed_text", TextKey(UnitAt(v, u).text), u),
                    ExactRow("semantic_path", "path_hierarchy", PathKey(v[u[1]].folder), u),
                    ExactRow("region", "region_path", PathKey(RegionTexts(v, u)), u)}
          \/ r \in {ExactRow("semantic_path", "path_component", TextKey(v[u[1]].folder[k]), u) :
                      k \in DOMAIN v[u[1]].folder}
          \/ \E f \in Fields : r \in {ExactRow("semantic_identifier", f, AtomKey(a), u) : a \in Members(Inherited(v, u, f))}
    BY DEF ExactRows
  <2>2. CASE r \in {ExactRow("intrinsic", "raw_markdown", TextKey(UnitAt(v, u).raw), u),
                    ExactRow("intrinsic", "parsed_text", TextKey(UnitAt(v, u).text), u),
                    ExactRow("semantic_path", "path_hierarchy", PathKey(v[u[1]].folder), u),
                    ExactRow("region", "region_path", PathKey(RegionTexts(v, u)), u)}
    BY <2>2 DEF ExactRow, FixedExact, FixedScalar, FixedOrdered
  <2>3. CASE r \in {ExactRow("semantic_path", "path_component", TextKey(v[u[1]].folder[k]), u) :
                      k \in DOMAIN v[u[1]].folder}
    BY <2>3 DEF ExactRow, FixedExact, FixedScalar, FixedOrdered
  <2>4. CASE \E f \in Fields : r \in {ExactRow("semantic_identifier", f, AtomKey(a), u) : a \in Members(Inherited(v, u, f))}
    BY <2>4 DEF ExactRow, Identifier
  <2> QED
    BY <2>1, <2>2, <2>3, <2>4
<1>2. ASSUME NEW f \in Fields, NEW u \in Units(v), NEW a \in Members(Inherited(v, u, f))
      PROVE  Identifier(f) \in ExactDims(v)
  <2>1. ExactRow("semantic_identifier", f, AtomKey(a), u) \in ExactRows(v)
    BY DEF ExactRows
  <2>2. /\ ExactRow("semantic_identifier", f, AtomKey(a), u).class = "semantic_identifier"
        /\ ExactRow("semantic_identifier", f, AtomKey(a), u).name = f
    BY DEF ExactRow
  <2> QED
    BY <2>1, <2>2 DEF ExactDims, Identifier
<1>3. \A f : Identifier(f) \notin FixedExact
  BY DEF Identifier, FixedExact, FixedScalar, FixedOrdered
<1>4. \A f, g : Identifier(f) = Identifier(g) => f = g
  BY DEF Identifier
<1> QED
  BY <1>1, <1>2, <1>3, <1>4 DEF ExactDims

LEMMA LexicalDimension ==
  ASSUME NEW v
  PROVE  /\ <<"intrinsic", "parsed_text">> \in LexicalDims(v)
         /\ \A d \in LexicalDims(v) :
              \/ d \in {<<"intrinsic", "parsed_text">>, <<"region", "region_text">>, <<"semantic_path", "path_component">>}
              \/ \E f \in Fields : d = Identifier(f)
         /\ \A f : Identifier(f) \in LexicalDims(v)
                     <=> f \in Fields /\ \E u \in Units(v) : DirectText(Inherited(v, u, f)) # {}
<1>1. ASSUME NEW r \in LexicalRows(v)
      PROVE  \/ <<r.class, r.name>> \in {<<"intrinsic", "parsed_text">>, <<"region", "region_text">>,
                                         <<"semantic_path", "path_component">>}
             \/ \E f \in Fields, u \in Units(v) : <<r.class, r.name>> = Identifier(f) /\ DirectText(Inherited(v, u, f)) # {}
  <2>1. PICK u \in Units(v) :
          \/ r \in {LexicalRow("intrinsic", "parsed_text", UnitAt(v, u).text, u)}
          \/ r \in {LexicalRow("region", "region_text", RegionTexts(v, u)[k], u) : k \in DOMAIN RegionTexts(v, u)}
          \/ r \in {LexicalRow("semantic_path", "path_component", v[u[1]].folder[k], u) :
                      k \in DOMAIN v[u[1]].folder}
          \/ \E f \in Fields : r \in {LexicalRow("semantic_identifier", f, t, u) : t \in DirectText(Inherited(v, u, f))}
    BY DEF LexicalRows
  <2>2. CASE r \in {LexicalRow("intrinsic", "parsed_text", UnitAt(v, u).text, u)}
    BY <2>2 DEF LexicalRow
  <2>3. CASE r \in {LexicalRow("region", "region_text", RegionTexts(v, u)[k], u) : k \in DOMAIN RegionTexts(v, u)}
    BY <2>3 DEF LexicalRow
  <2>4. CASE r \in {LexicalRow("semantic_path", "path_component", v[u[1]].folder[k], u) : k \in DOMAIN v[u[1]].folder}
    BY <2>4 DEF LexicalRow
  <2>5. CASE \E f \in Fields : r \in {LexicalRow("semantic_identifier", f, t, u) : t \in DirectText(Inherited(v, u, f))}
    BY <2>5 DEF LexicalRow, Identifier
  <2> QED
    BY <2>1, <2>2, <2>3, <2>4, <2>5
<1>2. ASSUME NEW f \in Fields, NEW u \in Units(v), NEW t \in DirectText(Inherited(v, u, f))
      PROVE  Identifier(f) \in LexicalDims(v)
  <2>1. LexicalRow("semantic_identifier", f, t, u) \in LexicalRows(v)
    BY DEF LexicalRows
  <2>2. /\ LexicalRow("semantic_identifier", f, t, u).class = "semantic_identifier"
        /\ LexicalRow("semantic_identifier", f, t, u).name = f
    BY DEF LexicalRow
  <2> QED
    BY <2>1, <2>2 DEF LexicalDims, Identifier
<1>3. \A f : Identifier(f) \notin {<<"intrinsic", "parsed_text">>, <<"region", "region_text">>,
                                   <<"semantic_path", "path_component">>}
  BY DEF Identifier
<1>4. \A f, g : Identifier(f) = Identifier(g) => f = g
  BY DEF Identifier
<1> QED
  BY <1>1, <1>2, <1>3, <1>4 DEF LexicalDims

(* The domains observed of a field are those of the members units show.    *)
LEMMA DomainFacts ==
  ASSUME NEW v, IsVault(v), NEW f \in Fields
  PROVE  /\ \A d : d \in ScalarDomains(v, f) <=>
                     \E u \in Units(v) : /\ Inherited(v, u, f).shape = "scalar"
                                         /\ \E a \in Members(Inherited(v, u, f)) : a.domain = d
         /\ \A d : d \in MemberDomains(v, f) <=>
                     \E u \in Units(v) : /\ Inherited(v, u, f).shape = "sequence"
                                         /\ \E a \in Members(Inherited(v, u, f)) : a.domain = d
         /\ ScalarDomains(v, f) \cup MemberDomains(v, f) # {} <=> Identifier(f) \in ExactDims(v)
         /\ "string" \in ScalarDomains(v, f) \cup MemberDomains(v, f) <=> Identifier(f) \in LexicalDims(v)
         /\ ExactBuilds(v) => ScalarDomains(v, f) \cup MemberDomains(v, f) \subseteq Operands
<1>1. ASSUME NEW shape \in {"scalar", "sequence"}, NEW d
      PROVE  d \in DomainsIn(v, f, shape) <=>
               \E u \in Units(v) : /\ Inherited(v, u, f).shape = shape
                                   /\ \E a \in Members(Inherited(v, u, f)) : a.domain = d
  BY <1>1 DEF DomainsIn, UnitValues, Present
<1>2. ASSUME NEW u \in Units(v), NEW a \in Members(Inherited(v, u, f))
      PROVE  /\ Inherited(v, u, f) \in Value /\ Inherited(v, u, f).shape \in {"scalar", "sequence"}
             /\ a.domain \in Domains
             /\ a.domain \in ScalarDomains(v, f) \cup MemberDomains(v, f)
  <2>1. Inherited(v, u, f) \in Value
    BY ValueShape
  <2>2. a.domain \in Domains /\ Inherited(v, u, f).shape \in {"scalar", "sequence"}
    BY <2>1, MemberShape DEF Present
  <2> QED
    BY <1>1, <2>1, <2>2 DEF ScalarDomains, MemberDomains
<1>3. \A d \in ScalarDomains(v, f) \cup MemberDomains(v, f) :
        \E u \in Units(v) : \E a \in Members(Inherited(v, u, f)) : a.domain = d
  BY <1>1 DEF ScalarDomains, MemberDomains
<1>4. ScalarDomains(v, f) \cup MemberDomains(v, f) # {} <=> \E u \in Units(v) : Members(Inherited(v, u, f)) # {}
  BY <1>2, <1>3
<1>5. "string" \in ScalarDomains(v, f) \cup MemberDomains(v, f)
        <=> \E u \in Units(v) : DirectText(Inherited(v, u, f)) # {}
  <2>1. \A u \in Units(v) : DirectText(Inherited(v, u, f)) # {}
                              <=> \E a \in Members(Inherited(v, u, f)) : a.domain = "string"
    BY DEF DirectText
  <2> QED
    BY <1>2, <1>3, <2>1
<1>6. ASSUME ExactBuilds(v), NEW d \in ScalarDomains(v, f) \cup MemberDomains(v, f) PROVE d \in Operands
  <2>1. PICK u \in Units(v) : \E a \in Members(Inherited(v, u, f)) : a.domain = d
    BY <1>3
  <2> QED
    BY <1>2, <1>6, <2>1 DEF ExactBuilds, Operands
<1> QED
  BY <1>1, <1>4, <1>5, <1>6, ExactDimension, LexicalDimension DEF ScalarDomains, MemberDomains

(* Where the temporal surface was derived and the field has a value, every *)
(* value of it is one date.                                                *)
LEMMA TemporalDomains ==
  ASSUME NEW v, IsVault(v), TemporalBuilds(v), TemporalField \in Fields
  PROVE  /\ MemberDomains(v, TemporalField) = {}
         /\ UnitValues(v, TemporalField) # {} => ScalarDomains(v, TemporalField) = {"date"}
<1> DEFINE f == TemporalField
<1>1. \A u \in Units(v) : Present(Inherited(v, u, f)) =>
        /\ Inherited(v, u, f).shape = "scalar"
        /\ Members(Inherited(v, u, f)) = {Inherited(v, u, f).members[1]}
        /\ Inherited(v, u, f).members[1].domain = "date"
  <2> SUFFICES ASSUME NEW u \in Units(v), Present(Inherited(v, u, f))
               PROVE  /\ Inherited(v, u, f).shape = "scalar"
                      /\ Members(Inherited(v, u, f)) = {Inherited(v, u, f).members[1]}
                      /\ Inherited(v, u, f).members[1].domain = "date"
    OBVIOUS
  <2>1. u \in Dated(v)
    BY DEF Dated
  <2>2. Inherited(v, u, f).shape = "scalar" /\ Inherited(v, u, f).members[1].domain = "date"
    BY <2>1 DEF TemporalBuilds
  <2> QED
    BY <2>2, ValueShape, MemberShape
<1>2. \A u \in Units(v) : Inherited(v, u, f).shape # "sequence"
  BY <1>1 DEF Present
<1>3. MemberDomains(v, f) = {}
  BY <1>2, DomainFacts
<1>4. ASSUME UnitValues(v, f) # {} PROVE ScalarDomains(v, f) = {"date"}
  <2>1. PICK u \in Units(v) : Present(Inherited(v, u, f))
    BY <1>4 DEF UnitValues
  <2>2. "date" \in ScalarDomains(v, f)
    BY <1>1, <2>1, DomainFacts
  <2>3. \A d \in ScalarDomains(v, f) : d = "date"
    BY <1>1, DomainFacts DEF Present
  <2> QED
    BY <2>2, <2>3
<1> QED
  BY <1>3, <1>4

-------------------------------------------------------------------------------
(* A catalog written from a build is one admission accepts.                *)
Pairs(accesses) == {<<a.operator, a.target>> : a \in accesses}

LEMMA PairsFacts ==
  /\ Pairs({}) = {}
  /\ \A A, B : Pairs(A \cup B) = Pairs(A) \cup Pairs(B)
  /\ \A a : Pairs({a}) = {<<a.operator, a.target>>}
  /\ \A operator, target, domains :
       /\ Scalar(operator, target, domains).operator = operator
       /\ Scalar(operator, target, domains).target = target
       /\ Scalar(operator, target, domains).shape = "scalar"
       /\ Scalar(operator, target, domains).domains = domains
  /\ \A target : Pairs(LexicalAccess(target)) = Lexical(target)
<1>1. \A operator, target, domains :
       /\ Scalar(operator, target, domains).operator = operator
       /\ Scalar(operator, target, domains).target = target
       /\ Scalar(operator, target, domains).shape = "scalar"
       /\ Scalar(operator, target, domains).domains = domains
  BY DEF Scalar, Access
<1>2. ASSUME NEW target PROVE Pairs(LexicalAccess(target)) = Lexical(target)
  <2>1. ASSUME NEW p \in Pairs(LexicalAccess(target)) PROVE p \in Lexical(target)
    <3>1. PICK a \in LexicalAccess(target) : p = <<a.operator, a.target>>
      BY DEF Pairs
    <3>2. PICK operator \in LexicalOps : a = Scalar(operator, target, {"string"})
      BY DEF LexicalAccess
    <3> QED
      BY <1>1, <3>1, <3>2 DEF Lexical
  <2>2. ASSUME NEW operator \in LexicalOps PROVE <<operator, target>> \in Pairs(LexicalAccess(target))
    <3>1. Scalar(operator, target, {"string"}) \in LexicalAccess(target)
      BY DEF LexicalAccess
    <3>2. /\ Scalar(operator, target, {"string"}).operator = operator
          /\ Scalar(operator, target, {"string"}).target = target
      BY <1>1
    <3> QED
      BY <3>1, <3>2, Zenon DEF Pairs
  <2>3. \A p \in Lexical(target) : p \in Pairs(LexicalAccess(target))
    BY <2>2 DEF Lexical
  <2> QED
    BY <2>1, <2>3
<1> QED
  BY <1>1, <1>2 DEF Pairs

(* The dimensions the facts speak of.                                      *)
LEMMA FactDimension ==
  ASSUME NEW v, IsVault(v), NEW d \in FactDims(v)
  PROVE  \/ d \in FixedScalar \cup FixedOrdered /\ ~IsIdentifier(d)
         \/ \E f \in Fields : d = Identifier(f) /\ IsIdentifier(d) /\ d \in ExactDims(v)
<1>1. d \in FixedExact \/ d \in ExactDims(v) \/ d \in LexicalDims(v)
  BY DEF FactDims, ExactDims
<1>2. \A g \in Fields : Identifier(g) \in LexicalDims(v) => Identifier(g) \in ExactDims(v)
  BY DomainFacts
<1>3. d \in FixedExact \cup {<<"region", "region_text">>} \/ \E f \in Fields : d = Identifier(f) /\ d \in ExactDims(v)
  <2>1. <<"intrinsic", "parsed_text">> \in FixedExact /\ <<"semantic_path", "path_component">> \in FixedExact
    BY DEF FixedExact, FixedScalar, FixedOrdered
  <2> QED
    BY <1>1, <1>2, <2>1, ExactDimension, LexicalDimension
<1>4. \A e \in FixedExact \cup {<<"region", "region_text">>} : e \in FixedScalar \cup FixedOrdered /\ ~IsIdentifier(e)
  BY DEF FixedExact, FixedScalar, FixedOrdered, IsIdentifier
<1>5. \A f : IsIdentifier(Identifier(f))
  BY DEF IsIdentifier, Identifier
<1> QED
  BY <1>3, <1>4, <1>5

(* What is licensed of a field is what its value model calls for.          *)
LEMMA IdentifierGrammarAgrees ==
  ASSUME NEW v, IsVault(v), TemporalBuilds(v), NEW f \in Fields,
         UnitValues(v, f) # {}, Identifier(f) \in ExactDims(v)
  PROVE  Pairs(IdentifierAccess(v, f))
           = IdentifierGrammar([scalar |-> ScalarDomains(v, f), sequence |-> MemberDomains(v, f), ordered |-> {}], f)
<1> DEFINE scalars == ScalarDomains(v, f)
           members == MemberDomains(v, f)
           S == Scalar("exact.equals", "complete_value", scalars)
           M == Scalar("exact.equals", "member", members)
           A1 == {a \in {S, M} : Identifier(f) \in ExactDims(v) /\ a.domains # {}}
           A2 == IF Identifier(f) \in LexicalDims(v) /\ "string" \in scalars THEN LexicalAccess("complete_value") ELSE {}
           A3 == IF Identifier(f) \in LexicalDims(v) /\ "string" \in members THEN LexicalAccess("member") ELSE {}
           A4 == IF f = TemporalField
                 THEN {Scalar(operator, "complete_value", {"date"}) : operator \in TemporalOps} ELSE {}
<1>1. IdentifierAccess(v, f) = A1 \cup A2 \cup A3 \cup A4
  BY DEF IdentifierAccess, ExactDims
<1>2. Pairs(A1) = (IF scalars # {} THEN Exact(Whole) ELSE {}) \cup (IF members # {} THEN Exact("member") ELSE {})
  <2>1. /\ S.domains = scalars /\ S.operator = "exact.equals" /\ S.target = "complete_value"
        /\ M.domains = members /\ M.operator = "exact.equals" /\ M.target = "member"
    BY PairsFacts
  <2>2. A1 = (IF scalars # {} THEN {S} ELSE {}) \cup (IF members # {} THEN {M} ELSE {})
    BY <2>1
  <2> HIDE DEF S, M, A1, scalars, members
  <2>3. Pairs({S}) = Exact(Whole) /\ Pairs({M}) = Exact("member")
    BY <2>1, PairsFacts DEF Exact, Whole
  <2> QED
    BY <2>2, <2>3, PairsFacts
<1>3. Pairs(A2) = IF "string" \in scalars THEN Lexical(Whole) ELSE {}
  <2>1. "string" \in scalars => Identifier(f) \in LexicalDims(v)
    BY DomainFacts
  <2> QED
    BY <2>1, PairsFacts DEF Whole
<1>4. Pairs(A3) = IF "string" \in members THEN Lexical("member") ELSE {}
  <2>1. "string" \in members => Identifier(f) \in LexicalDims(v)
    BY DomainFacts
  <2> QED
    BY <2>1, PairsFacts
<1>5. Pairs(A4) = IF f = TemporalField /\ scalars = {"date"} THEN TemporalOps \X {Whole} ELSE {}
  <2>1. CASE f # TemporalField
    BY <2>1, PairsFacts
  <2>2. CASE f = TemporalField
    <3>1. scalars = {"date"}
      BY <2>2, TemporalDomains
    <3>2. Pairs({Scalar(operator, "complete_value", {"date"}) : operator \in TemporalOps})
            = {<<operator, "complete_value">> : operator \in TemporalOps}
      <4> DEFINE T == {Scalar(operator, "complete_value", {"date"}) : operator \in TemporalOps}
      <4>1. ASSUME NEW operator \in TemporalOps PROVE <<operator, "complete_value">> \in Pairs(T)
        <5>1. Scalar(operator, "complete_value", {"date"}) \in T
          OBVIOUS
        <5>2. /\ Scalar(operator, "complete_value", {"date"}).operator = operator
              /\ Scalar(operator, "complete_value", {"date"}).target = "complete_value"
          BY PairsFacts
        <5> QED
          BY <5>1, <5>2, Zenon DEF Pairs
      <4>2. ASSUME NEW p \in Pairs(T) PROVE p \in {<<operator, "complete_value">> : operator \in TemporalOps}
        <5>1. PICK a \in T : p = <<a.operator, a.target>>
          BY DEF Pairs
        <5>2. PICK operator \in TemporalOps : a = Scalar(operator, "complete_value", {"date"})
          OBVIOUS
        <5> QED
          BY <5>1, <5>2, PairsFacts
      <4> QED
        BY <4>1, <4>2
    <3>3. {<<operator, "complete_value">> : operator \in TemporalOps} = TemporalOps \X {Whole}
      BY DEF Whole
    <3> QED
      BY <2>2, <3>1, <3>2, <3>3
  <2> QED
    BY <2>1, <2>2
<1> HIDE DEF A1, A2, A3, A4
<1>6. Pairs(IdentifierAccess(v, f)) = Pairs(A1) \cup Pairs(A2) \cup Pairs(A3) \cup Pairs(A4)
  <2>1. Pairs(A1 \cup A2 \cup A3 \cup A4) = Pairs(A1 \cup A2 \cup A3) \cup Pairs(A4)
    BY PairsFacts, Zenon
  <2>2. Pairs(A1 \cup A2 \cup A3) = Pairs(A1 \cup A2) \cup Pairs(A3) /\ Pairs(A1 \cup A2) = Pairs(A1) \cup Pairs(A2)
    BY PairsFacts, Zenon
  <2> QED
    BY <1>1, <2>1, <2>2, Zenon
<1> HIDE DEF scalars, members
<1> DEFINE model == [scalar |-> scalars, sequence |-> members, ordered |-> {}]
<1>7. model.scalar = scalars /\ model.sequence = members
  OBVIOUS
<1> HIDE DEF model
<1>8. Pairs(IdentifierAccess(v, f)) = IdentifierGrammar(model, f)
  BY <1>2, <1>3, <1>4, <1>5, <1>6, <1>7 DEF IdentifierGrammar
<1> QED
  BY <1>8 DEF model, scalars, members

LEMMA IdentifierAdmitted ==
  ASSUME NEW v, IsVault(v), ExactBuilds(v), TemporalBuilds(v), NEW f \in Fields,
         UnitValues(v, f) # {}, Identifier(f) \in ExactDims(v),
         NEW model, model = [scalar |-> ScalarDomains(v, f), sequence |-> MemberDomains(v, f), ordered |-> {}]
  PROVE  /\ model.ordered = {}
         /\ model.scalar \cup model.sequence \cup model.ordered \in (SUBSET Operands) \ {{}}
         /\ \A a \in IdentifierAccess(v, f) : AccessAdmitted(a, model, Identifier(f))
         /\ GrammarAdmitted(Identifier(f), Pairs(IdentifierAccess(v, f)), model)
<1>1. model.scalar = ScalarDomains(v, f) /\ model.sequence = MemberDomains(v, f) /\ model.ordered = {}
  OBVIOUS
<1>2. model.scalar \cup model.sequence \in (SUBSET Operands) \ {{}}
  BY <1>1, DomainFacts
<1>3. ASSUME NEW a \in IdentifierAccess(v, f) PROVE AccessAdmitted(a, model, Identifier(f))
  <2>1. \/ a = Scalar("exact.equals", "complete_value", model.scalar) /\ model.scalar # {}
        \/ a = Scalar("exact.equals", "member", model.sequence) /\ model.sequence # {}
        \/ a \in LexicalAccess("complete_value") /\ "string" \in model.scalar
        \/ a \in LexicalAccess("member") /\ "string" \in model.sequence
        \/ /\ f = TemporalField
           /\ a \in {Scalar(operator, "complete_value", {"date"}) : operator \in TemporalOps}
    <3>1. \A b \in {Scalar("exact.equals", "complete_value", ScalarDomains(v, f)),
                    Scalar("exact.equals", "member", MemberDomains(v, f))} :
            b.domains # {} => \/ b = Scalar("exact.equals", "complete_value", model.scalar) /\ model.scalar # {}
                              \/ b = Scalar("exact.equals", "member", model.sequence) /\ model.sequence # {}
      BY <1>1, PairsFacts
    <3> QED
      BY <1>1, <3>1 DEF IdentifierAccess
  <2>2. CASE a = Scalar("exact.equals", "complete_value", model.scalar) /\ model.scalar # {}
    <3>1. a.operator = "exact.equals" /\ a.target = "complete_value" /\ a.shape = "scalar" /\ a.domains = model.scalar
      BY <2>2, PairsFacts
    <3> QED
      BY <2>2, <3>1 DEF AccessAdmitted, TemporalOps, LexicalOps
  <2>3. CASE a = Scalar("exact.equals", "member", model.sequence) /\ model.sequence # {}
    <3>1. a.operator = "exact.equals" /\ a.target = "member" /\ a.shape = "scalar" /\ a.domains = model.sequence
      BY <2>3, PairsFacts
    <3> QED
      BY <2>3, <3>1 DEF AccessAdmitted, TemporalOps, LexicalOps
  <2>4. CASE a \in LexicalAccess("complete_value") /\ "string" \in model.scalar
    <3>1. a.operator \in LexicalOps /\ a.target = "complete_value" /\ a.domains = {"string"}
      BY <2>4, PairsFacts DEF LexicalAccess
    <3> QED
      BY <2>4, <3>1 DEF AccessAdmitted, TemporalOps, LexicalOps
  <2>5. CASE a \in LexicalAccess("member") /\ "string" \in model.sequence
    <3>1. a.operator \in LexicalOps /\ a.target = "member" /\ a.domains = {"string"}
      BY <2>5, PairsFacts DEF LexicalAccess
    <3> QED
      BY <2>5, <3>1 DEF AccessAdmitted, TemporalOps, LexicalOps
  <2>6. CASE /\ f = TemporalField
             /\ a \in {Scalar(operator, "complete_value", {"date"}) : operator \in TemporalOps}
    <3>1. a.operator \in TemporalOps /\ a.target = "complete_value" /\ a.domains = {"date"}
      BY <2>6, PairsFacts
    <3>2. model.scalar = {"date"}
      BY <1>1, <2>6, TemporalDomains
    <3> QED
      BY <2>6, <3>1, <3>2 DEF AccessAdmitted, TemporalOps, LexicalOps
  <2> QED
    BY <2>1, <2>2, <2>3, <2>4, <2>5, <2>6
<1>4. GrammarAdmitted(Identifier(f), Pairs(IdentifierAccess(v, f)), model)
  <2>1. IsIdentifier(Identifier(f)) /\ Identifier(f)[2] = f
    BY DEF IsIdentifier, Identifier
  <2>2. Pairs(IdentifierAccess(v, f)) = IdentifierGrammar(model, f)
    BY IdentifierGrammarAgrees
  <2>3. \A d \in FixedScalar \cup FixedOrdered : d # Identifier(f)
    BY DEF FixedScalar, FixedOrdered, Identifier
  <2> QED
    BY <2>1, <2>2, <2>3 DEF GrammarAdmitted, FixedScalar, FixedOrdered
<1> QED
  BY <1>1, <1>2, <1>3, <1>4

(* The dimensions every vault has are licensed what their surfaces offer.  *)
LEMMA FixedModelFacts ==
  ASSUME NEW d \in FixedScalar \cup FixedOrdered
  PROVE  /\ FixedModel(d).sequence = {}
         /\ d \in FixedScalar => FixedModel(d).scalar = {"string"} /\ FixedModel(d).ordered = {} /\ d \notin FixedOrdered
         /\ d \in FixedOrdered => FixedModel(d).scalar = {} /\ FixedModel(d).ordered = {"string"} /\ d \notin FixedScalar
<1>1. \A e \in FixedScalar : e \notin FixedOrdered
  BY DEF FixedScalar, FixedOrdered
<1>2. d \in FixedScalar => {s \in {"string"} : d \in FixedScalar} = {"string"}
                                       /\ {s \in {"string"} : d \in FixedOrdered} = {}
  BY <1>1
<1>3. d \in FixedOrdered => {s \in {"string"} : d \in FixedScalar} = {}
                                        /\ {s \in {"string"} : d \in FixedOrdered} = {"string"}
  BY <1>1
<1> QED
  BY <1>1, <1>2, <1>3 DEF FixedModel

LEMMA FixedAdmitted ==
  ASSUME NEW v, NEW d \in FixedScalar \cup FixedOrdered, d \in FactDims(v),
         NEW model, model = FixedModel(d)
  PROVE  /\ model.scalar \cup model.sequence \cup model.ordered \in (SUBSET Operands) \ {{}}
         /\ \A a \in FixedAccess(v, d) : AccessAdmitted(a, model, d)
         /\ GrammarAdmitted(d, Pairs(FixedAccess(v, d)), model)
         /\ d = <<"intrinsic", "parsed_text">> =>
              (<<"vector.semantic_similarity", Whole>> \in Pairs(FixedAccess(v, d))
                 <=> "semantic_unit" \in {t[1] : t \in VectorTargets(v)})
<1> DEFINE O == Access("exact.equals", "complete_value", "ordered_sequence", {"string"})
           E == Scalar("exact.equals", "complete_value", {"string"})
           V == Scalar("vector.semantic_similarity", "complete_value", {"string"})
           unitsEmbedded == "semantic_unit" \in {t[1] : t \in VectorTargets(v)}
           AO == IF d \in FixedOrdered THEN {O} ELSE {}
           AE == IF d \in FixedExact \ FixedOrdered THEN {E} ELSE {}
           AL == IF d \in LexicalDims(v) THEN LexicalAccess("complete_value") ELSE {}
           AV == IF d[2] = "parsed_text" /\ unitsEmbedded THEN {V} ELSE {}
<1>1. FixedAccess(v, d) = AO \cup AE \cup AL \cup AV
  BY DEF FixedAccess
<1>2. /\ O.operator = "exact.equals" /\ O.target = Whole /\ O.shape = "ordered_sequence" /\ O.domains = {"string"}
      /\ E.operator = "exact.equals" /\ E.target = Whole /\ E.shape = "scalar" /\ E.domains = {"string"}
      /\ V.operator = "vector.semantic_similarity" /\ V.target = Whole /\ V.domains = {"string"}
  BY PairsFacts DEF Access, Whole
<1>3. d[2] = "parsed_text" <=> d = <<"intrinsic", "parsed_text">>
  BY DEF FixedScalar, FixedOrdered
<1>4. /\ Pairs({O}) = Exact(Whole) /\ Pairs({E}) = Exact(Whole) /\ Pairs({V}) = {<<"vector.semantic_similarity", Whole>>}
      /\ Pairs(LexicalAccess("complete_value")) = Lexical(Whole) /\ Pairs({}) = {}
  <2> HIDE DEF O, E, V
  <2>1. \A a : Pairs({a}) = {<<a.operator, a.target>>}
    BY PairsFacts, Zenon
  <2>2. /\ Pairs({O}) = {<<O.operator, O.target>>} /\ Pairs({E}) = {<<E.operator, E.target>>}
        /\ Pairs({V}) = {<<V.operator, V.target>>}
    BY <2>1, Zenon
  <2>3. Pairs(LexicalAccess("complete_value")) = Lexical("complete_value") /\ Pairs({}) = {}
    BY PairsFacts, Zenon
  <2> QED
    BY <1>2, <2>2, <2>3 DEF Exact, Whole
<1>5. Pairs(FixedAccess(v, d)) = Pairs(AO) \cup Pairs(AE) \cup Pairs(AL) \cup Pairs(AV)
  <2> HIDE DEF AO, AE, AL, AV
  <2>1. Pairs(AO \cup AE \cup AL \cup AV) = Pairs(AO \cup AE \cup AL) \cup Pairs(AV)
    BY PairsFacts, Zenon
  <2>2. Pairs(AO \cup AE \cup AL) = Pairs(AO \cup AE) \cup Pairs(AL) /\ Pairs(AO \cup AE) = Pairs(AO) \cup Pairs(AE)
    BY PairsFacts, Zenon
  <2> QED
    BY <1>1, <2>1, <2>2, Zenon
<1>6. \A a \in LexicalAccess("complete_value") : a.operator \in LexicalOps /\ a.target = Whole /\ a.domains = {"string"}
  BY PairsFacts DEF LexicalAccess, Whole
<1>7. /\ model.sequence = {}
      /\ d \in FixedScalar => model.scalar = {"string"} /\ model.ordered = {} /\ d \notin FixedOrdered
      /\ d \in FixedOrdered => model.scalar = {} /\ model.ordered = {"string"} /\ d \notin FixedScalar
  BY FixedModelFacts
<1>8. d \in LexicalDims(v) => d \in {<<"intrinsic", "parsed_text">>, <<"region", "region_text">>,
                                      <<"semantic_path", "path_component">>}
  <2>1. \A f : d # Identifier(f)
    BY DEF FixedScalar, FixedOrdered, Identifier
  <2> QED
    BY <2>1, LexicalDimension
<1>9. d = <<"region", "region_text">> => d \in LexicalDims(v)
  <2>1. \A f : <<"region", "region_text">> # Identifier(f)
    BY DEF Identifier
  <2>2. <<"region", "region_text">> \notin FixedExact
    BY DEF FixedExact, FixedScalar, FixedOrdered
  <2>3. <<"region", "region_text">> \notin ExactDims(v)
    BY <2>1, <2>2, ExactDimension
  <2> QED
    BY <2>2, <2>3 DEF FactDims, ExactDims
<1> HIDE DEF O, E, V, unitsEmbedded
<1>10. model.scalar \cup model.sequence \cup model.ordered \in (SUBSET Operands) \ {{}}
  <2>1. "string" \in Operands
    BY DEF Operands, Domains, Structured
  <2> QED
    BY <1>7, <2>1
<1>11. ASSUME NEW a \in FixedAccess(v, d) PROVE AccessAdmitted(a, model, d)
  <2>1. CASE d \in FixedOrdered /\ a = O
    BY <1>2, <1>7, <2>1 DEF AccessAdmitted, TemporalOps, LexicalOps, Whole
  <2>2. CASE d \in FixedExact \ FixedOrdered /\ a = E
    <3>1. d \in FixedScalar
      BY <2>2 DEF FixedExact
    <3> QED
      BY <1>2, <1>7, <2>2, <3>1 DEF AccessAdmitted, TemporalOps, LexicalOps, Whole
  <2>3. CASE d \in LexicalDims(v) /\ a \in LexicalAccess("complete_value")
    <3>1. d \in FixedScalar
      BY <1>8, <2>3 DEF FixedScalar
    <3> QED
      BY <1>6, <1>7, <2>3, <3>1 DEF AccessAdmitted, TemporalOps, LexicalOps, Whole
  <2>4. CASE d = <<"intrinsic", "parsed_text">> /\ a = V
    <3>1. d \in FixedScalar
      BY <2>4 DEF FixedScalar
    <3> QED
      BY <1>2, <1>7, <2>4, <3>1 DEF AccessAdmitted, TemporalOps, LexicalOps, Whole
  <2> QED
    BY <1>1, <1>3, <2>1, <2>2, <2>3, <2>4
<1> HIDE DEF AO, AE, AL, AV
<1>12. /\ Pairs(AO) = IF d \in FixedOrdered THEN Exact(Whole) ELSE {}
       /\ Pairs(AE) = IF d \in FixedExact \ FixedOrdered THEN Exact(Whole) ELSE {}
       /\ Pairs(AL) = IF d \in LexicalDims(v) THEN Lexical(Whole) ELSE {}
       /\ Pairs(AV) = IF d = <<"intrinsic", "parsed_text">> /\ unitsEmbedded
                      THEN {<<"vector.semantic_similarity", Whole>>} ELSE {}
  BY <1>3, <1>4 DEF AO, AE, AL, AV
<1>13. ~IsIdentifier(d)
  BY DEF FixedScalar, FixedOrdered, IsIdentifier
<1>14. CASE d \in FixedOrdered \cup {<<"intrinsic", "raw_markdown">>}
  <2>1. /\ d \notin {<<"intrinsic", "parsed_text">>, <<"region", "region_text">>, <<"semantic_path", "path_component">>}
        /\ d \in FixedExact
    BY <1>14 DEF FixedOrdered, FixedExact, FixedScalar
  <2>2. Pairs(FixedAccess(v, d)) = Exact(Whole)
    BY <1>5, <1>8, <1>12, <2>1
  <2> QED
    BY <1>10, <1>11, <1>13, <2>1, <2>2 DEF GrammarAdmitted
<1>15. CASE d = <<"intrinsic", "parsed_text">>
  <2>1. /\ d \notin FixedOrdered \cup {<<"intrinsic", "raw_markdown">>, <<"region", "region_text">>,
                                <<"semantic_path", "path_component">>}
        /\ d \in FixedExact
    BY <1>15 DEF FixedOrdered, FixedExact, FixedScalar
  <2>2. Pairs(FixedAccess(v, d)) = Exact(Whole) \cup Lexical(Whole)
            \cup (IF unitsEmbedded THEN {<<"vector.semantic_similarity", Whole>>} ELSE {})
    BY <1>5, <1>12, <1>15, <2>1, LexicalDimension
  <2>3. <<"vector.semantic_similarity", Whole>> \notin Exact(Whole) \cup Lexical(Whole)
    BY DEF Exact, Lexical, LexicalOps
  <2>4. <<"vector.semantic_similarity", Whole>> \in Pairs(FixedAccess(v, d)) <=> unitsEmbedded
    BY <2>2, <2>3
  <2>5. GrammarAdmitted(d, Pairs(FixedAccess(v, d)), model)
    <3>1. CASE unitsEmbedded
      BY <1>13, <2>1, <2>2, <3>1 DEF GrammarAdmitted
    <3>2. CASE ~unitsEmbedded
      <4>1. Pairs(FixedAccess(v, d)) = Exact(Whole) \cup Lexical(Whole)
        BY <2>2, <3>2
      <4> QED
        BY <1>13, <2>1, <4>1 DEF GrammarAdmitted
    <3> QED
      BY <3>1, <3>2
  <2> QED
    BY <1>10, <1>11, <2>4, <2>5 DEF unitsEmbedded
<1>16. CASE d = <<"region", "region_text">>
  <2>1. d \notin FixedOrdered \cup FixedExact \cup {<<"intrinsic", "raw_markdown">>,
            <<"intrinsic", "parsed_text">>, <<"semantic_path", "path_component">>}
    BY <1>16 DEF FixedOrdered, FixedExact, FixedScalar
  <2>2. Pairs(FixedAccess(v, d)) = Lexical(Whole)
    BY <1>5, <1>9, <1>12, <1>16, <2>1
  <2> QED
    BY <1>10, <1>11, <1>13, <2>1, <2>2 DEF GrammarAdmitted
<1>17. CASE d = <<"semantic_path", "path_component">>
  <2>1. /\ d \notin FixedOrdered \cup {<<"intrinsic", "raw_markdown">>, <<"intrinsic", "parsed_text">>,
                                <<"region", "region_text">>}
        /\ d \in FixedExact
    BY <1>17 DEF FixedOrdered, FixedExact, FixedScalar
  <2>2. Pairs(FixedAccess(v, d)) \in {Exact(Whole), Exact(Whole) \cup Lexical(Whole)}
    BY <1>5, <1>12, <2>1
  <2> QED
    BY <1>10, <1>11, <1>13, <2>1, <2>2 DEF GrammarAdmitted
<1> QED
  BY <1>14, <1>15, <1>16, <1>17 DEF FixedScalar

LEMMA GeneratedIsAdmitted ==
  ASSUME NEW v, Built(v), NEW described, Generates(v, described), NEW c, c = Catalog(v)
  PROVE  Admitted(c)
<1> DEFINE ids(d) == {<<a.operator, a.target>> : a \in c.access[d]}
<1>1. /\ c.value = [d \in FactDims(v) |-> ValueModel(v, d)]
      /\ c.access = [d \in FactDims(v) |-> DimAccess(v, d)]
      /\ c.discovery = DiscoveryDims(v) /\ c.relations = RelationTypes(v)
      /\ c.targets = {t[1] : t \in VectorTargets(v)}
  BY DEF Catalog
<1>2. DOMAIN c.access = FactDims(v)
  BY <1>1
<1>3. IsVault(v) /\ ExactBuilds(v) /\ TemporalBuilds(v)
  BY DEF Built
<1> HIDE DEF Built
<1>4. ASSUME NEW d \in FactDims(v), IsIdentifier(d)
      PROVE  /\ c.value[d].ordered = {}
             /\ c.value[d].scalar \cup c.value[d].sequence \cup c.value[d].ordered \in (SUBSET Operands) \ {{}}
             /\ \A a \in c.access[d] : AccessAdmitted(a, c.value[d], d)
             /\ GrammarAdmitted(d, ids(d), c.value[d])
  <2>1. PICK f \in Fields : d = Identifier(f) /\ d \in ExactDims(v)
    BY <1>3, <1>4, FactDimension
  <2>2. d[2] = f
    BY <2>1 DEF Identifier
  <2>3. UnitValues(v, f) # {}
    BY <1>4, <2>2 DEF Generates
  <2>4. c.value[d] = [scalar |-> ScalarDomains(v, f), sequence |-> MemberDomains(v, f), ordered |-> {}]
    BY <1>1, <1>4, <2>2 DEF ValueModel
  <2>5. c.access[d] = IdentifierAccess(v, f)
    BY <1>1, <1>4, <2>2 DEF DimAccess
  <2>6. ids(d) = Pairs(IdentifierAccess(v, f))
    BY <2>5 DEF Pairs
  <2> QED
    BY <1>3, <2>1, <2>3, <2>4, <2>5, <2>6, IdentifierAdmitted
<1>5. ASSUME NEW d \in FactDims(v), ~IsIdentifier(d)
      PROVE  /\ d \in FixedScalar \cup FixedOrdered /\ c.value[d] = FixedModel(d)
             /\ c.value[d].scalar \cup c.value[d].sequence \cup c.value[d].ordered \in (SUBSET Operands) \ {{}}
             /\ \A a \in c.access[d] : AccessAdmitted(a, c.value[d], d)
             /\ GrammarAdmitted(d, ids(d), c.value[d])
             /\ d = <<"intrinsic", "parsed_text">> =>
                  (<<"vector.semantic_similarity", Whole>> \in ids(d) <=> "semantic_unit" \in c.targets)
  <2>1. d \in FixedScalar \cup FixedOrdered
    BY <1>3, <1>5, FactDimension
  <2>2. c.value[d] = FixedModel(d) /\ c.access[d] = FixedAccess(v, d)
    BY <1>1, <1>5 DEF ValueModel, DimAccess
  <2>3. ids(d) = Pairs(FixedAccess(v, d))
    BY <2>2 DEF Pairs
  <2> HIDE DEF ids
  <2>4. PICK model : model = FixedModel(d)
    OBVIOUS
  <2>5. /\ model.scalar \cup model.sequence \cup model.ordered \in (SUBSET Operands) \ {{}}
        /\ \A a \in FixedAccess(v, d) : AccessAdmitted(a, model, d)
        /\ GrammarAdmitted(d, Pairs(FixedAccess(v, d)), model)
    BY <2>1, <2>4, FixedAdmitted
  <2>6. d = <<"intrinsic", "parsed_text">> =>
          (<<"vector.semantic_similarity", Whole>> \in Pairs(FixedAccess(v, d))
             <=> "semantic_unit" \in {t[1] : t \in VectorTargets(v)})
    BY <2>1, <2>4, FixedAdmitted
  <2> QED
    BY <1>1, <2>1, <2>2, <2>3, <2>4, <2>5, <2>6
<1>6. /\ FixedExact \subseteq DOMAIN c.access
      /\ <<"intrinsic", "parsed_text">> \in FactDims(v) /\ ~IsIdentifier(<<"intrinsic", "parsed_text">>)
  <2>1. <<"intrinsic", "parsed_text">> \in FixedExact
    BY DEF FixedExact, FixedScalar
  <2> QED
    BY <1>2, <2>1 DEF FactDims, IsIdentifier
<1>7. /\ {<<"structural", name>> : name \in StructuralRelations} \cup {<<"body_wikilink", "linked_to">>} \subseteq c.relations
      /\ Identifier("tags") \notin c.relations
  <2>1. \A name : <<"structural", name>> # Identifier("tags")
    BY DEF Identifier
  <2>2. <<"body_wikilink", "linked_to">> # Identifier("tags")
    BY DEF Identifier
  <2>3. Identifier("tags") \notin {<<"semantic_identifier", f>> : f \in {o[2] : o \in FieldLinks(v)} \ {"tags"}}
    BY DEF Identifier
  <2> QED
    BY <1>1, <2>1, <2>2, <2>3 DEF RelationTypes
<1>8. {<<"semantic_object", "address_text">>, <<"semantic_region", "address_text">>} \subseteq c.discovery
  BY <1>1 DEF DiscoveryDims
<1>9. <<"vector.semantic_similarity", Whole>> \in ids(<<"intrinsic", "parsed_text">>) <=> "semantic_unit" \in c.targets
  BY <1>5, <1>6
<1> HIDE DEF ids
<1>10. \A d \in DOMAIN c.access :
         /\ IF IsIdentifier(d) THEN c.value[d].ordered = {}
            ELSE d \in FixedScalar \cup FixedOrdered /\ c.value[d] = FixedModel(d)
         /\ c.value[d].scalar \cup c.value[d].sequence \cup c.value[d].ordered \in (SUBSET Operands) \ {{}}
         /\ \A a \in c.access[d] : AccessAdmitted(a, c.value[d], d)
         /\ GrammarAdmitted(d, ids(d), c.value[d])
  <2> SUFFICES ASSUME NEW d \in FactDims(v)
               PROVE  /\ IF IsIdentifier(d) THEN c.value[d].ordered = {}
                         ELSE d \in FixedScalar \cup FixedOrdered /\ c.value[d] = FixedModel(d)
                      /\ c.value[d].scalar \cup c.value[d].sequence \cup c.value[d].ordered \in (SUBSET Operands) \ {{}}
                      /\ \A a \in c.access[d] : AccessAdmitted(a, c.value[d], d)
                      /\ GrammarAdmitted(d, ids(d), c.value[d])
    BY <1>2
  <2>1. CASE IsIdentifier(d)
    BY <1>4, <2>1
  <2>2. CASE ~IsIdentifier(d)
    BY <1>5, <2>2
  <2> QED
    BY <2>1, <2>2
<1> QED
  BY <1>6, <1>7, <1>8, <1>9, <1>10 DEF Admitted, ids

(* The fields a catalog must describe are those a retrieval could meet.    *)
LEMMA RepresentedIsShown ==
  ASSUME NEW v, IsVault(v)
  PROVE  \A f : f \in Represented(v) <=> f \in Fields /\ Shown(v, f)
<1>1. ASSUME NEW f \in Fields, Shown(v, f) PROVE f \in Represented(v)
  <2>1. Identifier(f) \in FactDims(v) \cup RelationTypes(v)
    <3>1. CASE \E u \in Units(v) : Members(Inherited(v, u, f)) # {}
      BY <3>1, ExactDimension DEF FactDims, ExactDims
    <3>2. CASE f # "tags" /\ \E o \in FieldLinks(v) : o[2] = f
      BY <3>2 DEF RelationTypes, Identifier
    <3> QED
      BY <1>1, <3>1, <3>2 DEF Shown
  <2>2. IsIdentifier(Identifier(f)) /\ Identifier(f)[2] = f
    BY DEF IsIdentifier, Identifier
  <2> QED
    BY <2>1, <2>2, Zenon DEF Represented
<1>2. ASSUME NEW f \in Represented(v) PROVE f \in Fields /\ Shown(v, f)
  <2>1. PICK d \in FactDims(v) \cup RelationTypes(v) : IsIdentifier(d) /\ d[2] = f
    BY DEF Represented
  <2>2. CASE d \in FactDims(v)
    <3>1. PICK g \in Fields : d = Identifier(g) /\ d \in ExactDims(v)
      BY <2>1, <2>2, FactDimension
    <3>2. g = f
      BY <2>1, <3>1 DEF Identifier
    <3> QED
      BY <3>1, <3>2, ExactDimension DEF Shown
  <2>3. CASE d \in RelationTypes(v)
    <3>1. f \in {o[2] : o \in FieldLinks(v)} \ {"tags"}
      BY <2>1, <2>3 DEF RelationTypes, IsIdentifier
    <3>2. PICK o \in FieldLinks(v) : o[2] = f
      BY <3>1
    <3>3. f \in Fields
      BY <3>2 DEF FieldLinks
    <3> QED
      BY <3>1, <3>2, <3>3 DEF Shown
  <2> QED
    BY <2>1, <2>2, <2>3
<1> QED
  BY <1>1, <1>2

(* A vault is refused a catalog for a field left undescribed, or one whose *)
(* lists are all empty.                                                    *)
LEMMA RejectedHasReason ==
  ASSUME NEW v, IsVault(v), NEW described, ~Generates(v, described)
  PROVE  \E f \in Fields : \/ Shown(v, f) /\ f \notin described
                           \/ EmptyListBesideScalar(v, f)
<1>1. CASE ~(Represented(v) \subseteq described)
  BY <1>1, RepresentedIsShown
<1>2. CASE Represented(v) \subseteq described
  <2>1. PICK d \in FactDims(v) : /\ IsIdentifier(d)
                                 /\ UnitValues(v, d[2]) # {} => HasSequence(v, d[2]) /\ MemberDomains(v, d[2]) = {}
    BY <1>2 DEF Generates
  <2>2. PICK f \in Fields : d = Identifier(f) /\ d \in ExactDims(v)
    BY <2>1, FactDimension
  <2>3. d[2] = f
    BY <2>2 DEF Identifier
  <2>4. PICK u \in Units(v) : Members(Inherited(v, u, f)) # {}
    BY <2>2, ExactDimension
  <2>5. Inherited(v, u, f) \in Value /\ Present(Inherited(v, u, f))
    BY <2>4, ValueShape, MemberShape
  <2>6. UnitValues(v, f) # {}
    BY <2>5 DEF UnitValues
  <2>7. HasSequence(v, f) /\ MemberDomains(v, f) = {}
    BY <2>1, <2>3, <2>6
  <2>8. \A w \in Units(v) : Inherited(v, w, f).shape = "sequence" => Members(Inherited(v, w, f)) = {}
    BY <2>7, DomainFacts
  <2>9. \E w \in Units(v) : Inherited(v, w, f).shape = "sequence"
    BY <2>7 DEF HasSequence, UnitValues
  <2>10. Inherited(v, u, f).shape = "scalar"
    BY <2>4, <2>5, <2>8 DEF Present
  <2> QED
    BY <2>8, <2>9, <2>10 DEF EmptyListBesideScalar
<1> QED
  BY <1>1, <1>2

-------------------------------------------------------------------------------
(* A request that conforms to the catalog does not fail at its surface.    *)
LEMMA LicensedAccess ==
  ASSUME NEW v, NEW class, NEW name, NEW d, d = <<class, name>>, NEW a \in DimAccess(v, d)
  PROVE  /\ a.operator \in LexicalOps => d \in LexicalDims(v)
         /\ a.operator \in TemporalOps => name = TemporalField
         /\ a.operator = "exact.equals" =>
              /\ d \in FixedOrdered <=> a.shape = "ordered_sequence"
              /\ d = <<"semantic_path", "path_component">> => a.domains = {"string"}
<1>1. \A target : \A b \in LexicalAccess(target) : b.operator \in LexicalOps
  BY PairsFacts DEF LexicalAccess
<1>2. /\ \A operator \in LexicalOps : operator \notin TemporalOps /\ operator # "exact.equals"
      /\ \A operator \in TemporalOps : operator # "exact.equals"
  BY DEF LexicalOps, TemporalOps
<1>3. CASE IsIdentifier(d)
  <2>1. d \notin FixedOrdered /\ d # <<"semantic_path", "path_component">>
    BY <1>3 DEF IsIdentifier, FixedOrdered
  <2>2. d = Identifier(name) /\ d[2] = name
    BY <1>3 DEF Identifier, IsIdentifier
  <2>3. \/ a \in {Scalar("exact.equals", "complete_value", ScalarDomains(v, name)),
                 Scalar("exact.equals", "member", MemberDomains(v, name))}
        \/ d \in LexicalDims(v) /\ \E target : a \in LexicalAccess(target)
        \/ name = TemporalField /\ a \in {Scalar(operator, "complete_value", {"date"}) : operator \in TemporalOps}
    BY <1>3, <2>2 DEF DimAccess, IdentifierAccess
  <2>4. CASE a \in {Scalar("exact.equals", "complete_value", ScalarDomains(v, name)),
                   Scalar("exact.equals", "member", MemberDomains(v, name))}
    <3>1. a.operator = "exact.equals" /\ a.shape = "scalar"
      BY <2>4, PairsFacts
    <3> QED
      BY <1>2, <2>1, <3>1
  <2>5. CASE d \in LexicalDims(v) /\ \E target : a \in LexicalAccess(target)
    BY <1>1, <1>2, <2>5
  <2>6. CASE name = TemporalField /\ a \in {Scalar(operator, "complete_value", {"date"}) : operator \in TemporalOps}
    <3>1. a.operator \in TemporalOps
      BY <2>6, PairsFacts
    <3> QED
      BY <1>2, <2>6, <3>1
  <2> QED
    BY <2>3, <2>4, <2>5, <2>6
<1>4. CASE ~IsIdentifier(d)
  <2>1. \/ d \in FixedOrdered /\ a = Access("exact.equals", "complete_value", "ordered_sequence", {"string"})
        \/ d \notin FixedOrdered /\ a = Scalar("exact.equals", "complete_value", {"string"})
        \/ d \in LexicalDims(v) /\ a \in LexicalAccess("complete_value")
        \/ a = Scalar("vector.semantic_similarity", "complete_value", {"string"})
    BY <1>4 DEF DimAccess, FixedAccess
  <2>2. CASE d \in FixedOrdered /\ a = Access("exact.equals", "complete_value", "ordered_sequence", {"string"})
    <3>1. a.operator = "exact.equals" /\ a.shape = "ordered_sequence" /\ a.domains = {"string"}
      BY <2>2 DEF Access
    <3> QED
      BY <1>2, <2>2, <3>1
  <2>3. CASE d \notin FixedOrdered /\ a = Scalar("exact.equals", "complete_value", {"string"})
    <3>1. a.operator = "exact.equals" /\ a.shape = "scalar" /\ a.domains = {"string"}
      BY <2>3, PairsFacts
    <3> QED
      BY <1>2, <2>3, <3>1
  <2>4. CASE d \in LexicalDims(v) /\ a \in LexicalAccess("complete_value")
    BY <1>1, <1>2, <2>4
  <2>5. CASE a = Scalar("vector.semantic_similarity", "complete_value", {"string"})
    <3>1. a.operator = "vector.semantic_similarity"
      BY <2>5, PairsFacts
    <3> QED
      BY <3>1 DEF LexicalOps, TemporalOps
  <2> QED
    BY <2>1, <2>2, <2>3, <2>4, <2>5
<1> QED
  BY <1>3, <1>4

LEMMA OperatorClasses ==
  /\ \A operator \in LexicalOps :
       operator \notin FieldlessOps \cup TemporalOps /\ operator \notin {"exact.equals", "temporal.between"}
  /\ \A operator \in TemporalOps :
       operator \notin FieldlessOps \cup LexicalOps
         /\ operator \notin {"exact.equals", "lexical.phrase", "graph.discovery.phrase"}
  /\ \A operator \in DiscoveryOps : operator \notin {"exact.equals", "temporal.between"}
  /\ "exact.equals" \notin FieldlessOps
BY DEF LexicalOps, TemporalOps, FieldlessOps, DiscoveryOps, RelationLookup

LEMMA ConformingNeverRaises ==
  ASSUME NEW v, NEW r, WellFormed(r), NEW c, c = Catalog(v), Conforms(c, r)
  PROVE  ~SurfaceRaises(v, r)
<1>1. /\ DOMAIN c.access = FactDims(v)
      /\ \A d \in FactDims(v) : c.access[d] = DimAccess(v, d)
      /\ c.discovery = DiscoveryDims(v) /\ c.relations = RelationTypes(v)
  BY DEF Catalog
<1>2. ASSUME r.operator \notin FieldlessOps
      PROVE  \E a \in DimAccess(v, DimOf(r)) :
               /\ a.operator = r.operator
               /\ r.operator = "exact.equals" => a.shape = r.shape /\ r.domain \in a.domains
  BY <1>1, <1>2 DEF Conforms, FieldConforms
<1>3. \A a \in DimAccess(v, DimOf(r)) :
        /\ a.operator \in LexicalOps => DimOf(r) \in LexicalDims(v)
        /\ a.operator \in TemporalOps => r.name = TemporalField
        /\ a.operator = "exact.equals" =>
             /\ DimOf(r) \in FixedOrdered <=> a.shape = "ordered_sequence"
             /\ DimOf(r) = <<"semantic_path", "path_component">> => a.domains = {"string"}
  BY LicensedAccess DEF DimOf
<1>4. r.operator = "temporal.between" => ~(Day[r.parts[1]] > Day[r.parts[2]])
  <2> SUFFICES ASSUME r.operator = "temporal.between" PROVE ~(Day[r.parts[1]] > Day[r.parts[2]])
    OBVIOUS
  <2>1. DOMAIN r.parts = {1, 2} /\ Day[r.parts[1]] <= Day[r.parts[2]] /\ r.operator \in TemporalOps
    BY DEF WellFormed, TemporalOps
  <2>2. r.parts[1] \in DOMAIN Day /\ r.parts[2] \in DOMAIN Day
    BY <2>1 DEF WellFormed
  <2>3. Day[r.parts[1]] \in Int /\ Day[r.parts[2]] \in Int
    BY <2>2, TextAssumption
  <2> QED
    BY <2>1, <2>3
<1>5. ~OperandUnusable(r)
  <2>1. r.operator \in {"lexical.phrase", "graph.discovery.phrase"} => r.parts[1] \notin Blank
    BY DEF WellFormed
  <2> QED
    BY <1>4, <2>1 DEF OperandUnusable
<1>6. SingleTokens(r)
  BY DEF Conforms
<1>7. ~(r.operator = "exact.equals" /\ LookupRaises(r))
  <2> SUFFICES ASSUME r.operator = "exact.equals" PROVE ~LookupRaises(r)
    OBVIOUS
  <2>1. PICK a \in DimAccess(v, DimOf(r)) : a.operator = "exact.equals" /\ a.shape = r.shape /\ r.domain \in a.domains
    BY <1>2, OperatorClasses
  <2> QED
    BY <1>3, <2>1 DEF LookupRaises
<1>8. ~(r.operator \in LexicalOps /\ DimOf(r) \notin LexicalDims(v))
  BY <1>2, <1>3, OperatorClasses
<1>9. ~(r.operator \in TemporalOps /\ r.name # TemporalField)
  BY <1>2, <1>3, OperatorClasses
<1>10. /\ r.operator \in DiscoveryOps => DimOf(r) \in DiscoveryDims(v)
       /\ r.operator = RelationLookup => DimOf(r) \in RelationTypes(v)
  BY <1>1 DEF Conforms
<1> QED
  BY <1>5, <1>6, <1>7, <1>8, <1>9, <1>10 DEF SurfaceRaises

-------------------------------------------------------------------------------
(* What a build represents answers a request that conforms to its catalog. *)
LEMMA RequestShape ==
  \A operator, class, name, target, domain, parts :
    LET r == Request(operator, class, name, target, domain, parts)
    IN /\ r.operator = operator /\ r.class = class /\ r.name = name /\ r.target = target
       /\ r.shape = "scalar" /\ r.domain = domain /\ r.parts = parts /\ DimOf(r) = <<class, name>>
BY DEF Request, DimOf

(* A text occurs as a phrase in itself.                                    *)
LEMMA OccursInItself ==
  ASSUME NEW t \in Texts, Words[t] # <<>>
  PROVE  Occurs(Words[t], Words[t]) /\ t \notin Blank
<1>1. PICK w \in Seq(Texts) : w = Words[t]
  BY TextAssumption
<1>2. SubSeq(w, 0 + 1, 0 + Len(w)) = w
  <2>1. SubSeq(w, 1, Len(w)) \in Seq(Texts) /\ Len(SubSeq(w, 1, Len(w))) = Len(w)
    OBVIOUS
  <2>2. \A k \in 1..Len(w) : SubSeq(w, 1, Len(w))[k] = w[k]
    OBVIOUS
  <2> QED
    BY <2>1, <2>2
<1>3. 0 \in 0..(Len(w) - Len(w))
  OBVIOUS
<1>4. t \notin Blank
  BY TextAssumption
<1> QED
  BY <1>1, <1>2, <1>3, <1>4 DEF Occurs

LEMMA PhraseFinds ==
  ASSUME NEW operator \in {"lexical.phrase", "graph.discovery.phrase"},
         NEW class, NEW name, NEW target, NEW t \in Texts, Words[t] # <<>>,
         NEW r, r = Request(operator, class, name, target, "string", <<t>>)
  PROVE  WellFormed(r) /\ SingleTokens(r) /\ TextMatches(r, t)
<1>1. r.operator = operator /\ r.parts = <<t>> /\ r.parts[1] = t
  BY RequestShape
<1>2. Occurs(Words[t], Words[t]) /\ t \notin Blank
  BY OccursInItself
<1>3. operator \notin TemporalOps
  BY DEF TemporalOps
<1> QED
  BY <1>1, <1>2, <1>3 DEF WellFormed, SingleTokens, TextMatches

(* The access a value's own shape is licensed under.                       *)
LEMMA FieldLicensed ==
  ASSUME NEW v, Built(v), NEW u \in Units(v), NEW f \in Fields, NEW a \in Members(Inherited(v, u, f)),
         NEW target, target = (IF Inherited(v, u, f).shape = "scalar" THEN "complete_value" ELSE "member"),
         NEW c, c = Catalog(v)
  PROVE  /\ Identifier(f) \in DOMAIN c.access
         /\ \E b \in c.access[Identifier(f)] :
              /\ b.operator = "exact.equals" /\ b.target = target /\ b.shape = "scalar" /\ a.domain \in b.domains
         /\ a.domain = "string" =>
              \E b \in c.access[Identifier(f)] : b.operator = "lexical.phrase" /\ b.target = target
<1>1. IsVault(v) /\ Inherited(v, u, f) \in Value /\ Present(Inherited(v, u, f))
  BY ValueShape, MemberShape DEF Built
<1>2. Identifier(f) \in ExactDims(v)
  BY ExactDimension
<1>3. Identifier(f) \in DOMAIN c.access /\ c.access[Identifier(f)] = IdentifierAccess(v, f)
  <2>1. IsIdentifier(Identifier(f)) /\ Identifier(f)[2] = f
    BY DEF IsIdentifier, Identifier
  <2>2. Identifier(f) \in FactDims(v)
    BY <1>2 DEF FactDims, ExactDims
  <2> QED
    BY <2>1, <2>2 DEF Catalog, DimAccess
<1>4. a.domain \in (IF target = "complete_value" THEN ScalarDomains(v, f) ELSE MemberDomains(v, f))
  BY <1>1, DomainFacts DEF Present
<1>5. PICK b : b = Scalar("exact.equals", target,
                       IF target = "complete_value" THEN ScalarDomains(v, f) ELSE MemberDomains(v, f))
  OBVIOUS
<1>6. /\ b.operator = "exact.equals" /\ b.target = target /\ b.shape = "scalar"
      /\ b.domains = IF target = "complete_value" THEN ScalarDomains(v, f) ELSE MemberDomains(v, f)
  BY <1>5, PairsFacts
<1>7. b \in IdentifierAccess(v, f)
  BY <1>2, <1>4, <1>5, <1>6 DEF IdentifierAccess, ExactDims
<1>8. a.domain = "string" => LexicalAccess(target) \subseteq IdentifierAccess(v, f)
  <2>1. a.domain = "string" => Identifier(f) \in LexicalDims(v)
    BY <1>1, <1>4, DomainFacts
  <2> QED
    BY <1>4, <2>1 DEF IdentifierAccess
<1>9. PICK p : p = Scalar("lexical.phrase", target, {"string"})
  OBVIOUS
<1>10. p \in LexicalAccess(target) /\ p.operator = "lexical.phrase" /\ p.target = target
  BY <1>9, PairsFacts DEF LexicalAccess, LexicalOps
<1> QED
  BY <1>3, <1>4, <1>6, <1>7, <1>8, <1>10

LEMMA ExactReaches ==
  ASSUME NEW v, Built(v), catalog = Catalog(v),
         NEW u \in Units(v), NEW f \in Fields, NEW a \in Members(Inherited(v, u, f)),
         NEW target, target = (IF Inherited(v, u, f).shape = "scalar" THEN "complete_value" ELSE "member")
  PROVE  Retrieves(v, Request("exact.equals", "semantic_identifier", f, target, a.domain, <<a.text>>), UnitNode(u))
<1>1. PICK c : c = Catalog(v)
  OBVIOUS
<1>2. PICK r : r = Request("exact.equals", "semantic_identifier", f, target, a.domain, <<a.text>>)
  OBVIOUS
<1>3. /\ r.operator = "exact.equals" /\ DimOf(r) = Identifier(f) /\ r.target = target /\ r.shape = "scalar"
      /\ r.domain = a.domain /\ r.parts = <<a.text>> /\ r.class = "semantic_identifier" /\ r.name = f
  BY <1>2, RequestShape DEF Identifier
<1>4. a.domain \notin Structured
  BY DEF Built, ExactBuilds
<1>5. WellFormed(r)
  <2>1. r.operator \notin TemporalOps
    BY <1>3 DEF TemporalOps
  <2> QED
    BY <1>3, <1>4, <2>1 DEF WellFormed
<1>6. Conforms(c, r)
  <2>1. FieldConforms(c, r)
    <3>1. /\ Identifier(f) \in DOMAIN c.access
          /\ \E b \in c.access[Identifier(f)] :
               /\ b.operator = "exact.equals" /\ b.target = target /\ b.shape = "scalar" /\ a.domain \in b.domains
      BY <1>1, FieldLicensed
    <3> QED
      BY <1>3, <3>1 DEF FieldConforms
  <2>2. r.operator \notin DiscoveryOps /\ r.operator # RelationLookup /\ SingleTokens(r)
    BY <1>3 DEF DiscoveryOps, RelationLookup, SingleTokens
  <2> QED
    BY <2>1, <2>2 DEF Conforms
<1>7. ~SurfaceRaises(v, r)
  BY <1>1, <1>5, <1>6, ConformingNeverRaises
<1>8. UnitNode(u) \in Found(v, r)
  <2>1. PICK x : x = ExactRow("semantic_identifier", f, AtomKey(a), u)
    OBVIOUS
  <2>2. x \in ExactRows(v)
    BY <2>1 DEF ExactRows
  <2>3. x.class = "semantic_identifier" /\ x.name = f /\ x.key = AtomKey(a) /\ x.unit = u
    BY <2>1 DEF ExactRow
  <2>4. RequestKey(r) = AtomKey(a)
    BY <1>3 DEF RequestKey, AtomKey
  <2>5. u \in UnitsFound(v, r)
    BY <1>3, <2>2, <2>3, <2>4 DEF UnitsFound, DimOf
  <2> QED
    BY <2>5 DEF Found
<1> QED
  BY <1>1, <1>2, <1>5, <1>6, <1>7, <1>8 DEF Retrieves

LEMMA PhraseReaches ==
  ASSUME NEW v, Built(v), catalog = Catalog(v),
         NEW u \in Units(v), NEW f \in Fields, NEW a \in Members(Inherited(v, u, f)),
         a.domain = "string", Words[a.text] # <<>>,
         NEW target, target = (IF Inherited(v, u, f).shape = "scalar" THEN "complete_value" ELSE "member")
  PROVE  Retrieves(v, Phrase("semantic_identifier", f, target, a.text), UnitNode(u))
<1>1. PICK c : c = Catalog(v)
  OBVIOUS
<1>2. PICK r : r = Request("lexical.phrase", "semantic_identifier", f, target, "string", <<a.text>>)
  OBVIOUS
<1>3. /\ r.operator = "lexical.phrase" /\ DimOf(r) = Identifier(f) /\ r.target = target
      /\ r.class = "semantic_identifier" /\ r.name = f
  BY <1>2, RequestShape DEF Identifier
<1>4. a.text \in Texts
  BY ValueShape, MemberShape DEF Built
<1>5. WellFormed(r) /\ SingleTokens(r) /\ TextMatches(r, a.text)
  BY <1>2, <1>4, PhraseFinds
<1>6. Conforms(c, r)
  <2>1. FieldConforms(c, r)
    <3>1. /\ Identifier(f) \in DOMAIN c.access
          /\ \E b \in c.access[Identifier(f)] : b.operator = "lexical.phrase" /\ b.target = target
      BY <1>1, FieldLicensed
    <3> QED
      BY <1>3, <3>1 DEF FieldConforms
  <2>2. r.operator \notin DiscoveryOps /\ r.operator # RelationLookup
    BY <1>3 DEF DiscoveryOps, RelationLookup
  <2> QED
    BY <1>5, <2>1, <2>2 DEF Conforms
<1>7. ~SurfaceRaises(v, r)
  BY <1>1, <1>5, <1>6, ConformingNeverRaises
<1>8. UnitNode(u) \in Found(v, r)
  <2>1. PICK x : x = LexicalRow("semantic_identifier", f, a.text, u)
    OBVIOUS
  <2>2. x \in LexicalRows(v)
    <3>1. a.text \in DirectText(Inherited(v, u, f))
      BY DEF DirectText
    <3> QED
      BY <2>1, <3>1 DEF LexicalRows
  <2>3. x.class = "semantic_identifier" /\ x.name = f /\ x.text = a.text /\ x.unit = u
    BY <2>1 DEF LexicalRow
  <2>4. u \in UnitsFound(v, r)
    BY <1>3, <1>5, <2>2, <2>3 DEF UnitsFound, DimOf, LexicalOps
  <2> QED
    BY <2>4 DEF Found
<1> QED
  BY <1>1, <1>2, <1>5, <1>6, <1>7, <1>8 DEF Retrieves, Phrase

LEMMA TemporalReaches ==
  ASSUME NEW v, Built(v), catalog = Catalog(v), TemporalField \in Fields,
         NEW u \in Units(v), Present(Inherited(v, u, TemporalField))
  PROVE  Retrieves(v, Request("temporal.ordered", "semantic_identifier", TemporalField, "complete_value", "date", <<>>),
                         UnitNode(u))
<1>1. PICK c : c = Catalog(v)
  OBVIOUS
<1>2. PICK r : r = Request("temporal.ordered", "semantic_identifier", TemporalField, "complete_value", "date", <<>>)
  OBVIOUS
<1>3. /\ r.operator = "temporal.ordered" /\ DimOf(r) = Identifier(TemporalField) /\ r.target = "complete_value"
      /\ r.parts = <<>>
  BY <1>2, RequestShape DEF Identifier
<1>4. u \in Dated(v)
  BY DEF Dated
<1>5. Identifier(TemporalField) \in ExactDims(v)
  <2>1. Inherited(v, u, TemporalField).shape = "scalar"
    BY <1>4 DEF Built, TemporalBuilds
  <2>2. Members(Inherited(v, u, TemporalField)) # {}
    <3>1. /\ Inherited(v, u, TemporalField) \in Value
          /\ Len(Inherited(v, u, TemporalField).members) = 1
      BY <2>1, ValueShape DEF Built
    <3>2. Members(Inherited(v, u, TemporalField)) = {Inherited(v, u, TemporalField).members[1]}
      BY <2>1, <3>1, MemberShape
    <3> QED
      BY <3>2
  <2> QED
    BY <2>2, ExactDimension
<1>6. WellFormed(r)
  BY <1>3 DEF WellFormed, TemporalOps
<1>7. Conforms(c, r)
  <2>1. IsIdentifier(Identifier(TemporalField)) /\ Identifier(TemporalField)[2] = TemporalField
    BY DEF IsIdentifier, Identifier
  <2>2. Identifier(TemporalField) \in FactDims(v)
    BY <1>5 DEF FactDims, ExactDims
  <2>3. DimOf(r) \in DOMAIN c.access /\ c.access[DimOf(r)] = IdentifierAccess(v, TemporalField)
    BY <1>1, <1>3, <2>1, <2>2 DEF Catalog, DimAccess
  <2>4. PICK b : b = Scalar("temporal.ordered", "complete_value", {"date"})
    OBVIOUS
  <2>5. b.operator = r.operator /\ b.target = r.target /\ r.operator # "exact.equals"
    BY <1>3, <2>4, PairsFacts
  <2>6. b \in IdentifierAccess(v, TemporalField)
    BY <2>4 DEF IdentifierAccess, TemporalOps
  <2>7. FieldConforms(c, r)
    BY <2>3, <2>5, <2>6 DEF FieldConforms
  <2>8. r.operator \notin DiscoveryOps /\ r.operator # RelationLookup /\ SingleTokens(r)
    BY <1>3 DEF DiscoveryOps, RelationLookup, SingleTokens
  <2> QED
    BY <2>7, <2>8 DEF Conforms
<1>8. ~SurfaceRaises(v, r)
  BY <1>1, <1>6, <1>7, ConformingNeverRaises
<1>9. UnitNode(u) \in Found(v, r)
  <2>1. DatedMatches(v, r, u)
    BY <1>3 DEF DatedMatches
  <2>2. u \in UnitsFound(v, r)
    BY <1>3, <1>4, <2>1 DEF UnitsFound, LexicalOps, TemporalOps
  <2> QED
    BY <2>2 DEF Found
<1> QED
  BY <1>1, <1>2, <1>6, <1>7, <1>8, <1>9 DEF Retrieves

LEMMA ValuesReach ==
  ASSUME NEW v, Built(v), catalog = Catalog(v)
  PROVE  ValuesReachable(v)
<1>1. ASSUME NEW u \in Units(v), NEW f \in Fields, NEW a \in Members(Inherited(v, u, f))
      PROVE  \E target \in {"complete_value", "member"} :
               /\ Retrieves(v, Request("exact.equals", "semantic_identifier", f, target, a.domain, <<a.text>>), UnitNode(u))
               /\ a.domain = "string" /\ Words[a.text] # <<>> =>
                    Retrieves(v, Phrase("semantic_identifier", f, target, a.text), UnitNode(u))
  <2>1. PICK target \in {"complete_value", "member"} :
          target = (IF Inherited(v, u, f).shape = "scalar" THEN "complete_value" ELSE "member")
    OBVIOUS
  <2> QED
    BY <2>1, ExactReaches, PhraseReaches
<1> QED
  BY <1>1, TemporalReaches DEF ValuesReachable

LEMMA DiscoveryReaches ==
  ASSUME NEW v, catalog = Catalog(v),
         NEW kind, NEW name, <<kind, name>> \in DiscoveryDims(v), NEW t \in Texts, Words[t] # <<>>,
         NEW node, DiscoveryRow(kind, name, t, node) \in DiscoveryRows(v)
  PROVE  Retrieves(v, Discovery(kind, name, t), node)
<1>1. PICK c : c = Catalog(v)
  OBVIOUS
<1>2. PICK r : r = Request("graph.discovery.phrase", kind, name, "none", "string", <<t>>)
  OBVIOUS
<1>3. r.operator = "graph.discovery.phrase" /\ DimOf(r) = <<kind, name>>
  BY <1>2, RequestShape
<1>4. WellFormed(r) /\ SingleTokens(r) /\ TextMatches(r, t)
  BY <1>2, PhraseFinds
<1>5. Conforms(c, r)
  <2>1. r.operator \in FieldlessOps /\ r.operator # RelationLookup
    BY <1>3 DEF FieldlessOps, DiscoveryOps, RelationLookup
  <2>2. c.discovery = DiscoveryDims(v)
    BY <1>1 DEF Catalog
  <2> QED
    BY <1>3, <1>4, <2>1, <2>2 DEF Conforms
<1>6. ~SurfaceRaises(v, r)
  BY <1>1, <1>4, <1>5, ConformingNeverRaises
<1>7. node \in Found(v, r)
  <2>1. PICK x \in DiscoveryRows(v) : x = DiscoveryRow(kind, name, t, node)
    OBVIOUS
  <2>2. x.kind = kind /\ x.name = name /\ x.text = t /\ x.node = node
    BY <2>1 DEF DiscoveryRow
  <2>3. r.operator \in DiscoveryOps
    BY <1>3 DEF DiscoveryOps
  <2> QED
    BY <1>3, <1>4, <2>2, <2>3 DEF Found
<1> QED
  BY <1>1, <1>2, <1>4, <1>5, <1>6, <1>7 DEF Retrieves, Discovery

(* The parts of a note a name or a heading is read from.                   *)
LEMMA NoteShape ==
  ASSUME NEW v, IsVault(v), NEW i \in DOMAIN v
  PROVE  /\ v[i] \in NoteRecord /\ Parsed(v[i])
         /\ v[i].name \in Texts /\ v[i].folder \in Seq(Texts) /\ v[i].fields \in [Fields -> Value]
         /\ v[i].headings \in Seq([under : Nat, text : Texts])
         /\ v[i].units \in Seq([under : Nat, raw : Texts, text : Texts])
         /\ \A h \in DOMAIN v[i].headings : v[i].headings[h].text \in Texts /\ v[i].headings[h].under \in 0..(h - 1)
         /\ \A t \in Aliases(v[i]) : t \in Texts
<1>1. v[i] \in NoteRecord /\ Parsed(v[i])
  BY DEF IsVault, Parsed
<1>2. /\ v[i].name \in Texts /\ v[i].folder \in Seq(Texts) /\ v[i].fields \in [Fields -> Value]
      /\ v[i].headings \in Seq([under : Nat, text : Texts])
      /\ v[i].units \in Seq([under : Nat, raw : Texts, text : Texts])
  BY <1>1 DEF NoteRecord
<1>3. ASSUME NEW h \in DOMAIN v[i].headings
      PROVE  v[i].headings[h].text \in Texts /\ v[i].headings[h].under \in 0..(h - 1)
  <2>1. v[i].headings[h] \in [under : Nat, text : Texts]
    BY <1>2, Element
  <2>2. v[i].headings[h].under < h /\ h \in Nat
    BY <1>1, <1>2 DEF Parsed
  <2> QED
    BY <2>1, <2>2
<1>4. ASSUME NEW t \in Aliases(v[i]) PROVE t \in Texts
  <2>1. "aliases" \in Fields /\ t \in DirectText(v[i].fields["aliases"])
    BY DEF Aliases
  <2>2. v[i].fields["aliases"] \in Value
    BY <1>2, <2>1
  <2> QED
    BY <2>1, <2>2, MemberShape
<1> QED
  BY <1>1, <1>2, <1>3, <1>4

LEMMA NameRows ==
  ASSUME NEW v
  PROVE  /\ \A i \in DOMAIN v : \A t \in {v[i].name} \cup Aliases(v[i]) :
              DiscoveryRow("semantic_object", "address_text", t, ObjectNode(i)) \in DiscoveryRows(v)
         /\ \A x \in Regions(v) :
              DiscoveryRow("semantic_region", "address_text", v[x[1]].headings[x[2]].text,
                            RegionNode(x)) \in DiscoveryRows(v)
<1> DEFINE names(i) == {DiscoveryRow("semantic_object", "address_text", t, ObjectNode(i))
                        : t \in {v[i].name} \cup Aliases(v[i])}
           tags(i) == {DiscoveryRow("semantic_object", "tag", t, ObjectNode(i)) :
                         t \in UNION {DirectText(v[i].fields[f]) : f \in {"tags"} \cap Fields}}
           headings == {DiscoveryRow("semantic_region", "address_text", v[r[1]].headings[r[2]].text,
                                    RegionNode(r)) : r \in Regions(v)}
<1>1. DiscoveryRows(v) = (UNION {names(i) \cup tags(i) : i \in DOMAIN v}) \cup headings
  BY Zenon DEF DiscoveryRows
<1>2. ASSUME NEW i \in DOMAIN v, NEW t \in {v[i].name} \cup Aliases(v[i])
      PROVE  DiscoveryRow("semantic_object", "address_text", t, ObjectNode(i)) \in names(i)
  OBVIOUS
<1>3. ASSUME NEW x \in Regions(v)
      PROVE  DiscoveryRow("semantic_region", "address_text", v[x[1]].headings[x[2]].text, RegionNode(x)) \in headings
  OBVIOUS
<1> HIDE DEF names, tags, headings
<1>4. \A i \in DOMAIN v : names(i) \subseteq DiscoveryRows(v)
  BY <1>1
<1>5. headings \subseteq DiscoveryRows(v)
  BY <1>1, Zenon
<1> QED
  BY <1>2, <1>3, <1>4, <1>5, Zenon

LEMMA NamesReach ==
  ASSUME NEW v, IsVault(v), catalog = Catalog(v)
  PROVE  NamesReachable(v)
<1>1. /\ <<"semantic_object", "address_text">> \in DiscoveryDims(v)
      /\ <<"semantic_region", "address_text">> \in DiscoveryDims(v)
  BY DEF DiscoveryDims
<1>2. ASSUME NEW i \in DOMAIN v, NEW t \in {v[i].name} \cup Aliases(v[i]), Words[t] # <<>>
      PROVE  Retrieves(v, Discovery("semantic_object", "address_text", t), ObjectNode(i))
  <2>1. DiscoveryRow("semantic_object", "address_text", t, ObjectNode(i)) \in DiscoveryRows(v)
    BY NameRows
  <2>2. t \in Texts
    BY NoteShape
  <2> QED
    BY <1>1, <1>2, <2>1, <2>2, DiscoveryReaches
<1>3. ASSUME NEW x \in Regions(v), NEW t, t = v[x[1]].headings[x[2]].text, Words[t] # <<>>
      PROVE  Retrieves(v, Discovery("semantic_region", "address_text", t), RegionNode(x))
  <2>1. x[1] \in DOMAIN v /\ x[2] \in DOMAIN v[x[1]].headings
    BY DEF Regions
  <2>2. t \in Texts
    BY <1>3, <2>1, NoteShape
  <2>3. DiscoveryRow("semantic_region", "address_text", t, RegionNode(x)) \in DiscoveryRows(v)
    BY <1>3, NameRows
  <2> QED
    BY <1>1, <1>3, <2>2, <2>3, DiscoveryReaches
<1> QED
  BY <1>2, <1>3 DEF NamesReachable

(* A link that resolves has one target, a node it addresses.               *)
LEMMA ResolvedTarget ==
  ASSUME NEW v, IsVault(v), NEW link, Resolves(v, link)
  PROVE  Target(v, link) \in Nodes(v) /\ Addresses(v, link, Target(v, link))
<1>1. PICK i \in DOMAIN v : /\ ObjectMatches(v, link) = {i}
                            /\ link.fragment # None => Cardinality(RegionMatches(v[i], link.fragment)) = 1
  BY DEF Resolves
<1>2. (CHOOSE j \in ObjectMatches(v, link) : TRUE) = i
  BY <1>1
<1>3. IF link.path # <<>> THEN v[i].folder = link.path /\ v[i].name = link.name
      ELSE Folded[link.name] \in {Folded[t] : t \in {v[i].name} \cup Aliases(v[i])}
  <2>1. i \in ObjectMatches(v, link)
    BY <1>1
  <2> QED
    BY <2>1 DEF ObjectMatches, NameKeys
<1>4. IF link.path # <<>> THEN v[i].folder \o <<v[i].name>> = link.path \o <<link.name>>
      ELSE Folded[link.name] \in {Folded[t] : t \in {v[i].name} \cup Aliases(v[i])}
  BY <1>3
<1>5. CASE link.fragment = None
  <2>1. Target(v, link) = ObjectNode(i)
    BY <1>2, <1>5 DEF Target
  <2>2. ObjectNode(i)[2][1] = i
    BY DEF ObjectNode
  <2>3. ObjectNode(i) \in Nodes(v)
    BY DEF Nodes
  <2> QED
    BY <1>4, <1>5, <2>1, <2>2, <2>3 DEF Addresses
<1>6. CASE link.fragment # None
  <2>1. PICK h : h = CHOOSE g \in RegionMatches(v[i], link.fragment) : TRUE
    OBVIOUS
  <2>2. RegionMatches(v[i], link.fragment) # {}
    BY <1>1, <1>6, FS_EmptySet
  <2>3. h \in RegionMatches(v[i], link.fragment)
    BY <2>1, <2>2
  <2>4. h \in DOMAIN v[i].headings /\ RegionKey[v[i].headings[h].text] = RegionKey[link.fragment]
    BY <2>3 DEF RegionMatches
  <2>5. Target(v, link) = RegionNode(<<i, h>>)
    BY <1>2, <1>6, <2>1 DEF Target
  <2>6. /\ RegionNode(<<i, h>>)[1] = "semantic_region" /\ RegionNode(<<i, h>>)[2][1] = i
        /\ RegionNode(<<i, h>>)[2][2] = h
    BY DEF RegionNode
  <2>7. RegionNode(<<i, h>>) \in Nodes(v)
    <3>1. <<i, h>> \in Regions(v)
      BY <2>4 DEF Regions
    <3> QED
      BY <3>1 DEF Nodes
  <2> QED
    BY <1>4, <1>6, <2>4, <2>5, <2>6, <2>7 DEF Addresses
<1> QED
  BY <1>5, <1>6

(* A relation of the build answers a lookup that conforms.                 *)
LEMMA LookupReaches ==
  ASSUME NEW v, catalog = Catalog(v), NEW class, NEW name, <<class, name>> \in RelationTypes(v)
  PROVE  /\ Conforms(catalog, Lookup(class, name)) /\ ~SurfaceRaises(v, Lookup(class, name))
         /\ Occurrences(v, Lookup(class, name)) = {e \in Edges(v) : e.class = class /\ e.name = name}
<1>1. PICK c : c = Catalog(v)
  OBVIOUS
<1>2. PICK r : r = Request("graph.relation_occurrence_lookup", class, name, "none", "string", <<>>)
  OBVIOUS
<1>3. r.operator = RelationLookup /\ DimOf(r) = <<class, name>>
  BY <1>2, RequestShape DEF RelationLookup
<1>4. /\ r.operator \in FieldlessOps /\ r.operator \notin DiscoveryOps \cup LexicalOps \cup TemporalOps
      /\ r.operator # "exact.equals"
  BY <1>3 DEF FieldlessOps, DiscoveryOps, RelationLookup, LexicalOps, TemporalOps
<1>5. SingleTokens(r)
  BY <1>3 DEF SingleTokens, RelationLookup
<1>6. c.relations = RelationTypes(v)
  BY <1>1 DEF Catalog
<1>7. Conforms(c, r)
  BY <1>3, <1>4, <1>5, <1>6 DEF Conforms
<1>8. ~SurfaceRaises(v, r)
  BY <1>3, <1>4 DEF SurfaceRaises
<1>9. Occurrences(v, r) = {e \in Edges(v) : e.class = class /\ e.name = name}
  BY <1>3 DEF Occurrences
<1> QED
  BY <1>1, <1>2, <1>7, <1>8, <1>9 DEF Lookup

-------------------------------------------------------------------------------
(* Each authored link is an edge of its own.                               *)
LEMMA FiniteImage ==
  ASSUME NEW S, IsFiniteSet(S), NEW T, NEW f \in [S -> T], \A t \in T : \E x \in S : f[x] = t
  PROVE  /\ IsFiniteSet(T)
         /\ (\A x, y \in S : f[x] = f[y] => x = y) => Cardinality(T) = Cardinality(S)
<1>1. f \in Surjection(S, T)
  BY DEF Surjection
<1>2. (\A x, y \in S : f[x] = f[y] => x = y) => f \in Injection(S, T)
  BY DEF Injection, IsInjective
<1> QED
  BY <1>1, <1>2, FS_Surjection

LEMMA SeqDomainFinite ==
  \A S : \A q \in Seq(S) : IsFiniteSet(DOMAIN q)
<1> SUFFICES ASSUME NEW S, NEW q \in Seq(S) PROVE IsFiniteSet(DOMAIN q)
  OBVIOUS
<1>1. DOMAIN q = 1..Len(q) /\ Len(q) \in Int
  OBVIOUS
<1>2. IsFiniteSet(1..Len(q))
  BY <1>1, FS_Interval
<1> QED
  BY <1>1, <1>2

LEMMA LinksFinite ==
  ASSUME NEW v, IsVault(v)
  PROVE  IsFiniteSet(FieldLinks(v)) /\ IsFiniteSet(BodyLinks(v))
<1>1. IsFiniteSet(DOMAIN v)
  BY SeqDomainFinite DEF IsVault
<1>2. IsFiniteSet((DOMAIN v) \X Fields)
  BY <1>1, TextAssumption, FS_Product
<1>3. IsFiniteSet(Places(v))
  <2> DEFINE members == [p \in (DOMAIN v) \X Fields |-> DOMAIN v[p[1]].fields[p[2]].members]
             all == {DOMAIN v[i].fields[f].members : i \in DOMAIN v, f \in Fields}
  <2>1. members \in [(DOMAIN v) \X Fields -> all]
    OBVIOUS
  <2>2. ASSUME NEW t \in all PROVE \E p \in (DOMAIN v) \X Fields : members[p] = t
    <3>1. PICK i \in DOMAIN v : \E f \in Fields : t = DOMAIN v[i].fields[f].members
      OBVIOUS
    <3>2. PICK f \in Fields : t = DOMAIN v[i].fields[f].members
      BY <3>1
    <3>3. <<i, f>> \in (DOMAIN v) \X Fields /\ members[<<i, f>>] = t
      BY <3>2
    <3> HIDE DEF members
    <3> QED
      BY <3>3
  <2>3. IsFiniteSet(all)
    <3> HIDE DEF members, all
    <3> QED
      BY <1>2, <2>1, <2>2, FiniteImage
  <2>4. \A t \in all : IsFiniteSet(t)
    <3> SUFFICES ASSUME NEW i \in DOMAIN v, NEW f \in Fields
                 PROVE  IsFiniteSet(DOMAIN v[i].fields[f].members)
      OBVIOUS
    <3>1. v[i].fields[f] \in Value
      BY NoteShape
    <3>2. v[i].fields[f].members \in Seq([domain : Domains, text : Texts])
      BY <3>1 DEF Value
    <3> QED
      BY <3>2, SeqDomainFinite
  <2>5. Places(v) = UNION all
    BY DEF Places
  <2> HIDE DEF all
  <2> QED
    BY <2>3, <2>4, <2>5, FS_UNION
<1>4. IsFiniteSet(FieldLinks(v))
  <2> DEFINE P == ((DOMAIN v) \X Fields) \X Places(v)
             T == (DOMAIN v) \X Fields \X Places(v)
             flat == [p \in P |-> <<p[1][1], p[1][2], p[2]>>]
  <2>1. IsFiniteSet(P)
    BY <1>2, <1>3, FS_Product
  <2>2. flat \in [P -> T]
    OBVIOUS
  <2>3. \A t \in T : \E p \in P : flat[p] = t
    <3> SUFFICES ASSUME NEW t \in T PROVE \E p \in P : flat[p] = t
      OBVIOUS
    <3>0. PICK i \in DOMAIN v, f \in Fields, k \in Places(v) : t = <<i, f, k>>
      OBVIOUS
    <3>1. <<<<i, f>>, k>> \in P
      OBVIOUS
    <3>2. flat[<<<<i, f>>, k>>] = <<i, f, k>>
      BY <3>1
    <3> QED
      BY <3>0, <3>1, <3>2, Zenon
  <2>4. IsFiniteSet(T)
    <3> HIDE DEF P, T, flat
    <3> QED
      BY <2>1, <2>2, <2>3, FiniteImage
  <2>5. FieldLinks(v) \in SUBSET T
    BY DEF FieldLinks
  <2> QED
    BY <2>4, <2>5, FS_Subset
<1>5. IsFiniteSet(Units(v))
  <2> DEFINE own(i) == {<<i, k>> : k \in DOMAIN v[i].units}
             all == {own(i) : i \in DOMAIN v}
             each == [i \in DOMAIN v |-> own(i)]
  <2>1. each \in [DOMAIN v -> all] /\ \A t \in all : \E i \in DOMAIN v : each[i] = t
    OBVIOUS
  <2>2. IsFiniteSet(all)
    <3> HIDE DEF all, each
    <3> QED
      BY <1>1, <2>1, FiniteImage
  <2>3. ASSUME NEW i \in DOMAIN v PROVE IsFiniteSet(own(i))
    <3> DEFINE place == [k \in DOMAIN v[i].units |-> <<i, k>>]
    <3>1. IsFiniteSet(DOMAIN v[i].units)
      BY NoteShape, SeqDomainFinite
    <3>2. place \in [DOMAIN v[i].units -> own(i)] /\ \A t \in own(i) : \E k \in DOMAIN v[i].units : place[k] = t
      OBVIOUS
    <3> HIDE DEF place, own
    <3> QED
      BY <3>1, <3>2, FiniteImage
  <2>4. Units(v) = UNION all
    BY DEF Units
  <2>5. \A t \in all : IsFiniteSet(t)
    BY <2>3
  <2> HIDE DEF all
  <2> QED
    BY <2>2, <2>4, <2>5, FS_UNION
<1>6. IsFiniteSet(BodyLinks(v))
  <2>1. BodyLinks(v) \in SUBSET Units(v)
    BY DEF BodyLinks
  <2> QED
    BY <1>5, <2>1, FS_Subset
<1> QED
  BY <1>4, <1>6

LEMMA EdgeShape ==
  \A class, name, source, target, place :
    LET e == Edge(class, name, source, target, place)
    IN e.class = class /\ e.name = name /\ e.source = source /\ e.target = target /\ e.place = place
BY DEF Edge

LEMMA AuthoredOnce ==
  ASSUME NEW v, IsVault(v)
  PROVE  Cardinality(AuthoredEdges(v)) = Cardinality({o \in FieldLinks(v) : o[2] # "tags"}) + Cardinality(BodyLinks(v))
<1> DEFINE F == {o \in FieldLinks(v) : o[2] # "tags"}
           B == BodyLinks(v)
           fieldEdge(o) == Edge("semantic_identifier", o[2], ObjectNode(o[1]), Target(v, FieldLink(v, o)), o[3])
           bodyEdge(u) == Edge("body_wikilink", "linked_to", UnitNode(u), Target(v, BodyLink(v, u)), 0)
           FE == {fieldEdge(o) : o \in F}
           BE == {bodyEdge(u) : u \in B}
<1>1. AuthoredEdges(v) = FE \cup BE
  BY Zenon DEF AuthoredEdges
<1>2. IsFiniteSet(F) /\ IsFiniteSet(B)
  <2>1. F \in SUBSET FieldLinks(v)
    OBVIOUS
  <2> HIDE DEF F
  <2> QED
    BY <2>1, LinksFinite, FS_Subset
<1>3. \A o, p \in F : fieldEdge(o) = fieldEdge(p) => o = p
  <2> SUFFICES ASSUME NEW o \in F, NEW p \in F, fieldEdge(o) = fieldEdge(p) PROVE o = p
    OBVIOUS
  <2>1. o = <<o[1], o[2], o[3]>> /\ p = <<p[1], p[2], p[3]>>
    <3>1. \A q \in (DOMAIN v) \X Fields \X Places(v) : q = <<q[1], q[2], q[3]>>
      OBVIOUS
    <3>2. o \in (DOMAIN v) \X Fields \X Places(v) /\ p \in (DOMAIN v) \X Fields \X Places(v)
      BY DEF FieldLinks
    <3> QED
      BY <3>1, <3>2, Zenon
  <2>2. /\ fieldEdge(o).name = o[2] /\ fieldEdge(o).source = ObjectNode(o[1]) /\ fieldEdge(o).place = o[3]
        /\ fieldEdge(p).name = p[2] /\ fieldEdge(p).source = ObjectNode(p[1]) /\ fieldEdge(p).place = p[3]
    BY EdgeShape
  <2>3. o[2] = p[2] /\ o[3] = p[3] /\ ObjectNode(o[1]) = ObjectNode(p[1])
    BY <2>2
  <2>4. o[1] = p[1]
    BY <2>3 DEF ObjectNode
  <2> QED
    BY <2>1, <2>3, <2>4
<1>4. \A u, w \in B : bodyEdge(u) = bodyEdge(w) => u = w
  <2> SUFFICES ASSUME NEW u \in B, NEW w \in B, bodyEdge(u) = bodyEdge(w) PROVE u = w
    OBVIOUS
  <2>1. bodyEdge(u).source = UnitNode(u) /\ bodyEdge(w).source = UnitNode(w)
    BY EdgeShape
  <2> QED
    BY <2>1 DEF UnitNode
<1>5. IsFiniteSet(FE) /\ Cardinality(FE) = Cardinality(F)
  <2> DEFINE f == [o \in F |-> fieldEdge(o)]
  <2>1. f \in [F -> FE] /\ (\A e \in FE : \E o \in F : f[o] = e) /\ \A o \in F : f[o] = fieldEdge(o)
    OBVIOUS
  <2> HIDE DEF f, F, FE, fieldEdge
  <2> QED
    BY <1>2, <1>3, <2>1, FiniteImage
<1>6. IsFiniteSet(BE) /\ Cardinality(BE) = Cardinality(B)
  <2> DEFINE f == [u \in B |-> bodyEdge(u)]
  <2>1. f \in [B -> BE] /\ (\A e \in BE : \E u \in B : f[u] = e) /\ \A u \in B : f[u] = bodyEdge(u)
    OBVIOUS
  <2> HIDE DEF f, B, BE, bodyEdge
  <2> QED
    BY <1>2, <1>4, <2>1, FiniteImage
<1>7. FE \cap BE = {}
  <2>1. \A o : fieldEdge(o).class = "semantic_identifier"
    BY EdgeShape
  <2>2. \A u : bodyEdge(u).class = "body_wikilink"
    BY EdgeShape
  <2> HIDE DEF fieldEdge, bodyEdge
  <2> QED
    BY <2>1, <2>2
<1> HIDE DEF F, B, FE, BE
<1>8. Cardinality(FE \cup BE) = Cardinality(FE) + Cardinality(BE)
  <2>1. Cardinality(FE \cup BE) = Cardinality(FE) + Cardinality(BE) - Cardinality(FE \cap BE)
    BY <1>5, <1>6, FS_Union
  <2>2. Cardinality(FE \cap BE) = 0
    BY <1>7, FS_EmptySet
  <2>3. Cardinality(FE) \in Nat /\ Cardinality(BE) \in Nat
    BY <1>5, <1>6, FS_CardinalityType
  <2> QED
    BY <2>1, <2>2, <2>3
<1> QED
  BY <1>1, <1>5, <1>6, <1>8 DEF F, B

LEMMA LinksReach ==
  ASSUME NEW v, IsVault(v), Ingests(v), catalog = Catalog(v)
  PROVE  LinksReachable(v)
<1>1. ASSUME NEW o \in FieldLinks(v), o[2] # "tags"
      PROVE  \E node \in Nodes(v) : /\ OneEdge(v, "semantic_identifier", o[2], ObjectNode(o[1]), node, o[3])
                                    /\ Addresses(v, FieldLink(v, o), node)
  <2>1. PICK node : node = Target(v, FieldLink(v, o))
    OBVIOUS
  <2>2. node \in Nodes(v) /\ Addresses(v, FieldLink(v, o), node)
    BY <2>1, ResolvedTarget DEF Ingests
  <2>3. PICK e : e = Edge("semantic_identifier", o[2], ObjectNode(o[1]), node, o[3])
    OBVIOUS
  <2>4. e \in Edges(v)
    BY <1>1, <2>1, <2>3 DEF Edges, AuthoredEdges
  <2>5. e.class = "semantic_identifier" /\ e.name = o[2]
    BY <2>3, EdgeShape
  <2>6. <<"semantic_identifier", o[2]>> \in RelationTypes(v)
    BY <1>1 DEF RelationTypes
  <2>7. OneEdge(v, "semantic_identifier", o[2], ObjectNode(o[1]), node, o[3])
    BY <2>3, <2>4, <2>5, <2>6, LookupReaches DEF OneEdge
  <2> QED
    BY <2>2, <2>7
<1>2. ASSUME NEW u \in BodyLinks(v)
      PROVE  \E node \in Nodes(v) : /\ OneEdge(v, "body_wikilink", "linked_to", UnitNode(u), node, 0)
                                    /\ Addresses(v, BodyLink(v, u), node)
  <2>1. PICK node : node = Target(v, BodyLink(v, u))
    OBVIOUS
  <2>2. node \in Nodes(v) /\ Addresses(v, BodyLink(v, u), node)
    BY <2>1, ResolvedTarget DEF Ingests
  <2>3. PICK e : e = Edge("body_wikilink", "linked_to", UnitNode(u), node, 0)
    OBVIOUS
  <2>4. e \in Edges(v)
    BY <2>1, <2>3 DEF Edges, AuthoredEdges
  <2>5. e.class = "body_wikilink" /\ e.name = "linked_to"
    BY <2>3, EdgeShape
  <2>6. <<"body_wikilink", "linked_to">> \in RelationTypes(v)
    BY DEF RelationTypes
  <2>7. OneEdge(v, "body_wikilink", "linked_to", UnitNode(u), node, 0)
    BY <2>3, <2>4, <2>5, <2>6, LookupReaches DEF OneEdge
  <2> QED
    BY <2>2, <2>7
<1> QED
  BY <1>1, <1>2, AuthoredOnce DEF LinksReachable

-------------------------------------------------------------------------------
(* Below the top, every node of the graph has one container.               *)
Above(v, n) == {e \in StructuralEdges(v) : e.target = n}
AtTop(v, n) == \/ n[1] = "scope" /\ Len(n[2]) = 1
               \/ n[1] = "semantic_object" /\ v[n[2][1]].folder = <<>>

LEMMA ContainsShape ==
  \A name, source, target :
    LET e == Contains(name, source, target)
    IN e.class = "structural" /\ e.name = name /\ e.source = source /\ e.target = target
BY EdgeShape DEF Contains

LEMMA NodeKinds ==
  /\ \A path, i : ScopeNode(path) # ObjectNode(i)
  /\ \A path, x : ScopeNode(path) # RegionNode(x) /\ ScopeNode(path) # UnitNode(x)
  /\ \A i, x : ObjectNode(i) # RegionNode(x) /\ ObjectNode(i) # UnitNode(x)
  /\ \A x, y : RegionNode(x) # UnitNode(y)
  /\ \A p, q : ScopeNode(p) = ScopeNode(q) => p = q
  /\ \A i, j : ObjectNode(i) = ObjectNode(j) => i = j
  /\ \A x, y : RegionNode(x) = RegionNode(y) => x = y
  /\ \A x, y : UnitNode(x) = UnitNode(y) => x = y
BY DEF ScopeNode, ObjectNode, RegionNode, UnitNode

(* The structural edges by the kind of node they lead to.                  *)
ScopeEdge(path) == Contains("contains_scope", ScopeNode(SubSeq(path, 1, Len(path) - 1)), ScopeNode(path))
ObjectEdge(v, i) == Contains("contains_object", ScopeNode(v[i].folder), ObjectNode(i))
RegionEdge(v, r) == Contains("contains_region", Within(r[1], v[r[1]].headings[r[2]].under), RegionNode(r))
UnitEdge(v, u) == Contains("contains_unit", Within(u[1], UnitAt(v, u).under), UnitNode(u))

LEMMA StructuralForms ==
  ASSUME NEW v
  PROVE  /\ \A e \in StructuralEdges(v) :
              \/ \E path \in Scopes(v) : Len(path) > 1 /\ e = ScopeEdge(path)
              \/ \E i \in DOMAIN v : v[i].folder # <<>> /\ e = ObjectEdge(v, i)
              \/ \E r \in Regions(v) : e = RegionEdge(v, r)
              \/ \E u \in Units(v) : e = UnitEdge(v, u)
         /\ \A path \in Scopes(v) : Len(path) > 1 => ScopeEdge(path) \in StructuralEdges(v)
         /\ \A i \in DOMAIN v : v[i].folder # <<>> => ObjectEdge(v, i) \in StructuralEdges(v)
         /\ \A r \in Regions(v) : RegionEdge(v, r) \in StructuralEdges(v)
         /\ \A u \in Units(v) : UnitEdge(v, u) \in StructuralEdges(v)
<1> DEFINE S == {ScopeEdge(path) : path \in {path \in Scopes(v) : Len(path) > 1}}
           O == {ObjectEdge(v, i) : i \in {i \in DOMAIN v : v[i].folder # <<>>}}
           R == {RegionEdge(v, r) : r \in Regions(v)}
           U == {UnitEdge(v, u) : u \in Units(v)}
<1>1. StructuralEdges(v) = S \cup O \cup R \cup U
  BY Zenon DEF StructuralEdges, ScopeEdge, ObjectEdge, RegionEdge, UnitEdge
<1>2. \A e : e \in StructuralEdges(v) <=> e \in S \/ e \in O \/ e \in R \/ e \in U
  <2> HIDE DEF S, O, R, U
  <2> QED
    BY <1>1
<1>3. /\ \A e \in S : \E path \in Scopes(v) : Len(path) > 1 /\ e = ScopeEdge(path)
      /\ \A e \in O : \E i \in DOMAIN v : v[i].folder # <<>> /\ e = ObjectEdge(v, i)
      /\ \A e \in R : \E r \in Regions(v) : e = RegionEdge(v, r)
      /\ \A e \in U : \E u \in Units(v) : e = UnitEdge(v, u)
  OBVIOUS
<1>4. /\ \A path \in Scopes(v) : Len(path) > 1 => ScopeEdge(path) \in S
      /\ \A i \in DOMAIN v : v[i].folder # <<>> => ObjectEdge(v, i) \in O
      /\ \A r \in Regions(v) : RegionEdge(v, r) \in R
      /\ \A u \in Units(v) : UnitEdge(v, u) \in U
  OBVIOUS
<1> HIDE DEF S, O, R, U
<1> QED
  BY <1>2, <1>3, <1>4

(* The prefixes of a note's folder.                                        *)
LEMMA ScopePrefix ==
  ASSUME NEW v, IsVault(v)
  PROVE  /\ \A i \in DOMAIN v : v[i].folder # <<>> => v[i].folder \in Scopes(v)
         /\ \A path \in Scopes(v) : /\ path \in Seq(Texts) /\ Len(path) >= 1
                                    /\ Len(path) > 1 => SubSeq(path, 1, Len(path) - 1) \in Scopes(v)
<1>1. ASSUME NEW q \in Seq(Texts), NEW k \in 1..Len(q)
      PROVE  /\ SubSeq(q, 1, k) \in Seq(Texts) /\ Len(SubSeq(q, 1, k)) = k
             /\ \A j \in 1..k : SubSeq(q, 1, k)[j] = q[j]
  OBVIOUS
<1>2. ASSUME NEW q \in Seq(Texts), NEW p \in Seq(Texts), Len(q) = Len(p), \A j \in 1..Len(p) : q[j] = p[j]
      PROVE  q = p
  BY <1>2
<1>3. ASSUME NEW i \in DOMAIN v, v[i].folder # <<>> PROVE v[i].folder \in Scopes(v)
  <2>1. PICK q \in Seq(Texts) : q = v[i].folder
    BY NoteShape
  <2>2. Len(q) \in 1..Len(q) /\ Len(q) \in DOMAIN q
    BY <1>3, <2>1
  <2>3. SubSeq(q, 1, Len(q)) = q
    <3>1. /\ SubSeq(q, 1, Len(q)) \in Seq(Texts) /\ Len(SubSeq(q, 1, Len(q))) = Len(q)
          /\ \A j \in 1..Len(q) : SubSeq(q, 1, Len(q))[j] = q[j]
      BY <1>1, <2>2
    <3> HIDE <2>1
    <3> QED
      BY <1>2, <3>1
  <2>4. SubSeq(v[i].folder, 1, Len(q)) \in Scopes(v)
    BY <2>1, <2>2 DEF Scopes
  <2> QED
    BY <2>1, <2>3, <2>4
<1>4. ASSUME NEW path \in Scopes(v)
      PROVE  /\ path \in Seq(Texts) /\ Len(path) >= 1
             /\ Len(path) > 1 => SubSeq(path, 1, Len(path) - 1) \in Scopes(v)
  <2>1. PICK i \in DOMAIN v : \E k \in DOMAIN v[i].folder : path = SubSeq(v[i].folder, 1, k)
    BY DEF Scopes
  <2>2. PICK q \in Seq(Texts) : q = v[i].folder
    BY NoteShape
  <2>3. PICK k \in 1..Len(q) : path = SubSeq(q, 1, k)
    BY <2>1, <2>2
  <2>4. path \in Seq(Texts) /\ Len(path) = k /\ \A j \in 1..k : path[j] = q[j]
    BY <1>1, <2>3
  <2>5. ASSUME Len(path) > 1 PROVE SubSeq(path, 1, Len(path) - 1) \in Scopes(v)
    <3>1. k - 1 \in 1..Len(q) /\ k - 1 \in 1..Len(path) /\ k - 1 \in DOMAIN q
      BY <2>4, <2>5
    <3>2. /\ SubSeq(q, 1, k - 1) \in Seq(Texts) /\ Len(SubSeq(q, 1, k - 1)) = k - 1
          /\ \A j \in 1..(k - 1) : SubSeq(q, 1, k - 1)[j] = q[j]
      BY <1>1, <3>1
    <3>3. /\ SubSeq(path, 1, k - 1) \in Seq(Texts) /\ Len(SubSeq(path, 1, k - 1)) = k - 1
          /\ \A j \in 1..(k - 1) : SubSeq(path, 1, k - 1)[j] = path[j]
      BY <1>1, <2>4, <3>1
    <3>4. \A j \in 1..(k - 1) : SubSeq(path, 1, k - 1)[j] = SubSeq(q, 1, k - 1)[j]
      BY <2>4, <3>2, <3>3
    <3>5. SubSeq(path, 1, k - 1) = SubSeq(q, 1, k - 1)
      BY <1>2, <3>2, <3>3, <3>4
    <3>6. SubSeq(v[i].folder, 1, k - 1) \in Scopes(v)
      BY <2>2, <3>1 DEF Scopes
    <3> QED
      BY <2>2, <2>4, <3>5, <3>6
  <2> QED
    BY <2>4, <2>5
<1> QED
  BY <1>3, <1>4

(* An edge leads to a node of its own kind only, so to one node one edge.  *)
LEMMA EdgeTargets ==
  /\ \A path : ScopeEdge(path).target = ScopeNode(path)
                 /\ ScopeEdge(path).source = ScopeNode(SubSeq(path, 1, Len(path) - 1))
  /\ \A v, i : ObjectEdge(v, i).target = ObjectNode(i) /\ ObjectEdge(v, i).source = ScopeNode(v[i].folder)
  /\ \A v, r : RegionEdge(v, r).target = RegionNode(r)
                 /\ RegionEdge(v, r).source = Within(r[1], v[r[1]].headings[r[2]].under)
  /\ \A v, u : UnitEdge(v, u).target = UnitNode(u)
                 /\ UnitEdge(v, u).source = Within(u[1], UnitAt(v, u).under)
BY ContainsShape DEF ScopeEdge, ObjectEdge, RegionEdge, UnitEdge

LEMMA OneWayDown ==
  ASSUME NEW v, NEW e \in StructuralEdges(v)
  PROVE  /\ \A path : e.target = ScopeNode(path) => Len(path) > 1 /\ e = ScopeEdge(path)
         /\ \A i : e.target = ObjectNode(i) => v[i].folder # <<>> /\ e = ObjectEdge(v, i)
         /\ \A r : e.target = RegionNode(r) => e = RegionEdge(v, r)
         /\ \A u : e.target = UnitNode(u) => e = UnitEdge(v, u)
<1>1. CASE \E path \in Scopes(v) : Len(path) > 1 /\ e = ScopeEdge(path)
  <2>1. PICK path \in Scopes(v) : Len(path) > 1 /\ e = ScopeEdge(path)
    BY <1>1
  <2>2. e.target = ScopeNode(path)
    BY <2>1, EdgeTargets
  <2> QED
    BY <2>1, <2>2, NodeKinds
<1>2. CASE \E i \in DOMAIN v : v[i].folder # <<>> /\ e = ObjectEdge(v, i)
  <2>1. PICK i \in DOMAIN v : v[i].folder # <<>> /\ e = ObjectEdge(v, i)
    BY <1>2
  <2>2. e.target = ObjectNode(i)
    BY <2>1, EdgeTargets
  <2> QED
    BY <2>1, <2>2, NodeKinds
<1>3. CASE \E r \in Regions(v) : e = RegionEdge(v, r)
  <2>1. PICK r \in Regions(v) : e = RegionEdge(v, r)
    BY <1>3
  <2>2. e.target = RegionNode(r)
    BY <2>1, EdgeTargets
  <2> QED
    BY <2>1, <2>2, NodeKinds
<1>4. CASE \E u \in Units(v) : e = UnitEdge(v, u)
  <2>1. PICK u \in Units(v) : e = UnitEdge(v, u)
    BY <1>4
  <2>2. e.target = UnitNode(u)
    BY <2>1, EdgeTargets
  <2> QED
    BY <2>1, <2>2, NodeKinds
<1> QED
  BY <1>1, <1>2, <1>3, <1>4, StructuralForms

(* A heading or a unit stands in its note or in a heading of it.           *)
LEMMA WithinIsNode ==
  ASSUME NEW v, IsVault(v), NEW i \in DOMAIN v, NEW h \in 0..Len(v[i].headings)
  PROVE  Within(i, h) \in Nodes(v)
<1>1. CASE h = 0
  BY <1>1 DEF Within, Nodes
<1>2. CASE h # 0
  <2>1. h \in DOMAIN v[i].headings
    BY <1>2, NoteShape
  <2>2. <<i, h>> \in Regions(v)
    BY <2>1 DEF Regions
  <2> QED
    BY <1>2, <2>2 DEF Within, Nodes
<1> QED
  BY <1>1, <1>2

LEMMA Container ==
  ASSUME NEW v, IsVault(v), NEW n \in Nodes(v)
  PROVE  IF AtTop(v, n) THEN Above(v, n) = {} ELSE \E e : Above(v, n) = {e} /\ e.source \in Nodes(v)
<1>1. \/ \E path \in Scopes(v) : n = ScopeNode(path)
      \/ \E i \in DOMAIN v : n = ObjectNode(i)
      \/ \E r \in Regions(v) : n = RegionNode(r)
      \/ \E u \in Units(v) : n = UnitNode(u)
  BY DEF Nodes
<1>2. ASSUME NEW path \in Scopes(v), n = ScopeNode(path)
      PROVE  IF AtTop(v, n) THEN Above(v, n) = {} ELSE \E e : Above(v, n) = {e} /\ e.source \in Nodes(v)
  <2>1. \A e \in Above(v, n) : Len(path) > 1 /\ e = ScopeEdge(path)
    BY <1>2, OneWayDown DEF Above
  <2>2. AtTop(v, n) <=> Len(path) = 1
    BY <1>2 DEF AtTop, ScopeNode
  <2>3. path \in Seq(Texts) /\ Len(path) \in Nat /\ Len(path) >= 1
            /\ (Len(path) > 1 => SubSeq(path, 1, Len(path) - 1) \in Scopes(v))
    <3>1. path \in Seq(Texts) /\ Len(path) >= 1 /\ (Len(path) > 1 => SubSeq(path, 1, Len(path) - 1) \in Scopes(v))
      BY <1>2, ScopePrefix
    <3> QED
      BY <3>1
  <2>4. ASSUME Len(path) > 1 PROVE ScopeEdge(path) \in Above(v, n) /\ ScopeEdge(path).source \in Nodes(v)
    <3>1. ScopeNode(SubSeq(path, 1, Len(path) - 1)) \in Nodes(v)
      BY <2>3, <2>4 DEF Nodes
    <3> QED
      BY <1>2, <2>4, <3>1, StructuralForms, EdgeTargets DEF Above
  <2>5. CASE Len(path) = 1
    <3>1. Above(v, n) = {}
      BY <2>1, <2>5
    <3> QED
      BY <2>2, <2>5, <3>1
  <2>6. CASE Len(path) # 1
    <3>1. Len(path) > 1
      <4>1. \A m \in Nat : m >= 1 /\ m # 1 => m > 1
        OBVIOUS
      <4> QED
        BY <2>3, <2>6, <4>1, Zenon
    <3>2. Above(v, n) = {ScopeEdge(path)}
      BY <2>1, <2>4, <3>1
    <3> QED
      BY <2>2, <2>4, <2>6, <3>1, <3>2
  <2> QED
    BY <2>5, <2>6
<1>3. ASSUME NEW i \in DOMAIN v, n = ObjectNode(i)
      PROVE  IF AtTop(v, n) THEN Above(v, n) = {} ELSE \E e : Above(v, n) = {e} /\ e.source \in Nodes(v)
  <2>1. \A e \in Above(v, n) : v[i].folder # <<>> /\ e = ObjectEdge(v, i)
    BY <1>3, OneWayDown DEF Above
  <2>2. AtTop(v, n) <=> v[i].folder = <<>>
    BY <1>3 DEF AtTop, ObjectNode
  <2>3. ASSUME v[i].folder # <<>> PROVE ObjectEdge(v, i) \in Above(v, n) /\ ObjectEdge(v, i).source \in Nodes(v)
    <3>1. ScopeNode(v[i].folder) \in Nodes(v)
      BY <2>3, ScopePrefix DEF Nodes
    <3> QED
      BY <1>3, <2>3, <3>1, StructuralForms, EdgeTargets DEF Above
  <2> QED
    BY <2>1, <2>2, <2>3
<1>4. ASSUME NEW r \in Regions(v), n = RegionNode(r)
      PROVE  IF AtTop(v, n) THEN Above(v, n) = {} ELSE \E e : Above(v, n) = {e} /\ e.source \in Nodes(v)
  <2>1. \A e \in Above(v, n) : e = RegionEdge(v, r)
    BY <1>4, OneWayDown DEF Above
  <2>2. ~AtTop(v, n)
    BY <1>4 DEF AtTop, RegionNode
  <2>3. RegionEdge(v, r) \in Above(v, n)
    BY <1>4, StructuralForms, EdgeTargets DEF Above
  <2>4. RegionEdge(v, r).source \in Nodes(v)
    <3>1. r[1] \in DOMAIN v /\ r[2] \in DOMAIN v[r[1]].headings
      BY DEF Regions
    <3>2. /\ v[r[1]].headings[r[2]].under \in 0..(r[2] - 1)
          /\ r[2] \in 1..Len(v[r[1]].headings) /\ Len(v[r[1]].headings) \in Nat
      BY <3>1, NoteShape
    <3>3. v[r[1]].headings[r[2]].under \in 0..Len(v[r[1]].headings)
      BY <3>2
    <3> QED
      BY <3>1, <3>3, WithinIsNode, EdgeTargets
  <2> QED
    BY <2>1, <2>2, <2>3, <2>4
<1>5. ASSUME NEW u \in Units(v), n = UnitNode(u)
      PROVE  IF AtTop(v, n) THEN Above(v, n) = {} ELSE \E e : Above(v, n) = {e} /\ e.source \in Nodes(v)
  <2>1. \A e \in Above(v, n) : e = UnitEdge(v, u)
    BY <1>5, OneWayDown DEF Above
  <2>2. ~AtTop(v, n)
    BY <1>5 DEF AtTop, UnitNode
  <2>3. UnitEdge(v, u) \in Above(v, n)
    BY <1>5, StructuralForms, EdgeTargets DEF Above
  <2>4. UnitEdge(v, u).source \in Nodes(v)
    BY UnitShape, WithinIsNode, EdgeTargets
  <2> QED
    BY <2>1, <2>2, <2>3, <2>4
<1> QED
  BY <1>1, <1>2, <1>3, <1>4, <1>5

LEMMA ForestReach ==
  ASSUME NEW v, IsVault(v), catalog = Catalog(v)
  PROVE  ContainmentIsForest(v)
<1> DEFINE found == UNION {Occurrences(v, Lookup("structural", name)) : name \in StructuralRelations}
<1>1. ASSUME NEW e \in StructuralEdges(v) PROVE e \in Edges(v) /\ e.class = "structural" /\ e.name \in StructuralRelations
  BY StructuralForms, ContainsShape DEF Edges, ScopeEdge, ObjectEdge, RegionEdge, UnitEdge, StructuralRelations
<1>2. ASSUME NEW e \in AuthoredEdges(v) PROVE e.class # "structural"
  BY EdgeShape DEF AuthoredEdges
<1>3. \A name \in StructuralRelations :
        Occurrences(v, Lookup("structural", name)) = {e \in Edges(v) : e.class = "structural" /\ e.name = name}
  <2> SUFFICES ASSUME NEW name \in StructuralRelations
               PROVE  Occurrences(v, Lookup("structural", name)) = {e \in Edges(v) : e.class = "structural" /\ e.name = name}
    OBVIOUS
  <2>1. <<"structural", name>> \in RelationTypes(v)
    BY DEF RelationTypes
  <2> QED
    BY <2>1, LookupReaches
<1>4. \A e : e \in found <=> e \in StructuralEdges(v)
  <2>1. ASSUME NEW e \in found PROVE e \in StructuralEdges(v)
    <3>1. PICK name \in StructuralRelations : e \in Occurrences(v, Lookup("structural", name))
      OBVIOUS
    <3>2. e \in Edges(v) /\ e.class = "structural"
      BY <1>3, <3>1
    <3> QED
      BY <1>2, <3>2 DEF Edges
  <2>2. ASSUME NEW e \in StructuralEdges(v) PROVE e \in found
    <3>1. PICK name \in StructuralRelations : e.name = name
      BY <1>1
    <3>2. e \in Occurrences(v, Lookup("structural", name))
      BY <1>1, <1>3, <3>1
    <3> QED
      BY <3>2
  <2> QED
    BY <2>1, <2>2
<1> HIDE DEF found
<1>5. \A n : {e \in found : e.target = n} = Above(v, n)
  BY <1>4 DEF Above
<1>6. ASSUME NEW n \in Nodes(v)
      PROVE  /\ Cardinality(Above(v, n)) = IF AtTop(v, n) THEN 0 ELSE 1
             /\ \A e \in Above(v, n) : e.source \in Nodes(v)
  <2>1. CASE AtTop(v, n)
    BY <2>1, Container, FS_EmptySet
  <2>2. CASE ~AtTop(v, n)
    <3>1. PICK e : Above(v, n) = {e} /\ e.source \in Nodes(v)
      BY <2>2, Container
    <3>2. Cardinality(Above(v, n)) = 1
      BY <3>1, FS_Singleton
    <3> QED
      BY <2>2, <3>1, <3>2
  <2> QED
    BY <2>1, <2>2
<1> QED
  BY <1>5, <1>6 DEF ContainmentIsForest, AtTop, found
===============================================================================
