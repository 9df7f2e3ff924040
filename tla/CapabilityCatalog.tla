--------------------------- MODULE CapabilityCatalog ---------------------------
(***************************************************************************)
(* The capability catalog between a build and the requests made of it.     *)
(* Four places know the same grammar: the facts observed of the surfaces   *)
(* and the catalog written from them (capability_facts.py, catalog.py),    *)
(* the admission of a catalog file (capability_catalog.py), the            *)
(* conformance of a request to it (control_plane.py), and the surfaces     *)
(* that answer (exact.py, lexical.py, temporal.py, graph.py).              *)
(***************************************************************************)
EXTENDS Projection

FixedScalar == {<<"intrinsic", "raw_markdown">>, <<"intrinsic", "parsed_text">>,
                <<"region", "region_text">>, <<"semantic_path", "path_component">>}
FixedOrdered == {<<"region", "region_path">>, <<"semantic_path", "path_hierarchy">>}
FixedExact == (FixedScalar \ {<<"region", "region_text">>}) \cup FixedOrdered

Operands == Domains \ Structured
LexicalOps == {"lexical.terms", "lexical.phrase"}
DiscoveryOps == {"graph.discovery.terms", "graph.discovery.phrase"}
TemporalOps == {"temporal.earliest", "temporal.latest", "temporal.before",
                "temporal.after", "temporal.between", "temporal.ordered"}

Identifier(f) == <<"semantic_identifier", f>>
IsIdentifier(d) == d[1] = "semantic_identifier"

-------------------------------------------------------------------------------
(* The facts: what unit values show of a field.                            *)

UnitValues(v, f) == {x \in {Inherited(v, u, f) : u \in Units(v)} : Present(x)}
DomainsIn(v, f, shape) ==
  UNION {{a.domain : a \in Members(x)} : x \in {x \in UnitValues(v, f) : x.shape = shape}}
ScalarDomains(v, f) == DomainsIn(v, f, "scalar")
MemberDomains(v, f) == DomainsIn(v, f, "sequence")
HasSequence(v, f) == \E x \in UnitValues(v, f) : x.shape = "sequence"

FactDims(v) == FixedExact \cup {<<r.class, r.name>> : r \in ExactRows(v)} \cup LexicalDims(v)

(* The catalog: per dimension its value model and the licensed accesses.   *)
Access(operator, target, shape, domains) ==
  [operator |-> operator, target |-> target, shape |-> shape, domains |-> domains]
Scalar(operator, target, domains) == Access(operator, target, "scalar", domains)
LexicalAccess(target) == {Scalar(operator, target, {"string"}) : operator \in LexicalOps}

FixedModel(d) == [scalar   |-> {s \in {"string"} : d \in FixedScalar},
                  sequence |-> {},
                  ordered  |-> {s \in {"string"} : d \in FixedOrdered}]
ValueModel(v, d) ==
  IF IsIdentifier(d) THEN [scalar |-> ScalarDomains(v, d[2]), sequence |-> MemberDomains(v, d[2]), ordered |-> {}]
  ELSE FixedModel(d)

(* Mutant: a field with a lexical surface gets both lexical targets.       *)
AccessOfSurfaces(v, f) ==
  (IF ScalarDomains(v, f) # {} THEN {Scalar("exact.equals", "complete_value", ScalarDomains(v, f))} ELSE {})
  \cup (IF MemberDomains(v, f) # {} THEN {Scalar("exact.equals", "member", MemberDomains(v, f))} ELSE {})
  \cup (IF Identifier(f) \in LexicalDims(v) THEN LexicalAccess("complete_value") \cup LexicalAccess("member") ELSE {})

IdentifierAccess(v, f) ==
  LET scalars == ScalarDomains(v, f)
      members == MemberDomains(v, f)
      exact == Identifier(f) \in {<<r.class, r.name>> : r \in ExactRows(v)}
      lexical == Identifier(f) \in LexicalDims(v)
  IN {a \in {Scalar("exact.equals", "complete_value", scalars), Scalar("exact.equals", "member", members)} :
        exact /\ a.domains # {}}
     \cup (IF lexical /\ "string" \in scalars THEN LexicalAccess("complete_value") ELSE {})
     \cup (IF lexical /\ "string" \in members THEN LexicalAccess("member") ELSE {})
     \cup (IF f = TemporalField
           THEN {Scalar(operator, "complete_value", {"date"}) : operator \in TemporalOps} ELSE {})

FixedAccess(v, d) ==
  (IF d \in FixedOrdered THEN {Access("exact.equals", "complete_value", "ordered_sequence", {"string"})} ELSE {})
  \cup (IF d \in FixedExact \ FixedOrdered THEN {Scalar("exact.equals", "complete_value", {"string"})} ELSE {})
  \cup (IF d \in LexicalDims(v) THEN LexicalAccess("complete_value") ELSE {})
  \cup (IF d[2] = "parsed_text" /\ "semantic_unit" \in {t[1] : t \in VectorTargets(v)}
        THEN {Scalar("vector.semantic_similarity", "complete_value", {"string"})} ELSE {})

DimAccess(v, d) == IF IsIdentifier(d) THEN IdentifierAccess(v, d[2]) ELSE FixedAccess(v, d)

Catalog(v) ==
  [value     |-> [d \in FactDims(v) |-> ValueModel(v, d)],
   access    |-> [d \in FactDims(v) |-> DimAccess(v, d)],
   discovery |-> DiscoveryDims(v),
   relations |-> RelationTypes(v),
   targets   |-> {t[1] : t \in VectorTargets(v)}]

(* Generation raises on a represented field nobody described, and on a     *)
(* field with sequences but no member in any of them.                      *)
Represented(v) == {d[2] : d \in {d \in FactDims(v) \cup RelationTypes(v) : IsIdentifier(d)}}
Generates(v, described) ==
  /\ Represented(v) \subseteq described
  /\ \A d \in FactDims(v) :
       IsIdentifier(d) => /\ UnitValues(v, d[2]) # {}
                          /\ HasSequence(v, d[2]) => MemberDomains(v, d[2]) # {}

-------------------------------------------------------------------------------
(* load_capability_catalog.                                                *)

AccessAdmitted(a, model, d) ==
  LET represented == IF a.target = "member" THEN model.sequence ELSE model.scalar
  IN /\ a.operator \in TemporalOps =>
          /\ d = Identifier(TemporalField) /\ a.target = "complete_value"
          /\ a.domains = {"date"} /\ model.scalar = {"date"}
     /\ a.operator = "exact.equals" =>
          /\ a.domains # {}
          /\ IF a.shape = "ordered_sequence" THEN a.target = "complete_value" /\ a.domains = model.ordered
             ELSE a.domains = represented
     /\ a.operator \in LexicalOps => a.domains = {"string"} /\ "string" \in represented
     /\ a.operator \notin TemporalOps \cup LexicalOps \cup {"exact.equals"} =>
          d = <<"intrinsic", "parsed_text">> /\ "string" \in model.scalar

Exact(target) == {<<"exact.equals", target>>}
Lexical(target) == {<<operator, target>> : operator \in LexicalOps}
Whole == "complete_value"

IdentifierGrammar(model, f) ==
  (IF model.scalar # {} THEN Exact(Whole) ELSE {})
  \cup (IF "string" \in model.scalar THEN Lexical(Whole) ELSE {})
  \cup (IF model.sequence # {} THEN Exact("member") ELSE {})
  \cup (IF "string" \in model.sequence THEN Lexical("member") ELSE {})
  \cup (IF f = TemporalField /\ model.scalar = {"date"} THEN TemporalOps \X {Whole} ELSE {})

GrammarAdmitted(d, ids, model) ==
  /\ IsIdentifier(d) => ids = IdentifierGrammar(model, d[2])
  /\ d = <<"intrinsic", "parsed_text">> =>
       ids \in {Exact(Whole) \cup Lexical(Whole),
               Exact(Whole) \cup Lexical(Whole) \cup {<<"vector.semantic_similarity", Whole>>}}
  /\ d = <<"region", "region_text">> => ids = Lexical(Whole)
  /\ d = <<"semantic_path", "path_component">> => ids \in {Exact(Whole), Exact(Whole) \cup Lexical(Whole)}
  /\ d \in FixedOrdered \cup {<<"intrinsic", "raw_markdown">>} => ids = Exact(Whole)

Admitted(c) ==
  LET ids(d) == {<<a.operator, a.target>> : a \in c.access[d]}
  IN /\ \A d \in DOMAIN c.access :
          /\ IF IsIdentifier(d) THEN c.value[d].ordered = {}
             ELSE d \in FixedScalar \cup FixedOrdered /\ c.value[d] = FixedModel(d)
          /\ c.value[d].scalar \cup c.value[d].sequence \cup c.value[d].ordered \in (SUBSET Operands) \ {{}}
          /\ \A a \in c.access[d] : AccessAdmitted(a, c.value[d], d)
          /\ GrammarAdmitted(d, ids(d), c.value[d])
     /\ FixedExact \subseteq DOMAIN c.access
     /\ {<<"structural", name>> : name \in StructuralRelations} \cup {<<"body_wikilink", "linked_to">>}
          \subseteq c.relations
     /\ Identifier("tags") \notin c.relations
     /\ {<<"semantic_object", "address_text">>, <<"semantic_region", "address_text">>} \subseteq c.discovery
     /\ <<"vector.semantic_similarity", Whole>> \in ids(<<"intrinsic", "parsed_text">>)
          <=> "semantic_unit" \in c.targets

-------------------------------------------------------------------------------
(* A request names an operator, a dimension (for the graph: a node kind    *)
(* and dimension, or a relation type), and its operands as texts.          *)

WellFormed(r) ==
  /\ r.operator = "exact.equals" =>
       r.shape = "ordered_sequence" \/ (r.domain \notin Structured /\ Len(r.parts) = 1)
  /\ r.operator \in {"lexical.terms", "graph.discovery.terms"} =>
       r.parts # <<>> /\ \A k \in DOMAIN r.parts : r.parts[k] \notin Blank
  /\ r.operator \in {"lexical.phrase", "graph.discovery.phrase"} => r.parts[1] \notin Blank
  /\ r.operator \in TemporalOps =>
       r.target = "complete_value" /\ \A k \in DOMAIN r.parts : r.parts[k] \in DOMAIN Day
  /\ r.operator = "temporal.between" => DOMAIN r.parts = {1, 2} /\ Day[r.parts[1]] <= Day[r.parts[2]]

SingleTokens(r) ==
  r.operator \in {"lexical.terms", "graph.discovery.terms"} =>
    \A k \in DOMAIN r.parts : Len(Words[r.parts[k]]) = 1

DimOf(r) == <<r.class, r.name>>
FieldConforms(c, r) ==
  /\ DimOf(r) \in DOMAIN c.access
  /\ \E a \in c.access[DimOf(r)] :
       /\ a.operator = r.operator /\ a.target = r.target
       /\ r.operator = "exact.equals" => a.shape = r.shape /\ r.domain \in a.domains

RelationLookup == "graph.relation_occurrence_lookup"
FieldlessOps == DiscoveryOps \cup {RelationLookup, "vector.semantic_similarity"}

(* Mutant: the operands are left to the surface.                           *)
ConformsByShape(c, r) ==
  /\ r.operator \notin FieldlessOps => FieldConforms(c, r)
  /\ r.operator \in DiscoveryOps => DimOf(r) \in c.discovery
  /\ r.operator = RelationLookup => DimOf(r) \in c.relations

(* _request_violations finds nothing; a semantic request names no dimension. *)
Conforms(c, r) ==
  /\ r.operator \notin FieldlessOps => FieldConforms(c, r)
  /\ r.operator \in DiscoveryOps => DimOf(r) \in c.discovery
  /\ r.operator = RelationLookup => DimOf(r) \in c.relations
  /\ SingleTokens(r)

-------------------------------------------------------------------------------
(* What the surface itself does with a request, conforming or not.         *)

LookupRaises(r) ==
  \/ DimOf(r) \in FixedOrdered /\ r.shape # "ordered_sequence"
  \/ DimOf(r) \notin FixedOrdered /\ r.shape = "ordered_sequence"
  \/ DimOf(r) = <<"semantic_path", "path_component">> /\ r.domain # "string"

OperandUnusable(r) ==
  \/ r.operator \in {"lexical.phrase", "graph.discovery.phrase"} /\ r.parts[1] \in Blank
  \/ r.operator = "temporal.between" /\ Day[r.parts[1]] > Day[r.parts[2]]

SurfaceRaises(v, r) ==
  \/ r.operator = "exact.equals" /\ LookupRaises(r)
  \/ r.operator \in LexicalOps /\ (DimOf(r) \notin LexicalDims(v) \/ ~SingleTokens(r) \/ OperandUnusable(r))
  \/ r.operator \in DiscoveryOps /\ (DimOf(r) \notin DiscoveryDims(v) \/ ~SingleTokens(r) \/ OperandUnusable(r))
  \/ r.operator = RelationLookup /\ DimOf(r) \notin RelationTypes(v)
  \/ r.operator \in TemporalOps /\ (r.name # TemporalField \/ OperandUnusable(r))

Occurs(phrase, words) ==
  phrase # <<>> /\ \E k \in 0..(Len(words) - Len(phrase)) : SubSeq(words, k + 1, k + Len(phrase)) = phrase
TextMatches(r, text) ==
  IF r.operator \in {"lexical.phrase", "graph.discovery.phrase"} THEN Occurs(Words[r.parts[1]], Words[text])
  ELSE \E k \in DOMAIN r.parts : Occurs(Words[r.parts[k]], Words[text])

RequestKey(r) ==
  IF r.shape = "ordered_sequence" THEN PathKey(r.parts) ELSE AtomKey([domain |-> r.domain, text |-> r.parts[1]])

DatedMatches(v, r, u) ==
  LET days == {DayOf(v, w) : w \in Dated(v)}
  IN /\ r.operator = "temporal.earliest" => \A d \in days : DayOf(v, u) <= d
     /\ r.operator = "temporal.latest" => \A d \in days : DayOf(v, u) >= d
     /\ r.operator = "temporal.before" => DayOf(v, u) < Day[r.parts[1]]
     /\ r.operator = "temporal.after" => DayOf(v, u) > Day[r.parts[1]]
     /\ r.operator = "temporal.between" => DayOf(v, u) \in Day[r.parts[1]]..Day[r.parts[2]]

(* Nodes found; a relation lookup returns edges, one hit per occurrence.   *)
UnitsFound(v, r) ==
  IF r.operator = "exact.equals"
  THEN {x.unit : x \in {x \in ExactRows(v) : <<x.class, x.name>> = DimOf(r) /\ x.key = RequestKey(r)}}
  ELSE IF r.operator \in LexicalOps
  THEN {x.unit : x \in {x \in LexicalRows(v) : <<x.class, x.name>> = DimOf(r) /\ TextMatches(r, x.text)}}
  ELSE {u \in Dated(v) : r.operator \in TemporalOps /\ DatedMatches(v, r, u)}
Found(v, r) ==
  {UnitNode(u) : u \in UnitsFound(v, r)}
    \cup {x.node : x \in {x \in DiscoveryRows(v) :
                          r.operator \in DiscoveryOps /\ <<x.kind, x.name>> = DimOf(r) /\ TextMatches(r, x.text)}}
Occurrences(v, r) == {e \in Edges(v) : <<e.class, e.name>> = DimOf(r)}
===============================================================================
