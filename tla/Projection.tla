------------------------------ MODULE Projection ------------------------------
(***************************************************************************)
(* What one build derives from a vault: the resolved canonical records     *)
(* (build/*.py) and the rows of the exact, lexical, temporal, graph and    *)
(* vector surfaces (projection/*.py).  Every surface reads the canonical   *)
(* tables only, so each is an operator on the parsed vault.                *)
(*                                                                         *)
(* A vault is a sequence of notes.  Its units and regions are named by     *)
(* position, <<note, place>>, and a graph node by its kind and position.   *)
(***************************************************************************)
EXTENDS Integers, Sequences, FiniteSets

CONSTANTS
  Fields,      \* the configured semantic identifier fields
  Folded,      \* Unicode case folding, on texts
  Normal,      \* the exact surface's normalisation: folding and white space
  RegionKey,   \* the punctuation-insensitive key of a region address
  Words,       \* the tokens of a text
  LinkIn,      \* the wikilink a text contains, or None: [path, name, fragment]
  Day,         \* chronological rank of a date text
  Blank,       \* texts of white space only
  None

Texts == DOMAIN Words
Domains == {"null", "boolean", "integer", "float", "date", "datetime", "string", "sequence", "mapping"}
Structured == {"sequence", "mapping"}

(* A parsed note.  A region names the one above it, earlier in the note, a *)
(* unit the region it stands in; 0 is the note itself.                     *)
Value == [shape : {"absent", "blank", "scalar", "sequence"}, members : Seq([domain : Domains, text : Texts])]
NoteRecord ==
  [uuid : Texts \cup {None}, folder : Seq(Texts), name : Texts, fields : [Fields -> Value],
   headings : Seq([under : Nat, text : Texts]), units : Seq([under : Nat, raw : Texts, text : Texts])]

Parsed(note) ==
  /\ note \in NoteRecord
  /\ \A f \in Fields : note.fields[f].shape = "scalar" => Len(note.fields[f].members) = 1
  /\ \A h \in DOMAIN note.headings : note.headings[h].under < h
  /\ \A k \in DOMAIN note.units : note.units[k].under <= Len(note.headings)
IsVault(v) == v \in Seq(NoteRecord) /\ \A i \in DOMAIN v : Parsed(v[i])

ASSUME TextAssumption ==
  /\ IsFiniteSet(Fields)
  /\ \A t \in Texts : Words[t] \in Seq(Texts)
  /\ \A t \in Texts \cap Blank : Words[t] = <<>>
  /\ \A t \in DOMAIN Day : Day[t] \in Int

Units(v) == UNION {{<<i, k>> : k \in DOMAIN v[i].units} : i \in DOMAIN v}
Regions(v) == UNION {{<<i, h>> : h \in DOMAIN v[i].headings} : i \in DOMAIN v}
UnitAt(v, u) == v[u[1]].units[u[2]]

(* The members a field presents: a scalar is its own only member.          *)
Present(x) == x.shape \in {"scalar", "sequence"}
Members(x) == IF Present(x) THEN {x.members[k] : k \in DOMAIN x.members} ELSE {}
DirectText(x) == {a.text : a \in {a \in Members(x) : a.domain = "string"}}
Inherited(v, u, f) == v[u[1]].fields[f]

(* Headings from the note down to h.                                       *)
RegionPath(note, h) ==
  LET path[g \in 0..Len(note.headings)] ==
        IF g = 0 THEN <<>> ELSE Append(path[note.headings[g].under], g)
  IN path[h]

-------------------------------------------------------------------------------
(* Links, and their resolution against the names of the same vault.        *)

Places(v) == UNION {DOMAIN v[i].fields[f].members : i \in DOMAIN v, f \in Fields}
FieldLinks(v) ==
  {o \in (DOMAIN v) \X Fields \X Places(v) :
     LET x == v[o[1]].fields[o[2]]
     IN /\ Present(x) /\ o[3] \in DOMAIN x.members
        /\ x.members[o[3]].domain = "string" /\ LinkIn[x.members[o[3]].text] # None}
FieldLink(v, o) == LinkIn[v[o[1]].fields[o[2]].members[o[3]].text]

BodyLinks(v) == {u \in Units(v) : LinkIn[UnitAt(v, u).text] # None}
BodyLink(v, u) == LinkIn[UnitAt(v, u).text]

(* Aliases count only if configured, and then must be texts.               *)
Aliases(note) == IF "aliases" \in Fields THEN DirectText(note.fields["aliases"]) ELSE {}
AliasesReadable(note) ==
  "aliases" \in Fields => \A a \in Members(note.fields["aliases"]) : a.domain = "string"
NameKeys(note) == {Folded[t] : t \in {note.name} \cup Aliases(note)}

ObjectMatches(v, link) ==
  IF link.path # <<>>
  THEN {i \in DOMAIN v : v[i].folder = link.path /\ v[i].name = link.name}
  ELSE {i \in DOMAIN v : Folded[link.name] \in NameKeys(v[i])}

RegionMatches(note, fragment) ==
  LET exact == {h \in DOMAIN note.headings : note.headings[h].text = fragment}
  IN IF exact # {} THEN exact
     ELSE {h \in DOMAIN note.headings : RegionKey[note.headings[h].text] = RegionKey[fragment]}

Resolves(v, link) ==
  \E i \in DOMAIN v : /\ ObjectMatches(v, link) = {i}
                      /\ link.fragment # None => Cardinality(RegionMatches(v[i], link.fragment)) = 1

ObjectNode(i) == <<"semantic_object", <<i>>>>
RegionNode(r) == <<"semantic_region", r>>
UnitNode(u) == <<"semantic_unit", u>>
ScopeNode(path) == <<"scope", path>>

Target(v, link) ==
  LET i == CHOOSE i \in ObjectMatches(v, link) : TRUE
  IN IF link.fragment = None THEN ObjectNode(i)
     ELSE RegionNode(<<i, CHOOSE h \in RegionMatches(v[i], link.fragment) : TRUE>>)

(* The vault becomes canonical records, or nothing of it does.             *)
Parses(v) == \A i, j \in DOMAIN v : v[i].uuid # None /\ (v[i].uuid = v[j].uuid => i = j)
Ingests(v) ==
  /\ Parses(v)
  /\ \A i \in DOMAIN v : AliasesReadable(v[i])
  /\ \A o \in FieldLinks(v) : Resolves(v, FieldLink(v, o))
  /\ \A u \in BodyLinks(v) : Resolves(v, BodyLink(v, u))

-------------------------------------------------------------------------------
(* The unit surfaces.                                                      *)

ExactBuilds(v) ==
  \A u \in Units(v) : \A f \in Fields : \A a \in Members(Inherited(v, u, f)) : a.domain \notin Structured

TextKey(t) == [type |-> "text", parts |-> <<Normal[t]>>]
PathKey(path) == [type |-> "path", parts |-> [k \in DOMAIN path |-> Normal[path[k]]]]
AtomKey(a) == IF a.domain = "string" THEN TextKey(a.text) ELSE [type |-> a.domain, parts |-> <<a.text>>]
ExactRow(class, name, key, u) == [class |-> class, name |-> name, key |-> key, unit |-> u]

RegionTexts(v, u) ==
  LET path == RegionPath(v[u[1]], UnitAt(v, u).under)
  IN [k \in DOMAIN path |-> v[u[1]].headings[path[k]].text]

ExactRows(v) ==
  UNION {{ExactRow("intrinsic", "raw_markdown", TextKey(UnitAt(v, u).raw), u),
          ExactRow("intrinsic", "parsed_text", TextKey(UnitAt(v, u).text), u),
          ExactRow("semantic_path", "path_hierarchy", PathKey(v[u[1]].folder), u),
          ExactRow("region", "region_path", PathKey(RegionTexts(v, u)), u)}
         \cup {ExactRow("semantic_path", "path_component", TextKey(v[u[1]].folder[k]), u) :
                 k \in DOMAIN v[u[1]].folder}
         \cup UNION {{ExactRow("semantic_identifier", f, AtomKey(a), u) : a \in Members(Inherited(v, u, f))} :
                       f \in Fields}
         : u \in Units(v)}

LexicalRow(class, name, text, u) == [class |-> class, name |-> name, text |-> text, unit |-> u]
LexicalRows(v) ==
  UNION {{LexicalRow("intrinsic", "parsed_text", UnitAt(v, u).text, u)}
         \cup {LexicalRow("region", "region_text", RegionTexts(v, u)[k], u) : k \in DOMAIN RegionTexts(v, u)}
         \cup {LexicalRow("semantic_path", "path_component", v[u[1]].folder[k], u) :
                 k \in DOMAIN v[u[1]].folder}
         \cup UNION {{LexicalRow("semantic_identifier", f, t, u) : t \in DirectText(Inherited(v, u, f))} :
                       f \in Fields}
         : u \in Units(v)}

(* A dimension other than parsed_text is created with its first text.      *)
LexicalDims(v) ==
  {<<"intrinsic", "parsed_text">>} \cup {<<r.class, r.name>> : r \in LexicalRows(v)}

TemporalField == "journal_entry_date"
Dated(v) == IF TemporalField \in Fields
            THEN {u \in Units(v) : Present(Inherited(v, u, TemporalField))} ELSE {}
TemporalBuilds(v) ==
  \A u \in Dated(v) : /\ Inherited(v, u, TemporalField).shape = "scalar"
                      /\ Inherited(v, u, TemporalField).members[1].domain = "date"
DayOf(v, u) == Day[Inherited(v, u, TemporalField).members[1].text]

(* Units by their text, and by its name an object that has none.           *)
VectorTargets(v) ==
  {UnitNode(u) : u \in {u \in Units(v) : UnitAt(v, u).text \notin Blank}}
    \cup {ObjectNode(i) : i \in {i \in DOMAIN v : v[i].units = <<>>}}

-------------------------------------------------------------------------------
(* The graph.                                                              *)

StructuralRelations == {"contains_scope", "contains_object", "contains_region", "contains_unit"}
RelationTypes(v) ==
  {<<"structural", name>> : name \in StructuralRelations} \cup {<<"body_wikilink", "linked_to">>}
    \cup {<<"semantic_identifier", f>> : f \in {o[2] : o \in FieldLinks(v)} \ {"tags"}}

Scopes(v) == UNION {{SubSeq(v[i].folder, 1, k) : k \in DOMAIN v[i].folder} : i \in DOMAIN v}
Nodes(v) ==
  {ScopeNode(path) : path \in Scopes(v)} \cup {ObjectNode(i) : i \in DOMAIN v}
    \cup {RegionNode(r) : r \in Regions(v)} \cup {UnitNode(u) : u \in Units(v)}

Edge(class, name, source, target, place) ==
  [class |-> class, name |-> name, source |-> source, target |-> target, place |-> place]
Contains(name, source, target) == Edge("structural", name, source, target, 0)

Within(i, h) == IF h = 0 THEN ObjectNode(i) ELSE RegionNode(<<i, h>>)
StructuralEdges(v) ==
  {Contains("contains_scope", ScopeNode(SubSeq(path, 1, Len(path) - 1)), ScopeNode(path)) :
     path \in {path \in Scopes(v) : Len(path) > 1}}
  \cup {Contains("contains_object", ScopeNode(v[i].folder), ObjectNode(i)) :
          i \in {i \in DOMAIN v : v[i].folder # <<>>}}
  \cup {Contains("contains_region", Within(r[1], v[r[1]].headings[r[2]].under), RegionNode(r)) : r \in Regions(v)}
  \cup {Contains("contains_unit", Within(u[1], UnitAt(v, u).under), UnitNode(u)) : u \in Units(v)}

(* Mutant: links of one note to one target are one edge.                   *)
EdgesByTarget(v) ==
  {Edge("semantic_identifier", o[2], ObjectNode(o[1]), Target(v, FieldLink(v, o)), 0) :
     o \in {o \in FieldLinks(v) : o[2] # "tags"}}
  \cup {Edge("body_wikilink", "linked_to", UnitNode(u), Target(v, BodyLink(v, u)), 0) : u \in BodyLinks(v)}

(* One edge per authored link, whatever it repeats; tags are no topology.  *)
AuthoredEdges(v) ==
  {Edge("semantic_identifier", o[2], ObjectNode(o[1]), Target(v, FieldLink(v, o)), o[3]) :
     o \in {o \in FieldLinks(v) : o[2] # "tags"}}
  \cup {Edge("body_wikilink", "linked_to", UnitNode(u), Target(v, BodyLink(v, u)), 0) : u \in BodyLinks(v)}
Edges(v) == StructuralEdges(v) \cup AuthoredEdges(v)

DiscoveryDims(v) ==
  {<<"semantic_object", "address_text">>, <<"semantic_region", "address_text">>}
    \cup (IF "tags" \in Fields /\ v # <<>> THEN {<<"semantic_object", "tag">>} ELSE {})
DiscoveryRow(kind, name, text, node) == [kind |-> kind, name |-> name, text |-> text, node |-> node]
DiscoveryRows(v) ==
  (UNION {{DiscoveryRow("semantic_object", "address_text", t, ObjectNode(i)) : t \in {v[i].name} \cup Aliases(v[i])}
          \cup {DiscoveryRow("semantic_object", "tag", t, ObjectNode(i)) :
                  t \in UNION {DirectText(v[i].fields[f]) : f \in {"tags"} \cap Fields}}
          : i \in DOMAIN v})
  \cup {DiscoveryRow("semantic_region", "address_text", v[r[1]].headings[r[2]].text, RegionNode(r)) : r \in Regions(v)}
===============================================================================
