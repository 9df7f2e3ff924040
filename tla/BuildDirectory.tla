---------------------------- MODULE BuildDirectory -----------------------------
(***************************************************************************)
(* The build command on one output directory (cli.py, _build), the catalog *)
(* generated from what it left there, and requests asked of both.  A build *)
(* is admitted only to an empty directory, writes substrate.sqlite3 stage  *)
(* by stage through one connection and then vectors.npy, and on any error  *)
(* unlinks both names, whoever made the files.  A connection outlives the  *)
(* name of its file.  SQLite may refuse the next write of a build whose    *)
(* file was unlinked; here it fails or goes on, which allows more.         *)
(***************************************************************************)
EXTENDS CapabilityCatalog

CONSTANTS
  Builder,     \* runs of the build command
  Scenarios,   \* the vault of each builder, None for a run that never starts
  Described,   \* sets of fields a catalog configuration may describe
  Requests     \* what the retrieval model may propose

ASSUME BuilderAssumption ==
  /\ None \notin Builder
  /\ \A s \in Scenarios : \A b \in Builder : s[b] # None => IsVault(s[b])

Stages == {"substrate", "exact", "lexical", "graph", "temporal", "vector"}
Working == Stages \cup {"ingest", "verify"}
Ended == {"complete", "failed", "refused", "killed"}

VARIABLES
  vault,      \* the vault each builder reads
  pc,         \* the stage a builder is about to run, or how it ended
  made,       \* the stages committed to a builder's own database
  substrate,  \* the builder whose database substrate.sqlite3 names
  vectors,    \* the vault vectors.npy embeds
  rivals,     \* (history) builders at work at the same time
  catalog,    \* the generated catalog file
  generated,  \* (history) how generation ended, and with what described
  asked       \* (history) a request and what became of it

files == <<substrate, vectors>>
builds == <<vault, pc, made, substrate, vectors, rivals>>
use == <<catalog, generated, asked>>
vars == <<builds, use>>

NotGenerated == [outcome |-> "none", described |-> {}, of |-> None]
NotAsked == [outcome |-> "none"]

Init ==
  /\ vault \in Scenarios
  /\ pc = [b \in Builder |-> "start"]
  /\ made = [b \in Builder |-> {}]
  /\ substrate = None /\ vectors = None
  /\ rivals = [b \in Builder |-> {}]
  /\ catalog = None /\ generated = NotGenerated /\ asked = NotAsked

Vacant == substrate = None /\ vectors = None
AtWork(b) == pc[b] \in Working
Goto(b, stage) == pc' = [pc EXCEPT ![b] = stage]

-------------------------------------------------------------------------------
(* The freshness check is made once, and outside the clean-up.             *)
Enters(b) ==
  /\ pc[b] = "start" /\ vault[b] # None /\ Vacant
  /\ Goto(b, "ingest")
  /\ rivals' = [c \in Builder |->
                  IF c = b THEN rivals[b] \cup {d \in Builder : AtWork(d)}
                  ELSE IF AtWork(c) THEN rivals[c] \cup {b} ELSE rivals[c]]
  /\ UNCHANGED <<vault, made, files, use>>

(* Mutant: the check is made inside the clean-up.                          *)
RefusesAndCleans(b) ==
  /\ pc[b] = "start" /\ vault[b] # None /\ ~Vacant
  /\ Goto(b, "refused")
  /\ substrate' = None /\ vectors' = None
  /\ UNCHANGED <<vault, made, rivals, use>>

IsRefused(b) ==
  /\ pc[b] = "start" /\ vault[b] # None /\ ~Vacant
  /\ Goto(b, "refused")
  /\ UNCHANGED <<vault, made, files, rivals, use>>

Ingest(b) ==
  /\ pc[b] = "ingest" /\ Ingests(vault[b])
  /\ Goto(b, "substrate")
  /\ UNCHANGED <<vault, made, files, rivals, use>>

(* The tables are created without IF NOT EXISTS: another builder's file    *)
(* under the name makes this fail.                                         *)
WriteSubstrate(b) ==
  /\ pc[b] = "substrate" /\ substrate = None
  /\ substrate' = b
  /\ made' = [made EXCEPT ![b] = {"substrate"}]
  /\ Goto(b, "exact")
  /\ UNCHANGED <<vault, vectors, rivals, use>>

(* Mutant: the stage is not committed.                                     *)
DerivesUncommitted(b, stage, next) ==
  /\ pc[b] = stage
  /\ Goto(b, next)
  /\ UNCHANGED <<vault, made, substrate, rivals, use>>

(* A surface is derived through the connection, named or not.              *)
Derives(b, stage, next) ==
  /\ pc[b] = stage
  /\ made' = [made EXCEPT ![b] = @ \cup {stage}]
  /\ Goto(b, next)
  /\ UNCHANGED <<vault, substrate, rivals, use>>

BuildExact(b) == Derives(b, "exact", "lexical") /\ ExactBuilds(vault[b]) /\ UNCHANGED vectors
BuildLexical(b) == Derives(b, "lexical", "graph") /\ UNCHANGED vectors
BuildGraph(b) == Derives(b, "graph", "temporal") /\ UNCHANGED vectors
BuildTemporal(b) == Derives(b, "temporal", "vector") /\ TemporalBuilds(vault[b]) /\ UNCHANGED vectors
BuildVectors(b) == Derives(b, "vector", "verify") /\ vectors' = vault[b]

(* Integrity is checked on the open connection and the named matrix.       *)
Verify(b) ==
  /\ pc[b] = "verify" /\ vectors = vault[b]
  /\ Goto(b, "complete")
  /\ UNCHANGED <<vault, made, files, rivals, use>>

(* Any exception: a stage the vault does not allow, the provider, the disk. *)
Fails(b) ==
  /\ AtWork(b)
  /\ Goto(b, "failed")
  /\ substrate' = None /\ vectors' = None
  /\ UNCHANGED <<vault, made, rivals, use>>

(* No exception handler runs.                                              *)
Killed(b) ==
  /\ AtWork(b)
  /\ Goto(b, "killed")
  /\ UNCHANGED <<vault, made, files, rivals, use>>

-------------------------------------------------------------------------------
(* Facts need every surface, without one observation raises and nothing    *)
(* changes; whether the build was verified is not asked.                   *)
Observable ==
  /\ substrate # None /\ vectors # None
  /\ Stages \subseteq made[substrate] /\ vectors = vault[substrate]

Generation(outcome, described) == [outcome |-> outcome, described |-> described, of |-> vault[substrate]]

GenerateCatalog(described) ==
  /\ generated = NotGenerated /\ Observable
  /\ \/ /\ Generates(vault[substrate], described)
        /\ catalog' = Catalog(vault[substrate])
        /\ generated' = Generation("written", described)
     \/ /\ ~Generates(vault[substrate], described)
        /\ generated' = Generation("rejected", described)
        /\ UNCHANGED catalog
  /\ UNCHANGED <<builds, asked>>

(* A turn admits the catalog and verifies that it describes this build.    *)
InUse == /\ catalog # None /\ Observable
         /\ Admitted(catalog) /\ catalog = Catalog(vault[substrate])

(* One request through conformance and, if valid, the surface.             *)
Ask(r) ==
  /\ asked = NotAsked /\ InUse /\ WellFormed(r)
  /\ asked' = [outcome |-> IF ~Conforms(catalog, r) THEN "invalid"
                           ELSE IF SurfaceRaises(vault[substrate], r) THEN "raised" ELSE "answered",
               request |-> r]
  /\ UNCHANGED <<builds, catalog, generated>>

BuildStep(b) ==
  \/ Enters(b) \/ IsRefused(b) \/ Ingest(b) \/ WriteSubstrate(b)
  \/ BuildExact(b) \/ BuildLexical(b) \/ BuildGraph(b) \/ BuildTemporal(b) \/ BuildVectors(b)
  \/ Verify(b) \/ Fails(b) \/ Killed(b)

Next ==
  \/ \E b \in Builder : BuildStep(b)
  \/ \E described \in Described : GenerateCatalog(described)
  \/ \E r \in Requests : Ask(r)

Spec == Init /\ [][Next]_vars

-------------------------------------------------------------------------------
(* The directory: who may have made each file, and what is recorded.       *)
TypeOK ==
  /\ vault \in Scenarios
  /\ pc \in [Builder -> Working \cup Ended \cup {"start"}]
  /\ made \in [Builder -> SUBSET Stages]
  /\ substrate \in Builder \cup {None}
  /\ vectors = None \/ \E b \in Builder : vectors = vault[b] /\ "vector" \in made[b]
  /\ rivals \in [Builder -> SUBSET Builder]
  /\ substrate # None => "substrate" \in made[substrate]

(* A build reported complete keeps both artifacts, whole and its own, and  *)
(* a failed build leaves no database behind, unless builds were admitted   *)
(* to the directory at the same time (cli.py:86, 151-153).                 *)
OnlyOverlapDestroys ==
  \A b \in Builder :
    /\ pc[b] = "complete" /\ rivals[b] = {} => substrate = b /\ made[b] = Stages /\ vectors = vault[b]
    /\ pc[b] = "failed" => substrate # b

(* Fields a retrieval could meet, read off the vault.                      *)
Shown(v, f) ==
  \/ \E u \in Units(v) : Members(Inherited(v, u, f)) # {}
  \/ f # "tags" /\ \E o \in FieldLinks(v) : o[2] = f
EmptyListBesideScalar(v, f) ==
  /\ \E u \in Units(v) : Inherited(v, u, f).shape = "sequence"
  /\ \E u \in Units(v) : Inherited(v, u, f).shape = "scalar"
  /\ \A u \in Units(v) : Inherited(v, u, f).shape = "sequence" => Members(Inherited(v, u, f)) = {}

(* What generation writes, admission accepts: the two grammars agree on    *)
(* every build.  A catalog describes every field shown.  A finished build  *)
(* is refused a catalog for a field not described, or for one whose only   *)
(* lists are empty while other notes give it a scalar (catalog.py:94).    *)
CatalogDescribesBuild ==
  /\ generated.outcome = "written" =>
       Admitted(catalog) /\ \A f \in Fields : Shown(generated.of, f) => f \in generated.described
  /\ generated.outcome = "rejected" =>
       \E f \in Fields : \/ Shown(generated.of, f) /\ f \notin generated.described
                         \/ EmptyListBesideScalar(generated.of, f)

(* A request conformance accepts never fails at its surface for a          *)
(* dimension that was not built or an operand the lookup cannot take.      *)
ConformingRequestsRun == asked.outcome # "raised"

Request(operator, class, name, target, domain, parts) ==
  [operator |-> operator, class |-> class, name |-> name, target |-> target,
   shape |-> "scalar", domain |-> domain, parts |-> parts]
Phrase(class, name, target, text) == Request("lexical.phrase", class, name, target, "string", <<text>>)
Discovery(kind, name, text) == Request("graph.discovery.phrase", kind, name, "none", "string", <<text>>)

Retrieves(v, r, node) == WellFormed(r) /\ Conforms(catalog, r) /\ ~SurfaceRaises(v, r) /\ node \in Found(v, r)

ValuesReachable(v) ==
  \A u \in Units(v), f \in Fields :
    /\ \A a \in Members(Inherited(v, u, f)) :
         \E target \in {"complete_value", "member"} :
           /\ Retrieves(v, Request("exact.equals", "semantic_identifier", f, target, a.domain, <<a.text>>), UnitNode(u))
           /\ a.domain = "string" /\ Words[a.text] # <<>> =>
                Retrieves(v, Phrase("semantic_identifier", f, target, a.text), UnitNode(u))
    /\ f = TemporalField /\ Present(Inherited(v, u, f)) =>
         Retrieves(v, Request("temporal.ordered", "semantic_identifier", f, "complete_value", "date", <<>>), UnitNode(u))

NamesReachable(v) ==
  /\ \A i \in DOMAIN v : \A t \in {v[i].name} \cup Aliases(v[i]) :
       Words[t] # <<>> => Retrieves(v, Discovery("semantic_object", "address_text", t), ObjectNode(i))
  /\ \A x \in Regions(v) :
       LET t == v[x[1]].headings[x[2]].text
       IN Words[t] # <<>> => Retrieves(v, Discovery("semantic_region", "address_text", t), RegionNode(x))

Lookup(class, name) == Request("graph.relation_occurrence_lookup", class, name, "none", "string", <<>>)
OneEdge(v, class, name, source, target, place) ==
  /\ Conforms(catalog, Lookup(class, name)) /\ ~SurfaceRaises(v, Lookup(class, name))
  /\ Edge(class, name, source, target, place) \in Occurrences(v, Lookup(class, name))

(* The note a link addresses must be the edge's target, whatever the       *)
(* resolution did to find it: its folded name or alias, or its address.    *)
Addresses(v, link, node) ==
  LET note == v[node[2][1]]
  IN /\ IF link.path # <<>> THEN note.folder \o <<note.name>> = link.path \o <<link.name>>
        ELSE Folded[link.name] \in {Folded[t] : t \in {note.name} \cup Aliases(note)}
     /\ link.fragment # None =>
          /\ node[1] = "semantic_region"
          /\ RegionKey[note.headings[node[2][2]].text] = RegionKey[link.fragment]

LinksReachable(v) ==
  /\ \A o \in FieldLinks(v) : o[2] # "tags" =>
       \E node \in Nodes(v) : /\ OneEdge(v, "semantic_identifier", o[2], ObjectNode(o[1]), node, o[3])
                              /\ Addresses(v, FieldLink(v, o), node)
  /\ \A u \in BodyLinks(v) :
       \E node \in Nodes(v) : /\ OneEdge(v, "body_wikilink", "linked_to", UnitNode(u), node, 0)
                              /\ Addresses(v, BodyLink(v, u), node)
  /\ Cardinality(AuthoredEdges(v)) = Cardinality({o \in FieldLinks(v) : o[2] # "tags"}) + Cardinality(BodyLinks(v))

(* Below the top, every node has one container, found by a lookup.         *)
ContainmentIsForest(v) ==
  \A n \in Nodes(v) :
    LET above == {e \in UNION {Occurrences(v, Lookup("structural", name)) : name \in StructuralRelations} : e.target = n}
        atTop == \/ n[1] = "scope" /\ Len(n[2]) = 1
                 \/ n[1] = "semantic_object" /\ v[n[2][1]].folder = <<>>
    IN /\ Cardinality(above) = IF atTop THEN 0 ELSE 1
       /\ \A e \in above : e.source \in Nodes(v)

(* Nothing a build represents is out of a conforming request's reach: each *)
(* member of each unit value, each name, each authored link as one edge to *)
(* the place it addresses, and each node in its container.                 *)
RepresentedIsReachable ==
  InUse /\ asked = NotAsked =>
    LET v == vault[substrate]
    IN ValuesReachable(v) /\ NamesReachable(v) /\ LinksReachable(v) /\ ContainmentIsForest(v)
===============================================================================
