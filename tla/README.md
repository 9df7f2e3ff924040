# Verification of semantic-traversal

TLA+ models, TLC runs and TLAPS proofs for the runtime of semantic-traversal.

The program has two halves. *Build* turns a vault of Markdown notes into a
directory of artifacts (`substrate.sqlite3`, `vectors.npy`,
`capability_catalog.json`). *Runtime* answers the latest user message of a
conversation: a router model picks a route, a direct turn is answered at once,
a semantic turn has a model propose retrieval requests against the catalog,
judges them, executes them over the build, prepares evidence and answers.
Everything durable is in one SQLite file; a turn is one operating-system
process; several may run at once.

## 1. Inventory

| component | state it keeps | operations | talks to | what makes it correct |
|---|---|---|---|---|
| Runtime store (`runtime/conversation.py`, `model_runs.py`) | conversations, messages, `model_runs`, `retrieval_conformance`, `retrieval_executions` | append, insert / complete / fail a run, insert a verdict, insert / progress / finish an execution | every stage, one short connection each | rows move only running -> succeeded or failed, messages are append only |
| Schema migration (`conversation.py:508-702`) | `user_version`, table shapes | one migration per legacy version | any running turn on the same file | rows survive, the version matches the tables |
| Turn coordination (`orchestration.py`) | locals of one invocation | `run_current_turn` | all stages in order | a durable answer is found before any artifact is read; the first failing stage ends the turn |
| Router, inference, synthesis (`router.py`, `retrieval/inference.py`, `synthesis.py`) | claims in `model_runs` | claim, provider call outside any transaction, complete or mark failed | store, provider | one authoritative attempt per lane, no duplicate call, no stale answer |
| Conformance (`retrieval/control_plane.py`) | verdict rows | judge a proposal against the catalog it was made for | store, catalog file | one verdict for ever, equal to the one recomputed |
| Package identity (`retrieval/package.py`, `package_verification.py`) | none: the directory belongs to the operator | load, verify, compare | build directory | nothing is used that is not what was verified |
| Execution (`retrieval/execution.py`) | execution rows | admit, replay, claim, run requests, finish | store, build directory, surfaces | executed once, over the approved package, and readable afterwards |
| Evidence (`evidence_preparation.py`, `candidates.py`, `ownership_topology.py`, `selection.py`, ...) | none | compose, select, hydrate, project | execution result, substrate | capacity and owner depth respected, no selected candidate lost |
| Build (`build/`, `projection/`, `cli.py:84-154`) | the artifacts of one output directory | parse, materialize, resolve, canonicalize, index, embed, remove on failure | vault, embedding server, other builds of the directory | a completed directory is whole and its own; matrix and mapping agree; what the vault holds can be found |
| Surfaces (`projection/exact.py`, `lexical.py`, `temporal.py`, `graph.py`) | rows beside the canonical tables | build; one lookup each | substrate | a request that conforms never raises |
| Catalog (`capability_facts.py`, `catalog.py`, `capability_catalog.py`) | `capability_catalog.json` | observe facts, write, admit | substrate; conformance, package identity | what is written is admitted, describes the build and leaves nothing out |
| Providers, configuration, command line | none | one request; parsing; printing | everything | out of scope except as environment |

Hard behaviours: interleaved processes over one store; transactions that
release the lock between a lookup and the claim that relies on it; provider
calls of arbitrary length during which the operator types or replaces
artifacts; kills inside a call, lost failure marks, retries of failed
attempts; two failures in one execution; matrix and contract promoted in
several steps; a migration decided before the lock is held; two builds admitted
to one directory; a selection whose rounds, deferrals and capacity interact;
four places that know the grammar of a catalog separately. `PROJECT.json`
lists each at its line, with the properties that would notice.

## 2. Modules

The modules of the turn, from `RuntimeStore` to `TurnRuntime`, each extend the
one above; so do `Projection`, `CapabilityCatalog` and `BuildDirectory`. The
others stand alone, except that `RequestExecution` instantiates `TurnRuntime`
and `TurnRuntime` instantiates `AttemptLedger`.

| module | models |
|---|---|
| `RuntimeStore` | the tables, the row lifecycle, lanes and the lane queries |
| `RetrievalPackage` | the build directory, its identity and coherence |
| `Invocation` | a process: its program counter, its locals, raising, crashing, marking failed |
| `RouterStage` | `route_conversation` |
| `InferenceStage` | package load and verification, `infer_retrieval`, `conform_retrieval` |
| `ExecutionStage` | `execute_retrieval` as other processes see it, the identity check of `prepare_evidence` |
| `SynthesisStage` | `load_synthesis_success`, `synthesize_conversation` |
| `TurnRuntime` | processes, operator and faults together; fairness; every property |
| `MCTurnRuntime` | TLC instance (process symmetry) |
| `AttemptLedger` | the abstract promise: lanes are claimed, released, settled; an answer lands directly behind its trigger |
| `RequestExecution` (`MCRequestExecution`) | the inside of one execution: the request loop, saved progress, the strict reader of the row, the identity checks of topology and hydration one by one |
| `SchemaMigration` (`MCSchemaMigration`) | `initialize_runtime` and `migrate_runtime` for versions 0 to 7, several processes at one file |
| `VectorPublication` (`MCVectorPublication`) | `build_vector_index` replacing a published matrix and its contract |
| `EvidencePreparation` (`MCEvidencePreparation`) | `prepare_evidence` over one execution: candidates, owners, the two passes of the selection, hydration, projection |
| `Projection` | parsed vault, resolution of links, canonical records, the rows of every surface |
| `CapabilityCatalog` | facts, the catalog written from them, its admission, conformance of a request, the lookups that answer it |
| `BuildDirectory` (`MCBuildDirectory`) | `build` and `catalog generate` on one directory, several builders, failures and kills |
| `TurnRuntimeProofs`, `AnswerProofs` | theorems about the turn: types, lanes and history; then answers, evidence and the ledger |
| `RequestProofs`, `EvidenceProofs`, `SchemaMigrationProofs`, `VectorPublicationProofs` | theorems about the module each is named for |
| `CatalogProofs` | lemmas about the operators of `Projection` and `CapabilityCatalog`, for every vault and request |
| `BuildDirectoryProofs` | theorems about `BuildDirectory`; extends `CatalogProofs` |

### How the code becomes actions

* A `BEGIN IMMEDIATE .. COMMIT` is one action: SQLite's write lock excludes every
  other writer. A read outside a transaction is a step of its own when what it
  reads can still change (the verdict and execution lookups, the catalog file),
  and is merged with its neighbour when it cannot (a succeeded run, a verdict).
* A provider call is the time a process spends at `router_call`, `infer_call` or
  `synth_call`; it ends by completing the claim, or by going to `failing`, whose
  one step writes the failed status. `MarkLost` is the swallowed
  `sqlite3.Error` of that write; `Crash` is a kill at any point.
* A *lane* is what one call may be made for: `<<kind, <<conversation, trigger>>>>`
  for router and synthesis, `<<"inference", router run>>` for inference. The
  SQL `WHERE` of the three state lookups is `Attempts(lane)`.
* A message is its role and the synthesis run that wrote it (`None` for typed
  text); its ordinal is its position. A run keeps what later stages read. A
  model result is a route, or the verdict its proposal will get from the catalog
  of its row: `conform_retrieval` recomputes the same verdict each time.
* The package is a pair of content identities. The catalog is *coherent* with a
  build when verification against the observed facts would accept it; which pairs
  are is a relation given as a constant, so builds with the same facts may share
  a catalog, and a build may have several. Loading and verifying each read the
  artifacts in one step.
* In `TurnRuntime` the work of an execution is a decision, taken where the last
  identity check stands and kept in the process, and a commit; an operator may
  replace artifacts between the two. `RequestExecution` has the loop itself:
  every check, surface call and saved prefix is a step, and the property
  `StepsAreTurnSteps` shows under a mapping of its state that it takes only
  steps of `TurnRuntime`. There a request's result is the content it was read
  from; SQL reads the file opened after the claim, a vector lookup the path.
* In `SchemaMigration` a store is its version, the tables and constraints it
  has, and the rows; the statements of each migration are functions on stores
  that may fail, and a transaction commits their composition or nothing. That
  SQLite, with foreign keys on, lets a renamed table take its references
  along and refuses to drop a parent with rows pointing at it was confirmed by
  running the migration on stores of each version.
* In `VectorPublication` every file operation is a step, the build's SQLite
  transaction is a lock and a commit, and the undo path is three steps of which
  only the first runs under the lock.
* In `EvidencePreparation` a lane is the result of one request, a hit the one
  target of an occurrence or the two of a relation. The selection takes one hit
  per step, the first of every lane before the second of any; a lexical or
  vector hit whose owner used its depth is held back for a second pass over
  everything, taken when room is left; the closing endpoint of the last relation
  may exceed the capacity by one. The package does not change during one
  preparation here; that it is compared before each read is in
  `RequestExecution`.
* In `Projection` a vault is a sequence of parsed notes. Every surface is an
  operator on it because the code derives each from the canonical tables alone,
  never from another surface. A unit or region is named by its position. A text
  is a model value; folding, normalisation, words, the link in it and its day
  are functions given as constants, with at most one link in a text.
* In `BuildDirectory` each stage of `_build` is a step that may fail or be
  killed. The database is a name and the builder whose file it leads to: POSIX
  lets a connection outlive the name of its file. SQLite may refuse the next
  write to a database that was unlinked; the step of such a builder may fail or
  go on, which allows more than the code and is safe for the invariants. A failing
  stage removes both names, whoever made them; a kill removes nothing. Opening and ingesting are one step, the
  journal is abstracted, and a failed observation of the facts changes nothing.
* A conversation that does not exist is one with an empty thread: every operation
  refuses both. A full store stands for any `sqlite3.Error`: the stage raises.
* Only `run_current_turn` starts stages; the stand-alone `runtime` stage commands
  are not modelled.

## 3. Runs

Bounds are in the `.cfg` files: `RunId` bounds the model_runs table, `MaxMessages`
what the operator types (answers come on top), `Version` the artifact contents.

| run | question | bounds |
|---|---|---|
| `semantic` | the inductive invariant, authority, answers and runs one to one, replay, frozen history and the ledger over both routes and every fault | 2 processes, 1 conversation, 4 attempts, 2 messages |
| `packages` | can an execution use a package that was not approved and verified, and can a turn answer from another build than the one it verified? | 2 processes, 2 versions of each artifact replaced at any time, one catalog shared by both builds |
| `progress` | is a row left running only by a fault, is every claim of a process that survives finished, does every invocation end? | 2 processes, 3 attempts, kills, lost marks and escaping exceptions under scheduling fairness |
| `requests` | does the reader take what the writer saves, is evidence of one build, does the loop refine the turn? | 2 processes, up to 3 requests with any of them rejected, 3 contents of the build |
| `schema` | can migrators, creators and turns at one file lose a row or half upgrade it? | 3 processes, 4 runs, versions 0 to 7 |
| `vectors` | does a failed or killed rebuild lose the committed matrix? | 3 builds, every fault |
| `evidence` | does the selection respect capacity and depth, starve no lane, use its room, and can what it selects be hydrated and projected? | up to 3 lanes of up to 3 hits over 6 targets of 2 notes, capacities 0 to 3, fractions 1/4, 1/2 and 1 |
| `builds` | do overlapping builds destroy each other, is a generated catalog admitted and complete, does what conforms run, can what a build represents be found? | 1 or 2 builders, about 380 vaults of 2 notes that vary one field, placement or link at a time, about 50 requests |
| `failed_twice`, `shown_catalog`, `stale_migration`, `legacy_rows` | violations, findings 1 to 4 | smallest instances |

`requests`, `schema`, `vectors` and `builds` do not check for deadlock: their
processes make one attempt each and the system then really stops. The instances
of `evidence` and `builds` are sets of inputs chosen in their MC modules; one
execution or vault is picked in the initial state.

Why these bounds are enough for what they ask: a lane conflict needs two
processes and two attempts, a retry after a failure a third attempt, a later
turn that replays an earlier answer a fourth; a stale answer needs a second
message during the call; a mixed package needs two versions. A semantic turn
needs three attempts; an execution of another turn that looks like one's own
needs two builds that one catalog describes. A failed request needs neighbours on both sides, rejected
or not, hence three requests; a stale migrator needs one that came first and a
turn in between; a build that meets the remains of a killed one, and a third
that overlaps, need three builds. A deferral needs two hits of one owner, the
fallback room left behind it, a closure a relation at the last place: lanes of
three hits reach each of them at capacity 2 or 3. A grammar slip shows on one field in one shape or in two notes
of different shapes, so the vaults vary one field at a time; an ambiguous name
needs two notes that share it. Every action of the next-state relation fires in some
passing run, and every checked property is violated by a plausible slip of the
code (the mutants of `PROJECT.json`, operators marked *Slip* in the modules).

Fairness is `WF_vars(Step(p))` for each process: a started process is
scheduled, and its provider calls return or time out (the transport sets a
timeout). It covers the normal steps and the raises; it excludes starting a
turn, everything the operator does, and the faults. A lane whose claim lost its
process stays blocked: the specification of the runtime says a running claim is
never taken over. `progress` shows what remains true beside such lanes: a row
stays running for ever only after a kill, a lost mark or an exception that
escapes the execution (`OnlyFaultsOrphan`), a claim whose process lives is
resolved, and every invocation ends.

## 4. Findings

1. `failed_twice`: `execute_retrieval` tests the package identity after the
   request loop whatever the loop found (`execution.py:575`). A failed request
   followed by a replaced package commits a row with both failures; the module's own
   reader (`execution.py:372-381`) rejects that row for ever, although the
   specification says a terminal failed execution stays eligible for evidence
   preparation and synthesis (`docs/build_specification.md:838-840`).
2. `shown_catalog`: `infer_retrieval` reopens the catalog path between its two
   transactions (`inference.py:208`), after verification; the model can be shown
   a catalog nobody verified, which `docs/build_specification.md:823-824` rules
   out. `EvidenceIsCoherent` shows the damage is bounded: such a proposal is
   never executed over another package.

3. `stale_migration`: `migrate_runtime` reads and validates the version before it
   takes the lock (`conversation.py:611`). Of two migrators that read version 5
   the second rebuilds the version 7 tables of the first with the columns of
   version 5, passes the final validation and commits: the input, output and
   produced message of every answer written in between are gone. `schema` shows
   that this is the only way (`OnlyStaleV5Loses`): stale migrators of versions
   1 to 4 fail on a table that exists, one of version 6 repeats its work.
4. `legacy_rows`: `_migrate_v5_to_v6` drops the renamed `model_runs` while the
   renamed conformance table still references it (`conversation.py:564`). With
   one conformance row SQLite refuses and the migration of a version 4 or 5
   store rolls back every time. `schema` shows there is no other reason for a
   roll back (`RollbacksHaveReason`), and that it leaves the store whole.

Four limits of the code are stated by the models rather than as findings. The
checks of the package compare content, so a build replaced and put back between
two checks goes unnoticed; `RequestExecution` names the assumption
(`Restores = FALSE`). The verification of a package is such a pair of checks
around the observation of the facts (`package_verification.py:113-143`); it is one
step of the model, so a build exchanged for that time only is left out of it.
And `build_vector_index` removes the old matrix inside the `try` that undoes a
failure, after the commit (`vector.py:398`): an error there deletes the new
matrix although its contract is committed (`FailsLate`); builds that overlap, and
a build that follows a kill, can lose the committed matrix as well.
`FailureRestoresPair` and `CommittedMatrixExists` say what holds otherwise.
A build looks at its directory minutes before it writes there and removes both
names when it fails (`cli.py:86, 151-153`): of two builds started together the
one that fails takes the files of the other along. `OnlyOverlapDestroys` says
that nothing else does. And a field that is an empty list in every note where it
is a list, and a scalar elsewhere, has a shape without a value domain, for which
no catalog can be written (`catalog.py:94`), although the build completed and
was verified; `CatalogDescribesBuild` names that one exception.

## 5. Proofs

Every theorem holds for every value of the constants: any number of processes,
conversations, rows, requests, builders and versions, any set of faults. TLC
checked each property on a small instance first.

### The turn

`TurnRuntimeProofs` proves `TypeCorrect` (`TypeOK`) and `LocalsAlwaysMatch`
(`LocalsMatchStore`) from the inductive invariant `Inv == TypeOK /\ LocalsMatchStore`.
The type invariant alone is not inductive: completing a claim gives a well-typed
row only if the claimed row is a running one of the kind of the call, which is
what `LocalsMatchStore` says of the process's locals. In turn the claim of one
process survives a step of another because owners are distinct. The lemmas
follow that argument: a step changes at most one row and only in the legal
direction (`OneRowMoves`), a thread only grows, the verdict and execution tables
only grow or finish.

Its second half builds on that: `AuthorityIsUnique` (`OneAuthority`), `CallsAreUnique`
(`NoDuplicateProviderCall`, from unique authority and the ownership of claims),
`HistoryStaysFrozen` (`HistoryIsFrozen`), and `OnlyFaultsEverOrphan`
(`OnlyFaultsOrphan`: each action hands a claim on or ends it, `KeepsClaims`).

`AnswerProofs` uses that history does not change (`Frozen`). Four
strengthenings carry its theorems about answers and evidence:

* `Grounded`: every synthesis run was asked the thread up to its trigger
  (`Asked`) and rests on a finished router run and, for a semantic turn, an
  approved and finished retrieval (`Founded`). With unique authority it gives
  `AnswersAlwaysMatch`, and, since nothing it names can change, the replay of
  every durable answer, `AnswersAreAlwaysReadable`.
* `Serves`: a process that holds an answer holds the one of its router run's
  lane. It gives `ReturnedAnswersAreDurable`.
* `Admitted` and `Trusts`: an execution, and a process that has verified a
  package, know a catalog that describes the build. They give
  `EvidenceIsAlwaysCoherent`.
* `Backed`: a turn on its way to an answer carries a proposal made under its
  router run and, once that is executed, an execution over the package it
  verified. It gives `EvidenceIsAlwaysOfVerifiedBuild`: that a replayed answer
  stands on the same execution needs unique authority again, since only then does
  a router run have one proposal.

`RuntimeIsLedger` is the refinement: every step of the turn runtime is a step of
`AttemptLedger` or invisible there. That a lane is claimed by one call and settled
once is unique authority and frozen history; that an answer is put directly behind
its message is `AnswersMatchRuns`. `LedgerInv` adds that every lane a run has is one
of the ledger's, since user messages lie within `MaxMessages` (`UsersFit`, `LanesFit`).

### One execution

`RequestProofs` proves `RequestTypeCorrect`, `ReaderAlwaysTakesWriter` and
`OutcomesAlwaysGrow` from `ReqInv`. The invariant says what the outcomes look like
at each place of the loop (`Clean` before any failure, `FailedAt` or `ChangedAt`
the request that ended it), that at most one process runs the row, and that the
row holds a prefix of what that process found. Each way the loop can end is then
compared with what the reader demands (`CommittedReads`); the row with both
failures is the case the reader refuses, finding 1.

`SuccessAlwaysReadsOneBuild` and `EvidenceAlwaysFromPackage` come from `BuildInv`
under `Restores = FALSE`: contents that left the disk are `gone` for good, so a
package still on the disk was there all the time, and whatever was opened or
read in between came from it (`Fresh`, `RowFresh`). Without the assumption the
statements are false, see section 4.

`LoopTakesTurnSteps` proves `StepsAreTurnSteps` from `ReqInv`, so what is proved of
executions in the turn holds of the request loop: the loop and its partial writes
are invisible (`LoopMaps`, `ProgressMaps`), leaving it is the turn's decision
(`DecidesMaps`), and the final update is read back exactly when the turn calls the
row readable (`CommitsMaps`).

`EvidenceProofs` proves `EvidenceTypeCorrect`, `SelectionAlwaysFits` (from `Fits`:
while the selection runs there is room and the closure is unused),
`OwnerDepthAlwaysHolds` (the counters kept by the code agree with the admitted
list) and `PreparationNeverRaises`, for every execution, capacity and fraction.
`AdmissionIsBreadthFirst` and `RoomIsAlwaysUsed` need more: `Fair` says that what
the first pass has visited is selected or held back by an owner at its limit, that
the fallback starts with nothing else left out, and that no target is admitted
twice. `SupportIsAlwaysComplete` follows the composition (`Supporting`: what it has
visited precedes what it has not), `EvidenceIsAlwaysClosed` the two loops after the
selection (`Closing`: the rows read and the contexts opened so far are those of the
targets passed, each once).

### Store and build

`SchemaMigrationProofs` proves `ShapeAlwaysMatchesVersion`, `RowsAlwaysSurvive`,
`OnlyStaleV5EverLoses` and `RollbacksAlwaysHaveReason`. Its invariant has two parts
that none of them states: a migrator waiting for the lock finds the version it
read or the current one, never another (`Ready`), and stores of old versions
hold no row of a later kind (`OldRows`).

`VectorPublicationProofs` proves `PublicationTypeCorrect`,
`FailureAlwaysRestoresPair` and `CommittedMatrixAlwaysExists`. Neither of the last
two is inductive: between setting the old matrix aside and the commit the file
and the contract differ. The invariant `IInv` follows the one build that is
`Engaged`, has touched the pair, and says for each of its steps what undoing it
would leave in place (`Undoing`); a build that failed while it waited for the
write lock is not engaged and disturbs nothing (`IdleStep`). It holds as long as
no build overlapped another, failed after its commit, or began after a kill.

`BuildDirectoryProofs` proves `DirectoryTypeCorrect` and `OnlyOverlapEverDestroys`.
That a finished build keeps its files needs that nobody else was at work when it
finished: builders at work together know of each other (`Met`), and one that met
nobody owns the database from the stage that makes it (`Undisturbed`).

Its other three theorems, `CatalogAlwaysDescribesBuild`, `ConformingRequestsAlwaysRun`
and `RepresentedIsAlwaysReachable`, are about what is in the files. The steps
contribute little: `CInv` says that a stage is committed only if the vault lets it
be (`Gated`: who wrote exact rows had a vault without structured members, and so
on), and that what was generated, and asked, was generated from such a vault
(`Recorded`). It is not implied by the type invariant, and none of the three
follows without it: a catalog of a vault that no surface was derived from need not
be admitted. TLC checked `CInv` on the instance of `builds` first. The rest are
lemmas of `CatalogProofs` about the operators, for any vault, any set of fields and
any request:

* `GeneratedIsAdmitted`: the accesses generation writes for a dimension are those
  admission's grammar demands of its value model, for an identifier of any mixture
  of shapes and domains (`IdentifierGrammarAgrees`) and for each fixed dimension
  (`FixedAdmitted`). `RepresentedIsShown` and `RejectedHasReason` complete the
  first theorem: what has a value is shown, and generation is refused for a
  missing description or a shape without a domain only.
* `ConformingNeverRaises`: an access in the catalog is one its surface was built
  for (`LicensedAccess`), and what `requests.py` canonicalised and `_request_violations`
  passed leaves no operand the surface refuses.
* `ValuesReach`, `NamesReach`, `LinksReach`, `ForestReach`: for each value, name,
  link and node one request that is well formed, conforms and returns it. That a
  link is exactly one edge needs that two links never make the same edge
  (`AuthoredOnce`); that containment is a forest, that the scopes are closed under
  prefixes (`ScopePrefix`) and that a region's parent is an earlier one
  (`WithinIsNode`).

### Assumptions and what is only model-checked

Assumptions: `StoreAssumption` (NULL is not a value), `FaultAssumption`,
`RouteAssumption`, `RequestAssumption`, `MappingAssumption` and
`MigrationAssumption` (NULL is not a row), `EvidenceAssumption` (every target but
a scope has an owning object), `PublicationAssumption`, `BuilderAssumption` (a
vault is what the parser returns: typed notes whose regions and units stand under
earlier regions, `IsVault`) and `TextAssumption` (finitely many fields, a text has
a sequence of words, a text of white space none, dates are ordered like integers);
TLC evaluates each. Folding, normalisation, words and the link in a text are
otherwise arbitrary functions.

Every safety invariant and every action property a passing run checks is stated by
a theorem. Only model-checked: liveness (`ClaimsResolve`, `InvocationsEnd`), which
is beyond the prover because fairness needs ENABLED, and the four violations, each
of which TLC shows on an instance.

## 6. Plan

The order was what a turn may do to the durable state of another, since that is
where the program is concurrent; then one execution and the evidence made from
it; then what stands alone (migration, vector publication); then the build and
the catalog both halves meet in. All of these modules are in place.

Left, in this order:

1. A vector lookup beside a build that replaces the matrix.
2. The greedy segmentation of `vector.py` over an abstract acceptance
   predicate: segments concatenate to the input and each is accepted.

## 7. Not modelled

* Model providers, prompts and configuration: one request and the validation
  of its response; to the stages a call answers or raises.
* The tokenisation of Markdown and YAML: sequential string handling without
  state beyond its result. What a parsed note is, and what makes the parser
  refuse a vault, is in `Projection`.
* The value codec of the substrate and the provenance checks between records
  that one pass produced itself.
* Embedding, segmentation and cosine ranking: an opaque provider and floating
  point. Which targets are embedded, and publication, are modelled.
* Scores and order of FTS hits, which belong to SQLite. Which rows match is
  modelled.
* Graph traversal beyond one relation, reached only from the command line, and
  the inspection commands, argument parsing and printing there.
* The stand-alone `runtime` stage commands; `run_current_turn` makes the same
  calls in order.
