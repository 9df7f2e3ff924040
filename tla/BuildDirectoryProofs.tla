------------------------- MODULE BuildDirectoryProofs -------------------------
(***************************************************************************)
(* Theorems on the output directory for any number of builders, whatever   *)
(* vaults they read and whatever fails.  OnlyOverlapDestroys is not        *)
(* inductive: that a finished build keeps its files needs that nobody else *)
(* was at work when it finished, which is what rivals records.  What is    *)
(* said of the catalog and of the requests rests on CInv: every stage a    *)
(* database holds is one its vault allowed, and the catalog file is the    *)
(* one of a vault every stage allowed.                                     *)
(***************************************************************************)
EXTENDS CatalogProofs

(* The stages a builder has committed when it stands at a stage.           *)
Committed(stage) ==
  IF stage \in {"start", "ingest", "substrate"} THEN {}
  ELSE IF stage = "exact" THEN {"substrate"}
  ELSE IF stage = "lexical" THEN {"substrate", "exact"}
  ELSE IF stage = "graph" THEN {"substrate", "exact", "lexical"}
  ELSE IF stage = "temporal" THEN {"substrate", "exact", "lexical", "graph"}
  ELSE IF stage = "vector" THEN {"substrate", "exact", "lexical", "graph", "temporal"}
  ELSE Stages

Writing == {"exact", "lexical", "graph", "temporal", "vector", "verify"}

(* The directory is typed, without the history of its use.                 *)
Typed ==
  /\ vault \in Scenarios
  /\ pc \in [Builder -> Working \cup Ended \cup {"start"}]
  /\ made \in [Builder -> SUBSET Stages]
  /\ substrate \in Builder \cup {None}
  /\ rivals \in [Builder -> SUBSET Builder]

(* Stages are committed in order, each once.                               *)
InOrder == \A b \in Builder : pc[b] \in Working \cup {"start", "complete"} => made[b] = Committed(pc[b])

(* Each file was made by a builder that reached the stage.                 *)
Authored ==
  /\ substrate # None => "substrate" \in made[substrate]
  /\ vectors = None \/ \E b \in Builder : vectors = vault[b] /\ "vector" \in made[b]
  /\ \A b \in Builder : pc[b] = "failed" => substrate # b

(* Builders at work together know of each other.                           *)
Met == \A b, c \in Builder : AtWork(b) /\ AtWork(c) /\ b # c => c \in rivals[b]

(* A builder nobody met owns the database from the stage that makes it on, *)
(* and once it is complete nobody is at work.                              *)
Owns(b) == rivals[b] = {} /\ pc[b] \in Writing \cup {"complete"} => substrate = b
Keeps(b) == rivals[b] = {} /\ pc[b] = "complete" => vectors = vault[b] /\ \A c \in Builder : ~AtWork(c)
Undisturbed == \A b \in Builder : Owns(b) /\ Keeps(b)

IInv == Typed /\ InOrder /\ Authored /\ Met /\ Undisturbed

(* At the start no builder has begun.                                      *)
LEMMA InitIInv == Init => IInv
<1> SUFFICES ASSUME Init PROVE IInv
  OBVIOUS
<1>1. Typed
  BY DEF Init, Typed
<1>2. InOrder
  BY DEF Init, InOrder, Committed
<1>3. Authored /\ Met /\ Undisturbed
  BY DEF Init, Authored, Met, Undisturbed, Owns, Keeps, AtWork, Working, Stages, Writing
<1> QED
  BY <1>1, <1>2, <1>3 DEF IInv

(* A builder at work moves on or ends: it meets nobody new.                *)
LEMMA StaysMet ==
  ASSUME IInv, NEW b \in Builder, NEW stage, AtWork(b), Goto(b, stage), rivals' = rivals
  PROVE  Met'
BY DEF IInv, Typed, Met, AtWork, Goto

(* What it does to the files can only concern builders that met it.        *)
LEMMA OthersUndisturbed ==
  ASSUME IInv, NEW b \in Builder, NEW stage, AtWork(b), Goto(b, stage), rivals' = rivals,
         NEW c \in Builder, c # b
  PROVE  (Owns(c) /\ Keeps(c))'
<1>1. pc'[c] = pc[c] /\ rivals'[c] = rivals[c]
  BY DEF IInv, Typed, Goto
<1> SUFFICES ASSUME rivals[c] = {} PROVE ~AtWork(c) /\ pc[c] # "complete"
  BY <1>1 DEF Owns, Keeps, AtWork, Working, Stages, Writing
<1>2. ~AtWork(c)
  BY DEF IInv, Met
<1>3. pc[c] # "complete"
  BY DEF IInv, Undisturbed, Keeps
<1> QED
  BY <1>2, <1>3

(* A derived surface is one more committed stage.                          *)
LEMMA DerivesKeeps ==
  ASSUME IInv, NEW b \in Builder, NEW stage \in Writing \ {"verify"}, NEW next \in Writing,
         Derives(b, stage, next), Committed(next) = Committed(stage) \cup {stage}, "vector" = stage \/ vectors' = vectors,
         "vector" = stage => vectors' = vault[b]
  PROVE  IInv'
<1>1. AtWork(b) /\ Goto(b, next) /\ rivals' = rivals /\ vault' = vault /\ substrate' = substrate
  BY DEF Derives, AtWork, Working, Stages, Writing
<1>2. made' = [made EXCEPT ![b] = @ \cup {stage}] /\ pc' = [pc EXCEPT ![b] = next]
  BY DEF Derives, Goto
<1>3. Typed'
  BY <1>1, <1>2 DEF IInv, Typed, Working, Stages, Writing
<1>4. InOrder'
  <2> SUFFICES ASSUME NEW c \in Builder, pc'[c] \in Working \cup {"start", "complete"}
               PROVE  made'[c] = Committed(pc'[c])
    BY DEF InOrder
  <2>1. CASE c = b
    <3>1. pc[b] = stage /\ made[b] = Committed(stage)
      BY <1>1 DEF IInv, InOrder, Derives, AtWork
    <3> QED
      BY <1>2, <2>1, <3>1 DEF IInv, Typed
  <2>2. CASE c # b
    BY <1>2, <2>2 DEF IInv, Typed, InOrder
  <2> QED
    BY <2>1, <2>2
<1>5. Authored'
  <2>1. \A c \in Builder : made[c] \subseteq made'[c]
    BY <1>2 DEF IInv, Typed
  <2>2. substrate' # None => "substrate" \in made'[substrate']
    BY <1>1, <2>1 DEF IInv, Typed, Authored
  <2>3. vectors' = None \/ \E c \in Builder : vectors' = vault'[c] /\ "vector" \in made'[c]
    <3>1. CASE stage = "vector"
      BY <1>1, <1>2, <3>1 DEF IInv, Typed
    <3>2. CASE stage # "vector"
      BY <1>1, <2>1, <3>2 DEF IInv, Authored
    <3> QED
      BY <3>1, <3>2
  <2>4. \A c \in Builder : pc'[c] = "failed" => substrate' # c
    BY <1>1, <1>2 DEF IInv, Typed, Authored, Writing
  <2> QED
    BY <2>2, <2>3, <2>4 DEF Authored
<1>6. Met'
  BY <1>1, StaysMet
<1>7. Undisturbed'
  <2>1. \A c \in Builder : c # b => (Owns(c) /\ Keeps(c))'
    BY <1>1, OthersUndisturbed
  <2>2. (Owns(b) /\ Keeps(b))'
    <3>1. pc'[b] = next /\ pc[b] = stage
      BY <1>2 DEF IInv, Typed, Derives
    <3>2. rivals[b] = {} => substrate = b
      BY <3>1 DEF IInv, Undisturbed, Owns
    <3> QED
      BY <1>1, <3>1, <3>2 DEF Owns, Keeps, Writing
  <2> QED
    BY <2>1, <2>2 DEF Undisturbed
<1> QED
  BY <1>3, <1>4, <1>5, <1>6, <1>7 DEF IInv

(* Any step of the builders.                                               *)
LEMMA EntersKeeps ==
  ASSUME IInv, NEW b \in Builder, Enters(b)
  PROVE  IInv'
<1> USE BuilderAssumption
<1>1. pc[b] = "start" /\ pc' = [pc EXCEPT ![b] = "ingest"] /\ vault' = vault /\ made' = made
      /\ substrate = None /\ vectors = None /\ substrate' = substrate /\ vectors' = vectors
  BY DEF Enters, Goto, Vacant, files
<1>2. rivals' = [c \in Builder |->
                   IF c = b THEN rivals[b] \cup {d \in Builder : AtWork(d)}
                   ELSE IF AtWork(c) THEN rivals[c] \cup {b} ELSE rivals[c]]
  BY DEF Enters
<1>3. Typed'
  BY <1>1, <1>2 DEF IInv, Typed, Working
<1>4. InOrder'
  BY <1>1 DEF IInv, Typed, InOrder, Committed, Working
<1>5. Authored'
  BY <1>1 DEF IInv, Typed, Authored
<1>6. Met'
  <2> SUFFICES ASSUME NEW c \in Builder, NEW d \in Builder, AtWork(c)', AtWork(d)', c # d
               PROVE  d \in rivals'[c]
    BY DEF Met
  <2>1. CASE c = b
    BY <1>1, <1>2, <2>1 DEF IInv, Typed, AtWork
  <2>2. CASE c # b /\ d = b
    BY <1>1, <1>2, <2>2 DEF IInv, Typed, AtWork
  <2>3. CASE c # b /\ d # b
    BY <1>1, <1>2, <2>3 DEF IInv, Typed, AtWork, Met
  <2> QED
    BY <2>1, <2>2, <2>3
<1>7. Undisturbed'
  <2> SUFFICES ASSUME NEW c \in Builder PROVE (Owns(c) /\ Keeps(c))'
    BY DEF Undisturbed
  <2>1. CASE c = b
    BY <1>1, <2>1 DEF IInv, Typed, Owns, Keeps, Writing
  <2>2. CASE c # b /\ AtWork(c)
    BY <1>1, <1>2, <2>2 DEF IInv, Typed, Owns, Keeps
  <2>3. CASE c # b /\ ~AtWork(c)
    <3>1. pc'[c] = pc[c] /\ rivals'[c] = rivals[c]
      BY <1>1, <1>2, <2>3 DEF IInv, Typed
    <3>2. ~(rivals[c] = {} /\ pc[c] \in Writing \cup {"complete"})
      BY <1>1 DEF IInv, Undisturbed, Owns
    <3> QED
      BY <3>1, <3>2 DEF Owns, Keeps
  <2> QED
    BY <2>1, <2>2, <2>3
<1> QED
  BY <1>3, <1>4, <1>5, <1>6, <1>7 DEF IInv

(* The database is made by one builder, which then owns it.                *)
LEMMA WriteSubstrateKeeps ==
  ASSUME IInv, NEW b \in Builder, WriteSubstrate(b)
  PROVE  IInv'
<1> USE BuilderAssumption
<1>1. pc[b] = "substrate" /\ pc' = [pc EXCEPT ![b] = "exact"] /\ made' = [made EXCEPT ![b] = {"substrate"}]
      /\ substrate' = b /\ vault' = vault /\ vectors' = vectors /\ rivals' = rivals
  BY DEF WriteSubstrate, Goto
<1>2. AtWork(b) /\ Goto(b, "exact") /\ rivals' = rivals
  BY <1>1 DEF WriteSubstrate, AtWork, Working, Stages
<1>3. Typed'
  BY <1>1 DEF IInv, Typed, Working, Stages
<1>4. InOrder'
  BY <1>1 DEF IInv, Typed, InOrder, Committed
<1>5. Authored'
  <2>1. made[b] = {}
    BY <1>1 DEF IInv, InOrder, Committed, Working, Stages
  <2>2. \A c \in Builder : made[c] \subseteq made'[c]
    BY <1>1, <2>1 DEF IInv, Typed
  <2> QED
    BY <1>1, <2>2 DEF IInv, Typed, Authored
<1>6. Met'
  BY <1>2, StaysMet
<1>7. Undisturbed'
  <2>1. \A c \in Builder : c # b => (Owns(c) /\ Keeps(c))'
    BY <1>2, OthersUndisturbed
  <2>2. (Owns(b) /\ Keeps(b))'
    BY <1>1 DEF IInv, Typed, Owns, Keeps
  <2> QED
    BY <2>1, <2>2 DEF Undisturbed
<1> QED
  BY <1>3, <1>4, <1>5, <1>6, <1>7 DEF IInv

(* A builder ends, or passes a stage that writes nothing.                  *)
LEMMA MovesKeeps ==
  ASSUME IInv, NEW b \in Builder, NEW stage \in {"substrate", "complete", "killed"},
         AtWork(b), Goto(b, stage), made' = made, vault' = vault, rivals' = rivals,
         substrate' = substrate, vectors' = vectors,
         stage = "substrate" => pc[b] = "ingest",
         stage = "complete" => pc[b] = "verify" /\ vectors = vault[b]
  PROVE  IInv'
<1>1. pc' = [pc EXCEPT ![b] = stage]
  BY DEF Goto
<1>2. Typed'
  BY <1>1 DEF IInv, Typed, Working, Stages, Ended
<1>3. InOrder'
  BY <1>1 DEF IInv, Typed, InOrder, Committed, Working, Stages
<1>4. Authored'
  BY <1>1 DEF IInv, Typed, Authored
<1>5. Met'
  BY StaysMet
<1>6. Undisturbed'
  <2>1. \A c \in Builder : c # b => (Owns(c) /\ Keeps(c))'
    BY OthersUndisturbed
  <2>2. (Owns(b) /\ Keeps(b))'
    <3>1. CASE stage = "complete"
      <4>1. rivals[b] = {} => substrate = b
        BY <3>1 DEF IInv, Undisturbed, Owns, Writing
      <4>2. rivals[b] = {} => \A c \in Builder : c # b => ~AtWork(c)
        BY DEF IInv, Met
      <4>3. \A c \in Builder : (c # b => pc'[c] = pc[c]) /\ pc'[b] = "complete"
        BY <1>1, <3>1 DEF IInv, Typed
      <4> QED
        BY <3>1, <4>1, <4>2, <4>3 DEF Owns, Keeps, AtWork, Working, Stages
    <3>2. CASE stage # "complete"
      BY <1>1, <3>2 DEF IInv, Typed, Owns, Keeps, Writing
    <3> QED
      BY <3>1, <3>2
  <2> QED
    BY <2>1, <2>2 DEF Undisturbed
<1> QED
  BY <1>2, <1>3, <1>4, <1>5, <1>6 DEF IInv

(* A failure empties the directory.                                        *)
LEMMA FailsKeeps ==
  ASSUME IInv, NEW b \in Builder, Fails(b)
  PROVE  IInv'
<1> USE BuilderAssumption
<1>1. AtWork(b) /\ Goto(b, "failed") /\ rivals' = rivals
  BY DEF Fails
<1>2. pc' = [pc EXCEPT ![b] = "failed"] /\ made' = made /\ vault' = vault /\ substrate' = None /\ vectors' = None
  BY DEF Fails, Goto
<1>3. Typed'
  BY <1>1, <1>2 DEF IInv, Typed, Ended
<1>4. InOrder'
  BY <1>2 DEF IInv, Typed, InOrder, Working, Stages
<1>5. Authored'
  BY <1>2 DEF Authored
<1>6. Met'
  BY <1>1, StaysMet
<1>7. Undisturbed'
  <2>1. \A c \in Builder : c # b => (Owns(c) /\ Keeps(c))'
    BY <1>1, OthersUndisturbed
  <2>2. (Owns(b) /\ Keeps(b))'
    BY <1>2 DEF IInv, Typed, Owns, Keeps, Writing
  <2> QED
    BY <2>1, <2>2 DEF Undisturbed
<1> QED
  BY <1>3, <1>4, <1>5, <1>6, <1>7 DEF IInv

(* A refused builder touches no file and is at work no more than before.   *)
LEMMA IsRefusedKeeps ==
  ASSUME IInv, NEW b \in Builder, IsRefused(b)
  PROVE  IInv'
<1>1. pc[b] = "start" /\ pc' = [pc EXCEPT ![b] = "refused"] /\ made' = made /\ vault' = vault /\ rivals' = rivals
      /\ substrate' = substrate /\ vectors' = vectors
  BY DEF IsRefused, Goto, files
<1>2. Typed'
  BY <1>1 DEF IInv, Typed, Ended
<1>3. InOrder' /\ Authored'
  BY <1>1 DEF IInv, Typed, InOrder, Authored, Working, Stages
<1>4. \A c \in Builder : AtWork(c)' => AtWork(c)
  BY <1>1 DEF IInv, Typed, AtWork, Working, Stages
<1>5. Met'
  BY <1>1, <1>4 DEF IInv, Met
<1>6. Undisturbed'
  BY <1>1, <1>4 DEF IInv, Typed, Undisturbed, Owns, Keeps, Writing
<1> QED
  BY <1>2, <1>3, <1>5, <1>6 DEF IInv

(* Generation and requests leave the directory alone.                      *)
LEMMA UseKeeps ==
  ASSUME IInv, UNCHANGED builds
  PROVE  IInv'
BY DEF IInv, builds, Typed, InOrder, Authored, Met, Undisturbed, Owns, Keeps, AtWork

(* Every step keeps the invariant.                                         *)
LEMMA NextIInv == IInv /\ [Next]_vars => IInv'
<1> SUFFICES ASSUME IInv, [Next]_vars PROVE IInv'
  OBVIOUS
<1>1. ASSUME NEW b \in Builder, BuildStep(b) PROVE IInv'
  <2>1. CASE Enters(b)
    BY <2>1, EntersKeeps
  <2>2. CASE IsRefused(b)
    BY <2>2, IsRefusedKeeps
  <2>3. CASE Ingest(b)
    <3>1. AtWork(b) /\ Goto(b, "substrate") /\ pc[b] = "ingest" /\ UNCHANGED <<vault, made, files, rivals>>
      BY <2>3 DEF Ingest, AtWork, Working
    <3> QED
      BY <3>1, MovesKeeps DEF files
  <2>4. CASE WriteSubstrate(b)
    BY <2>4, WriteSubstrateKeeps
  <2>5. CASE BuildExact(b)
    <3>1. Derives(b, "exact", "lexical") /\ vectors' = vectors
      BY <2>5 DEF BuildExact
    <3>2. Committed("lexical") = Committed("exact") \cup {"exact"}
      BY DEF Committed
    <3> QED
      BY <3>1, <3>2, DerivesKeeps DEF Writing
  <2>6. CASE BuildLexical(b)
    <3>1. Derives(b, "lexical", "graph") /\ vectors' = vectors
      BY <2>6 DEF BuildLexical
    <3>2. Committed("graph") = Committed("lexical") \cup {"lexical"}
      BY DEF Committed
    <3> QED
      BY <3>1, <3>2, DerivesKeeps DEF Writing
  <2>7. CASE BuildGraph(b)
    <3>1. Derives(b, "graph", "temporal") /\ vectors' = vectors
      BY <2>7 DEF BuildGraph
    <3>2. Committed("temporal") = Committed("graph") \cup {"graph"}
      BY DEF Committed
    <3> QED
      BY <3>1, <3>2, DerivesKeeps DEF Writing
  <2>8. CASE BuildTemporal(b)
    <3>1. Derives(b, "temporal", "vector") /\ vectors' = vectors
      BY <2>8 DEF BuildTemporal
    <3>2. Committed("vector") = Committed("temporal") \cup {"temporal"}
      BY DEF Committed
    <3> QED
      BY <3>1, <3>2, DerivesKeeps DEF Writing
  <2>9. CASE BuildVectors(b)
    <3>1. Derives(b, "vector", "verify") /\ vectors' = vault[b]
      BY <2>9 DEF BuildVectors
    <3>2. Committed("verify") = Committed("vector") \cup {"vector"}
      BY DEF Committed, Stages
    <3> QED
      BY <3>1, <3>2, DerivesKeeps DEF Writing
  <2>10. CASE Verify(b)
    <3>1. /\ AtWork(b) /\ Goto(b, "complete") /\ pc[b] = "verify" /\ vectors = vault[b]
          /\ UNCHANGED <<vault, made, files, rivals>>
      BY <2>10 DEF Verify, AtWork, Working
    <3> QED
      BY <3>1, MovesKeeps DEF files
  <2>11. CASE Fails(b)
    BY <2>11, FailsKeeps
  <2>12. CASE Killed(b)
    <3>1. AtWork(b) /\ Goto(b, "killed") /\ UNCHANGED <<vault, made, files, rivals>>
      BY <2>12 DEF Killed
    <3> QED
      BY <3>1, MovesKeeps DEF files
  <2> QED
    BY <1>1, <2>1, <2>2, <2>3, <2>4, <2>5, <2>6, <2>7, <2>8, <2>9, <2>10, <2>11, <2>12 DEF BuildStep
<1>2. ASSUME NEW described \in Described, GenerateCatalog(described) PROVE IInv'
  BY <1>2, UseKeeps DEF GenerateCatalog
<1>3. ASSUME NEW r \in Requests, Ask(r) PROVE IInv'
  BY <1>3, UseKeeps DEF Ask
<1>4. CASE UNCHANGED vars
  BY <1>4, UseKeeps DEF vars
<1> QED
  BY <1>1, <1>2, <1>3, <1>4 DEF Next

LEMMA AlwaysIInv == Spec => []IInv
BY InitIInv, NextIInv, PTL DEF Spec

(* Who may have made each file, for any number of builders: the name of    *)
(* the database leads to one whose tables exist, and vectors.npy is a      *)
(* builder's that reached the stage (cli.py:102-149).                      *)
THEOREM DirectoryTypeCorrect == Spec => []TypeOK
<1>1. IInv => TypeOK
  BY DEF IInv, Typed, Authored, TypeOK
<1> QED
  BY <1>1, AlwaysIInv, PTL

(* The checks of _build keep a completed build whole and clear a failed    *)
(* one, among any number of builders, as long as it overlapped none.       *)
THEOREM OnlyOverlapEverDestroys == Spec => []OnlyOverlapDestroys
<1>1. IInv => OnlyOverlapDestroys
  <2> SUFFICES ASSUME IInv, NEW b \in Builder
               PROVE  /\ pc[b] = "complete" /\ rivals[b] = {} => substrate = b /\ made[b] = Stages /\ vectors = vault[b]
                      /\ pc[b] = "failed" => substrate # b
    BY DEF OnlyOverlapDestroys
  <2>1. pc[b] = "complete" => made[b] = Stages
    BY DEF IInv, InOrder, Committed
  <2>2. pc[b] = "complete" /\ rivals[b] = {} => substrate = b /\ vectors = vault[b]
    BY DEF IInv, Undisturbed, Owns, Keeps
  <2>3. pc[b] = "failed" => substrate # b
    BY DEF IInv, Authored
  <2> QED
    BY <2>1, <2>2, <2>3
<1> QED
  BY <1>1, AlwaysIInv, PTL

-------------------------------------------------------------------------------
(* What a builder has committed, its vault allowed.                        *)
Allowed(b) ==
  /\ AtWork(b) \/ made[b] # {} => IsVault(vault[b])
  /\ pc[b] = "substrate" \/ made[b] # {} => Ingests(vault[b])
  /\ "exact" \in made[b] => ExactBuilds(vault[b])
  /\ "temporal" \in made[b] => TemporalBuilds(vault[b])
Gated == \A b \in Builder : Allowed(b)

(* What generation and conformance did, and to which vault.                *)
Recorded ==
  /\ generated.outcome \in {"none", "written", "rejected"}
  /\ generated.outcome = "written" =>
       /\ Built(generated.of) /\ Generates(generated.of, generated.described)
       /\ catalog = Catalog(generated.of)
  /\ generated.outcome = "rejected" => Built(generated.of) /\ ~Generates(generated.of, generated.described)
  /\ asked.outcome # "raised"

CInv == Gated /\ Recorded

LEMMA InitCInv == Init => CInv
BY DEF Init, CInv, Gated, Allowed, Recorded, AtWork, Working, Stages, NotGenerated, NotAsked

(* Who is not at work has nothing new to justify.                          *)
LEMMA OthersAllowed ==
  ASSUME IInv, CInv, NEW b \in Builder, NEW stage, Goto(b, stage), vault' = vault,
         \A c \in Builder : c # b => made'[c] = made[c], Allowed(b)'
  PROVE  Gated'
<1> SUFFICES ASSUME NEW c \in Builder, c # b PROVE Allowed(c)'
  BY DEF Gated
<1>1. pc'[c] = pc[c] /\ made'[c] = made[c] /\ vault'[c] = vault[c]
  BY DEF Goto, IInv, Typed
<1>2. Allowed(c)
  BY DEF CInv, Gated
<1> QED
  BY <1>1, <1>2 DEF Allowed, AtWork

LEMMA RecordKept ==
  ASSUME Recorded, UNCHANGED use
  PROVE  Recorded'
BY DEF Recorded, use

(* A surface is derived of a vault that allows it.                         *)
LEMMA DerivesAllowed ==
  ASSUME IInv, CInv, NEW b \in Builder, NEW stage \in Writing \ {"verify"}, NEW next \in Writing,
         Derives(b, stage, next), stage = "exact" => ExactBuilds(vault[b]), stage = "temporal" => TemporalBuilds(vault[b])
  PROVE  CInv'
<1>1. /\ pc[b] = stage /\ Goto(b, next) /\ vault' = vault /\ UNCHANGED use
      /\ made' = [made EXCEPT ![b] = @ \cup {stage}] /\ pc' = [pc EXCEPT ![b] = next]
  BY DEF Derives, Goto
<1>2. /\ pc'[b] = next /\ made'[b] = made[b] \cup {stage} /\ vault'[b] = vault[b]
      /\ \A c \in Builder : c # b => made'[c] = made[c]
  BY <1>1 DEF IInv, Typed
<1>3. AtWork(b) /\ made[b] # {}
  <2>1. AtWork(b)
    BY <1>1 DEF AtWork, Working, Stages, Writing
  <2>2. made[b] = Committed(stage)
    BY <1>1, <2>1 DEF IInv, InOrder, AtWork
  <2> QED
    BY <2>1, <2>2 DEF Committed, Writing
<1>4. Allowed(b)
  BY DEF CInv, Gated
<1>5. Allowed(b)'
  BY <1>2, <1>3, <1>4 DEF Allowed
<1>6. Gated'
  BY <1>1, <1>2, <1>5, OthersAllowed
<1>7. Recorded'
  BY <1>1, RecordKept DEF CInv
<1> QED
  BY <1>6, <1>7 DEF CInv

(* A builder that commits nothing ends, or begins a stage.                 *)
LEMMA MovesAllowed ==
  ASSUME IInv, CInv, NEW b \in Builder, NEW stage, Goto(b, stage), made' = made, vault' = vault, UNCHANGED use,
         stage \in Working => IsVault(vault[b]), stage = "substrate" => Ingests(vault[b])
  PROVE  CInv'
<1>1. pc' = [pc EXCEPT ![b] = stage]
  BY DEF Goto
<1>2. pc'[b] = stage /\ made'[b] = made[b] /\ vault'[b] = vault[b]
  BY <1>1 DEF IInv, Typed
<1>3. Allowed(b)
  BY DEF CInv, Gated
<1>4. Allowed(b)'
  BY <1>2, <1>3 DEF Allowed, AtWork
<1>5. Gated'
  BY <1>4, OthersAllowed
<1>6. Recorded'
  BY RecordKept DEF CInv
<1> QED
  BY <1>5, <1>6 DEF CInv

(* The only builder to begin a database has read its vault.                *)
LEMMA WriteSubstrateAllowed ==
  ASSUME IInv, CInv, NEW b \in Builder, WriteSubstrate(b)
  PROVE  CInv'
<1>1. /\ pc[b] = "substrate" /\ Goto(b, "exact") /\ vault' = vault /\ UNCHANGED use
      /\ made' = [made EXCEPT ![b] = {"substrate"}] /\ pc' = [pc EXCEPT ![b] = "exact"]
  BY DEF WriteSubstrate, Goto
<1>2. /\ pc'[b] = "exact" /\ made'[b] = {"substrate"} /\ vault'[b] = vault[b]
      /\ \A c \in Builder : c # b => made'[c] = made[c]
  BY <1>1 DEF IInv, Typed
<1>3. IsVault(vault[b]) /\ Ingests(vault[b])
  <2>1. Allowed(b) /\ AtWork(b)
    BY <1>1 DEF CInv, Gated, AtWork, Working, Stages
  <2> QED
    BY <1>1, <2>1 DEF Allowed
<1>4. Allowed(b)'
  BY <1>2, <1>3 DEF Allowed
<1>5. Gated'
  BY <1>1, <1>2, <1>4, OthersAllowed
<1>6. Recorded'
  BY <1>1, RecordKept DEF CInv
<1> QED
  BY <1>5, <1>6 DEF CInv

(* What an observer finds finished was built of a vault every stage allows. *)
LEMMA ObservedIsBuilt ==
  ASSUME IInv, CInv, Observable
  PROVE  substrate \in Builder /\ Built(vault[substrate])
<1>1. substrate \in Builder
  BY DEF Observable, IInv, Typed
<1>2. Allowed(substrate)
  BY <1>1 DEF CInv, Gated
<1>3. {"exact", "temporal"} \subseteq made[substrate]
  BY DEF Observable, Stages
<1> QED
  BY <1>1, <1>2, <1>3 DEF Allowed, Built

LEMMA GenerateRecorded ==
  ASSUME IInv, CInv, NEW described, GenerateCatalog(described)
  PROVE  CInv'
<1>1. PICK v : v = vault[substrate]
  OBVIOUS
<1>2. Observable /\ UNCHANGED builds /\ asked' = asked
  BY DEF GenerateCatalog
<1>3. Built(v)
  BY <1>1, <1>2, ObservedIsBuilt
<1>4. Gated'
  BY <1>2 DEF CInv, Gated, Allowed, AtWork, builds
<1>5. CASE Generates(v, described) /\ catalog' = Catalog(v) /\ generated' = Generation("written", described)
  <2>1. generated'.outcome = "written" /\ generated'.of = v /\ generated'.described = described
    BY <1>1, <1>5 DEF Generation
  <2>2. Recorded'
    BY <1>2, <1>3, <1>5, <2>1 DEF CInv, Recorded
  <2> QED
    BY <1>4, <2>2 DEF CInv
<1>6. CASE ~Generates(v, described) /\ generated' = Generation("rejected", described)
  <2>1. generated'.outcome = "rejected" /\ generated'.of = v /\ generated'.described = described
    BY <1>1, <1>6 DEF Generation
  <2>2. Recorded'
    BY <1>2, <1>3, <1>6, <2>1 DEF CInv, Recorded
  <2> QED
    BY <1>4, <2>2 DEF CInv
<1> QED
  BY <1>1, <1>5, <1>6 DEF GenerateCatalog

LEMMA AskRecorded ==
  ASSUME IInv, CInv, NEW r, Ask(r)
  PROVE  CInv'
<1>1. PICK v : v = vault[substrate]
  OBVIOUS
<1>2. WellFormed(r) /\ catalog = Catalog(v) /\ UNCHANGED <<builds, catalog, generated>>
  BY <1>1 DEF Ask, InUse
<1>3. PICK c : c = catalog
  OBVIOUS
<1>4. Conforms(c, r) => ~SurfaceRaises(v, r)
  BY <1>2, <1>3, ConformingNeverRaises
<1>5. asked'.outcome # "raised"
  BY <1>1, <1>3, <1>4 DEF Ask
<1>6. Gated'
  BY <1>2 DEF CInv, Gated, Allowed, AtWork, builds
<1>7. Recorded'
  BY <1>2, <1>5 DEF CInv, Recorded
<1> QED
  BY <1>6, <1>7 DEF CInv

LEMMA NextCInv == IInv /\ CInv /\ [Next]_vars => CInv'
<1> SUFFICES ASSUME IInv, CInv, [Next]_vars PROVE CInv'
  OBVIOUS
<1>1. ASSUME NEW b \in Builder, BuildStep(b) PROVE CInv'
  <2>1. CASE Enters(b)
    <3>1. Goto(b, "ingest") /\ made' = made /\ vault' = vault /\ UNCHANGED use /\ vault[b] # None
      BY <2>1 DEF Enters
    <3>2. IsVault(vault[b])
      BY <3>1, BuilderAssumption DEF IInv, Typed
    <3> QED
      BY <3>1, <3>2, MovesAllowed
  <2>2. CASE IsRefused(b)
    <3>1. Goto(b, "refused") /\ made' = made /\ vault' = vault /\ UNCHANGED use
      BY <2>2 DEF IsRefused
    <3> QED
      BY <3>1, MovesAllowed DEF Working, Stages
  <2>3. CASE Ingest(b)
    <3>1. Goto(b, "substrate") /\ made' = made /\ vault' = vault /\ UNCHANGED use /\ Ingests(vault[b]) /\ pc[b] = "ingest"
      BY <2>3 DEF Ingest
    <3>2. IsVault(vault[b])
      BY <3>1 DEF CInv, Gated, Allowed, AtWork, Working
    <3> QED
      BY <3>1, <3>2, MovesAllowed
  <2>4. CASE WriteSubstrate(b)
    BY <2>4, WriteSubstrateAllowed
  <2>5. CASE BuildExact(b)
    BY <2>5, DerivesAllowed DEF BuildExact, Writing
  <2>6. CASE BuildLexical(b)
    BY <2>6, DerivesAllowed DEF BuildLexical, Writing
  <2>7. CASE BuildGraph(b)
    BY <2>7, DerivesAllowed DEF BuildGraph, Writing
  <2>8. CASE BuildTemporal(b)
    BY <2>8, DerivesAllowed DEF BuildTemporal, Writing
  <2>9. CASE BuildVectors(b)
    BY <2>9, DerivesAllowed DEF BuildVectors, Writing
  <2>10. CASE Verify(b)
    <3>1. Goto(b, "complete") /\ made' = made /\ vault' = vault /\ UNCHANGED use
      BY <2>10 DEF Verify
    <3> QED
      BY <3>1, MovesAllowed DEF Working, Stages
  <2>11. CASE Fails(b)
    <3>1. Goto(b, "failed") /\ made' = made /\ vault' = vault /\ UNCHANGED use
      BY <2>11 DEF Fails
    <3> QED
      BY <3>1, MovesAllowed DEF Working, Stages
  <2>12. CASE Killed(b)
    <3>1. Goto(b, "killed") /\ made' = made /\ vault' = vault /\ UNCHANGED use
      BY <2>12 DEF Killed
    <3> QED
      BY <3>1, MovesAllowed DEF Working, Stages
  <2> QED
    BY <1>1, <2>1, <2>2, <2>3, <2>4, <2>5, <2>6, <2>7, <2>8, <2>9, <2>10, <2>11, <2>12 DEF BuildStep
<1>2. ASSUME NEW described \in Described, GenerateCatalog(described) PROVE CInv'
  BY <1>2, GenerateRecorded
<1>3. ASSUME NEW r \in Requests, Ask(r) PROVE CInv'
  BY <1>3, AskRecorded
<1>4. CASE UNCHANGED vars
  BY <1>4, RecordKept DEF vars, builds, CInv, Gated, Allowed, AtWork
<1> QED
  BY <1>1, <1>2, <1>3, <1>4 DEF Next

LEMMA AlwaysCInv == Spec => [](IInv /\ CInv)
<1>1. Init => IInv /\ CInv
  BY InitIInv, InitCInv
<1>2. (IInv /\ CInv) /\ [Next]_vars => (IInv /\ CInv)'
  BY NextIInv, NextCInv
<1> QED
  BY <1>1, <1>2, PTL DEF Spec

(* For every vault and every configuration: what catalog.py writes,        *)
(* capability_catalog.py admits, with every field shown described; and a   *)
(* finished build is refused a catalog for the two stated reasons only.    *)
THEOREM CatalogAlwaysDescribesBuild == Spec => []CatalogDescribesBuild
<1>1. IInv /\ CInv => CatalogDescribesBuild
  <2> SUFFICES ASSUME CInv PROVE CatalogDescribesBuild
    OBVIOUS
  <2>1. PICK v, described : v = generated.of /\ described = generated.described
    OBVIOUS
  <2>2. ASSUME generated.outcome = "written"
        PROVE  Admitted(catalog) /\ \A f \in Fields : Shown(v, f) => f \in described
    <3>1. Built(v) /\ Generates(v, described) /\ catalog = Catalog(v)
      BY <2>1, <2>2 DEF CInv, Recorded
    <3>2. PICK c : c = Catalog(v)
      OBVIOUS
    <3>3. Admitted(c)
      BY <3>1, <3>2, GeneratedIsAdmitted
    <3>4. \A f \in Fields : Shown(v, f) => f \in described
      BY <3>1, RepresentedIsShown DEF Built, Generates
    <3> QED
      BY <3>1, <3>2, <3>3, <3>4
  <2>3. ASSUME generated.outcome = "rejected"
        PROVE  \E f \in Fields : \/ Shown(v, f) /\ f \notin described
                               \/ EmptyListBesideScalar(v, f)
    <3>1. IsVault(v) /\ ~Generates(v, described)
      BY <2>1, <2>3 DEF CInv, Recorded, Built
    <3> QED
      BY <3>1, RejectedHasReason
  <2> QED
    BY <2>1, <2>2, <2>3 DEF CatalogDescribesBuild
<1> QED
  BY <1>1, AlwaysCInv, PTL

(* No request that passes _request_violations fails at the surface that    *)
(* answers it, whatever the vault and the request.                         *)
THEOREM ConformingRequestsAlwaysRun == Spec => []ConformingRequestsRun
<1>1. IInv /\ CInv => ConformingRequestsRun
  BY DEF CInv, Recorded, ConformingRequestsRun
<1> QED
  BY <1>1, AlwaysCInv, PTL

(* Whatever a finished build represents, some conforming request returns:  *)
(* its values, its names, its links as one edge each to what they address, *)
(* and each node of the graph in its one container.                        *)
THEOREM RepresentedIsAlwaysReachable == Spec => []RepresentedIsReachable
<1>1. IInv /\ CInv => RepresentedIsReachable
  <2> SUFFICES ASSUME IInv, CInv, InUse PROVE
        LET v == vault[substrate]
        IN ValuesReachable(v) /\ NamesReachable(v) /\ LinksReachable(v) /\ ContainmentIsForest(v)
    BY DEF RepresentedIsReachable
  <2>1. PICK v : v = vault[substrate]
    OBVIOUS
  <2>2. catalog = Catalog(v) /\ Observable
    BY <2>1 DEF InUse
  <2>3. Built(v)
    BY <2>1, <2>2, ObservedIsBuilt
  <2>4. ValuesReachable(v)
    BY <2>2, <2>3, ValuesReach
  <2>5. IsVault(v) /\ Ingests(v)
    BY <2>3 DEF Built
  <2>6. NamesReachable(v) /\ LinksReachable(v) /\ ContainmentIsForest(v)
    BY <2>2, <2>5, NamesReach, LinksReach, ForestReach
  <2> QED
    BY <2>1, <2>4, <2>6
<1> QED
  BY <1>1, AlwaysCInv, PTL
===============================================================================
