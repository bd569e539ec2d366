-------------------------- MODULE ReleasePreparation --------------------------
(***************************************************************************)
(* The preparation of a release: the channel each module may take, the     *)
(* plan and the matrix generated into the checkout, the product frozen as  *)
(* a commit of its own, and the package built from one commit and verified *)
(* from nothing but itself. Whoever works on the checkout edits and        *)
(* commits in between; a builder may die between its two files.            *)
(*                                                                         *)
(* Source: Scripts/Release/prepare_release.py. A commit never goes away;   *)
(* bytes and hashes are what they are of. The CLR package, and the         *)
(* evidence inside it, are left out.                                       *)
(***************************************************************************)
EXTENDS Functions, Integers, Sequences, SequencesExt, FiniteSets

CONSTANTS
  Module, None,
  Builder,       \* processes that build
  Harmless,      \* pairs of products, one qualified by the evidence of the other
  Scenes         \* by name: the products [Module -> [validated, needs]] and scopes that
                 \* are edited in, whether products are qualified or frozen, who
                 \* builds, and the bound of the commits

VARIABLES
  scene,         \* the name of the scene
  checkout,      \* the working tree: [modules, plan, matrix, scope, source, evidence]
  commits,       \* every commit: [files, ancestors]
  refreshing,    \* a plan generated, whose matrix is still to be written, or None
  building,      \* per builder: None, or the package in memory and what is left to write
  zip, checksum  \* the two files of the package

vars == <<scene, checkout, commits, refreshing, building, zip, checksum>>

Scene == Scenes[scene]

-----------------------------------------------------------------------------
(* Channels.                                                               *)

\* No dependency is missing, and none leads back to itself.
Resolved(modules) ==
  /\ \A m \in DOMAIN modules : modules[m].needs \subseteq DOMAIN modules
  /\ \A s \in SUBSET DOMAIN modules \ {{}} : \E m \in s : modules[m].needs \cap s = {}

\* Mutant: only what a module names itself counts.
DemotedOnce(modules, stable) == {m \in stable : \A d \in modules[m].needs : modules[d].validated}

\* A module with a dependency that is not stable is not stable either. One
\* pass over the modules may demote several; the passes end at the same set.
Demoted(modules, stable) ==
  LET pass[n \in Nat] ==
        IF n = 0 THEN stable ELSE {m \in pass[n - 1] : modules[m].needs \subseteq pass[n - 1]}
  IN  pass[Cardinality(stable)]

\* The modules proposed for the stable channel.
Channels(modules) == Demoted(modules, {m \in DOMAIN modules : modules[m].validated})

-----------------------------------------------------------------------------
(* Plan, qualification and export.                                         *)

\* The plan of a product, or None when it cannot be made. The scope somebody
\* approved counts the channels; it does not name the modules.
MakePlan(files, product) ==
  LET stable == Channels(files.modules)
  IN  IF /\ DOMAIN files.modules = Module
         /\ Resolved(files.modules)
         /\ files.scope \in {None, Cardinality(stable)}
         /\ files.source = None \/ files.source.product = product
      THEN [product |-> product, modules |-> files.modules, stable |-> stable,
            scope |-> files.scope, source |-> files.source]
      ELSE None

\* The SQL of the stable modules, exported from the files of a commit.
ExportStable(files, plan) == Restrict(files.modules, plan.stable)

ValidQualification(files, plan, exports) ==
  LET evidence == files.evidence
      modules(c) == commits[c].files.modules
  IN  IF evidence = None THEN TRUE
      ELSE /\ \/ evidence.product = plan.product
              \/ <<modules(evidence.product), modules(plan.product)>> \in Harmless
           /\ exports \in {None, evidence.exports}

\* The plan is the one these files give, the matrix its rendering, and the
\* modules are those of the product.
ValidPlan(files, plan, product) ==
  /\ plan # None
  /\ plan = MakePlan(files, plan.product)
  /\ files.matrix = plan
  /\ IF plan.source = None THEN TRUE ELSE product.files = commits[plan.source.product].files
  /\ files.modules = product.files.modules
  /\ ValidQualification(files, plan, None)

-----------------------------------------------------------------------------
(* The checkout.                                                           *)

Edit(files) ==
  /\ checkout' = files
  /\ checkout' # checkout
  /\ UNCHANGED <<scene, commits, refreshing, building, zip, checksum>>

EditModules == \E p \in Scene.products : Edit([checkout EXCEPT !.modules = p])

\* An approval of the scope, and evidence of the native tests of a product.
Approve == \E n \in Scene.scopes : Edit([checkout EXCEPT !.scope = n])

Qualify ==
  \E c \in IF Scene.qualify THEN DOMAIN commits ELSE {} :
    LET files == commits[c].files IN
    Edit([checkout EXCEPT !.evidence =
            [product |-> c, exports |-> Restrict(files.modules, Channels(files.modules))]])

Commit ==
  /\ Len(commits) < Scene.commits
  /\ checkout # Last(commits).files
  /\ commits' = Append(commits, [files |-> checkout, ancestors |-> DOMAIN commits])
  /\ UNCHANGED <<scene, checkout, refreshing, building, zip, checksum>>

\* The product is frozen as a commit with the same tree whose parent is the
\* public base.
FreezeProduct(source, base) ==
  /\ Len(commits) < Scene.commits
  /\ Scene.freeze
  /\ base \in commits[source].ancestors
  /\ commits' = Append(commits, [files |-> commits[source].files,
                                 ancestors |-> commits[base].ancestors \cup {base}])
  /\ checkout' = [checkout EXCEPT !.source = [source |-> source, product |-> Len(commits) + 1, base |-> base]]
  /\ UNCHANGED <<scene, refreshing, building, zip, checksum>>

Or(value, otherwise) == IF value = None THEN otherwise ELSE value

\* The modules of the product, with what the preparation has approved and frozen.
Refresh(product, preparation) ==
  LET old == commits[product].files
      new == commits[preparation].files
      plan == MakePlan([old EXCEPT !.scope = Or(new.scope, @), !.source = Or(new.source, @)], product)
  IN  /\ refreshing = None
      /\ plan # None
      /\ checkout' = [checkout EXCEPT !.plan = plan]
      /\ refreshing' = plan
      /\ UNCHANGED <<scene, commits, building, zip, checksum>>

WriteMatrix ==
  /\ refreshing # None
  /\ checkout' = [checkout EXCEPT !.matrix = refreshing]
  /\ refreshing' = None
  /\ UNCHANGED <<scene, commits, building, zip, checksum>>

-----------------------------------------------------------------------------
(* Packages.                                                               *)

\* The bundle holds the files of the commit, on top of the product.
PreparationBundle(files, product) == [files |-> files, product |-> product]

\* Whatever does not validate ends the build with nothing written.
Build(b, c) ==
  LET files == commits[c].files
      plan == files.plan
      exports == ExportStable(files, plan)
  IN  /\ building[b] = None
      /\ zip = None /\ checksum = None
      /\ plan # None
      /\ ValidPlan(files, plan, commits[plan.product])
      /\ ValidQualification(files, plan, exports)
      /\ building' = [building EXCEPT ![b] = [step |-> "zip", package |->
            [files |-> files, exports |-> exports, product |-> plan.product,
             bundle |-> PreparationBundle(files, plan.product)]]]
      /\ UNCHANGED <<scene, checkout, commits, refreshing, zip, checksum>>

\* Both files are created, never replaced.
WriteZip(b) ==
  /\ building[b] # None /\ building[b].step = "zip"
  /\ IF zip = None
     THEN zip' = building[b].package /\ building' = [building EXCEPT ![b].step = "checksum"]
     ELSE building' = [building EXCEPT ![b] = None] /\ UNCHANGED zip
  /\ UNCHANGED <<scene, checkout, commits, refreshing, checksum>>

WriteChecksum(b) ==
  /\ building[b] # None /\ building[b].step = "checksum"
  /\ IF checksum = None THEN checksum' = building[b].package ELSE UNCHANGED checksum
  /\ building' = [building EXCEPT ![b] = None]
  /\ UNCHANGED <<scene, checkout, commits, refreshing, zip>>

\* What a verification accepts: everything is made again from the bundle.
Verified ==
  LET source == zip.bundle.files
  IN  /\ zip # None
      /\ checksum = zip
      /\ zip.files = source
      /\ ValidPlan(source, source.plan, commits[zip.product])
      /\ zip.product = source.plan.product
      /\ zip.exports = ExportStable(source, source.plan)
      /\ ValidQualification(source, source.plan, zip.exports)

-----------------------------------------------------------------------------
\* A refresh or a build is killed at any point.
Killed ==
  /\ \/ refreshing' = None /\ UNCHANGED building
     \/ \E b \in Builder : building' = [building EXCEPT ![b] = None] /\ UNCHANGED refreshing
  /\ <<refreshing, building>> # <<refreshing', building'>>
  /\ UNCHANGED <<scene, checkout, commits, zip, checksum>>

\* Assumed: nobody clears the outputs while a build runs.
Clear ==
  /\ \A b \in Builder : building[b] = None
  /\ zip # None
  /\ zip' = None /\ checksum' = None
  /\ UNCHANGED <<scene, checkout, commits, refreshing, building>>

Init ==
  /\ scene \in DOMAIN Scenes
  /\ \E p \in Scene.products :
       checkout = [modules |-> p, plan |-> None, matrix |-> None, scope |-> None, source |-> None, evidence |-> None]
  /\ commits = <<[files |-> checkout, ancestors |-> {}]>>
  /\ refreshing = None
  /\ building = [b \in Builder |-> None]
  /\ zip = None /\ checksum = None

Next ==
  \/ EditModules \/ Approve \/ Qualify \/ Commit
  \/ \E c, d \in DOMAIN commits : FreezeProduct(c, d) \/ Refresh(c, d)
  \/ WriteMatrix
  \/ \E b \in Scene.builders :
       \/ \E c \in DOMAIN commits : Build(b, c)
       \/ WriteZip(b) \/ WriteChecksum(b)
  \/ Killed \/ Clear

Spec == Init /\ [][Next]_vars

-----------------------------------------------------------------------------
\* Everything a module needs, itself included.
Closure(modules, m) ==
  LET within == {s \in SUBSET DOMAIN modules : m \in s /\ \A x \in s : modules[x].needs \subseteq s}
  IN  {x \in DOMAIN modules : \A s \in within : x \in s}

\* A package with both its files passes its verification, whatever was edited,
\* committed, frozen, refreshed or interrupted in between; and what it offers
\* as stable are exactly the modules of its product commit that are validated
\* with everything they need, directly or not (build, verify, channels).
PackageIsSound ==
  zip # None /\ checksum # None =>
    LET product == commits[zip.product].files.modules
        sound == {m \in Module : \A d \in Closure(product, m) : product[d].validated}
    IN  Verified /\ zip.exports = Restrict(product, sound)
=============================================================================
