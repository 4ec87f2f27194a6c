-------------------------- MODULE ManifestCompiler --------------------------
(***************************************************************************)
(* From an accepted project to journal rows: compiling the run manifest    *)
(* and its realized execution recipes (manifest/compiler.py), the checks   *)
(* made when a bundle is loaded (manifest/loader.py), the export of a      *)
(* reduced bundle (manifest/reduction.py) and the rows the manifest        *)
(* bootstraps (journal/bootstrap.py).                                      *)
(*                                                                         *)
(* A digest stands for the content it is computed from: a blob is named by *)
(* its body, an effective configuration by itself.  A planned identifier   *)
(* is the kind and natural key that the generator hashes.                  *)
(***************************************************************************)
EXTENDS ScenarioValidation

AllTypes == StructuralTypes \cup RawTypes \cup SignatureTypes
PlannedId(kind, key) == <<kind>> \o key

-----------------------------------------------------------------------------
(* Realizing the mutations of a delivery.                                   *)

LowerMutation(m, fixture) ==
  CASE m.type = "change-event-id-field-v1" -> [m EXCEPT !.pointer = fixture.idPointer]
    [] m.type = "change-event-type-field-v1" -> [m EXCEPT !.pointer = fixture.typePointer]
    [] OTHER -> m

RealizeMutations(ms, fixture) == [i \in DOMAIN ms |-> LowerMutation(ms[i], fixture)]

RanksSorted(ms) ==
  \A i \in 1..(Len(ms) - 1) : StageRank(ms[i].type) <= StageRank(ms[i + 1].type)

RuntimeOffset(ms) ==
  LET later == {i \in DOMAIN ms : StageRank(ms[i].type) > PlanningRank}
  IN IF later = {} THEN Len(ms) ELSE Min(later) - 1

PlannedBody(result) ==
  [error |-> IF result.phase = "preflight" THEN "preflight" ELSE result.error,
   body |-> result.state.body]

\* Stages up to raw bytes run once, at planning, without signer or headers.
RealizePlanningMutations(body, ms, fixture) ==
  LET planned == SubSeq(ms, 1, RuntimeOffset(ms))
  IN IF planned = <<>> THEN [error |-> "none", body |-> body]
     ELSE PlannedBody(Execute(
            [body |-> body, headers |-> <<>>, event |-> "planning-event",
             time |-> 0, media |-> fixture.media, signer |-> NoSigner,
             mutations |-> planned, registry |-> AllTypes]))

-----------------------------------------------------------------------------
(* Attempt templates: the logical times of a delivery's retries.            *)

\* jitter[k]: the signed offset drawn for the retry that becomes attempt k + 1.
NotBefore(step, time, jitter, n) ==
  time + FoldLeft(LAMBDA sum, k : sum + step.retry.backoff[k] + jitter[k],
                  0, [k \in 1..(n - 1) |-> k])

AttemptTemplates(step, time, jitter, blob) ==
  [n \in 1..step.retry.maxAttempts |->
     [ordinal |-> n, notBefore |-> NotBefore(step, time, jitter, n), blob |-> blob,
      conditionalOn |-> IF n = 1 THEN {} ELSE step.retry.retryOn]]

\* Every draw of the context generator for the copies of one deliver step.
Draws(step) ==
  [1..step.count ->
     [1..(step.retry.maxAttempts - 1) -> (-step.retry.jitter)..step.retry.jitter]]

-----------------------------------------------------------------------------
(* Scenarios.                                                               *)

\* A dictionary keyed by id keeps the last entry of a repeated one.
LastIndex(seq, id) == Max({i \in DOMAIN seq : seq[i].id = id})
Keyed(seq, id) == seq[LastIndex(seq, id)]

ScenarioKey(project, s) == <<s, project.scenarios[s].id>>
ScenarioId(project, s) == PlannedId("scenario", ScenarioKey(project, s))
EventId(project, s, name) ==
  PlannedId("event",
            ScenarioKey(project, s) \o <<LastIndex(project.scenarios[s].events, name), name>>)

FixtureOf(project, scenario, name) ==
  Keyed(project.fixtures, Keyed(scenario.events, name).fixture)

\* An event resolves its fixture, then its type (read from the fixture whatever
\* its media type), then its dependencies.
EventError(project, scenario, event) ==
  LET fixture == Keyed(project.fixtures, event.fixture)
  IN IF event.fixture \notin Ids(project.fixtures) THEN "unresolved"
     ELSE IF ~(/\ fixture.typePointer \in DOMAIN fixture.doc
               /\ fixture.doc[fixture.typePointer][1] = "string") THEN "event_type"
     ELSE IF ~(SetOf(event.dependsOn) \subseteq Ids(scenario.events)) THEN "unresolved"
     ELSE "none"

EventPlans(project, s) ==
  LET events == project.scenarios[s].events
  IN [i \in DOMAIN events |->
        LET fixture == Keyed(project.fixtures, events[i].fixture)
        IN [id |-> EventId(project, s, events[i].id),
            type |-> fixture.doc[fixture.typePointer][2],
            blob |-> Serialize(fixture.doc),
            dependsOn |-> [k \in DOMAIN events[i].dependsOn |->
                             EventId(project, s, events[i].dependsOn[k])]]]

\* acc: [error, time, deliveries, recipes, blobs].  One deliver step plans
\* `count' deliveries that share one request blob.
\* The copies of one deliver step, once their body is planned.
PlanDeliveries(acc, project, s, i, jitter, ms, fixture, planned) ==
  LET scenario == project.scenarios[s]
      step == scenario.steps[i]
      known == planned.body \in DOMAIN acc.blobs
      Id(c) == PlannedId("delivery", ScenarioKey(project, s) \o <<i, c, step.event>>)
      event == EventId(project, s, step.event)
      Delivery(c) ==
        [id |-> Id(c), event |-> event, time |-> acc.time,
         ordinal |-> Len(acc.deliveries) + c - 1, group |-> step.group,
         attempts |-> AttemptTemplates(step, acc.time, jitter[i][c], planned.body)]
      Recipe(c) ==
        [scenario |-> ScenarioId(project, s), delivery |-> Id(c), event |-> event,
         time |-> acc.time, blob |-> planned.body, media |-> fixture.media,
         signer |-> step.signer, mutations |-> ms, offset |-> RuntimeOffset(ms)]
  IN IF acc.error # "none" THEN acc
     ELSE IF step.event \notin Ids(scenario.events) THEN [acc EXCEPT !.error = "unresolved"]
     ELSE IF ~RanksSorted(ms) THEN [acc EXCEPT !.error = "preflight"]
     ELSE IF planned.error # "none" THEN [acc EXCEPT !.error = planned.error]
     ELSE IF known /\ acc.blobs[planned.body] # fixture.media
       THEN [acc EXCEPT !.error = "media_conflict"]
     ELSE [acc EXCEPT !.deliveries = @ \o [c \in 1..step.count |-> Delivery(c)],
                      !.recipes = @ \o [c \in 1..step.count |-> Recipe(c)],
                      !.blobs = IF known THEN @ ELSE (planned.body :> fixture.media) @@ @]

CompileDeliver(acc, project, s, i, jitter) ==
  LET scenario == project.scenarios[s]
      step == scenario.steps[i]
      fixture == FixtureOf(project, scenario, step.event)
      ms == RealizeMutations(step.mutations, fixture)
  IN PlanDeliveries(acc, project, s, i, jitter, ms, fixture,
                    RealizePlanningMutations(Serialize(fixture.doc), ms, fixture))

CompileStep(acc, project, s, i, jitter) ==
  LET step == project.scenarios[s].steps[i]
  IN CASE step.kind = "wait" -> [acc EXCEPT !.time = @ + step.ticks]
       [] step.kind = "deliver" -> CompileDeliver(acc, project, s, i, jitter)
       [] OTHER -> acc

ScenarioPlan(project, s, done) ==
  LET plan == [id |-> ScenarioId(project, s), events |-> EventPlans(project, s),
               deliveries |-> done.deliveries,
               assertions |-> [i \in DOMAIN project.scenarios[s].assertions |->
                                 [id |-> PlannedId("assertion", ScenarioKey(project, s) \o <<i>>),
                                  kind |-> project.scenarios[s].assertions[i].kind]]]
  IN IF done.error # "none" THEN done
     ELSE [done EXCEPT !.scenarios = Append(@, plan)]

CompileScenario(acc, project, s, jitter) ==
  LET scenario == project.scenarios[s]
      steps == scenario.steps
      eventErrors == SelectSeq([i \in DOMAIN scenario.events |->
                                  EventError(project, scenario, scenario.events[i])],
                               LAMBDA e : e # "none")
      start == [acc EXCEPT !.time = 0, !.deliveries = <<>>,
                           !.error = IF eventErrors = <<>> THEN @ ELSE eventErrors[1]]
  IN ScenarioPlan(project, s,
       FoldLeft(LAMBDA a, i : CompileStep(a, project, s, i, jitter),
                start, [i \in DOMAIN steps |-> i]))

\* A later fixture with the same bytes replaces the recorded media type.
FixtureBlobs(fixtures) ==
  FoldLeft(LAMBDA blobs, f : (Serialize(f.doc) :> f.media) @@ blobs,
           [b \in {} |-> "none"],
           [i \in DOMAIN fixtures |-> Keyed(fixtures, fixtures[i].id)])

FixtureTooLarge(project) ==
  \E f \in SetOf(project.fixtures) : Size(f.doc) > project.maxRequestBytes

Manifest(stamp, effective, blobs, scenarios) ==
  [stamp |-> stamp, digest |-> effective, blobs |-> blobs, scenarios |-> scenarios]

NoEffective == [project |-> "none", recipes |-> <<>>]
NoManifest == Manifest("none", NoEffective, [b \in {} |-> "none"], <<>>)

RunBundle(project, stamp, done) ==
  LET effective == [project |-> project, recipes |-> done.recipes]
  IN [error |-> done.error,
      manifest |-> IF done.error = "none"
                     THEN Manifest(stamp, effective, done.blobs, done.scenarios)
                     ELSE NoManifest,
      effective |-> IF done.error = "none" THEN effective ELSE NoEffective]

\* stamp: what makes one compilation's manifest bytes differ from another's.
CompileRunBundle(project, jitter, stamp) ==
  LET start == [error |-> IF FixtureTooLarge(project) THEN "resource_limit" ELSE "none",
                time |-> 0, deliveries |-> <<>>, recipes |-> <<>>,
                blobs |-> FixtureBlobs(project.fixtures), scenarios |-> <<>>]
  IN RunBundle(project, stamp,
       FoldLeft(LAMBDA acc, s : IF acc.error # "none" THEN acc
                                ELSE CompileScenario(acc, project, s, jitter[s]),
                start, [s \in DOMAIN project.scenarios |-> s]))

-----------------------------------------------------------------------------
(* Loading a bundle.                                                        *)

DeliveriesOf(manifest) ==
  UNION {SetOf(sc.deliveries) : sc \in SetOf(manifest.scenarios)}

ReferencedBlobs(scenarios) ==
  UNION {{e.blob : e \in SetOf(sc.events)} : sc \in SetOf(scenarios)}
    \cup UNION {UNION {{a.blob : a \in SetOf(d.attempts)} : d \in SetOf(sc.deliveries)} :
                sc \in SetOf(scenarios)}

\* A directory no plan command has reached yet has no manifest to open.
ReadManifestError(manifest) == IF manifest.stamp = "none" THEN "manifest_missing" ELSE "none"

\* stored: the bodies installed in the bundle's blob store.  A name is the digest of
\* its content, which is read again and compared.
VerifyBlob(digest, stored) == digest \in stored

LoadError(manifest, stored) ==
  IF ReadManifestError(manifest) # "none" THEN ReadManifestError(manifest)
  ELSE IF ~(ReferencedBlobs(manifest.scenarios) \subseteq DOMAIN manifest.blobs)
    THEN "blob_reference"
  ELSE IF \E digest \in DOMAIN manifest.blobs : ~VerifyBlob(digest, stored)
    THEN "blob_missing"
  ELSE "none"

RecipeMatches(manifest, recipe) ==
  \E sc \in SetOf(manifest.scenarios) : \E d \in SetOf(sc.deliveries) :
    /\ d.id = recipe.delivery
    /\ sc.id = recipe.scenario
    /\ d.event = recipe.event
    /\ d.time = recipe.time
    /\ \A a \in SetOf(d.attempts) : a.blob = recipe.blob

\* Mutant of LoadRealizedError: recipes are matched but their digest is not.
LoadRealizedByInventory(manifest, effective) ==
  IF \E r \in SetOf(effective.recipes) : ~RecipeMatches(manifest, r)
    THEN "recipe_conflict" ELSE "none"

\* The digest check comes first: a recipe is never read from another plan.
LoadRealizedError(manifest, effective) ==
  LET recipes == effective.recipes
  IN IF effective # manifest.digest THEN "digest_mismatch"
     ELSE IF \/ Len(recipes) # Cardinality(DeliveriesOf(manifest))
             \/ Cardinality({r.delivery : r \in SetOf(recipes)}) # Len(recipes)
       THEN "recipe_inventory"
     ELSE IF \E r \in SetOf(recipes) : ~RecipeMatches(manifest, r) THEN "recipe_conflict"
     ELSE "none"

\* A recipe's own constraints: sorted stages, split at the first runtime stage.
RecipeValid(recipe) ==
  /\ recipe.offset \in 0..Len(recipe.mutations)
  /\ RanksSorted(recipe.mutations)
  /\ \A i \in DOMAIN recipe.mutations :
       (i <= recipe.offset) = (StageRank(recipe.mutations[i].type) <= PlanningRank)

\* The fresh configuration of a replay must be the one the digest binds.
ReplayConfigurationError(effective, fresh) ==
  IF effective.project # fresh THEN "configuration_differs" ELSE "none"

ScenarioShape(plan, scenario) ==
  /\ Len(plan.events) = Len(scenario.events)
  /\ Len(plan.deliveries) = PlannedDeliveries(scenario)
  /\ Len(plan.assertions) = Len(scenario.assertions)
  /\ \A i \in DOMAIN plan.assertions : plan.assertions[i].kind = scenario.assertions[i].kind

FullBundleError(manifest, recipes, project) ==
  IF Len(manifest.scenarios) # Len(project.scenarios) THEN "scenario_inventory"
  ELSE IF Cardinality({r.delivery : r \in SetOf(recipes)}) # Cardinality(DeliveriesOf(manifest))
    THEN "recipe_inventory"
  ELSE IF \E i \in DOMAIN manifest.scenarios :
            ~ScenarioShape(manifest.scenarios[i], project.scenarios[i])
    THEN "scenario_shape"
  ELSE IF \E r \in SetOf(recipes) : ~RecipeMatches(manifest, r) THEN "recipe_conflict"
  ELSE "none"

\* The exact set of request bodies, each present once.
RequestBodiesError(manifest, recipes) ==
  IF {r.blob : r \in SetOf(recipes)} \subseteq DOMAIN manifest.blobs
    THEN "none" ELSE "request_blob"

-----------------------------------------------------------------------------
(* Reducing a bundle to selected scenarios.                                 *)

SelectScenarios(manifest, selected) ==
  SelectSeq(manifest.scenarios, LAMBDA sc : sc.id \in selected)

RetainedIndexes(manifest, selected) ==
  SelectSeq([i \in DOMAIN manifest.scenarios |-> i],
            LAMBDA i : manifest.scenarios[i].id \in selected)

ReduceEffective(manifest, effective, selected) ==
  LET kept == RetainedIndexes(manifest, selected)
  IN [project |-> [effective.project EXCEPT
                     !.scenarios = [k \in DOMAIN kept |-> @[kept[k]]]],
      recipes |-> SelectSeq(effective.recipes, LAMBDA r : r.scenario \in selected)]

SelectBlobs(manifest, scenarios) ==
  [b \in DOMAIN manifest.blobs \cap ReferencedBlobs(scenarios) |-> manifest.blobs[b]]

ReduceManifest(manifest, effective, selected) ==
  LET scenarios == SelectScenarios(manifest, selected)
  IN Manifest(manifest.stamp, ReduceEffective(manifest, effective, selected),
              SelectBlobs(manifest, scenarios), scenarios)

SelectError(manifest, selected) ==
  IF selected \subseteq {sc.id : sc \in SetOf(manifest.scenarios)} THEN "none" ELSE "selection"

ReduceError(manifest, effective, selected) ==
  LET scenarios == SelectScenarios(manifest, selected)
  IN IF Len(effective.project.scenarios) # Len(manifest.scenarios) THEN "scenario_inventory"
     ELSE IF ~(ReferencedBlobs(scenarios) \subseteq DOMAIN manifest.blobs) THEN "blob_reference"
     ELSE "none"
=============================================================================
