------------------------------ MODULE Planning ------------------------------
(***************************************************************************)
(* From configuration to signed requests.  A caller may run the semantic   *)
(* validator on a project (the commands themselves do not).  Plan commands *)
(* compile it and install the bundle's files one by one in a directory     *)
(* that a second plan command may be using too, and may die anywhere.  An  *)
(* execution takes its bundle from its own compilation (run) or from that  *)
(* directory (replay), seeds the journal and builds every attempt's        *)
(* request: the runtime mutations around the live signer.  The receiver's  *)
(* answer decides which planned retry, if any, is scheduled.               *)
(***************************************************************************)
EXTENDS JournalBootstrap

CONSTANTS
  Planners,     \* plan commands that share the bundle directory (strings)
  Documents,    \* fixture contents a mutation list is judged against
  Sessions      \* [configs: planner -> project, validated, fresh: project, route, answers]

VARIABLES
  session,   \* what the commands of this behaviour are given
  planner,   \* planner -> [stage, verdict, bundle]
  disk,      \* the shared directory: [manifest, effective, preview, blobs]
  compiled,  \* every bundle a plan command has compiled so far
  exec,      \* the execution: [stage, manifest, effective, error]
  exported,  \* the reduced bundle of an export: [manifest, effective, selected, error]
  rows,      \* the journal's seeded rows and schedules
  requests   \* attempts whose request was built

vars == <<session, planner, disk, compiled, exec, exported, rows, requests>>

NoBundle == [error |-> "none", manifest |-> NoManifest, effective |-> NoEffective]
Idle(stage) == [stage |-> stage, manifest |-> NoManifest, effective |-> NoEffective,
                error |-> "none"]
NoExport == [manifest |-> NoManifest, effective |-> NoEffective, selected |-> {},
             error |-> "none"]

Init ==
  /\ session \in Sessions
  /\ planner = [p \in Planners |->
                  [stage |-> IF p \notin DOMAIN session.configs THEN "dead"
                             ELSE IF session.validated THEN "unchecked" ELSE "loaded",
                   verdict |-> "unchecked", bundle |-> NoBundle]]
  /\ disk = [manifest |-> NoManifest, effective |-> NoBundle, preview |-> "none", blobs |-> {}]
  /\ compiled = {}
  /\ exec = Idle("idle")
  /\ exported = NoExport
  /\ rows = NoRows
  /\ requests = {}

Config(p) == session.configs[p]
Moves(p, from, to) ==
  planner[p].stage = from /\ planner' = [planner EXCEPT ![p].stage = to]

-----------------------------------------------------------------------------
(* Plan commands.                                                           *)

\* A caller that validates first does not plan what was refused.
Validate(p) ==
  /\ planner[p].stage = "unchecked"
  /\ planner' = [planner EXCEPT
       ![p].stage = IF Accepted(Config(p)) THEN "loaded" ELSE "refused",
       ![p].verdict = IF Accepted(Config(p)) THEN "accepted" ELSE "rejected"]
  /\ UNCHANGED <<session, disk, compiled, exec, exported, rows, requests>>

\* The generator is keyed by the seed: one draw for each retry of each step.
JitterDraws(project) ==
  LET Of(s) == {f \in [Delivers(project.scenarios[s]) ->
                         UNION {Draws(project.scenarios[s].steps[i]) :
                                i \in Delivers(project.scenarios[s])}] :
                  \A i \in DOMAIN f : f[i] \in Draws(project.scenarios[s].steps[i])}
  IN {j \in [DOMAIN project.scenarios -> UNION {Of(s) : s \in DOMAIN project.scenarios}] :
        \A s \in DOMAIN j : j[s] \in Of(s)}

Compile(p) ==
  /\ planner[p].stage = "loaded"
  /\ \E jitter \in JitterDraws(Config(p)) :
       \E bundle \in {CompileRunBundle(Config(p), jitter, p)} :
         /\ planner' = [planner EXCEPT
              ![p].stage = IF bundle.error = "none" THEN "blobs" ELSE "failed",
              ![p].bundle = bundle]
         /\ compiled' = IF bundle.error = "none" THEN compiled \cup {bundle} ELSE compiled
  /\ UNCHANGED <<session, disk, exec, exported, rows, requests>>

\* Content-addressed: an existing blob is verified, a new one linked in place.
InstallBlob(p) ==
  LET missing == DOMAIN planner[p].bundle.manifest.blobs \ disk.blobs
  IN /\ planner[p].stage = "blobs"
     /\ IF missing = {}
          THEN /\ planner' = [planner EXCEPT ![p].stage = "manifest"]
               /\ UNCHANGED disk
          ELSE /\ disk' = [disk EXCEPT !.blobs = @ \cup {CHOOSE b \in missing : TRUE}]
               /\ UNCHANGED planner
     /\ UNCHANGED <<session, compiled, exec, exported, rows, requests>>

\* Three atomic replacements, in this order.
MaterializeManifest(p) ==
  /\ Moves(p, "manifest", "effective")
  /\ disk' = [disk EXCEPT !.manifest = planner[p].bundle.manifest]
  /\ UNCHANGED <<session, compiled, exec, exported, rows, requests>>

MaterializeEffective(p) ==
  /\ Moves(p, "effective", "preview")
  /\ disk' = [disk EXCEPT !.effective = planner[p].bundle]
  /\ UNCHANGED <<session, compiled, exec, exported, rows, requests>>

MaterializePreview(p) ==
  /\ Moves(p, "preview", "installed")
  /\ disk' = [disk EXCEPT !.preview = p]
  /\ UNCHANGED <<session, compiled, exec, exported, rows, requests>>

Die(p) ==
  /\ session.route = "replay"
  /\ planner[p].stage \in {"blobs", "manifest", "effective", "preview"}
  /\ planner' = [planner EXCEPT ![p].stage = "dead", ![p].bundle = NoBundle]
  /\ UNCHANGED <<session, disk, compiled, exec, exported, rows, requests>>

-----------------------------------------------------------------------------
(* Taking a bundle: from the same process, or from the directory.           *)

Take(stage, manifest, effective, error) ==
  exec' = [stage |-> IF error = "none" THEN stage ELSE "refused",
           manifest |-> manifest, effective |-> effective, error |-> error]

FirstError(errors) ==
  LET wrong == {i \in DOMAIN errors : errors[i] # "none"}
  IN IF wrong = {} THEN "none" ELSE errors[Min(wrong)]

RunCompiled(p) ==
  /\ session.route = "run"
  /\ exec.stage = "idle"
  /\ planner[p].stage = "installed"
  /\ LET bundle == planner[p].bundle
     IN Take("ready", bundle.manifest, bundle.effective,
             FullBundleError(bundle.manifest, bundle.effective.recipes, Config(p)))
  /\ UNCHANGED <<session, planner, disk, compiled, exported, rows, requests>>

\* load_replay_bundle: the manifest and its blobs, whatever is installed of them.
LoadBundle ==
  /\ session.route = "replay"
  /\ exec.stage = "idle"
  /\ Take("loaded", disk.manifest, NoEffective, LoadError(disk.manifest, disk.blobs))
  /\ UNCHANGED <<session, planner, disk, compiled, exported, rows, requests>>

\* prepare_loaded: re-read, require the same manifest, read the configuration.
PrepareLoaded ==
  LET effective == disk.effective.effective
  IN /\ exec.stage = "loaded"
     /\ IF disk.manifest.stamp # exec.manifest.stamp
          THEN Take("ready", exec.manifest, NoEffective, "source_changed")
        ELSE IF disk.effective.manifest.stamp = "none"
          THEN Take("ready", exec.manifest, NoEffective, "effective_missing")
        ELSE Take("ready", exec.manifest, effective,
                  FirstError(<<LoadRealizedError(exec.manifest, effective),
                               ReplayConfigurationError(effective, session.fresh),
                               FullBundleError(exec.manifest, effective.recipes, session.fresh),
                               RequestBodiesError(exec.manifest, effective.recipes)>>))
     /\ UNCHANGED <<session, planner, disk, compiled, exported, rows, requests>>

-----------------------------------------------------------------------------
(* Exporting a reduced bundle, by a process that has loaded the source.      *)

\* Mutant of SameSource: only the inventory of scenarios is compared.
SameScenarios(expected, reloaded) ==
  {sc.id : sc \in SetOf(expected.scenarios)} = {sc.id : sc \in SetOf(reloaded.scenarios)}

SameSource(expected, reloaded) == expected.stamp = reloaded.stamp

\* The source is loaded again, whatever was installed since, and must not have
\* changed; then the scenarios are selected.
ReloadSource ==
  /\ exec.stage = "loaded"
  /\ \E selected \in SUBSET {sc.id : sc \in SetOf(exec.manifest.scenarios)} \ {{}} :
       LET error == FirstError(<<LoadError(disk.manifest, disk.blobs),
                                 IF SameSource(exec.manifest, disk.manifest)
                                   THEN "none" ELSE "source_changed",
                                 SelectError(disk.manifest, selected)>>)
       IN /\ exported' = [manifest |-> disk.manifest, effective |-> NoEffective,
                          selected |-> selected, error |-> error]
          /\ exec' = [exec EXCEPT !.stage = IF error = "none" THEN "reloaded" ELSE "exported"]
  /\ UNCHANGED <<session, planner, disk, compiled, rows, requests>>

\* The effective configuration is read from the directory, reduced, written with
\* the selected blobs to a fresh directory and loaded from there.
WriteReduced ==
  LET source == exported.manifest
      effective == disk.effective.effective
      manifest == ReduceManifest(source, effective, exported.selected)
      error == IF disk.effective.manifest.stamp = "none" THEN "effective_missing"
               ELSE IF LoadRealizedError(source, effective) # "none"
                 THEN LoadRealizedError(source, effective)
               ELSE FirstError(<<ReduceError(source, effective, exported.selected),
                                 LoadError(manifest, DOMAIN manifest.blobs),
                                 LoadRealizedError(manifest, manifest.digest)>>)
  IN /\ exec.stage = "reloaded"
     /\ exec' = [exec EXCEPT !.stage = "exported"]
     /\ exported' = [exported EXCEPT
          !.error = error,
          !.manifest = IF error = "none" THEN manifest ELSE NoManifest,
          !.effective = IF error = "none" THEN manifest.digest ELSE NoEffective]
     /\ UNCHANGED <<session, planner, disk, compiled, rows, requests>>

-----------------------------------------------------------------------------
(* Seeding the journal and executing its schedules.                         *)

Fails(error) == exec' = [exec EXCEPT !.stage = "failed", !.error = error]

\* A repeated bootstrap (the answer to the first was lost) verifies its rows.
Bootstrap ==
  LET expected == BootstrapRows("run", exec.manifest)
  IN /\ exec.stage \in {"ready", "executing"}
     /\ requests = {}
     /\ exec.stage = "executing" => session.route = "replay"
     /\ IF BuildErrors(exec.manifest) # {}
          THEN Fails("bootstrap") /\ UNCHANGED rows
        ELSE IF rows.run = "none"
          THEN exec' = [exec EXCEPT !.stage = "executing"] /\ rows' = expected
        ELSE /\ IF VerifyExisting(rows, expected)
                  THEN UNCHANGED exec ELSE Fails("rows_differ")
             /\ UNCHANGED rows
     /\ UNCHANGED <<session, planner, disk, compiled, exported, requests>>

Entries == {r.schedule : r \in requests}
Due == rows.schedules \ Entries
LogicalNow == Max({0} \cup {e.time : e \in Entries})
TheRecipe(entry) ==
  CHOOSE r \in SetOf(exec.effective.recipes) : r.delivery = entry.delivery
TheDelivery(entry) ==
  CHOOSE d \in DeliveriesOf(exec.manifest) : d.id = entry.delivery
ExecutedProject == exec.effective.project

\* The live stages: everything after the planning prefix, around the signer.
PrepareRealizedAttempt(recipe, entry) ==
  LET project == ExecutedProject
      signer == IF recipe.signer = "none" THEN NoSigner ELSE project.signers[recipe.signer]
  IN IF recipe.signer \notin DOMAIN project.signers \cup {"none"}
       THEN [error |-> "signer_missing", phase |-> "none", signed |-> FALSE,
             state |-> [body |-> recipe.blob, headers |-> <<>>, time |-> entry.time,
                        signer |-> NoSigner]]
     ELSE Execute([body |-> recipe.blob,
                   headers |-> <<[name |-> "content-type",
                                  value |-> TextValue(<<recipe.media>>)]>>,
                   event |-> recipe.event, time |-> entry.time, media |-> recipe.media,
                   signer |-> signer,
                   mutations |-> SubSeq(recipe.mutations, recipe.offset + 1,
                                        Len(recipe.mutations)),
                   registry |-> RawTypes \cup SignatureTypes])

\* The schedule is leased before the request is built; an error ends the run.
SendNext ==
  LET entry == FirstAttempt(Due)
      recipe == TheRecipe(entry)
      result == PrepareRealizedAttempt(recipe, entry)
      error == IF result.phase = "preflight" THEN "preflight" ELSE result.error
  IN /\ exec.stage = "executing"
     /\ \A r \in requests : r.answer # "pending"
     /\ Due # {}
     /\ IF entry.time < LogicalNow THEN Fails("time_backwards") /\ UNCHANGED requests
        ELSE IF error # "none" THEN Fails(error) /\ UNCHANGED requests
        ELSE /\ requests' = requests \cup
                  {[schedule |-> entry, headers |-> result.state.headers,
                    body |-> result.state.body, answer |-> "pending"]}
             /\ UNCHANGED exec
     /\ UNCHANGED <<session, planner, disk, compiled, exported, rows>>

Predicates == {"retryable_status", "timed_out", "connection_failed"}

AttemptPlanValid(plan) ==
  \A n \in 1..(Len(plan) - 1) : plan[n].notBefore <= plan[n + 1].notBefore

\* Only the next template is looked at, and only for an unambiguous predecessor.
EvaluateRetry(delivery, ordinal, answer) ==
  LET plan == delivery.attempts
  IN IF ~AttemptPlanValid(plan) THEN "policy_error"
     ELSE IF ordinal + 1 > Len(plan) THEN "exhausted"
     ELSE IF answer = "ambiguous" THEN "ambiguous_blocked"
     ELSE IF answer \notin plan[ordinal + 1].conditionalOn \cap Predicates THEN "ineligible"
     ELSE "scheduled"

RetrySchedule(entry, delivery) ==
  [entry EXCEPT
     !.entry = PlannedId("retry", <<entry.entry, entry.attemptOrdinal + 1>>),
     !.attemptPlan = PlannedId("attempt_plan", <<delivery.id, entry.attemptOrdinal + 1>>),
     !.time = delivery.attempts[entry.attemptOrdinal + 1].notBefore,
     !.attemptOrdinal = @ + 1]

\* The receiver answers; a policy error leaves the attempt without a terminal state.
Answer ==
  \E r \in requests, answer \in session.answers :
    LET delivery == TheDelivery(r.schedule)
        decision == EvaluateRetry(delivery, r.schedule.attemptOrdinal, answer)
    IN /\ exec.stage = "executing"
       /\ r.answer = "pending"
       /\ IF decision = "policy_error"
            THEN Fails("retry_policy") /\ UNCHANGED <<rows, requests>>
            ELSE /\ requests' = (requests \ {r}) \cup {[r EXCEPT !.answer = answer]}
                 /\ rows' = IF decision = "scheduled"
                              THEN [rows EXCEPT !.schedules =
                                      @ \cup {RetrySchedule(r.schedule, delivery)}]
                              ELSE rows
                 /\ UNCHANGED exec
       /\ UNCHANGED <<session, planner, disk, compiled, exported>>

Finish ==
  /\ exec.stage = "executing"
  /\ Due = {}
  /\ \A r \in requests : r.answer # "pending"
  /\ exec' = [exec EXCEPT !.stage = "done"]
  /\ UNCHANGED <<session, planner, disk, compiled, exported, rows, requests>>

Next ==
  \/ \E p \in Planners :
       \/ Validate(p) \/ Compile(p) \/ InstallBlob(p) \/ MaterializeManifest(p)
       \/ MaterializeEffective(p) \/ MaterializePreview(p) \/ Die(p) \/ RunCompiled(p)
  \/ LoadBundle \/ PrepareLoaded \/ ReloadSource \/ WriteReduced
  \/ Bootstrap \/ SendNext \/ Answer \/ Finish

Spec == Init /\ [][Next]_vars

-----------------------------------------------------------------------------
(* Properties.                                                              *)

AcceptedPlan(stamp) == stamp \in Planners /\ planner[stamp].verdict = "accepted"

\* What only the fixture's content or the logical time of the attempt decides.
DataErrors ==
  {"not_applicable", "invalid_parameter", "member_exists", "resource_limit",
   "media_conflict", "event_type"}

\* What another plan command, a dead one or an edited configuration explains.
ReplayErrors ==
  {"source_changed", "effective_missing", "digest_mismatch", "configuration_differs"}

\* The whole list of a delivery, as it would run late enough on another content
\* of its fixture.
RunsOn(project, s, i, doc) ==
  LET scenario == project.scenarios[s]
      step == scenario.steps[i]
      fixture == FixtureOf(project, scenario, step.event)
  IN Execute([body |-> Serialize(doc),
              headers |-> <<[name |-> "content-type", value |-> TextValue(<<fixture.media>>)]>>,
              event |-> step.event, time |-> MaxLogicalTime, media |-> fixture.media,
              signer |-> SignerOf(project, step),
              mutations |-> RealizeMutations(step.mutations, fixture),
              registry |-> AllTypes]).error = "none"

\* Lists that no content satisfies and the validator still accepts: a target at or
\* below the truncated length (the larger ones, which would do, are refused), a
\* cut or an alteration past the end of the fixed invalid text, and the same type
\* asked for twice at one pointer.
LeftToThePipeline(ms) ==
  \E i, j \in DOMAIN ms :
    /\ i < j
    /\ \/ /\ ms[i].type = "truncate-bytes-v1" /\ ms[j].type = "oversized-body-v1"
          /\ ms[j].targetBytes <= ms[i].length
       \/ /\ ms[i].type = "invalid-json-v1"
          /\ \/ ms[j].type = "truncate-bytes-v1" /\ ms[j].length > InvalidTextBytes
             \/ ms[j].type = "alter-after-signing-v1" /\ ms[j].offset >= InvalidTextBytes
       \/ /\ {ms[i].type, ms[j].type} = {"replace-json-type-v1"}
          /\ ms[i].pointer = ms[j].pointer
          /\ ms[i].targetType = ms[j].targetType

\* It is the fixture's content that was refused: every delivery's list runs on
\* another one.
ContentDecides(project) ==
  \A s \in DOMAIN project.scenarios : \A i \in Delivers(project.scenarios[s]) :
    \/ LeftToThePipeline(project.scenarios[s].steps[i].mutations)
    \/ \E doc \in Documents : RunsOn(project, s, i, doc)

\* A project the semantic validator accepts is never refused later for a rule
\* that can be decided from the configuration: no mutation list rejects it in
\* preflight, for a header conflict or because one operator takes away what a
\* later one needs whatever the fixture holds (LeftToThePipeline names the lists
\* the validator misses), no reference is unresolved, no blob a visible manifest
\* names is missing, its journal rows can be seeded, and neither they nor the
\* retries scheduled since meet a constraint of their tables.
AcceptedExecutes ==
  /\ \A p \in Planners :
       AcceptedPlan(p) => \/ planner[p].bundle.error = "none"
                          \/ planner[p].bundle.error \in DataErrors /\ ContentDecides(Config(p))
  /\ AcceptedPlan(exec.manifest.stamp) =>
       \/ exec.error \in ReplayErrors \cup {"none"}
       \/ exec.error \in DataErrors /\ ContentDecides(ExecutedProject)
  /\ RowsSeedable(rows)

Acyclic(nodes, edges) ==
  \A S \in SUBSET nodes \ {{}} : \E n \in S : SetOf(edges[n]) \cap S = {}

\* The three-colour searches over event dependencies and over baselines report
\* a cycle exactly when the graph has one: some events (or scenarios) that each
\* lead to another of them.
CyclesAreReported ==
  \A p \in Planners :
    planner[p].stage \in {"loaded", "refused"} /\ planner[p].verdict # "unchecked" =>
      LET project == Config(p)
      IN /\ \A sc \in SetOf(project.scenarios) :
              (ValidateDependencyCycles(sc) = {})
                = Acyclic(Ids(sc.events), DependencyEdges(sc))
         /\ (ValidateBaselineCycles(project) = {})
              = Acyclic(Ids(project.scenarios), BaselineEdges(project))

Has(recipe, types) == \E m \in SetOf(recipe.mutations) : m.type \in types

DeclaredReason(recipe) ==
  IF Has(recipe, {"missing-signature-v1"}) THEN "missing_header"
  ELSE IF Has(recipe, {"malformed-signature-v1"}) THEN "malformed_header"
  ELSE IF Has(recipe, {"wrong-signing-key-v1", "alter-after-signing-v1"})
    THEN "signature_mismatch"
  ELSE "valid"

DeclaredAge(recipe) ==
  MapThenSumSet(LAMBDA i : IF recipe.mutations[i].type = "stale-signature-timestamp-v1"
                             THEN recipe.mutations[i].age ELSE 0,
                DOMAIN recipe.mutations)

SignedAsDeclared(r) ==
  LET recipe == TheRecipe(r.schedule)
      signer == ExecutedProject.signers[recipe.signer]
      reason == Verify(signer, [body |-> r.body, event |-> recipe.event,
                                time |-> r.schedule.time], r.headers)
  IN recipe.signer # "none" =>
       /\ reason = DeclaredReason(recipe)
       /\ reason \in {"valid", "signature_mismatch"} /\ signer.profile # GenericHmac =>
            StampedSecond(signer, r.headers)
              = Seconds(r.schedule.time - DeclaredAge(recipe))

\* A receiver that verifies the request of a validated delivery finds exactly
\* the signature fault its mutations declare, and no other: the live stages run
\* after the planned ones, the signature covers the body it is sent with unless
\* an alteration is declared, alterations never cancel, a retry is signed for
\* its own logical time, and one content-type header is left.
SignatureTellsFault ==
  AcceptedPlan(exec.manifest.stamp) =>
    \A r \in requests :
      /\ SignedAsDeclared(r)
      /\ Len(Matching(r.headers, "content-type")) = 1

\* Whatever plan commands were installing or died installing, an execution only
\* combines a manifest with the realized recipes of the same compilation.
LoadedIsOneCompilation ==
  exec.stage \in {"ready", "executing", "done", "failed"} =>
    \E b \in compiled : exec.manifest = b.manifest /\ exec.effective = b.effective

\* What a plan command that replaced the source, or one that has not installed
\* all of it, explains.
ExportErrors == {"source_changed", "effective_missing", "digest_mismatch"}

\* An exported bundle is the selected part of the compilation that was loaded,
\* although the source is read again from a directory in which plan commands may
\* be installing another one: the same scenarios in the same order, configured
\* by their own entries, with exactly their recipes and blobs, ready to replay.
\* An export is refused only when the directory was not that compilation's alone.
ReducedReplays ==
  exec.stage = "exported" =>
    \/ /\ exported.error = "none"
       /\ \E b \in compiled :
            LET kept == SelectSeq([i \in DOMAIN b.manifest.scenarios |-> i],
                                  LAMBDA i : b.manifest.scenarios[i].id \in exported.selected)
            IN /\ b.manifest = exec.manifest
               /\ exported.manifest.scenarios
                    = [k \in DOMAIN kept |-> b.manifest.scenarios[kept[k]]]
               /\ exported.effective.project.scenarios
                    = [k \in DOMAIN kept |-> b.effective.project.scenarios[kept[k]]]
               /\ SetOf(exported.effective.recipes)
                    = {r \in SetOf(b.effective.recipes) : r.scenario \in exported.selected}
       /\ DOMAIN exported.manifest.blobs = ReferencedBlobs(exported.manifest.scenarios)
       /\ FullBundleError(exported.manifest, exported.effective.recipes,
                          exported.effective.project) = "none"
       /\ BuildErrors(exported.manifest) = {}
    \/ /\ exported.error \in ExportErrors
       /\ exported.error # "effective_missing" => Cardinality(compiled) > 1

\* An attempt that was sent and answered is settled: evaluating its retry never
\* fails on the plan, because a retry's delay is the backoff plus a signed
\* jitter, clamped at zero.
AnsweredAttemptSettles == exec.error # "retry_policy"
=============================================================================
