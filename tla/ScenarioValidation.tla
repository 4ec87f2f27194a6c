------------------------- MODULE ScenarioValidation -------------------------
(***************************************************************************)
(* Semantic validation of a loaded project (scenario/validate.py): the     *)
(* rules that relate fixtures, events, steps, mutations, signers and       *)
(* baselines to each other.  Every rule adds a diagnostic; a project is    *)
(* accepted when there is none.  Diagnostics are the set of their codes.   *)
(*                                                                         *)
(* A project is a record with sequences of fixtures and scenarios; a step  *)
(* is a record whose `kind' tells which of the five step types it is; the  *)
(* name "none" stands for an absent signer or concurrency group.           *)
(***************************************************************************)
EXTENDS Mutations

CONSTANT
  MaxLogicalTime   \* the largest logical time a scenario's waits may reach

ASSUME LogicalTimeAssumption == MaxLogicalTime \in Nat

When(condition, code) == IF condition THEN {code} ELSE {}

Ids(seq) == {seq[i].id : i \in DOMAIN seq}
Named(seq, id) == seq[Min({i \in DOMAIN seq : seq[i].id = id})]

\* The first entry with an id is the one every reference resolves to.
FirstIndexes(seq, code) == When(~Distinct([i \in DOMAIN seq |-> seq[i].id]), code)

StepsOf(scenario, kind) == {i \in DOMAIN scenario.steps : scenario.steps[i].kind = kind}
Delivers(scenario) == StepsOf(scenario, "deliver")

-----------------------------------------------------------------------------
(* Cycle detection: an iterative depth-first search with three colours.     *)

RECURSIVE Climb(_, _, _)
Climb(parent, cursor, stop) ==
  IF cursor = "none" \/ cursor = stop THEN {}
  ELSE {cursor} \cup Climb(parent, parent[cursor], stop)

\* Mutant of SearchStep: a finished node keeps the colour of an open one.
SearchStepStaysGray(s, edges) ==
  LET top == Len(s.stack)
      node == s.stack[top][1]
      k == s.stack[top][2]
      next == edges[node][k]
      advanced == [s EXCEPT !.stack[top] = <<node, k + 1>>]
  IN IF k > Len(edges[node]) THEN [s EXCEPT !.stack = SubSeq(@, 1, top - 1)]
     ELSE IF s.color[next] = 0
       THEN [advanced EXCEPT !.color[next] = 1, !.parent[next] = node,
                             !.stack = Append(@, <<next, 1>>)]
     ELSE [advanced EXCEPT !.members = @ \cup {next} \cup Climb(s.parent, node, next)]

SearchStep(s, edges) ==
  LET top == Len(s.stack)
      node == s.stack[top][1]
      k == s.stack[top][2]
      next == edges[node][k]
      advanced == [s EXCEPT !.stack[top] = <<node, k + 1>>]
  IN IF k > Len(edges[node])
       THEN [s EXCEPT !.color[node] = 2, !.stack = SubSeq(@, 1, top - 1)]
     ELSE IF s.color[next] = 0
       THEN [advanced EXCEPT !.color[next] = 1, !.parent[next] = node,
                             !.stack = Append(@, <<next, 1>>)]
     ELSE IF s.color[next] = 1
       THEN [advanced EXCEPT !.members = @ \cup {next} \cup Climb(s.parent, node, next)]
     ELSE advanced

RECURSIVE Search(_, _)
Search(s, edges) == IF s.stack = <<>> THEN s ELSE Search(SearchStep(s, edges), edges)

\* nodes: a sequence of distinct names; edges[node]: its successors, in order.
CycleMembers(nodes, edges) ==
  LET start == [color |-> [n \in SetOf(nodes) |-> 0],
                parent |-> [n \in SetOf(nodes) |-> "none"],
                members |-> {}, stack |-> <<>>]
  IN FoldLeft(LAMBDA s, n :
                IF s.color[n] # 0 THEN s
                ELSE Search([s EXCEPT !.color[n] = 1, !.stack = <<<<n, 1>>>>], edges),
              start, nodes).members

-----------------------------------------------------------------------------
(* Events and their dependencies.                                           *)

\* Edges that resolve: neither a self-dependency nor an unknown event.
DependencyEdges(scenario) ==
  [id \in Ids(scenario.events) |->
     SelectSeq(Named(scenario.events, id).dependsOn,
               LAMBDA d : d # id /\ d \in Ids(scenario.events))]

IdSequence(seq) == [i \in DOMAIN seq |-> seq[i].id]

ValidateEvents(project, scenario) ==
  FirstIndexes(scenario.events, "SCENARIO_DUPLICATE_EVENT_ID")
  \cup FirstIndexes(scenario.assertions, "SCENARIO_DUPLICATE_ASSERTION_ID")
  \cup UNION {
    LET event == scenario.events[i]
        unknown == SetOf(event.dependsOn) \ Ids(scenario.events)
    IN When(event.fixture \notin Ids(project.fixtures), "SCENARIO_EVENT_FIXTURE_NOT_FOUND")
       \cup When(event.id \in SetOf(event.dependsOn), "SCENARIO_EVENT_DEPENDENCY_SELF")
       \cup When(unknown # {}, "SCENARIO_EVENT_DEPENDENCY_NOT_FOUND") :
    i \in DOMAIN scenario.events}

ValidateDependencyCycles(scenario) ==
  When(CycleMembers(IdSequence(scenario.events), DependencyEdges(scenario)) # {},
       "SCENARIO_EVENT_DEPENDENCY_CYCLE")

-----------------------------------------------------------------------------
(* Deliver steps: references, planned work, and the faults they introduce.  *)

ValidateDeliverReferences(project, scenario) ==
  UNION {
    LET step == scenario.steps[i]
    IN When(step.event \notin Ids(scenario.events), "SCENARIO_DELIVERY_EVENT_NOT_FOUND")
       \cup When(step.signer \notin DOMAIN project.signers \cup {"none"},
                 "SCENARIO_DELIVERY_SIGNER_NOT_FOUND") :
    i \in Delivers(scenario)}

SignerOf(project, step) ==
  IF step.signer \in DOMAIN project.signers THEN project.signers[step.signer] ELSE NoSigner

Delivered(scenario) ==
  {scenario.steps[i].event : i \in Delivers(scenario)} \cap Ids(scenario.events)

PlannedDeliveries(scenario) ==
  MapThenSumSet(LAMBDA i : scenario.steps[i].count, Delivers(scenario))

PlannedAttempts(scenario) ==
  MapThenSumSet(LAMBDA i : scenario.steps[i].count * scenario.steps[i].retry.maxAttempts,
                Delivers(scenario))

RetryFaults(scenario) == UNION {scenario.steps[i].retry.retryOn : i \in Delivers(scenario)}

MutationFaults(scenario) ==
  UNION {{m.type : m \in SetOf(scenario.steps[i].mutations)} :
         i \in {j \in Delivers(scenario) :
                  scenario.steps[j].event \in Ids(scenario.events)}}

\* Waits accumulate; the first one past the range is refused.
ValidateWaits(scenario) ==
  When(FoldLeft(LAMBDA t, step : IF step.kind = "wait" THEN t + step.ticks ELSE t,
                0, scenario.steps) > MaxLogicalTime,
       "SCENARIO_LOGICAL_TIME_OVERFLOW")

-----------------------------------------------------------------------------
(* Concurrency groups and the barriers that release them.                   *)

Members(scenario, group) == {i \in Delivers(scenario) : scenario.steps[i].group = group}
Releases(scenario, name) ==
  {i \in StepsOf(scenario, "barrier") : scenario.steps[i].group = name}
Groups(scenario) == {scenario.steps[i].group : i \in Delivers(scenario)} \ {"none"}
GroupSize(scenario, group) ==
  MapThenSumSet(LAMBDA i : scenario.steps[i].count, Members(scenario, group))

ValidateGroups(scenario) ==
  UNION {
    LET releases == Releases(scenario, group)
    IN When(GroupSize(scenario, group) < 2, "SCENARIO_CONCURRENCY_GROUP_TOO_SMALL")
       \cup When(releases = {}, "SCENARIO_CONCURRENCY_BARRIER_MISSING")
       \cup When(Cardinality(releases) > 1, "SCENARIO_CONCURRENCY_BARRIER_DUPLICATE")
       \cup When(releases # {} /\ Min(releases) <= Max(Members(scenario, group)),
                 "SCENARIO_CONCURRENCY_BARRIER_EARLY") :
    group \in Groups(scenario)}

ValidateBarriers(scenario) ==
  When(\E i \in StepsOf(scenario, "barrier") :
         scenario.steps[i].group \notin Groups(scenario),
       "SCENARIO_BARRIER_GROUP_NOT_FOUND")

GroupFaults(scenario) ==
  UNION {When(GroupSize(scenario, group) >= 2, "delivery_concurrent") :
         group \in Groups(scenario)}

-----------------------------------------------------------------------------
(* What the order of the deliveries does to each event.                     *)

StepsFor(scenario, id) == {i \in Delivers(scenario) : scenario.steps[i].event = id}
FirstDelivery(scenario, id) == Min(StepsFor(scenario, id))
EventGroups(scenario, id) ==
  {scenario.steps[i].group : i \in StepsFor(scenario, id)} \ {"none"}

\* More than one delivery, unless one group holds them all.
DuplicateDelivery(scenario, id) ==
  /\ MapThenSumSet(LAMBDA i : scenario.steps[i].count, StepsFor(scenario, id)) > 1
  /\ \/ \E i \in StepsFor(scenario, id) : scenario.steps[i].group = "none"
     \/ Cardinality(EventGroups(scenario, id)) # 1

OrderReversed(scenario, event) ==
  \E d \in SetOf(event.dependsOn) :
    /\ StepsFor(scenario, d) # {}
    /\ StepsFor(scenario, event.id) # {}
    /\ d \in Ids(scenario.events)
    /\ \/ FirstDelivery(scenario, event.id) < FirstDelivery(scenario, d)
       \/ EventGroups(scenario, event.id) \cap EventGroups(scenario, d) # {}

EventFaults(scenario) ==
  UNION {When(DuplicateDelivery(scenario, scenario.events[i].id), "delivery_duplicate")
         \cup When(OrderReversed(scenario, scenario.events[i]),
                   "delivery_dependency_order_reversal") :
         i \in DOMAIN scenario.events}

ValidateDelivered(scenario) ==
  When(~(Ids(scenario.events) \subseteq Delivered(scenario)), "SCENARIO_EVENT_NOT_DELIVERED")

RestartFaults(scenario) == When(StepsOf(scenario, "restart") # {}, "lifecycle_restart")

FaultClasses(scenario) ==
  MutationFaults(scenario) \cup RetryFaults(scenario) \cup GroupFaults(scenario)
    \cup EventFaults(scenario) \cup RestartFaults(scenario)

-----------------------------------------------------------------------------
(* Observers, lifecycles and assertions.                                    *)

ValidateLifecycleObservers(project) ==
  When(\E l \in DOMAIN project.lifecycles :
         project.lifecycles[l].observer \notin project.observers,
       "SCENARIO_LIFECYCLE_OBSERVER_NOT_FOUND")

ValidateObserveSteps(project, scenario) ==
  When(\E i \in StepsOf(scenario, "observe") :
         scenario.steps[i].observer \notin project.observers,
       "SCENARIO_OBSERVE_OBSERVER_NOT_FOUND")

ValidateRestartSteps(project, scenario) ==
  UNION {
    LET name == scenario.steps[i].lifecycle
    IN IF name \notin DOMAIN project.lifecycles
         THEN {"SCENARIO_RESTART_LIFECYCLE_NOT_FOUND"}
         ELSE When(~project.lifecycles[name].enabled, "SCENARIO_RESTART_LIFECYCLE_DISABLED") :
    i \in StepsOf(scenario, "restart")}

\* An assertion selects an event (attempt assertions) or queries an observer.
ValidateAssertions(project, scenario) ==
  UNION {
    LET assertion == scenario.assertions[i]
    IN IF assertion.kind = "attempt"
         THEN When(assertion.event \notin Ids(scenario.events),
                   "SCENARIO_ASSERTION_EVENT_NOT_FOUND")
              \cup When(assertion.event \in Ids(scenario.events) \ Delivered(scenario),
                        "SCENARIO_ASSERTION_EVENT_NOT_DELIVERED")
         ELSE When(assertion.observer \notin project.observers,
                   "SCENARIO_ASSERTION_OBSERVER_NOT_FOUND") :
    i \in DOMAIN scenario.assertions}

-----------------------------------------------------------------------------
(* Header ownership.                                                        *)

\* Bindings of user headers to deliver steps: [scenario, step, names].
BoundStep(project, b) ==
  /\ b.scenario \in DOMAIN project.scenarios
  /\ b.step \in Delivers(project.scenarios[b.scenario])

UserHeaders(project, s, i) ==
  UNION {b.names : b \in {c \in project.userHeaders : c.scenario = s /\ c.step = i}}

ValidateUserHeaders(project) ==
  UNION {
    IF BoundStep(project, b)
      THEN When(b.names \cap HarnessHeaders # {}, "SCENARIO_USER_HEADER_RESERVED")
      ELSE {"SCENARIO_HEADER_CONTEXT_NOT_FOUND"} :
    b \in project.userHeaders}

ValidateSignerHeaders(signer, users) ==
  LET owned == OwnedHeaders(signer)
  IN When(~Distinct(owned), "SIG_SIGNER_HEADER_INTERNAL_CONFLICT")
     \cup When(SetOf(owned) \cap users # {}, "SIG_SIGNER_HEADER_CONFLICT")
     \cup When(SetOf(owned) \cap HarnessHeaders # {}, "SIG_SIGNER_HEADER_RESERVED")

-----------------------------------------------------------------------------
(* Mutation sequences of one delivery.                                      *)

Earlier(ms, i, types) == {j \in 1..(i - 1) : ms[j].type \in types}

StageOrder(ms) ==
  When(\E i, j \in DOMAIN ms : j < i /\ StageRank(ms[j].type) > StageRank(ms[i].type),
       "MUT_STAGE_ORDER")

\* The pointer a structural mutation writes; event fields come from the fixture.
WritePointer(m, fixture) ==
  CASE m.type = "add-json-field-v1" -> Append(m.pointer, m.name)
    [] m.type = "change-event-id-field-v1" -> fixture.idPointer
    [] m.type = "change-event-type-field-v1" -> fixture.typePointer
    [] OTHER -> m.pointer

\* A later write at, above or below an earlier one needs explicit acceptance;
\* a second add or remove at the same pointer needs its own override as well.
WriteConflict(m, prior, fixture) ==
  LET mine == WritePointer(m, fixture)
      other == WritePointer(prior, fixture)
      same == mine = other
  IN \/ same /\ ~m.acceptPrior
     \/ same /\ m.type = "add-json-field-v1" /\ ~m.overwrite
     \/ /\ same
        /\ m.type = "remove-json-pointer-v1"
        /\ prior.type = "remove-json-pointer-v1"
        /\ m.ifMissing # "ignore"
     \/ ~same /\ (IsPrefix(other, mine) \/ IsPrefix(mine, other)) /\ ~m.acceptPrior

ValidateStructural(ms, fixture) ==
  UNION {
    When(~IsJsonMedia(fixture.media), "MUT_STRUCTURAL_REQUIRES_JSON_FIXTURE")
    \cup When(Earlier(ms, i, {"invalid-json-v1", "truncate-bytes-v1", "oversized-body-v1"})
                # {},
              "MUT_RAW_BYTES_BEFORE_STRUCTURAL")
    \cup When(\E j \in Earlier(ms, i, StructuralTypes) : WriteConflict(ms[i], ms[j], fixture),
              "MUT_STRUCTURAL_POINTER_CONFLICT") :
    i \in {k \in DOMAIN ms : ms[k].type \in StructuralTypes}}

\* Some operators do not compose with themselves.
Once(ms, type, code) ==
  When(\E i \in DOMAIN ms : ms[i].type = type /\ Earlier(ms, i, {type}) # {}, code)

ValidateInvalidJson(ms, fixture) ==
  Once(ms, "invalid-json-v1", "MUT_INVALID_JSON_CONFLICT")
  \cup UNION {
    When(~IsJsonMedia(fixture.media), "MUT_INVALID_JSON_REQUIRES_JSON_FIXTURE")
    \cup When(Earlier(ms, i, {"truncate-bytes-v1"}) # {}, "MUT_INVALID_JSON_AFTER_TRUNCATION") :
    i \in {k \in DOMAIN ms : ms[k].type = "invalid-json-v1"}}

ValidateTruncation(ms) == Once(ms, "truncate-bytes-v1", "MUT_TRUNCATE_BYTES_CONFLICT")

ValidateContentType(ms) ==
  Once(ms, "content-type-mismatch-v1", "MUT_CONTENT_TYPE_MISMATCH_CONFLICT")

ValidateOversized(ms, maxRequestBytes) ==
  Once(ms, "oversized-body-v1", "MUT_OVERSIZED_BODY_CONFLICT")
  \cup UNION {
    When(ms[i].targetBytes > maxRequestBytes, "MUT_OVERSIZED_BODY_EXCEEDS_REQUEST_LIMIT")
    \cup When(\E j \in Earlier(ms, i, {"truncate-bytes-v1"}) :
                ms[i].targetBytes > ms[j].length,
              "MUT_OVERSIZED_BODY_AFTER_TRUNCATION") :
    i \in {k \in DOMAIN ms : ms[k].type = "oversized-body-v1"}}

ValidateSignerPresent(ms, signer) ==
  When(signer = NoSigner /\ \E m \in SetOf(ms) :
         m.type \in SignatureTypes \cup {"alter-after-signing-v1"},
       "MUT_REQUIRES_SIGNER")

ValidateStale(ms, signer) ==
  Once(ms, "stale-signature-timestamp-v1", "MUT_STALE_SIGNATURE_TIMESTAMP_CONFLICT")
  \cup When(/\ signer.profile = GenericHmac
            /\ \E m \in SetOf(ms) : m.type = "stale-signature-timestamp-v1",
            "MUT_STALE_SIGNATURE_TIMESTAMP_NOT_APPLICABLE")

ValidateWrongKey(ms) == Once(ms, "wrong-signing-key-v1", "MUT_WRONG_SIGNING_KEY_CONFLICT")

ValidateSignatureHeader(ms) ==
  LET types == {"missing-signature-v1", "malformed-signature-v1"}
  IN When(\E i \in DOMAIN ms : ms[i].type \in types /\ Earlier(ms, i, types) # {},
          "MUT_SIGNATURE_HEADER_CONFLICT")

Alterations(ms) == {i \in DOMAIN ms : ms[i].type = "alter-after-signing-v1"}

\* Mutant of ValidateAlterOffsets: alterations may meet at one offset.
AlterOffsetsFree(ms) == {}

ValidateAlterOffsets(ms) ==
  When(\E i, j \in Alterations(ms) : i # j /\ ms[i].offset = ms[j].offset,
       "MUT_ALTER_AFTER_SIGNING_RANGE_CONFLICT")

\* Mutant of ValidateAlterRange: off by one at the end of the retained bytes.
AlterRangeLoose(ms) ==
  When(\E i \in Alterations(ms), j \in DOMAIN ms :
         ms[j].type = "truncate-bytes-v1" /\ ms[i].offset > ms[j].length,
       "MUT_ALTER_AFTER_TRUNCATION_RANGE")

ValidateAlterRange(ms) ==
  When(\E i \in Alterations(ms), j \in DOMAIN ms :
         ms[j].type = "truncate-bytes-v1" /\ ms[i].offset >= ms[j].length,
       "MUT_ALTER_AFTER_TRUNCATION_RANGE")

ValidatePurpose(ms, scenario) ==
  When(/\ ~scenario.description
       /\ Alterations(ms) # {}
       /\ \E m \in SetOf(ms) : m.type = "wrong-signing-key-v1",
       "MUT_WRONG_KEY_ALTER_REQUIRES_PURPOSE")

ValidateMutations(project, scenario, ms, fixture, signer) ==
  StageOrder(ms) \cup ValidateStructural(ms, fixture) \cup ValidateInvalidJson(ms, fixture)
    \cup ValidateTruncation(ms) \cup ValidateContentType(ms)
    \cup ValidateOversized(ms, project.maxRequestBytes)
    \cup ValidateSignerPresent(ms, signer) \cup ValidateStale(ms, signer)
    \cup ValidateWrongKey(ms) \cup ValidateSignatureHeader(ms)
    \cup ValidateAlterOffsets(ms) \cup ValidateAlterRange(ms)
    \cup ValidatePurpose(ms, scenario)

\* Only a delivery of a declared event is examined further; an event without a
\* fixture has been reported already, so its mutations cannot change acceptance.
ValidateDeliveries(project, s) ==
  LET scenario == project.scenarios[s]
      known == {i \in Delivers(scenario) : scenario.steps[i].event \in Ids(scenario.events)}
      FixtureId(i) == Named(scenario.events, scenario.steps[i].event).fixture
  IN UNION {
       (IF signer = NoSigner THEN {} ELSE ValidateSignerHeaders(signer, UserHeaders(project, s, i)))
       \cup (IF FixtureId(i) \notin Ids(project.fixtures) THEN {}
             ELSE ValidateMutations(project, scenario, scenario.steps[i].mutations,
                                    Named(project.fixtures, FixtureId(i)), signer)) :
       <<i, signer>> \in {<<k, SignerOf(project, scenario.steps[k])>> : k \in known}}

-----------------------------------------------------------------------------
(* Baselines of multi-fault scenarios, and the project as a whole.          *)

Baselines(scenario) == SetOf(scenario.baselines)

BaselineEdges(project) ==
  LET ids == Ids(project.scenarios)
  IN [id \in ids |->
        LET references == Named(project.scenarios, id).baselines
            Resolved(b) == b.scenario # id /\ b.scenario \in ids
            resolved == SelectSeq(references, Resolved)
        IN [k \in DOMAIN resolved |-> resolved[k].scenario]]

ValidateBaseline(project, scenario, b) ==
  When(b.fault \notin FaultClasses(scenario), "SCENARIO_BASELINE_UNUSED_FAULT_CLASS")
  \cup IF b.scenario = scenario.id THEN {"SCENARIO_BASELINE_SELF_REFERENCE"}
       ELSE IF b.scenario \notin Ids(project.scenarios) THEN {"SCENARIO_BASELINE_NOT_FOUND"}
       ELSE LET faults == FaultClasses(Named(project.scenarios, b.scenario))
            IN IF Cardinality(faults) # 1 THEN {"SCENARIO_BASELINE_NOT_ONE_FAULT"}
               ELSE When(b.fault \notin faults, "SCENARIO_BASELINE_FAULT_MISMATCH")

ValidateBaselines(project) ==
  UNION {
    LET scenario == project.scenarios[s]
        mapped == {b.fault : b \in Baselines(scenario)}
        faults == FaultClasses(scenario)
    IN When(Cardinality(faults) > 1 /\ ~(faults \subseteq mapped), "SCENARIO_BASELINE_REQUIRED")
       \cup UNION {ValidateBaseline(project, scenario, b) : b \in Baselines(scenario)} :
    s \in DOMAIN project.scenarios}

ValidateBaselineCycles(project) ==
  When(CycleMembers(IdSequence(project.scenarios), BaselineEdges(project)) # {},
       "SCENARIO_BASELINE_CYCLE")

ValidateScenario(project, s) ==
  LET scenario == project.scenarios[s]
  IN ValidateEvents(project, scenario) \cup ValidateDependencyCycles(scenario)
       \cup ValidateDeliverReferences(project, scenario) \cup ValidateDeliveries(project, s)
       \cup ValidateWaits(scenario) \cup ValidateGroups(scenario)
       \cup ValidateBarriers(scenario) \cup ValidateDelivered(scenario)
       \cup ValidateObserveSteps(project, scenario)
       \cup ValidateRestartSteps(project, scenario)
       \cup ValidateAssertions(project, scenario)

ValidateLimits(project) ==
  LET Total(Of(_)) ==
        FoldLeft(LAMBDA n, scenario : n + Of(scenario), 0, project.scenarios)
  IN When(Total(LAMBDA scenario : Len(scenario.events)) > project.maxEvents,
          "SCENARIO_EVENT_LIMIT_EXCEEDED")
     \cup When(Total(PlannedAttempts) > project.maxAttempts,
               "SCENARIO_ATTEMPT_LIMIT_EXCEEDED")

ValidateProjectSemantics(project) ==
  ValidateUserHeaders(project)
    \cup FirstIndexes(project.fixtures, "SCENARIO_DUPLICATE_FIXTURE_ID")
    \cup FirstIndexes(project.scenarios, "SCENARIO_DUPLICATE_ID")
    \cup ValidateLifecycleObservers(project)
    \cup UNION {ValidateScenario(project, s) : s \in DOMAIN project.scenarios}
    \cup ValidateBaselines(project) \cup ValidateBaselineCycles(project)
    \cup ValidateLimits(project)

Accepted(project) == ValidateProjectSemantics(project) = {}
=============================================================================
