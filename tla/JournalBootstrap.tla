-------------------------- MODULE JournalBootstrap --------------------------
(***************************************************************************)
(* The rows a verified manifest seeds in a fresh journal, and the check    *)
(* that a journal already holds exactly them (journal/bootstrap.py).  One  *)
(* journal transaction inserts everything, so a crash leaves all or none.  *)
(***************************************************************************)
EXTENDS ManifestCompiler, JournalTables

\* Identifiers are claimed globally: one name, one entity.
Claimed(manifest) ==
  FlattenSeq([i \in DOMAIN manifest.scenarios |->
    LET sc == manifest.scenarios[i]
    IN <<sc.id>> \o IdSequence(sc.events) \o IdSequence(sc.deliveries)
         \o IdSequence(sc.assertions)])

EventPlanError(manifest, sc, e) ==
  IF e.blob \notin DOMAIN manifest.blobs THEN "fixture_blob"
  ELSE IF ~(SetOf(e.dependsOn) \subseteq Ids(sc.events) \ {e.id}) THEN "dependency"
  ELSE "none"

DeliveryPlanError(manifest, sc, d) ==
  IF d.event \notin Ids(sc.events) THEN "delivery_event"
  ELSE IF d.attempts = <<>> THEN "no_attempt"
  ELSE IF \E n \in DOMAIN d.attempts : d.attempts[n].ordinal # n THEN "attempt_ordinals"
  ELSE IF d.attempts[1].conditionalOn # {} THEN "conditional_initial"
  ELSE IF d.attempts[1].blob \notin DOMAIN manifest.blobs THEN "request_blob"
  ELSE "none"

BuildErrors(manifest) ==
  ({IF Distinct(Claimed(manifest)) THEN "none" ELSE "identifier_claimed",
    IF DeliveriesOf(manifest) = {} THEN "no_schedule" ELSE "none"}
   \cup UNION {
     LET sc == manifest.scenarios[i]
     IN {IF \E n \in DOMAIN sc.deliveries : sc.deliveries[n].ordinal # n - 1
           THEN "delivery_ordinals" ELSE "none"}
        \cup {EventPlanError(manifest, sc, e) : e \in SetOf(sc.events)}
        \cup {DeliveryPlanError(manifest, sc, d) : d \in SetOf(sc.deliveries)} :
     i \in DOMAIN manifest.scenarios}) \ {"none"}

\* The first attempt of every delivery; later ones are scheduled by retries.
ScheduleSeed(manifest, i, d) ==
  [entry |-> PlannedId("initial", <<manifest.scenarios[i].id, d.id>>),
   attemptPlan |-> PlannedId("attempt_plan", <<manifest.scenarios[i].id, d.id, 1>>),
   delivery |-> d.id, time |-> d.attempts[1].notBefore, scenarioOrdinal |-> i,
   deliveryOrdinal |-> d.ordinal, attemptOrdinal |-> 1]

Schedules(manifest) ==
  UNION {{ScheduleSeed(manifest, i, d) : d \in SetOf(manifest.scenarios[i].deliveries)} :
         i \in DOMAIN manifest.scenarios}

Indexed(scope, seq) == {<<scope, i, seq[i].id>> : i \in DOMAIN seq}

\* Immutable columns of the seeded rows: a projection's state is not among them.
BootstrapRows(run, manifest) ==
  [run |-> run, manifest |-> manifest.stamp,
   scenarios |-> Indexed(run, manifest.scenarios),
   events |-> UNION {Indexed(sc.id, sc.events) : sc \in SetOf(manifest.scenarios)},
   dependencies |->
     UNION {UNION {{sc.id} \X {e.id} \X SetOf(e.dependsOn) : e \in SetOf(sc.events)} :
            sc \in SetOf(manifest.scenarios)},
   deliveries |->
     UNION {{<<sc.id, d.ordinal, d.id, d.event, d.time>> : d \in SetOf(sc.deliveries)} :
            sc \in SetOf(manifest.scenarios)},
   assertions |-> UNION {Indexed(sc.id, sc.assertions) : sc \in SetOf(manifest.scenarios)},
   schedules |-> Schedules(manifest)]

\* The constraints of the tables the rows go to.
RowsSeedable(rows) ==
  /\ ScenariosTable(rows.scenarios)
  /\ EventsTable(rows.events, rows.scenarios)
  /\ EventDependenciesTable(rows.dependencies, rows.events)
  /\ DeliveriesTable(rows.deliveries, rows.events)
  /\ AssertionsTable(rows.assertions, rows.scenarios)
  /\ UniqueKey(rows.schedules, LAMBDA r : r.entry)

NoRows == BootstrapRows("none", NoManifest)

\* Schedules are looked up one by one: retries added since do not matter.
VerifyExisting(rows, expected) ==
  /\ \A table \in {"run", "manifest", "scenarios", "events", "dependencies",
                   "deliveries", "assertions"} : rows[table] = expected[table]
  /\ expected.schedules \subseteq rows.schedules

\* The total order in which seeded attempts are claimed.
OrderBefore(a, b) ==
  \/ a.time < b.time
  \/ a.time = b.time /\ a.scenarioOrdinal < b.scenarioOrdinal
  \/ /\ a.time = b.time
     /\ a.scenarioOrdinal = b.scenarioOrdinal
     /\ a.deliveryOrdinal < b.deliveryOrdinal

FirstAttempt(schedules) == CHOOSE a \in schedules : \A b \in schedules \ {a} : OrderBefore(a, b)
=============================================================================
