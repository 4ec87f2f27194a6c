------------------------- MODULE ReportProjections -------------------------
(***************************************************************************)
(* What the reports say of a run (runtime/reporting.py,                    *)
(* reporting/summary.py, reporting/junit.py): the category of the summary, *)
(* the JUnit cases and the HTML class of every scenario, each computed     *)
(* from the records of the journal on its own.                             *)
(*                                                                         *)
(* A snapshot is [category, scenario, attempts, observations, assertions]: *)
(* the terminal category of the run ("none" while it can be resumed) and,  *)
(* for every scenario, its state, the classifications of its attempts, the *)
(* statuses of its samples and the [result, state] of its evaluations.     *)
(***************************************************************************)
EXTENDS Verdicts

\* The records of a scenario; a pending sample is not exported.
ExportedSamples(statuses) == statuses \ {"pending"}

ObservationCategory(status) ==
  CASE status = "ok" -> "pass"
    [] status = "unsupported" -> "unsupported"
    [] status \in {"error", "timeout"} -> "environment_error"

AssertionErrorCategories == {"harness_error", "invalid_input", "environment_error"}

\* The origin of an error is not recorded: it is taken from the run.
AssertionCategory(item, category) ==
  ClassifyAssertion(item.result, item.state,
                    IF category \in AssertionErrorCategories THEN category ELSE "harness_error")

AttemptCategories(snapshot, s) == {AttemptVerdict(c) : c \in snapshot.attempts[s]}
ObservationCategories(snapshot, s) ==
  {ObservationCategory(status) : status \in ExportedSamples(snapshot.observations[s])}
AssertionCategories(snapshot, s) ==
  {AssertionCategory(item, snapshot.category) : item \in snapshot.assertions[s]}

RecordCategories(snapshot, s) ==
  AttemptCategories(snapshot, s) \cup ObservationCategories(snapshot, s)
  \cup AssertionCategories(snapshot, s)

ResultCategories(snapshot) ==
  UNION {RecordCategories(snapshot, s) : s \in DOMAIN snapshot.scenario}

\* Mutant of ReduceResult: the records are reduced again for a run that has ended.
ReduceResultAgain(categories, terminal) ==
  IF categories = {} THEN "pass" ELSE Reduce(categories)

ReduceResult(categories, terminal) ==
  IF terminal # "none" THEN terminal
  ELSE IF categories = {} THEN "pass"
  ELSE Reduce(categories)

SummaryCategory(snapshot) == ReduceResult(ResultCategories(snapshot), snapshot.category)

\* The category of the state of a scenario that nothing more specific explains.
ScenarioStateCategory(state, category) ==
  CASE state = "failed" -> "receiver_failure"
    [] state \in {"ambiguous", "cancelled"} -> state
    [] state = "skipped" -> "unsupported"
    [] state = "error" -> IF category \in AssertionErrorCategories \cup {"unsupported"}
                            THEN category ELSE "harness_error"
    [] OTHER -> "pass"

HtmlClassification(snapshot, s) ==
  Reduce({ScenarioStateCategory(snapshot.scenario[s], snapshot.category)}
         \cup RecordCategories(snapshot, s))

\* The cases of a suite: every evaluation, every attempt that neither passed nor
\* was rejected, every sample that is not ok, and the state of the scenario when
\* there is none of these.
JUnitCases(snapshot, s) ==
  LET cases == AssertionCategories(snapshot, s)
               \cup (AttemptCategories(snapshot, s) \ {"pass", "receiver_failure"})
               \cup (ObservationCategories(snapshot, s) \ {"pass"})
      fallback == ScenarioStateCategory(snapshot.scenario[s], snapshot.category)
  IN  IF cases # {} THEN cases ELSE {fallback} \ {"pass"}

RenderCase(category) ==
  CASE category = "pass" -> "passed"
    [] category = "receiver_failure" -> "failure"
    [] category \in {"unsupported", "cancelled"} -> "skipped"
    [] category \in {"environment_error", "harness_error", "ambiguous", "invalid_input"} ->
         "error"

SuiteElements(snapshot, s) == {RenderCase(c) : c \in JUnitCases(snapshot, s)}
=============================================================================
