--------------------------- MODULE AssertionPhase ---------------------------
(***************************************************************************)
(* The second half of a run: after the deliveries are settled, the runner  *)
(* collects evidence from observers, evaluates assertions, reduces         *)
(* scenarios and ends the run (runtime/runner.py, runtime/assertions.py,   *)
(* runtime/observer_assertions.py, observers/polling.py, assertions/), and *)
(* a later process resumes that work after a crash (recovery/scanner.py).  *)
(*                                                                         *)
(* Every action that changes a journal variable is one transaction.  One   *)
(* process runs at a time: DeliveryRun covers overlapping owners.  An      *)
(* observer answers with anything its protocol allows, or fails.           *)
(*                                                                         *)
(* Evidence is abstracted to what evaluation tells apart: it matches, it   *)
(* is contrary, it has the wrong type ("unusable"), no comparator applies  *)
(* ("uncomparable"), its value cannot be projected ("invalid") or there is *)
(* none.  Left out: identities, digests, texts and timestamps.             *)
(***************************************************************************)
EXTENDS Integers, Sequences, FiniteSets, JournalTables, TransitionGuards,
        ObserverProtocol, ReportProjections

CONSTANTS
  Plans,      \* candidate plans: scenarios, each a sequence of assertions
  Deliveries, \* categories the deliveries may reduce to, one for each scenario
  MaxPolls,   \* bound: samples of one series before its deadline passes
  MaxEpoch    \* bound: processes that ever own the run

\* The configuration of an assertion, as far as evaluation tells it apart: what came
\* of the attempts a transport assertion selects (an empty selection raises), or the
\* kind of an observer assertion, whether it polls until a deadline and whether it
\* is skipped when the observer lacks support.
TransportAssertions ==
  [kind : {"transport"}, deadline : BOOLEAN,
   replies : Seq({"missing", "untimed", "expected", "unexpected"}) \ {<<>>}]
ObserverAssertions ==
  [kind : {"state", "eventual", "composite"}, within : BOOLEAN, skip : BOOLEAN]

\* The loader accepts no project without a scenario and no scenario without an
\* assertion (validate_scenarios, validate_assertions).
IsPlan(p) ==
  /\ p \in Seq(Seq(TransportAssertions \cup ObserverAssertions)) \ {<<>>}
  /\ \A s \in DOMAIN p : p[s] # <<>>

DeliveryCategories ==
  {"pass", "receiver_failure", "environment_error", "harness_error", "cancelled", "ambiguous"}

ASSUME PhaseBounds ==
  /\ \A p \in Plans : IsPlan(p)
  /\ Deliveries \subseteq Seq(DeliveryCategories)
  /\ MaxPolls \in Nat \ {0} /\ MaxEpoch \in Nat \ {0}

VARIABLES
  plan,        \* the compiled manifest: scenario and assertion order
  epoch,       \* runs.owner_epoch
  run,         \* runs.state
  delivered,   \* reduced category of the deliveries of each scenario
  scenario,    \* scenarios.state
  assertion,   \* assertions.state
  evaluation,  \* assertion_evaluations: result and comparison code, or none
  series,      \* observer_series.state, "none" before the row exists
  samples,     \* observation_samples in sequence
  pc,          \* what the process does next, "stopped" without a process
  cur,         \* scenario and assertion the evaluation loop is at
  caps,        \* capability result of the current observer
  poll,        \* locals of the poller
  result,      \* the poll result handed to the evaluator
  outcome,     \* the normalised evaluation about to be persisted
  verdicts,    \* categories of the current scenario's assertions
  results,     \* categories of the scenarios reduced so far
  told         \* history: the category each evaluation had in memory

journal == <<plan, epoch, run, delivered, scenario, assertion, evaluation, series, samples>>
memory == <<pc, cur, caps, poll, result, outcome, verdicts, results>>
vars == <<journal, memory, told>>

ScenarioOrder == 1 .. Len(plan)
Assertions == UNION {{s} \X (1 .. Len(plan[s])) : s \in ScenarioOrder}
Config(a) == plan[a[1]][a[2]]
Observed(a) == Config(a).kind # "transport"

\* A failed handshake is remembered and replayed by a stand-in observer whose
\* capabilities forbid any retry.
FallbackCapabilities == [covers |-> TRUE, fits |-> TRUE, safe |-> FALSE, pending |-> FALSE]
FailedHandshake == [ok |-> FALSE, declared |-> FallbackCapabilities]

NoPoll == [last |-> NoResponse, valid |-> FALSE, expired |-> FALSE]
NoResult ==
  [outcome |-> "none", final |-> "none", matched |-> FALSE, valid |-> FALSE,
   elapsed |-> FALSE, last |-> NoResponse]

-----------------------------------------------------------------------------
(* Evaluators (assertions/).  An evaluation is a result and a code.        *)

Evaluated(r, code) == [result |-> r, code |-> code]
NotEvaluated == Evaluated("none", "none")

EvaluateStatus(reply) ==
  CASE reply = "missing" -> Evaluated("error", "response_missing")
    [] reply = "expected" -> Evaluated("pass", "status_match")
    [] OTHER -> Evaluated("fail", "status_mismatch")

EvaluateAcknowledgement(reply) ==
  CASE reply = "missing" -> Evaluated("error", "response_missing")
    [] reply = "untimed" -> Evaluated("error", "header_timing_missing")
    [] reply = "expected" -> Evaluated("pass", "acknowledgement_within_deadline")
    [] OTHER -> Evaluated("fail", "acknowledgement_deadline_exceeded")

EvaluateTransport(config, reply) ==
  IF config.deadline THEN EvaluateAcknowledgement(reply) ELSE EvaluateStatus(reply)

\* The attempt that decides a transport assertion: the first that fails, else the
\* first without comparable evidence, else the last.
TransportWitness(config) ==
  LET e == [i \in DOMAIN config.replies |-> EvaluateTransport(config, config.replies[i])]
      First(r) == {i \in DOMAIN e : e[i].result = r /\ \A j \in 1 .. i - 1 : e[j].result # r}
  IN  IF First("fail") # {} THEN e[CHOOSE i \in First("fail") : TRUE]
      ELSE IF First("error") # {} THEN e[CHOOSE i \in First("error") : TRUE]
      ELSE e[Len(e)]

EvaluateState(ev) ==
  CASE ev = "match" -> Evaluated("pass", "match")
    [] ev = "mismatch" -> Evaluated("fail", "mismatch")
    [] ev = "uncomparable" -> Evaluated("error", "comparator_unsupported")
    [] ev = "invalid" -> Evaluated("error", "none")
    [] ev = "unusable" -> Evaluated("error", "evidence_type_mismatch")
    [] OTHER -> Evaluated("error", "evidence_missing")

\* One typed predicate of an eventual or composite assertion.
EvaluatePredicate(ev) ==
  CASE ev = "match" -> "pass" [] ev = "mismatch" -> "fail" [] OTHER -> "error"

Unsupported(config, code) ==
  Evaluated(IF config.skip THEN "skipped" ELSE "error", code)

PollResultConsistent(r) ==
  /\ r.final = CASE r.outcome \in {"matched", "mismatch"} -> "ok"
                 [] OTHER -> r.outcome
  /\ r.matched <=> r.outcome = "matched"
  /\ r.outcome \in {"matched", "mismatch"} => r.valid /\ r.last # NoResponse

EvaluateEventual(config, r) ==
  LET detail == IF r.last.status = "ok" THEN EvaluatePredicate(r.last.ev) ELSE "none"
      inconsistent == Evaluated("error", "poll_result_inconsistent")
  IN  IF ~PollResultConsistent(r) THEN inconsistent ELSE
      CASE r.outcome = "matched" ->
             IF detail = "pass" THEN Evaluated("pass", "eventual_match") ELSE inconsistent
        [] r.outcome = "mismatch" ->
             CASE detail \in {"none", "pass"} -> inconsistent
               [] detail = "error" -> Evaluated("error", "predicate_error")
               [] OTHER -> Evaluated("fail", "eventual_mismatch")
        [] r.outcome = "timed_out" ->
             CASE detail = "pass" -> inconsistent
               [] detail = "error" -> Evaluated("error", "predicate_error")
               [] OTHER -> IF r.valid /\ r.elapsed
                           THEN Evaluated("fail", "eventual_deadline_mismatch")
                           ELSE Evaluated("error", "eventual_timeout_error")
        [] r.outcome = "unsupported" -> Unsupported(config, "observer_unsupported")
        [] OTHER ->
             CASE r.outcome = "error" /\ detail = "error" ->
                    Evaluated("error", "predicate_error")
               [] r.outcome = "pending" -> Evaluated("error", "observer_pending")
               [] OTHER -> Evaluated("error", "observer_error")

\* Mutant of EvaluateComposite: an observer that is not ready shows no side effect.
EvaluateCompositePending(config, response) ==
  CASE response.status = "unsupported" -> Unsupported(config, "observer_unsupported")
    [] response.status = "pending" -> Evaluated("pass", "all_or_none_present")
    [] response.status = "ok" ->
         (CASE EvaluatePredicate(response.ev) = "error" ->
                 Evaluated("error", "predicate_error")
            [] EvaluatePredicate(response.ev) = "pass" ->
                 Evaluated("pass", "all_or_none_present")
            [] OTHER -> Evaluated("fail", "partial_side_effect"))
    [] OTHER -> Evaluated("error", "observer_error")

\* All side effects present, or none of them, is a match; some is a mismatch.
EvaluateComposite(config, response) ==
  CASE response.status = "unsupported" -> Unsupported(config, "observer_unsupported")
    [] response.status = "pending" -> Evaluated("error", "observer_pending")
    [] response.status = "ok" ->
         (CASE EvaluatePredicate(response.ev) = "error" ->
                 Evaluated("error", "predicate_error")
            [] EvaluatePredicate(response.ev) = "pass" ->
                 Evaluated("pass", "all_or_none_present")
            [] OTHER -> Evaluated("fail", "partial_side_effect"))
    [] OTHER -> Evaluated("error", "observer_error")

\* What an evaluator is handed of a poll result.
EvaluateObserved(config, r) ==
  LET unavailable == r.outcome = "error" \/ r.last = NoResponse
  IN  CASE config.kind = "eventual" -> EvaluateEventual(config, r)
        [] config.kind = "composite" ->
             EvaluateComposite(config, IF unavailable
                                       THEN [NoResponse EXCEPT !.status = "error"]
                                       ELSE r.last)
        [] OTHER -> EvaluateState(IF unavailable THEN "none" ELSE r.last.ev)

\* The predicate the poller applies to accepted evidence: "error" when it raises.
PollPredicate(config, ev) ==
  IF ~config.within THEN "pass"
  ELSE IF config.kind \in {"eventual", "composite"} THEN EvaluatePredicate(ev)
  ELSE EvaluateState(ev).result

TerminalState(e) ==
  CASE e.result = "pass" -> "passed"
    [] e.result = "fail" -> "failed"
    [] OTHER -> IF e.result = "skipped" \/ e.code \in {"observer_unsupported", "preflight"}
                THEN "unsupported" ELSE "error"

\* Who is to blame for an evaluation without a comparable result.
ErrorOrigin(kind, e) ==
  CASE e.code = "none" -> "harness_error"
    [] kind = "transport" /\ e.code = "header_timing_missing" -> "harness_error"
    [] kind = "state" /\ e.code = "comparator_unsupported" -> "harness_error"
    [] kind = "eventual" /\ e.code = "poll_result_inconsistent" -> "harness_error"
    [] kind = "composite" /\ e.code = "snapshot_scope_mismatch" -> "invalid_input"
    [] OTHER -> "environment_error"

\* The same, recomputed from the journal when a run is resumed.
ExistingOrigin(code) ==
  CASE code = "snapshot_scope_mismatch" -> "invalid_input"
    [] code \in {"none", "header_timing_missing", "comparator_unsupported",
                 "poll_result_inconsistent"} -> "harness_error"
    [] OTHER -> "environment_error"

ExistingCategory(a) ==
  IF assertion[a] = "cancelled" THEN "cancelled"
  ELSE ClassifyAssertion(evaluation[a].result, assertion[a],
                         ExistingOrigin(evaluation[a].code))

-----------------------------------------------------------------------------
(* The evaluation loop of the runner.                                      *)

Init ==
  /\ plan \in Plans
  /\ epoch = 1 /\ run = "running"
  /\ delivered \in Deliveries /\ Len(delivered) = Len(plan)
  /\ scenario = [s \in ScenarioOrder |-> "running"]
  /\ assertion = [a \in Assertions |-> "pending"]
  /\ evaluation = [a \in Assertions |-> NotEvaluated]
  /\ series = [a \in Assertions |-> "none"]
  /\ samples = [a \in Assertions |-> <<>>]
  /\ pc = "next" /\ cur = <<1, 1>>
  /\ caps = FailedHandshake /\ poll = NoPoll /\ result = NoResult /\ outcome = NotEvaluated
  /\ verdicts = {} /\ results = {}
  /\ told = [a \in Assertions |-> "none"]

\* The loop stands before an assertion of a scenario without ambiguous delivery.
At(a) ==
  /\ pc = "next" /\ cur = a /\ a \in Assertions
  /\ delivered[a[1]] # "ambiguous"

\* An ambiguous scenario stays running with its assertions untouched.
AmbiguousScenario ==
  /\ pc = "next" /\ cur[1] \in ScenarioOrder /\ cur[2] = 1
  /\ delivered[cur[1]] = "ambiguous"
  /\ scenario[cur[1]] = "running"
  /\ \A a \in Assertions : a[1] = cur[1] => assertion[a] = "pending"
  /\ results' = results \cup {"ambiguous"}
  /\ cur' = <<cur[1] + 1, 1>>
  /\ UNCHANGED <<journal, pc, caps, poll, result, outcome, verdicts, told>>

\* Mutant of KeepEvaluation: the evaluations found are not counted again.
KeepUncounted(a) ==
  /\ At(a) /\ assertion[a] \in AssertionTerminal
  /\ cur' = <<a[1], a[2] + 1>>
  /\ UNCHANGED <<journal, pc, caps, poll, result, outcome, verdicts, results, told>>

\* A resumed run keeps the evaluations it finds.
KeepEvaluation(a) ==
  /\ At(a) /\ assertion[a] \in AssertionTerminal
  /\ verdicts' = verdicts \cup {ExistingCategory(a)}
  /\ cur' = <<a[1], a[2] + 1>>
  /\ UNCHANGED <<journal, pc, caps, poll, result, outcome, results, told>>

\* The one edge every evaluation starts with.
Start(a) ==
  /\ assertion[a] = "pending"
  /\ assertion' = [assertion EXCEPT ![a] = "running"]
  /\ UNCHANGED <<plan, epoch, run, delivered, scenario, evaluation, series, samples>>

\* A poll result reconstructed from the durable samples of a series.
RecoveredPollResult(a) ==
  LET records == samples[a]
      final == records[Len(records)]
      answered == {i \in DOMAIN records : records[i].status # "timeout"}
      latest == CHOOSE i \in answered : \A j \in answered : j <= i
      matched == final.status = "ok"
                 /\ (Config(a).kind = "eventual" => EvaluatePredicate(final.ev) = "pass")
      last == IF answered = {} THEN NoResponse
              ELSE [status |-> records[latest].status, ev |-> records[latest].ev,
                    retry |-> FALSE]
  IN  [outcome |-> CASE final.status = "ok" -> (IF matched THEN "matched" ELSE "mismatch")
                     [] final.status = "timeout" -> "timed_out"
                     [] OTHER -> final.status,
       final |-> IF final.status = "timeout" THEN "timed_out" ELSE final.status,
       matched |-> matched,
       valid |-> \E i \in DOMAIN records : records[i].status = "ok",
       elapsed |-> final.status = "timeout" /\ final.category = "deadline",
       last |-> last]

\* Evaluation from samples that an earlier process left: nothing is observed again.
EvaluateRecovered(a) ==
  /\ At(a) /\ samples[a] # <<>>
  /\ \/ Start(a)
     \/ assertion[a] = "running" /\ UNCHANGED journal
  /\ outcome' = EvaluateObserved(Config(a), RecoveredPollResult(a))
  /\ pc' = "started"
  /\ UNCHANGED <<cur, caps, poll, result, verdicts, results, told>>

EvaluateTransportSelection(a) ==
  /\ At(a) /\ ~Observed(a) /\ Start(a)
  /\ outcome' = TransportWitness(Config(a))
  /\ pc' = "started"
  /\ UNCHANGED <<cur, caps, poll, result, verdicts, results, told>>

-----------------------------------------------------------------------------
(* One observer assertion: handshake, polling, evaluation.                 *)

RequestCapabilities(a) ==
  /\ At(a) /\ Observed(a) /\ assertion[a] = "pending" /\ series[a] = "none"
  /\ caps' \in {[ok |-> TRUE, declared |-> c] : c \in Capabilities}
               \cup {FailedHandshake}
  /\ pc' = "negotiated"
  /\ UNCHANGED <<journal, cur, poll, result, outcome, verdicts, results, told>>

BeginSeries(a) ==
  /\ pc = "negotiated" /\ cur = a /\ series[a] = "none"
  /\ series' = [series EXCEPT ![a] = "running"]
  /\ poll' = NoPoll
  /\ pc' = "invoke"
  /\ UNCHANGED <<plan, epoch, run, delivered, scenario, assertion, evaluation, samples,
                 cur, caps, result, outcome, verdicts, results, told>>

\* Appending a sample, and ending the series with it when state is not "none",
\* is one transaction.
AppendSample(a, record, state) ==
  /\ series[a] = "running"
  /\ samples' = [samples EXCEPT ![a] = Append(@, record)]
  /\ series' = [series EXCEPT ![a] = IF state = "none" THEN @ ELSE state]
  /\ UNCHANGED <<plan, epoch, run, delivered, scenario, assertion, evaluation>>

Return(r, last) ==
  /\ pc' = "polled"
  /\ poll' = [poll EXCEPT !.last = last]
  /\ result' = [r EXCEPT !.valid = @ \/ poll.valid, !.last = last]
  /\ UNCHANGED <<cur, caps, outcome, verdicts, results, told>>

\* Wait for the next poll; elapsed time may pass the deadline.
Continue(last, valid) ==
  /\ pc' = "wait"
  /\ poll' = [poll EXCEPT !.last = last, !.valid = valid]
  /\ UNCHANGED <<cur, caps, result, outcome, verdicts, results, told>>

Outcome(o, state) == [NoResult EXCEPT !.outcome = o, !.final = state]

PollUnsupported(a) ==
  /\ pc = "invoke" /\ cur = a /\ ~Negotiated(caps.declared)
  /\ AppendSample(a, UnsupportedRecord, "unsupported")
  /\ Return(Outcome("unsupported", "unsupported"), NoResponse)

\* Mutant of PollDeadline: the poller sleeps again instead of ending the series.
PollDeadlineSleeps(a) ==
  /\ pc = "invoke" /\ cur = a /\ Negotiated(caps.declared) /\ poll.expired
  /\ pc' = "wait"
  /\ UNCHANGED <<journal, cur, caps, poll, result, outcome, verdicts, results, told>>

PollDeadline(a) ==
  /\ pc = "invoke" /\ cur = a /\ Negotiated(caps.declared) /\ poll.expired
  /\ AppendSample(a, TimeoutRecord("deadline"), "timed_out")
  /\ Return([Outcome("timed_out", "timed_out") EXCEPT !.elapsed = TRUE], poll.last)

Invoking(a) ==
  pc = "invoke" /\ cur = a /\ Negotiated(caps.declared) /\ ~poll.expired

\* The invocation limit is the smaller of its own timeout and the time left.
InvocationTimeout(a) ==
  /\ Invoking(a) /\ caps.ok
  /\ AppendSample(a, TimeoutRecord("timeout"), "timed_out")
  /\ \E late \in BOOLEAN :
       Return([Outcome("timed_out", "timed_out") EXCEPT !.elapsed = late], poll.last)

\* The adapter or the protocol check raised; a failed handshake always raises.
InvocationError(a) ==
  /\ Invoking(a)
  /\ \E retry \in {raised.retryable : raised \in InvocationErrors} :
       IF retry /\ caps.declared.safe
       THEN AppendSample(a, ErrorRecord("observer"), "none") /\ Continue(poll.last, poll.valid)
       ELSE /\ AppendSample(a, ErrorRecord("observer"), "error")
            /\ Return(Outcome("error", "error"), poll.last)

\* Accepted answers of an observer that was reached.
Accepted(a) ==
  {x \in Answers({caps.declared} \cup {[caps.declared EXCEPT !.pending = ~@]}) :
     caps.ok /\ ValidForRequest(x)}

CapabilitiesChanged(a) ==
  /\ Invoking(a)
  /\ \E x \in Accepted(a) : x.declares # caps.declared
  /\ AppendSample(a, ErrorRecord("observer"), "error")
  /\ Return(Outcome("error", "error"), poll.last)

AnswerOk(a, x) ==
  LET r == ResponseOf(x)
      p == PollPredicate(Config(a), x.ev)
  IN  /\ x.status = "ok"
      /\ \/ /\ p = "error"
            /\ AppendSample(a, ErrorRecord("predicate"), "error")
            /\ Return([Outcome("error", "error") EXCEPT !.valid = TRUE], r)
         \/ /\ p = "pass"
            /\ AppendSample(a, RecordOf(x), "ok")
            /\ Return([Outcome("matched", "ok") EXCEPT !.matched = TRUE, !.valid = TRUE], r)
         \/ /\ p = "fail" /\ ~caps.declared.safe
            /\ AppendSample(a, RecordOf(x), "ok")
            /\ Return([Outcome("mismatch", "ok") EXCEPT !.valid = TRUE], r)
         \/ /\ p = "fail" /\ caps.declared.safe
            /\ AppendSample(a, RecordOf(x), "none")
            /\ Continue(r, TRUE)

AnswerPending(a, x) ==
  /\ x.status = "pending"
  /\ IF AutomaticPollingAllowed(caps.declared)
     THEN AppendSample(a, RecordOf(x), "none") /\ Continue(ResponseOf(x), poll.valid)
     ELSE /\ AppendSample(a, RecordOf(x), "pending")
          /\ Return(Outcome("pending", "pending"), ResponseOf(x))

AnswerUnsupported(a, x) ==
  /\ x.status = "unsupported"
  /\ AppendSample(a, RecordOf(x), "unsupported")
  /\ Return(Outcome("unsupported", "unsupported"), ResponseOf(x))

AnswerError(a, x) ==
  /\ x.status = "error"
  /\ IF AutomaticRetryAllowed(caps.declared, ResponseOf(x))
     THEN AppendSample(a, RecordOf(x), "none") /\ Continue(ResponseOf(x), poll.valid)
     ELSE /\ AppendSample(a, RecordOf(x), "error")
          /\ Return(Outcome("error", "error"), ResponseOf(x))

PollAnswer(a) ==
  /\ Invoking(a)
  /\ \E x \in Accepted(a) :
       /\ x.declares = caps.declared
       /\ AnswerOk(a, x) \/ AnswerPending(a, x) \/ AnswerUnsupported(a, x) \/ AnswerError(a, x)

\* The interval is positive and at most the time left, so polling is finite.
NextRequest(a) ==
  /\ pc = "wait" /\ cur = a
  /\ \E expired \in BOOLEAN :
       /\ Len(samples[a]) >= MaxPolls => expired
       /\ poll' = [poll EXCEPT !.expired = expired]
  /\ pc' = "invoke"
  /\ UNCHANGED <<journal, cur, caps, result, outcome, verdicts, results, told>>

\* A capability gap is known before polling, and decided after it.
CapabilityGap(config, c) == ~Negotiated(c) \/ (config.within /\ ~(c.safe /\ c.pending))

StartEvaluation(a) ==
  /\ pc = "polled" /\ cur = a /\ Start(a)
  /\ outcome' = IF caps.ok /\ CapabilityGap(Config(a), caps.declared)
                THEN Unsupported(Config(a), "preflight")
                ELSE EvaluateObserved(Config(a), result)
  /\ pc' = "started"
  /\ UNCHANGED <<cur, caps, poll, result, verdicts, results, told>>

\* What an evaluation refers to: the attempts a transport assertion selects, the
\* samples of an observer assertion, or its series when the observer lacks a
\* capability the assertion needs.
EvidenceReferences(a, e) ==
  IF ~Observed(a) THEN {<<"attempt", i>> : i \in DOMAIN Config(a).replies}
  ELSE IF e.code = "preflight" THEN {<<"observation", 0>>}
  ELSE {<<"observation", i>> : i \in DOMAIN samples[a]}

\* Whether the row a reference names is in the journal: a series has number 0.
RequireEvidenceReference(a, reference) ==
  CASE reference[1] = "attempt" -> reference[2] \in DOMAIN Config(a).replies
    [] reference[1] = "observation" ->
         IF reference[2] = 0 THEN series[a] # "none" ELSE reference[2] \in DOMAIN samples[a]

\* The evaluation, its evidence links and the terminal edge are one transaction.
PersistEvaluation(a) ==
  LET category == ClassifyAssertion(outcome.result, TerminalState(outcome),
                                    ErrorOrigin(Config(a).kind, outcome))
  IN  /\ pc = "started" /\ cur = a
      /\ assertion[a] = "running" /\ evaluation[a] = NotEvaluated
      /\ EvidenceReferences(a, outcome) # {}
      /\ \A r \in EvidenceReferences(a, outcome) : RequireEvidenceReference(a, r)
      /\ evaluation' = [evaluation EXCEPT ![a] = outcome]
      /\ assertion' = [assertion EXCEPT ![a] = TerminalState(outcome)]
      /\ told' = [told EXCEPT ![a] = category]
      /\ verdicts' = verdicts \cup {category}
      /\ cur' = <<a[1], a[2] + 1>> /\ pc' = "next"
      /\ UNCHANGED <<plan, epoch, run, delivered, scenario, series, samples, caps, poll,
                     result, outcome, results>>

-----------------------------------------------------------------------------
(* Reduction of scenarios and of the run.                                  *)

\* A terminal scenario of a resumed run must agree with its reduction.
FinishScenario ==
  LET s == cur[1]
      category == Reduce({delivered[s]} \cup verdicts)
  IN  /\ pc = "next" /\ s \in ScenarioOrder /\ cur[2] = Len(plan[s]) + 1
      /\ \/ /\ scenario[s] = "running"
            /\ scenario' = [scenario EXCEPT ![s] = ScenarioStateFor(category)]
         \/ /\ scenario[s] = ScenarioStateFor(category)
            /\ UNCHANGED scenario
      /\ results' = results \cup {category}
      /\ verdicts' = {}
      /\ cur' = <<s + 1, 1>>
      /\ UNCHANGED <<plan, epoch, run, delivered, assertion, evaluation, series, samples,
                     pc, caps, poll, result, outcome, told>>

\* Mutant of FinishRun: an unsettled run is completed instead of paused.
FinishRunUnpaused ==
  /\ pc = "next" /\ cur[1] = Len(plan) + 1 /\ run = "running"
  /\ run' = IF Reduce(results) = "ambiguous" THEN "completed" ELSE RunStateFor(Reduce(results))
  /\ pc' = "stopped"
  /\ UNCHANGED <<plan, epoch, delivered, scenario, assertion, evaluation, series, samples,
                 cur, caps, poll, result, outcome, verdicts, results, told>>

FinishRun ==
  /\ pc = "next" /\ cur[1] = Len(plan) + 1 /\ run = "running"
  /\ run' = RunStateFor(Reduce(results))
  /\ pc' = "stopped"
  /\ UNCHANGED <<plan, epoch, delivered, scenario, assertion, evaluation, series, samples,
                 cur, caps, poll, result, outcome, verdicts, results, told>>

-----------------------------------------------------------------------------
(* Interruption and resumption.                                            *)

Forget ==
  /\ cur' = <<1, 1>> /\ caps' = FailedHandshake /\ poll' = NoPoll /\ result' = NoResult
  /\ outcome' = NotEvaluated /\ verdicts' = {} /\ results' = {}

\* Mutant of CancelPoll: the series is closed and no sample says so.
CancelUnsampled(a) ==
  /\ pc \in {"invoke", "wait"} /\ cur = a
  /\ series' = [series EXCEPT ![a] = "cancelled"]
  /\ pc' = "stopped" /\ Forget
  /\ UNCHANGED <<plan, epoch, run, delivered, scenario, assertion, evaluation, samples, told>>

\* Cancellation while the observer runs or the poller sleeps: the series is closed
\* in the journal before the process ends.
CancelPoll(a) ==
  /\ pc \in {"invoke", "wait"} /\ cur = a
  /\ AppendSample(a, ErrorRecord("cancelled"), "cancelled")
  /\ pc' = "stopped" /\ Forget
  /\ UNCHANGED told

\* The process dies, or an exception ends it, between two transactions.
Crash ==
  /\ pc # "stopped"
  /\ epoch < MaxEpoch
  /\ pc' = "stopped" /\ Forget
  /\ UNCHANGED <<journal, told>>

\* The scanner ends an interrupted series as an error and appends no sample.
RecoverSeries ==
  [a \in Assertions |-> IF series[a] = "running" THEN "error" ELSE series[a]]

\* A later process takes the run over and applies the recovery plan.
Resume ==
  /\ pc = "stopped" /\ run \in {"running", "paused"} /\ epoch < MaxEpoch
  /\ epoch' = epoch + 1
  /\ series' = RecoverSeries
  /\ pc' = "validating" /\ Forget
  /\ UNCHANGED <<plan, run, delivered, scenario, assertion, evaluation, samples, told>>

\* The poll predicate is applied again to a recovered eventual sample; evidence that
\* was not persisted makes it raise.
BundleRecoverable(a) ==
  LET final == samples[a][Len(samples[a])]
  IN  Config(a).kind = "eventual" /\ final.status = "ok" =>
        EvaluatePredicate(final.ev) # "error"

\* Whether the retained facts of one assertion allow the run to go on.
Resumable(a) ==
  /\ series[a] # "none" => samples[a] # <<>> /\ BundleRecoverable(a)
  /\ assertion[a] = "running" => samples[a] # <<>>
  /\ evaluation[a] # NotEvaluated <=> assertion[a] \in AssertionTerminal \ {"cancelled"}

ScenarioResumable(s) ==
  LET mine == {a \in Assertions : a[1] = s}
  IN  IF delivered[s] = "ambiguous"
      THEN scenario[s] = "running" /\ \A a \in mine : assertion[a] = "pending"
      ELSE /\ \A a \in mine : Resumable(a)
           /\ \/ scenario[s] = "running"
              \/ /\ \A a \in mine : assertion[a] \in AssertionTerminal
                 /\ scenario[s] = ScenarioStateFor(
                      Reduce({delivered[s]} \cup {ExistingCategory(a) : a \in mine}))

\* The continuation checks pass, the run is running again and redelivery settles what
\* was ambiguous, or leaves it so.
ValidateResume ==
  /\ pc = "validating" /\ \A s \in ScenarioOrder : ScenarioResumable(s)
  /\ run' = "running"
  /\ delivered' \in Deliveries /\ Len(delivered') = Len(plan)
  /\ \A s \in ScenarioOrder : delivered[s] # "ambiguous" => delivered'[s] = delivered[s]
  /\ pc' = "next"
  /\ UNCHANGED <<plan, epoch, scenario, assertion, evaluation, series, samples, cur, caps,
                 poll, result, outcome, verdicts, results, told>>

RefuseResume ==
  /\ pc = "validating" /\ ~\A s \in ScenarioOrder : ScenarioResumable(s)
  /\ pc' = "stopped"
  /\ UNCHANGED <<journal, cur, caps, poll, result, outcome, verdicts, results, told>>

\* Nothing is left to do: no process runs and none may start.
Rest ==
  /\ pc = "stopped" /\ (run \in RunTerminal \/ epoch = MaxEpoch)
  /\ UNCHANGED vars

Step ==
  \/ AmbiguousScenario \/ FinishScenario \/ FinishRun
  \/ ValidateResume \/ RefuseResume
  \/ \E a \in Assertions :
       \/ KeepEvaluation(a) \/ EvaluateRecovered(a) \/ EvaluateTransportSelection(a)
       \/ RequestCapabilities(a) \/ BeginSeries(a)
       \/ PollUnsupported(a) \/ PollDeadline(a) \/ InvocationTimeout(a)
       \/ InvocationError(a) \/ CapabilitiesChanged(a) \/ PollAnswer(a)
       \/ NextRequest(a) \/ StartEvaluation(a) \/ PersistEvaluation(a)

Next == Step \/ (\E a \in Assertions : CancelPoll(a)) \/ Crash \/ Resume \/ Rest

\* A process that is not stopped goes on: observer invocations and sleeps have
\* deadlines (anyio.fail_after), and journal calls are answered.
Spec == Init /\ [][Next]_vars /\ WF_vars(Step)

-----------------------------------------------------------------------------
(* Properties.                                                             *)

\* An assertion has an evaluation exactly when it ended, the evaluation agrees with
\* the state, its references exist, every observer evaluation rests on a sample of a
\* closed series, a pass on an accepted answer that closed it, and the tables admit
\* all of these rows: no crash between collecting, starting and persisting breaks
\* the pairing.
EvaluationsBacked ==
  \A a \in Assertions :
    /\ evaluation[a] # NotEvaluated <=> assertion[a] \in AssertionTerminal
    /\ assertion[a] \in AssertionTerminal => assertion[a] = TerminalState(evaluation[a])
    /\ Observed(a) /\ assertion[a] # "pending" =>
         samples[a] # <<>> /\ series[a] \in ObservationTerminal
    /\ Observed(a) /\ assertion[a] = "passed" =>
         series[a] = "ok" /\ samples[a][Len(samples[a])].status = "ok"
    /\ series[a] # "none" => ObserverSeriesRow(series[a])
    /\ \A i \in DOMAIN samples[a] : ObservationSamplesRow(series[a], samples[a][i])
    /\ evaluation[a] # NotEvaluated =>
         LET links == EvidenceReferences(a, evaluation[a])
         IN  /\ AssertionEvaluationsRow(evaluation[a])
             /\ links # {} /\ EvidenceLinksTable({r[1] : r \in links})
             /\ \A r \in links : RequireEvidenceReference(a, r)

\* The category of an evaluation recomputed from the journal is the one it had when
\* it was made, and a scenario that ended has the state its deliveries and evaluations
\* reduce to, as a resumed run recomputes it from the journal: neither the check of the runner
\* that compares the two nor the guard of a passed scenario ever fails.
ScenarioIsItsReduction ==
  /\ \A a \in Assertions : told[a] # "none" => ExistingCategory(a) = told[a]
  /\ \A s \in ScenarioOrder :
       scenario[s] \in ScenarioTerminal =>
         LET mine == {a \in Assertions : a[1] = s}
         IN  /\ \A a \in mine : assertion[a] \in AssertionTerminal
             /\ scenario[s] = ScenarioStateFor(
                  Reduce({delivered[s]} \cup {ExistingCategory(a) : a \in mine}))
             /\ scenario[s] = "passed" =>
                  GuardScenarioPass([a \in mine |-> assertion[a]],
                                    [a \in mine |-> Observed(a) /\ Config(a).skip])

\* A completed run has no open scenario and passes the guard of its completion, and a
\* paused run still has a scenario to settle, running and with untouched assertions.
RunEndsWithItsScenarios ==
  /\ run = "completed" =>
       /\ \A s \in ScenarioOrder : scenario[s] \in ScenarioTerminal
       /\ GuardRunCompletion([s \in ScenarioOrder |->
            IF delivered[s] = "ambiguous" THEN "active" ELSE "satisfied"])
  /\ run = "paused" =>
       \E s \in ScenarioOrder :
         /\ scenario[s] = "running" /\ delivered[s] = "ambiguous"
         /\ \A a \in Assertions : a[1] = s => assertion[a] = "pending"

\* What makes a resume refuse the run for an assertion: its observer was asked and the
\* process died before a sample was in the journal; its transport evaluation was started
\* and not recorded; or the evidence that settled it was not persisted (BundleRecoverable).
RefusalCause(a) ==
  \/ series[a] = "error" /\ samples[a] = <<>>
  \/ ~Observed(a) /\ assertion[a] = "running"
  \/ samples[a] # <<>> /\ ~BundleRecoverable(a)

\* Wherever a process dies or is cancelled, the journal it leaves passes the checks of
\* _validate_resume_assertion_preflight unless one of three causes is there: every
\* other combination of rows of the assertions, their series and their scenario is one
\* from which the resume goes on.
RefusalHasCause ==
  pc = "validating" =>
    \A s \in ScenarioOrder :
      \/ ScenarioResumable(s)
      \/ \E a \in Assertions : a[1] = s /\ delivered[s] # "ambiguous" /\ RefusalCause(a)

\* Every process ends by itself.
ProcessEnds == pc # "stopped" ~> pc = "stopped"

\* "Recovery never upgrades incomplete evidence into certainty": an observation that
\* recovery had to end as an error never makes its assertion fail the receiver.
RecoveryKeepsUncertainty ==
  \A a \in Assertions : assertion[a] = "failed" => series[a] # "error"

\* The classification of the attempt that settled deliveries of a category.
SettlingClassification(category) ==
  CASE category = "pass" -> "receiver_accepted"
    [] category = "receiver_failure" -> "receiver_rejected"
    [] category = "environment_error" -> "environment_failure"
    [] category = "harness_error" -> "harness_failure"
    [] OTHER -> category

\* What the reports are projected from, when some attempts of a delivery were
\* retried before the one that settled it.
ReportSnapshot(retried) ==
  LET Mine(s) == {a \in Assertions : a[1] = s}
  IN  [category |-> IF run \in RunTerminal THEN Reduce(results) ELSE "none",
       scenario |-> scenario,
       attempts |-> [s \in ScenarioOrder |-> {SettlingClassification(delivered[s])} \cup retried],
       observations |-> [s \in ScenarioOrder |->
         UNION {{samples[a][i].status : i \in DOMAIN samples[a]} : a \in Mine(s)}],
       assertions |-> [s \in ScenarioOrder |->
         {[result |-> evaluation[a].result, state |-> assertion[a]] :
            a \in {b \in Mine(s) : evaluation[b] # NotEvaluated}}]]

\* No report of a run that ended or paused hides what went wrong: the summary has the
\* verdict of an ended run and never calls a paused one passed; a scenario that failed,
\* erred or is ambiguous is not passed in the HTML report, and neither in the JUnit
\* report unless rejected deliveries are all it failed on.
ReportsShowProblems ==
  pc = "stopped" /\ run # "running" =>
    \A retried \in SUBSET {"receiver_rejected", "environment_failure"} :
      LET snapshot == ReportSnapshot(retried)
          Troubled(s) == scenario[s] \in {"failed", "error"} \/ delivered[s] = "ambiguous"
      IN  /\ run \in RunTerminal => SummaryCategory(snapshot) = Reduce(results)
          /\ run = "paused" => SummaryCategory(snapshot) \in {"ambiguous", "harness_error"}
          /\ \A s \in ScenarioOrder : Troubled(s) =>
               /\ HtmlClassification(snapshot, s) # "pass"
               /\ \/ SuiteElements(snapshot, s) \ {"passed"} # {}
                  \/ delivered[s] = "receiver_failure"

\* "Assertion mismatch = receiver failure": a scenario fails the receiver when one of
\* its assertions fails, and only then.
FailureIsMismatch ==
  \A s \in ScenarioOrder :
    scenario[s] = "failed" => \E a \in Assertions : a[1] = s /\ assertion[a] = "failed"
=============================================================================
