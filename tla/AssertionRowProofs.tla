------------------------- MODULE AssertionRowProofs -------------------------
(***************************************************************************)
(* What the second half of a run keeps true of the journal and of the      *)
(* process, and that evaluating an assertion and polling for it keep it    *)
(* so: the inductive invariant, the lemmas about the operators, and one    *)
(* lemma for each step that works on one assertion.                        *)
(*                                                                         *)
(* The inductive invariant has a part for each assertion (RowInv), one for *)
(* each scenario (ScenarioInv) and one for the process (LoopInv): what it  *)
(* holds in memory is what a later process would read from the journal.    *)
(***************************************************************************)
EXTENDS AssertionPhase, TLAPS

\* The assertions of a scenario.
Mine(s) == {a \in Assertions : a[1] = s}

\* Records a sample may have.
Records ==
  [status : {"ok", "pending", "unsupported", "error", "timeout"},
   category : {"observer", "predicate", "deadline", "timeout", "cancelled"},
   snapshot : BOOLEAN, ev : Evidence \cup {"none"}]

\* An evaluation of an assertion of some kind: its origin is the same when it is
\* read from the journal.
IsEvaluation(kind, e) ==
  /\ e = Evaluated(e.result, e.code)
  /\ e.result \in {"pass", "fail", "error", "skipped"}
  /\ ErrorOrigin(kind, e) = ExistingOrigin(e.code)

TypeInv ==
  /\ plan \in Plans /\ epoch \in Nat
  /\ run \in {"running", "paused", "completed", "cancelled", "failed"}
  /\ delivered \in Seq(DeliveryCategories) /\ Len(delivered) = Len(plan)
  /\ scenario \in [ScenarioOrder -> {"running"} \cup ScenarioTerminal]
  /\ assertion \in [Assertions -> {"pending", "running", "passed", "failed", "error",
                                   "unsupported"}]
  /\ evaluation = [a \in Assertions |-> evaluation[a]]
  /\ series \in [Assertions -> {"none", "running"} \cup ObservationTerminal]
  /\ samples \in [Assertions -> Seq(Records)]
  /\ told = [a \in Assertions |-> told[a]]

\* The samples of an assertion: a series without a sample was not begun or is
\* interrupted, one that is ok ends with an accepted answer, and an answer that matches ends its series.
SampleInv(a) ==
  /\ series[a] # "none" => Observed(a)
  /\ series[a] = "none" => samples[a] = <<>>
  /\ samples[a] = <<>> => series[a] \in {"none", "running", "error"}
  /\ series[a] = "ok" => samples[a] # <<>> /\ samples[a][Len(samples[a])].status = "ok"
  /\ \A i \in DOMAIN samples[a] :
       /\ samples[a][i].status = "ok" => samples[a][i].snapshot
       /\ samples[a][i].ev = "match" =>
            samples[a][i].status = "ok" /\ series[a] = "ok" /\ i = Len(samples[a])

\* The rows of an assertion.
RowInv(a) ==
  /\ SampleInv(a)
  /\ evaluation[a] # NotEvaluated <=> assertion[a] \in AssertionTerminal
  /\ assertion[a] \in AssertionTerminal =>
       /\ IsEvaluation(Config(a).kind, evaluation[a])
       /\ assertion[a] = TerminalState(evaluation[a])
       /\ EvidenceReferences(a, evaluation[a]) # {}
       /\ \A r \in EvidenceReferences(a, evaluation[a]) : RequireEvidenceReference(a, r)
       /\ Observed(a) /\ evaluation[a].result = "pass" => series[a] = "ok"
  /\ Observed(a) /\ assertion[a] # "pending" =>
       samples[a] # <<>> /\ series[a] \in ObservationTerminal
  /\ told[a] # "none" => assertion[a] \in AssertionTerminal /\ told[a] = ExistingCategory(a)
  /\ delivered[a[1]] = "ambiguous" => assertion[a] = "pending"

\* What a scenario reduces to.
CategoryOf(s) ==
  IF delivered[s] = "ambiguous" THEN "ambiguous"
  ELSE Reduce({delivered[s]} \cup {ExistingCategory(a) : a \in Mine(s)})

ScenarioInv(s) ==
  /\ delivered[s] = "ambiguous" => scenario[s] = "running"
  /\ scenario[s] # "running" =>
       /\ \A a \in Mine(s) : assertion[a] \in AssertionTerminal
       /\ scenario[s] = ScenarioStateFor(CategoryOf(s))

Working == {"next", "negotiated", "invoke", "wait", "polled", "started"}

\* The assertions of the current scenario that the loop has passed.
Passed == {a \in Assertions : a[1] = cur[1] /\ a[2] < cur[2]}

\* The loop has counted what it passed.
CountInv ==
  /\ cur = <<cur[1], cur[2]>> /\ cur[1] \in Nat \ {0} /\ cur[2] \in Nat \ {0}
  /\ cur[1] <= Len(plan) + 1
  /\ cur[2] > 1 => cur[1] \in ScenarioOrder /\ delivered[cur[1]] # "ambiguous"
  /\ \A a \in Passed : assertion[a] \in AssertionTerminal
  /\ verdicts = {ExistingCategory(a) : a \in Passed}
  /\ results = {CategoryOf(s) : s \in 1 .. cur[1] - 1}
  /\ \A s \in 1 .. cur[1] - 1 : delivered[s] # "ambiguous" => scenario[s] # "running"

\* Where the process is with the assertion at hand.
StepInv ==
  /\ pc \in Working \ {"next"} => cur \in Assertions /\ delivered[cur[1]] # "ambiguous"
  /\ pc = "negotiated" => Observed(cur) /\ assertion[cur] = "pending"
  /\ pc \in {"invoke", "wait"} =>
       /\ series[cur] = "running" /\ assertion[cur] = "pending"
       /\ poll = [last |-> poll.last, valid |-> poll.valid, expired |-> poll.expired]
       /\ poll.last.ev # "match"
  /\ pc = "polled" =>
       /\ Observed(cur) /\ assertion[cur] = "pending"
       /\ samples[cur] # <<>> /\ series[cur] \in ObservationTerminal
       /\ result.last.ev = "match" /\ result.outcome # "error" => series[cur] = "ok"
  /\ pc = "started" =>
       /\ assertion[cur] = "running" /\ IsEvaluation(Config(cur).kind, outcome)
       /\ Observed(cur) => samples[cur] # <<>> /\ series[cur] \in ObservationTerminal
       /\ Observed(cur) /\ outcome.result = "pass" => series[cur] = "ok"

LoopInv ==
  /\ pc \in Working \cup {"stopped", "validating"}
  /\ pc \in Working => run = "running" /\ CountInv /\ StepInv
  /\ pc = "validating" => run # "completed" /\ cur = <<1, 1>> /\ verdicts = {} /\ results = {}
  /\ \A a \in Assertions :
       series[a] = "running" => pc = "stopped" \/ (pc \in {"invoke", "wait"} /\ cur = a)

\* The run and its scenarios.
RunInv ==
  /\ run \in RunTerminal =>
       /\ pc = "stopped" /\ results = {CategoryOf(s) : s \in ScenarioOrder}
       /\ run = RunStateFor(Reduce(results))
       /\ \A s \in ScenarioOrder : delivered[s] # "ambiguous" => scenario[s] # "running"
  /\ run = "paused" => \E s \in ScenarioOrder : delivered[s] = "ambiguous"

IInv ==
  /\ TypeInv /\ LoopInv /\ RunInv
  /\ \A a \in Assertions : RowInv(a)
  /\ \A s \in ScenarioOrder : ScenarioInv(s)

-----------------------------------------------------------------------------
(* The operators. *)

\* A nonempty set of categories reduces to one of its members, and no member has
\* precedence over it.
LEMMA Reduced ==
  ASSUME NEW S, S \subseteq Categories, S # {}
  PROVE  /\ Reduce(S) \in S
         /\ Reduce(S) = "pass" => S = {"pass"}
         /\ Reduce(S) \in {"pass", "receiver_failure", "environment_error", "unsupported"} =>
              "ambiguous" \notin S
         /\ "ambiguous" \in S => Reduce(S) \in {"harness_error", "invalid_input", "ambiguous"}
<1> DEFINE First(c) == \E i \in DOMAIN Precedence :
                         /\ Precedence[i] = c
                         /\ \A j \in 1 .. i - 1 : Precedence[j] \notin S
<1>1. /\ DOMAIN Precedence = 1 .. 8
      /\ Precedence[1] = "harness_error" /\ Precedence[2] = "invalid_input"
      /\ Precedence[3] = "ambiguous" /\ Precedence[4] = "environment_error"
      /\ Precedence[5] = "unsupported" /\ Precedence[6] = "receiver_failure"
      /\ Precedence[7] = "cancelled" /\ Precedence[8] = "pass"
  BY DEF Precedence
<1>2. S \subseteq {"harness_error", "invalid_input", "ambiguous", "environment_error",
                   "unsupported", "receiver_failure", "cancelled", "pass"}
  <2>1. \A i \in 1 .. 8 : i \in {1, 2, 3, 4, 5, 6, 7, 8}
    OBVIOUS
  <2>2. QED
    BY <1>1, <2>1, ZenonT(30) DEF Categories
<1>3. \E c \in S : First(c)
  <2>1. CASE Precedence[1] \in S
    <3>1. First(Precedence[1])
      BY <1>1
    <3>2. QED
      BY <2>1, <3>1
  <2>2. CASE Precedence[1] \notin S /\ Precedence[2] \in S
    <3>1. First(Precedence[2])
      BY <1>1, <2>2
    <3>2. QED
      BY <2>2, <3>1
  <2>3. CASE Precedence[1] \notin S /\ Precedence[2] \notin S /\ Precedence[3] \in S
    <3>1. First(Precedence[3])
      BY <1>1, <2>3
    <3>2. QED
      BY <2>3, <3>1
  <2>4. CASE (\A i \in 1 .. 3 : Precedence[i] \notin S) /\ Precedence[4] \in S
    <3>1. First(Precedence[4])
      BY <1>1, <2>4
    <3>2. QED
      BY <2>4, <3>1
  <2>5. CASE (\A i \in 1 .. 4 : Precedence[i] \notin S) /\ Precedence[5] \in S
    <3>1. First(Precedence[5])
      BY <1>1, <2>5
    <3>2. QED
      BY <2>5, <3>1
  <2>6. CASE (\A i \in 1 .. 5 : Precedence[i] \notin S) /\ Precedence[6] \in S
    <3>1. First(Precedence[6])
      BY <1>1, <2>6
    <3>2. QED
      BY <2>6, <3>1
  <2>7. CASE (\A i \in 1 .. 6 : Precedence[i] \notin S) /\ Precedence[7] \in S
    <3>1. First(Precedence[7])
      BY <1>1, <2>7
    <3>2. QED
      BY <2>7, <3>1
  <2>8. CASE (\A i \in 1 .. 7 : Precedence[i] \notin S) /\ Precedence[8] \in S
    <3>1. First(Precedence[8])
      BY <1>1, <2>8
    <3>2. QED
      BY <2>8, <3>1
  <2>9. ASSUME \A i \in 1 .. 8 : Precedence[i] \notin S PROVE FALSE
    <3>1. PICK c \in S : TRUE
      OBVIOUS
    <3>2. \E i \in 1 .. 8 : Precedence[i] = c
      BY <1>1, <3>1 DEF Categories
    <3>3. QED
      BY <2>9, <3>1, <3>2
  <2>10. \/ \A i \in 1 .. 7 : Precedence[i] \notin S
         \/ \E c \in S : First(c)
    <3> HIDE DEF First
    <3> QED
      BY <2>1, <2>2, <2>3, <2>4, <2>5, <2>6, <2>7
  <2>11. QED
    <3> HIDE DEF First
    <3>1. CASE Precedence[8] \in S
      BY <3>1, <2>8, <2>10
    <3>2. CASE Precedence[8] \notin S
      BY <3>2, <2>9, <2>10
    <3>3. QED
      BY <3>1, <3>2
<1>4. Reduce(S) \in S /\ First(Reduce(S))
  BY <1>3, Zenon DEF Reduce
<1>5. PICK i \in 1 .. 8 :
        Precedence[i] = Reduce(S) /\ \A j \in 1 .. i - 1 : Precedence[j] \notin S
  BY <1>1, <1>4
<1>6. "ambiguous" \in S => i <= 3
  BY <1>1, <1>5
<1>7. Reduce(S) = "pass" => i = 8
  BY <1>1, <1>5
<1>8. i = 8 => S = {"pass"}
  <2> SUFFICES ASSUME i = 8 PROVE S = {"pass"}
    OBVIOUS
  <2>1. \A j \in 1 .. 7 : Precedence[j] \notin S
    BY <1>5
  <2>2. S \subseteq {"pass"}
    BY <1>1, <1>2, <2>1
  <2>3. QED
    BY <2>2, Zenon
<1>9. i <= 3 => Reduce(S) \in {"harness_error", "invalid_input", "ambiguous"}
  BY <1>1, <1>5
<1>10. QED
  BY <1>4, <1>6, <1>7, <1>8, <1>9

\* A transport assertion always has an evaluation.
LEMMA TransportEvaluated ==
  ASSUME NEW config \in TransportAssertions
  PROVE  IsEvaluation("transport", TransportWitness(config))
<1> DEFINE e == [i \in DOMAIN config.replies |-> EvaluateTransport(config, config.replies[i])]
           First(r) == {i \in DOMAIN e : e[i].result = r /\ \A j \in 1 .. i - 1 : e[j].result # r}
<1>1. ASSUME NEW reply
      PROVE  IsEvaluation("transport", EvaluateTransport(config, reply))
  BY DEF IsEvaluation, EvaluateTransport, EvaluateStatus, EvaluateAcknowledgement, Evaluated,
         ErrorOrigin, ExistingOrigin
<1>2. /\ config.replies \in Seq({"missing", "untimed", "expected", "unexpected"})
      /\ config.replies # <<>>
  BY DEF TransportAssertions
<1>3. Len(e) \in DOMAIN e /\ DOMAIN e = DOMAIN config.replies
  BY <1>2
<1>4. \A i \in DOMAIN e : IsEvaluation("transport", e[i])
  BY <1>1, <1>3
<1>5. \A r : First(r) \subseteq DOMAIN e
  OBVIOUS
<1>6. TransportWitness(config) =
        IF First("fail") # {} THEN e[CHOOSE i \in First("fail") : TRUE]
        ELSE IF First("error") # {} THEN e[CHOOSE i \in First("error") : TRUE]
        ELSE e[Len(e)]
  BY DEF TransportWitness
<1> HIDE DEF e, First
<1>7. QED
  BY <1>3, <1>4, <1>5, <1>6

\* An observer assertion has an evaluation whatever the poll gave, and passes only on
\* an answer that matches.
LEMMA ObservedEvaluated ==
  ASSUME NEW config \in ObserverAssertions, NEW r
  PROVE  LET e == EvaluateObserved(config, r)
         IN  /\ IsEvaluation(config.kind, e)
             /\ e.result = "pass" => r.last.ev = "match" /\ r.outcome # "error"
<1>1. config.kind \in {"state", "eventual", "composite"}
  BY DEF ObserverAssertions
<1>2. CASE config.kind = "eventual"
  <2>1. EvaluateObserved(config, r) = EvaluateEventual(config, r)
    BY <1>2 DEF EvaluateObserved
  <2>2. IsEvaluation("eventual", EvaluateEventual(config, r))
    BY DEF EvaluateEventual, IsEvaluation, Evaluated, Unsupported, ErrorOrigin, ExistingOrigin
  <2>3. EvaluateEventual(config, r).result = "pass" =>
          r.outcome = "matched" /\ EvaluatePredicate(r.last.ev) = "pass"
    BY DEF EvaluateEventual, Evaluated, Unsupported
  <2>4. QED
    BY <1>2, <2>1, <2>2, <2>3 DEF EvaluatePredicate
<1>3. CASE config.kind = "composite"
  <2> DEFINE answer == IF r.outcome = "error" \/ r.last = NoResponse
                       THEN [NoResponse EXCEPT !.status = "error"] ELSE r.last
  <2>1. EvaluateObserved(config, r) = EvaluateComposite(config, answer)
    BY <1>3 DEF EvaluateObserved
  <2>2. IsEvaluation("composite", EvaluateComposite(config, answer))
    BY DEF EvaluateComposite, IsEvaluation, Evaluated, Unsupported, ErrorOrigin, ExistingOrigin
  <2>3. EvaluateComposite(config, answer).result = "pass" =>
          answer.status = "ok" /\ EvaluatePredicate(answer.ev) = "pass"
    <3> HIDE DEF answer
    <3> QED
      BY DEF EvaluateComposite, Evaluated, Unsupported
  <2>4. answer.status = "ok" => answer = r.last /\ r.outcome # "error"
    BY DEF NoResponse
  <2>5. QED
    <3> HIDE DEF answer
    <3> QED
      BY <1>3, <2>1, <2>2, <2>3, <2>4 DEF EvaluatePredicate
<1>4. CASE config.kind = "state"
  <2> DEFINE ev == IF r.outcome = "error" \/ r.last = NoResponse THEN "none" ELSE r.last.ev
  <2>1. EvaluateObserved(config, r) = EvaluateState(ev)
    BY <1>4 DEF EvaluateObserved
  <2>2. /\ IsEvaluation("state", EvaluateState(ev))
        /\ EvaluateState(ev).result = "pass" => ev = "match"
    BY DEF EvaluateState, IsEvaluation, Evaluated, ErrorOrigin, ExistingOrigin
  <2>3. QED
    BY <1>4, <2>1, <2>2
<1>5. QED
  BY <1>1, <1>2, <1>3, <1>4

\* An observer that lacks a capability.
LEMMA PreflightEvaluated ==
  ASSUME NEW config, NEW kind
  PROVE  /\ IsEvaluation(kind, Unsupported(config, "preflight"))
         /\ Unsupported(config, "preflight").result # "pass"
BY DEF Unsupported, IsEvaluation, Evaluated, ErrorOrigin, ExistingOrigin

\* The state and the category of an evaluation.
LEMMA EvaluationClass ==
  ASSUME NEW kind, NEW e, IsEvaluation(kind, e), NEW origin,
         origin \in {"harness_error", "invalid_input", "environment_error"}
  PROVE  LET c == ClassifyAssertion(e.result, TerminalState(e), origin)
         IN  /\ TerminalState(e) \in {"passed", "failed", "error", "unsupported"}
             /\ TerminalState(e) = "passed" <=> e.result = "pass"
             /\ c \in {"pass", "receiver_failure", "unsupported", origin}
             /\ c = "pass" <=> e.result = "pass"
             /\ e # NotEvaluated
<1>1. e.result \in {"pass", "fail", "error", "skipped"}
  BY DEF IsEvaluation
<1>2. e # NotEvaluated
  BY <1>1 DEF NotEvaluated, Evaluated
<1>3. CASE e.result = "pass"
  <2>1. TerminalState(e) = "passed"
    BY <1>3 DEF TerminalState
  <2>2. QED
    BY <1>2, <1>3, <2>1 DEF ClassifyAssertion
<1>4. CASE e.result = "fail"
  <2>1. TerminalState(e) = "failed"
    BY <1>4 DEF TerminalState
  <2>2. QED
    BY <1>2, <1>4, <2>1 DEF ClassifyAssertion
<1>5. CASE e.result = "skipped"
  <2>1. TerminalState(e) = "unsupported"
    BY <1>5 DEF TerminalState
  <2>2. QED
    BY <1>2, <1>5, <2>1 DEF ClassifyAssertion
<1>6. CASE e.result = "error"
  <2>1. TerminalState(e) \in {"unsupported", "error"}
    BY <1>6 DEF TerminalState
  <2>2. TerminalState(e) = "unsupported" =>
          ClassifyAssertion(e.result, TerminalState(e), origin) = "unsupported"
    BY <1>6 DEF ClassifyAssertion
  <2>3. TerminalState(e) = "error" =>
          ClassifyAssertion(e.result, TerminalState(e), origin) = origin
    BY <1>6 DEF ClassifyAssertion
  <2>4. QED
    BY <1>2, <1>6, <2>1, <2>2, <2>3
<1>7. QED
  BY <1>1, <1>3, <1>4, <1>5, <1>6

-----------------------------------------------------------------------------
(* What a step leaves alone. *)

LEMMA PlanShape ==
  ASSUME plan \in Plans
  PROVE  /\ Len(plan) \in Nat \ {0}
         /\ \A s \in ScenarioOrder :
              /\ Len(plan[s]) \in Nat \ {0}
              /\ \A i \in 1 .. Len(plan[s]) : plan[s][i] \in TransportAssertions \cup ObserverAssertions
<1>1. /\ plan \in Seq(Seq(TransportAssertions \cup ObserverAssertions)) /\ plan # <<>>
      /\ \A s \in DOMAIN plan : plan[s] # <<>>
  BY PhaseBounds DEF IsPlan
<1>2. ASSUME NEW s \in ScenarioOrder
      PROVE  plan[s] \in Seq(TransportAssertions \cup ObserverAssertions) /\ plan[s] # <<>>
  BY <1>1, <1>2 DEF ScenarioOrder
<1>3. QED
  BY <1>1, <1>2

LEMMA Places ==
  ASSUME NEW a
  PROVE  a \in Assertions <=>
           \E s \in ScenarioOrder : \E i \in 1 .. Len(plan[s]) : a = <<s, i>>
BY DEF Assertions

LEMMA Configured ==
  ASSUME plan \in Plans, NEW a \in Assertions
  PROVE  /\ a = <<a[1], a[2]>> /\ a[1] \in ScenarioOrder /\ a[2] \in 1 .. Len(plan[a[1]])
         /\ Observed(a) => Config(a) \in ObserverAssertions
         /\ ~Observed(a) => Config(a) \in TransportAssertions /\ Config(a).kind = "transport"
<1>1. PICK s \in ScenarioOrder : \E i \in 1 .. Len(plan[s]) : a = <<s, i>>
  BY Places
<1> PICK i \in 1 .. Len(plan[s]) : a = <<s, i>>
  BY <1>1
<1>2. Config(a) = plan[s][i] /\ Config(a) \in TransportAssertions \cup ObserverAssertions
  BY <1>1, PlanShape DEF Config
<1>3. QED
  BY <1>1, <1>2 DEF Observed, TransportAssertions, ObserverAssertions

\* The rows of an assertion do not change.
SameRows(a) ==
  /\ assertion'[a] = assertion[a] /\ evaluation'[a] = evaluation[a]
  /\ series'[a] = series[a] /\ samples'[a] = samples[a]
  /\ told'[a] = told[a]

\* What has ended does not change.
Keeps ==
  /\ plan' = plan
  /\ \A a \in Assertions :
       assertion[a] \in AssertionTerminal =>
         assertion'[a] = assertion[a] /\ ExistingCategory(a)' = ExistingCategory(a)
  /\ \A s \in ScenarioOrder :
       /\ delivered[s] # "ambiguous" => delivered'[s] = delivered[s]
       /\ scenario[s] # "running" => scenario'[s] = scenario[s]

LEMMA PlanKept ==
  ASSUME Keeps
  PROVE  plan' = plan /\ Assertions' = Assertions /\ ScenarioOrder' = ScenarioOrder
<1>1. plan' = plan
  BY DEF Keeps
<1>2. QED
  BY <1>1, Zenon DEF Assertions, ScenarioOrder

LEMMA RowKept ==
  ASSUME NEW a, RowInv(a), SameRows(a), plan' = plan,
         delivered'[a[1]] = "ambiguous" => delivered[a[1]] = "ambiguous"
  PROVE  RowInv(a)' /\ ExistingCategory(a)' = ExistingCategory(a)
<1>1. ExistingCategory(a)' = ExistingCategory(a)
  BY Zenon DEF ExistingCategory, SameRows
<1>2. SampleInv(a)'
  BY DEF RowInv, SampleInv, SameRows, Observed, Config
<1>3. Config(a)' = Config(a) /\ (Observed(a)' <=> Observed(a))
  BY Zenon DEF Config, Observed
<1>4. EvidenceReferences(a, evaluation[a])' = EvidenceReferences(a, evaluation[a])
  BY <1>3, Zenon DEF EvidenceReferences, SameRows
<1>5. \A r : RequireEvidenceReference(a, r)' <=> RequireEvidenceReference(a, r)
  BY <1>3 DEF RequireEvidenceReference, SameRows
<1>6. assertion[a] \in AssertionTerminal =>
         (/\ EvidenceReferences(a, evaluation[a]) # {}
          /\ \A r \in EvidenceReferences(a, evaluation[a]) : RequireEvidenceReference(a, r))'
  BY <1>4, <1>5, Zenon DEF RowInv
<1>7. QED
  BY <1>1, <1>2, <1>3, <1>6, Zenon DEF RowInv, SameRows

\* What a scenario reduces to does not change once it is settled.
LEMMA CategoryKept ==
  ASSUME Keeps, NEW s \in ScenarioOrder,
         \/ delivered[s] = "ambiguous" /\ delivered'[s] = "ambiguous"
         \/ delivered[s] # "ambiguous" /\ \A a \in Mine(s) : assertion[a] \in AssertionTerminal
  PROVE  CategoryOf(s)' = CategoryOf(s)
<1>1. Mine(s)' = Mine(s)
  BY Zenon DEF Mine, Assertions, ScenarioOrder, Keeps
<1>2. CASE delivered[s] = "ambiguous" /\ delivered'[s] = "ambiguous"
  BY <1>2 DEF CategoryOf
<1>3. CASE delivered[s] # "ambiguous" /\ \A a \in Mine(s) : assertion[a] \in AssertionTerminal
  <2>1. \A a \in Mine(s) : ExistingCategory(a)' = ExistingCategory(a)
    BY <1>3, Zenon DEF Mine, Keeps
  <2>2. {ExistingCategory(a) : a \in Mine(s)}' = {ExistingCategory(a) : a \in Mine(s)}
    BY <1>1, <2>1, Zenon
  <2>3. delivered'[s] = delivered[s]
    BY <1>3, Zenon DEF Keeps
  <2>4. QED
    BY <1>3, <2>2, <2>3, Zenon DEF CategoryOf
<1>4. QED
  BY <1>2, <1>3

LEMMA ScenarioKept ==
  ASSUME Keeps, NEW s \in ScenarioOrder, ScenarioInv(s), scenario'[s] = scenario[s],
         delivered'[s] = "ambiguous" => delivered[s] = "ambiguous"
  PROVE  ScenarioInv(s)'
<1>1. Mine(s)' = Mine(s)
  BY Zenon DEF Mine, Assertions, ScenarioOrder, Keeps
<1>2. CASE scenario[s] = "running"
  BY <1>2 DEF ScenarioInv
<1>3. CASE scenario[s] # "running"
  <2>1. /\ delivered[s] # "ambiguous" /\ \A a \in Mine(s) : assertion[a] \in AssertionTerminal
        /\ scenario[s] = ScenarioStateFor(CategoryOf(s))
    BY <1>3, Zenon DEF ScenarioInv
  <2>2. CategoryOf(s)' = CategoryOf(s)
    BY <2>1, CategoryKept
  <2>3. \A a \in Mine(s) : assertion'[a] = assertion[a]
    BY <2>1, Zenon DEF Keeps, Mine
  <2>4. QED
    BY <1>1, <2>1, <2>2, <2>3, Zenon DEF ScenarioInv
<1>4. QED
  BY <1>2, <1>3

\* A step that changes the rows of one open assertion and no scenario.
LEMMA OneMoves ==
  ASSUME IInv, NEW a \in Assertions, assertion[a] \notin AssertionTerminal,
         UNCHANGED <<plan, delivered, scenario>>,
         \A b \in Assertions \ {a} : SameRows(b), RowInv(a)'
  PROVE  /\ Keeps
         /\ (\A b \in Assertions : RowInv(b))' /\ (\A s \in ScenarioOrder : ScenarioInv(s))'
<1>1. Assertions' = Assertions /\ ScenarioOrder' = ScenarioOrder
  BY Zenon DEF Assertions, ScenarioOrder
<1>2. \A b \in Assertions \ {a} : RowInv(b)' /\ ExistingCategory(b)' = ExistingCategory(b)
  BY RowKept DEF IInv
<1>3. Keeps
  BY <1>2, Zenon DEF Keeps, SameRows
<1>4. \A s \in ScenarioOrder : ScenarioInv(s)'
  BY <1>3, ScenarioKept DEF IInv
<1>5. QED
  BY <1>1, <1>2, <1>3, <1>4, Zenon

\* A step that changes no row.
LEMMA NoneMoves ==
  ASSUME IInv, UNCHANGED <<plan, delivered, scenario, assertion, evaluation, series, samples,
                           told>>
  PROVE  /\ Keeps
         /\ (\A b \in Assertions : RowInv(b))' /\ (\A s \in ScenarioOrder : ScenarioInv(s))'
<1>1. Assertions' = Assertions /\ ScenarioOrder' = ScenarioOrder
  BY Zenon DEF Assertions, ScenarioOrder
<1>2. \A b \in Assertions : SameRows(b)
  BY Zenon DEF SameRows
<1>3. \A b \in Assertions : RowInv(b)' /\ ExistingCategory(b)' = ExistingCategory(b)
  BY <1>2, RowKept DEF IInv
<1>4. Keeps
  BY <1>2, <1>3, Zenon DEF Keeps, SameRows
<1>5. \A s \in ScenarioOrder : ScenarioInv(s)'
  BY <1>4, ScenarioKept DEF IInv
<1>6. QED
  BY <1>1, <1>3, <1>4, <1>5, Zenon

\* What the loop has counted stays so.
LEMMA CountedKept ==
  ASSUME IInv, Keeps, pc \in Working, UNCHANGED delivered
  PROVE  /\ CountInv
         /\ \A a \in Passed : /\ assertion'[a] \in AssertionTerminal
                              /\ ExistingCategory(a)' = ExistingCategory(a)
         /\ \A s \in 1 .. cur[1] - 1 :
              /\ s \in ScenarioOrder /\ CategoryOf(s)' = CategoryOf(s)
              /\ delivered'[s] # "ambiguous" => scenario'[s] # "running"
<1>1. CountInv
  BY DEF IInv, LoopInv
<1>2. \A a \in Passed : /\ assertion'[a] \in AssertionTerminal
                        /\ ExistingCategory(a)' = ExistingCategory(a)
  BY <1>1, Zenon DEF CountInv, Passed, Keeps
<1>3. Len(plan) \in Nat
  BY PlanShape DEF IInv, TypeInv
<1>4. ASSUME NEW s \in 1 .. cur[1] - 1
      PROVE  /\ s \in ScenarioOrder /\ CategoryOf(s)' = CategoryOf(s)
             /\ delivered'[s] # "ambiguous" => scenario'[s] # "running"
  <2>1. s \in ScenarioOrder
    BY <1>1, <1>3, <1>4 DEF CountInv, ScenarioOrder
  <2>2. delivered[s] # "ambiguous" => scenario[s] # "running"
    BY <1>1, <1>4, Zenon DEF CountInv
  <2>3. scenario[s] # "running" => \A a \in Mine(s) : assertion[a] \in AssertionTerminal
    BY <2>1, Zenon DEF IInv, ScenarioInv
  <2>4. CategoryOf(s)' = CategoryOf(s)
    BY <2>1, <2>2, <2>3, CategoryKept
  <2>5. QED
    BY <2>1, <2>2, <2>4, Zenon DEF Keeps
<1>5. QED
  BY <1>1, <1>2, <1>4

LEMMA CountKept ==
  ASSUME IInv, Keeps, pc \in Working, UNCHANGED <<delivered, cur, verdicts, results>>
  PROVE  CountInv'
<1>1. Passed' = Passed /\ ScenarioOrder' = ScenarioOrder
  BY ZenonT(30) DEF Passed, Assertions, ScenarioOrder, Keeps
<1>2. {ExistingCategory(a) : a \in Passed}' = {ExistingCategory(a) : a \in Passed}
  BY <1>1, CountedKept, Zenon
<1>3. {CategoryOf(s) : s \in 1 .. cur[1] - 1}' = {CategoryOf(s) : s \in 1 .. cur[1] - 1}
  BY CountedKept, Zenon
<1>4. cur' = cur /\ verdicts' = verdicts /\ results' = results /\ delivered' = delivered
  OBVIOUS
<1>5. plan' = plan
  BY Zenon DEF Keeps
<1>6. \A a \in Passed' : assertion'[a] \in AssertionTerminal
  BY <1>1, CountedKept, Zenon
<1>7. \A s \in 1 .. cur'[1] - 1 : delivered'[s] # "ambiguous" => scenario'[s] # "running"
  BY <1>4, CountedKept, Zenon
<1>8. CountInv
  BY CountedKept, Zenon
<1>9. QED
  BY <1>1, <1>2, <1>3, <1>4, <1>5, <1>6, <1>7, <1>8, Zenon DEF CountInv

\* The loop goes on to the next assertion of the scenario.
LEMMA CountNext ==
  ASSUME IInv, Keeps, pc \in Working, UNCHANGED <<delivered, results>>,
         NEW a \in Assertions, cur = a, delivered[a[1]] # "ambiguous",
         cur' = <<a[1], a[2] + 1>>, assertion'[a] \in AssertionTerminal,
         verdicts' = verdicts \cup {ExistingCategory(a)'}
  PROVE  CountInv'
<1>1. a = <<a[1], a[2]>> /\ a[1] \in ScenarioOrder /\ a[2] \in Nat \ {0}
  BY Configured, PlanShape DEF IInv, TypeInv
<1>2. Assertions' = Assertions /\ ScenarioOrder' = ScenarioOrder
  BY PlanKept
<1>3. cur'[1] = a[1] /\ cur'[2] = a[2] + 1
  OBVIOUS
<1>4. Passed' = Passed \cup {a}
  <2>1. ASSUME NEW b \in Assertions
        PROVE  b[1] = a[1] /\ b[2] < a[2] + 1 <=> b = a \/ (b[1] = a[1] /\ b[2] < a[2])
    <3>1. b = <<b[1], b[2]>> /\ b[1] \in ScenarioOrder /\ b[2] \in 1 .. Len(plan[b[1]])
      BY <2>1, Configured DEF IInv, TypeInv
    <3>2. b[2] \in Nat
      BY <3>1, PlanShape DEF IInv, TypeInv
    <3>3. b = a <=> b[1] = a[1] /\ b[2] = a[2]
      BY <1>1, <3>1, Zenon
    <3>4. b[2] < a[2] + 1 <=> b[2] = a[2] \/ b[2] < a[2]
      BY <1>1, <3>2
    <3>5. QED
      BY <3>3, <3>4, <1>1, <3>2
  <2>2. QED
    BY <1>2, <1>3, <2>1 DEF Passed
<1>5. CountInv /\ (\A b \in Passed : /\ assertion'[b] \in AssertionTerminal
                                     /\ ExistingCategory(b)' = ExistingCategory(b))
  BY CountedKept, Zenon
<1>6. verdicts' = {ExistingCategory(b) : b \in Passed}'
  <2>1. {ExistingCategory(b) : b \in Passed}' = {ExistingCategory(b)' : b \in Passed \cup {a}}
    BY <1>4, Zenon
  <2>2. verdicts = {ExistingCategory(b)' : b \in Passed}
    <3>1. verdicts = {ExistingCategory(b) : b \in Passed}
      BY <1>5 DEF CountInv
    <3>2. QED
      BY <1>5, <3>1, Zenon
  <2>3. QED
    BY <2>1, <2>2, Zenon
<1>7. \A b \in Passed' : assertion'[b] \in AssertionTerminal
  BY <1>4, <1>5, Zenon
<1>8. {CategoryOf(s) : s \in 1 .. cur[1] - 1}' = {CategoryOf(s) : s \in 1 .. cur[1] - 1}
  <2>1. cur'[1] - 1 = cur[1] - 1
    BY <1>3
  <2>2. \A s \in 1 .. cur[1] - 1 : CategoryOf(s)' = CategoryOf(s)
    BY CountedKept, Zenon
  <2>3. QED
    BY <2>1, <2>2, Zenon
<1>9. \A s \in 1 .. cur'[1] - 1 : delivered'[s] # "ambiguous" => scenario'[s] # "running"
  BY <1>3, CountedKept, Zenon
<1>10. cur' = <<cur'[1], cur'[2]>> /\ cur'[1] \in Nat \ {0} /\ cur'[2] \in Nat \ {0}
       /\ cur'[1] <= Len(plan') + 1
  BY <1>1, <1>3, <1>5 DEF CountInv, Keeps
<1>11. QED
  BY <1>1, <1>2, <1>3, <1>5, <1>6, <1>7, <1>8, <1>9, <1>10, Zenon DEF CountInv

\* The loop goes on to the next scenario.
LEMMA CountScenario ==
  ASSUME IInv, Keeps, pc \in Working, UNCHANGED delivered,
         NEW n \in ScenarioOrder, cur[1] = n, cur' = <<n + 1, 1>>, verdicts' = {},
         results' = results \cup {CategoryOf(n)'},
         delivered'[n] # "ambiguous" => scenario'[n] # "running"
  PROVE  CountInv'
<1>1. CountInv /\ n \in Nat \ {0}
  BY CountedKept DEF CountInv
<1>2. cur'[1] = n + 1 /\ cur'[2] = 1
  OBVIOUS
<1>3. Passed' = {}
  <2>1. \A b \in Assertions : ~(b[2] < 1)
    BY Configured, PlanShape DEF IInv, TypeInv
  <2>2. Assertions' = Assertions
    BY PlanKept
  <2>3. QED
    BY <1>2, <2>1, <2>2 DEF Passed
<1>4. 1 .. cur'[1] - 1 = (1 .. n - 1) \cup {n}
  BY <1>1, <1>2
<1>5. results = {CategoryOf(s)' : s \in 1 .. n - 1}
  BY CountedKept, <1>1, Zenon DEF CountInv
<1>6. results' = {CategoryOf(s)' : s \in (1 .. n - 1) \cup {n}}
  BY <1>5, Zenon
<1>7. \A s \in (1 .. n - 1) \cup {n} : delivered'[s] # "ambiguous" => scenario'[s] # "running"
  BY CountedKept, Zenon
<1>8. n + 1 <= Len(plan') + 1 /\ n + 1 \in Nat \ {0}
  BY <1>1, PlanShape DEF Keeps, ScenarioOrder, IInv, TypeInv
<1>9. verdicts' = {ExistingCategory(a) : a \in Passed}'
  BY <1>3, Zenon
<1>10. QED
  <2>1. cur' = <<cur'[1], cur'[2]>> /\ cur'[1] \in Nat \ {0} /\ cur'[2] \in Nat \ {0}
        /\ cur'[1] <= Len(plan') + 1 /\ ~(cur'[2] > 1)
    BY <1>2, <1>8
  <2>2. QED
    BY <2>1, <1>3, <1>4, <1>6, <1>7, <1>9, Zenon DEF CountInv

-----------------------------------------------------------------------------
(* The steps of the loop. *)

\* A step of the loop preserves the invariant when its parts hold after it.
LEMMA LoopGoesOn ==
  ASSUME IInv, pc \in Working, pc' \in Working, run' = run, TypeInv', CountInv', StepInv',
         (\A b \in Assertions : RowInv(b))', (\A s \in ScenarioOrder : ScenarioInv(s))',
         \A b \in Assertions' : series'[b] = "running" => pc' \in {"invoke", "wait"} /\ cur' = b
  PROVE  IInv'
<1>1. run = "running"
  BY Zenon DEF IInv, LoopInv
<1>2. pc' # "validating" /\ pc' # "stopped"
  BY DEF Working
<1>3. RunInv'
  BY <1>1 DEF RunInv, RunTerminal
<1>4. LoopInv'
  BY <1>1, <1>2, Zenon DEF LoopInv
<1>5. QED
  BY <1>3, <1>4, Zenon DEF IInv

\* Where no poll runs, no series does.
LEMMA NoneRuns ==
  ASSUME IInv, pc \notin {"stopped", "invoke", "wait"}
  PROVE  \A b \in Assertions : series[b] # "running"
BY Zenon DEF IInv, LoopInv

LEMMA StepAmbiguousScenario ==
  ASSUME IInv, AmbiguousScenario
  PROVE  IInv'
<1>1. /\ Keeps
      /\ (\A b \in Assertions : RowInv(b))' /\ (\A s \in ScenarioOrder : ScenarioInv(s))'
  BY NoneMoves DEF AmbiguousScenario, journal
<1>2. pc = "next" /\ pc' = "next" /\ run' = run /\ delivered' = delivered /\ series' = series
  BY DEF AmbiguousScenario, journal
<1>3. pc \in Working /\ pc' \in Working
  BY <1>2 DEF Working
<1>4. TypeInv'
  BY PlanKept, <1>1, Zenon DEF IInv, TypeInv, AmbiguousScenario, journal
<1>5. CountInv'
  <2>1. PICK n \in ScenarioOrder : n = cur[1]
    BY DEF AmbiguousScenario
  <2>2. CategoryOf(n)' = "ambiguous"
    BY <1>2, <2>1 DEF CategoryOf, AmbiguousScenario
  <2>3. Passed = {}
    <3>1. \A b \in Assertions : ~(b[2] < 1)
      BY Configured, PlanShape DEF IInv, TypeInv
    <3>2. QED
      BY <3>1 DEF Passed, AmbiguousScenario
  <2>4. verdicts' = {}
    <3>1. CountInv
      BY <1>1, <1>2, <1>3, CountedKept
    <3>2. verdicts = {ExistingCategory(a) : a \in Passed} /\ verdicts' = verdicts
      BY <3>1 DEF CountInv, AmbiguousScenario
    <3>3. QED
      BY <2>3, <3>2, Zenon
  <2>5. results' = results \cup {CategoryOf(n)'} /\ cur' = <<n + 1, 1>>
    BY <2>1, <2>2 DEF AmbiguousScenario
  <2>6. delivered'[n] = "ambiguous"
    BY <1>2, <2>1 DEF AmbiguousScenario
  <2>7. QED
    BY <1>1, <1>2, <1>3, <2>1, <2>4, <2>5, <2>6, CountScenario
<1>6. StepInv'
  BY <1>2 DEF StepInv
<1>7. \A b \in Assertions' : series'[b] # "running"
  BY <1>1, <1>2, NoneRuns, PlanKept
<1>8. QED
  BY <1>1, <1>2, <1>3, <1>4, <1>5, <1>6, <1>7, LoopGoesOn

LEMMA StepKeepEvaluation ==
  ASSUME IInv, NEW a \in Assertions, KeepEvaluation(a)
  PROVE  IInv'
<1>1. /\ Keeps
      /\ (\A b \in Assertions : RowInv(b))' /\ (\A s \in ScenarioOrder : ScenarioInv(s))'
  BY NoneMoves DEF KeepEvaluation, journal
<1>2. pc = "next" /\ pc' = "next" /\ run' = run /\ delivered' = delivered /\ series' = series
      /\ results' = results
  BY DEF KeepEvaluation, At, journal
<1>3. pc \in Working /\ pc' \in Working
  BY <1>2 DEF Working
<1>4. TypeInv'
  BY PlanKept, <1>1, Zenon DEF IInv, TypeInv, KeepEvaluation, journal
<1>5. CountInv'
  <2>1. ExistingCategory(a)' = ExistingCategory(a) /\ assertion'[a] \in AssertionTerminal
    BY <1>1, Zenon DEF KeepEvaluation, Keeps
  <2>2. cur = a /\ delivered[a[1]] # "ambiguous" /\ cur' = <<a[1], a[2] + 1>>
        /\ verdicts' = verdicts \cup {ExistingCategory(a)'}
    BY <2>1 DEF KeepEvaluation, At
  <2>3. QED
    BY <1>1, <1>2, <1>3, <2>1, <2>2, CountNext
<1>6. StepInv'
  BY <1>2 DEF StepInv
<1>7. \A b \in Assertions' : series'[b] # "running"
  BY <1>1, <1>2, NoneRuns, PlanKept
<1>8. QED
  BY <1>1, <1>2, <1>3, <1>4, <1>5, <1>6, <1>7, LoopGoesOn

LEMMA StepRequestCapabilities ==
  ASSUME IInv, NEW a \in Assertions, RequestCapabilities(a)
  PROVE  IInv'
<1>1. /\ Keeps
      /\ (\A b \in Assertions : RowInv(b))' /\ (\A s \in ScenarioOrder : ScenarioInv(s))'
  BY NoneMoves DEF RequestCapabilities, journal
<1>2. pc = "next" /\ pc' = "negotiated" /\ run' = run /\ delivered' = delivered
      /\ series' = series /\ cur' = cur /\ verdicts' = verdicts /\ results' = results
      /\ assertion' = assertion /\ plan' = plan
  BY DEF RequestCapabilities, At, journal
<1>3. pc \in Working /\ pc' \in Working
  BY <1>2 DEF Working
<1>4. TypeInv'
  BY PlanKept, <1>1, Zenon DEF IInv, TypeInv, RequestCapabilities, journal
<1>5. CountInv'
  BY <1>1, <1>2, <1>3, CountKept
<1>6. StepInv'
  BY <1>2, PlanKept, <1>1 DEF StepInv, RequestCapabilities, At, Observed, Config
<1>7. \A b \in Assertions' : series'[b] # "running"
  BY <1>1, <1>2, NoneRuns, PlanKept
<1>8. QED
  BY <1>1, <1>2, <1>3, <1>4, <1>5, <1>6, <1>7, LoopGoesOn

LEMMA StepBeginSeries ==
  ASSUME IInv, NEW a \in Assertions, BeginSeries(a)
  PROVE  IInv'
<1>1. pc = "negotiated" /\ pc' = "invoke" /\ cur = a /\ series[a] = "none"
      /\ UNCHANGED <<plan, epoch, run, delivered, scenario, assertion, evaluation, samples,
                     cur, verdicts, results, told>>
      /\ poll' = NoPoll
      /\ series' = [series EXCEPT ![a] = "running"]
  BY DEF BeginSeries
<1>2. pc \in Working /\ pc' \in Working /\ pc # "next"
  BY <1>1 DEF Working
<1>3. Assertions' = Assertions /\ ScenarioOrder' = ScenarioOrder
  BY <1>1, Zenon DEF Assertions, ScenarioOrder
<1>4. /\ delivered[a[1]] # "ambiguous" /\ Observed(a) /\ assertion[a] = "pending"
  BY <1>1, <1>2, Zenon DEF IInv, LoopInv, StepInv
<1>5. TypeInv'
  BY <1>1, <1>3 DEF IInv, TypeInv
<1>6. series'[a] = "running"
      /\ \A b \in Assertions \ {a} : SameRows(b)
  BY <1>1 DEF IInv, TypeInv, SameRows
<1>7. RowInv(a)'
  <2>1. RowInv(a) /\ samples[a] = <<>>
    BY <1>1, Zenon DEF IInv, RowInv, SampleInv
  <2>2. SampleInv(a)'
    BY <1>1, <1>4, <1>6, <2>1 DEF SampleInv, Observed, Config
  <2>3. assertion'[a] = "pending" /\ evaluation'[a] = evaluation[a] /\ told'[a] = told[a]
        /\ delivered' = delivered
    BY <1>1, <1>4
  <2>4. "pending" \notin AssertionTerminal
    BY DEF AssertionTerminal
  <2>5. QED
    BY <1>4, <2>1, <2>2, <2>3, <2>4, Zenon DEF RowInv
<1>8. /\ Keeps
      /\ (\A b \in Assertions : RowInv(b))' /\ (\A s \in ScenarioOrder : ScenarioInv(s))'
  BY <1>1, <1>4, <1>6, <1>7, OneMoves DEF AssertionTerminal
<1>9. CountInv'
  BY <1>1, <1>2, <1>8, CountKept, SMTT(20)
<1>10. StepInv'
  BY <1>1, <1>3, <1>4, <1>6 DEF StepInv, NoPoll, NoResponse
<1>11. \A b \in Assertions' : series'[b] = "running" => cur' = b
  BY <1>1, <1>3, <1>6, NoneRuns DEF SameRows
<1>12. QED
  BY <1>1, <1>2, <1>5, <1>8, <1>9, <1>10, <1>11, LoopGoesOn

-----------------------------------------------------------------------------
(* Evaluation. *)

LEMMA EvaluationStarts ==
  ASSUME IInv, NEW a \in Assertions, Start(a), delivered[a[1]] # "ambiguous",
         Observed(a) => samples[a] # <<>> /\ series[a] \in ObservationTerminal,
         UNCHANGED told
  PROVE  /\ TypeInv' /\ Keeps /\ assertion'[a] = "running"
         /\ (\A b \in Assertions : RowInv(b))' /\ (\A s \in ScenarioOrder : ScenarioInv(s))'
<1>1. /\ assertion[a] = "pending" /\ assertion' = [assertion EXCEPT ![a] = "running"]
      /\ UNCHANGED <<plan, epoch, run, delivered, scenario, evaluation, series, samples>>
  BY DEF Start
<1>2. Assertions' = Assertions /\ ScenarioOrder' = ScenarioOrder
  BY <1>1, Zenon DEF Assertions, ScenarioOrder
<1>3. TypeInv'
  BY <1>1, <1>2 DEF IInv, TypeInv
<1>4. assertion'[a] = "running" /\ \A b \in Assertions \ {a} : SameRows(b)
  BY <1>1 DEF IInv, TypeInv, SameRows
<1>5. RowInv(a)'
  <2>1. RowInv(a)
    BY DEF IInv
  <2>2. SampleInv(a)'
    BY <1>1, <2>1, Zenon DEF RowInv, SampleInv, Observed, Config
  <2>3. "pending" \notin AssertionTerminal /\ "running" \notin AssertionTerminal
    BY DEF AssertionTerminal
  <2>4. Observed(a)' <=> Observed(a)
    BY <1>1 DEF Observed, Config
  <2>5. evaluation'[a] = evaluation[a] /\ told'[a] = told[a] /\ delivered' = delivered
        /\ samples'[a] = samples[a] /\ series'[a] = series[a]
    BY <1>1
  <2>6. QED
    BY <1>1, <1>4, <2>1, <2>2, <2>3, <2>4, <2>5, Zenon DEF RowInv
<1>6. QED
  BY <1>1, <1>3, <1>4, <1>5, OneMoves DEF AssertionTerminal

\* The process holds the evaluation it is about to persist.
LEMMA EvaluationHeld ==
  ASSUME IInv, NEW a \in Assertions, cur = a, pc \in {"next", "polled"}, pc' = "started",
         delivered[a[1]] # "ambiguous", UNCHANGED <<cur, verdicts, results, told>>,
         Observed(a) => samples[a] # <<>> /\ series[a] \in ObservationTerminal,
         Start(a) \/ (assertion[a] = "running" /\ UNCHANGED journal),
         IsEvaluation(Config(a).kind, outcome'),
         Observed(a) /\ outcome'.result = "pass" => series[a] = "ok"
  PROVE  IInv'
<1>1. UNCHANGED <<plan, epoch, run, delivered, scenario, evaluation, series, samples>>
  BY DEF Start, journal
<1>2. /\ TypeInv' /\ Keeps /\ assertion'[a] = "running"
      /\ (\A b \in Assertions : RowInv(b))' /\ (\A s \in ScenarioOrder : ScenarioInv(s))'
  <2>1. CASE Start(a)
    BY <2>1, EvaluationStarts, ZenonT(30)
  <2>2. CASE assertion[a] = "running" /\ UNCHANGED journal
    <3>1. /\ Keeps
          /\ (\A b \in Assertions : RowInv(b))' /\ (\A s \in ScenarioOrder : ScenarioInv(s))'
      BY <2>2, NoneMoves, Zenon DEF journal
    <3>2. TypeInv'
      BY <2>2, <3>1, PlanKept, ZenonT(30) DEF IInv, TypeInv, journal
    <3>3. QED
      BY <2>2, <3>1, <3>2, ZenonT(30) DEF journal
  <2>3. QED
    BY <2>1, <2>2, Zenon
<1>3. pc \in Working /\ pc' \in Working
  BY SMTT(20) DEF Working
<1>4. CountInv'
  BY <1>1, <1>2, <1>3, CountKept, Zenon
<1>5. Config(a)' = Config(a) /\ (Observed(a)' <=> Observed(a)) /\ Assertions' = Assertions
  BY <1>1, <1>2, PlanKept, Zenon DEF Config, Observed
<1>6. StepInv'
  <2>1. cur' = a /\ delivered' = delivered /\ samples' = samples /\ series' = series
    BY <1>1, Zenon
  <2>2. a \in Assertions' /\ delivered'[cur'[1]] # "ambiguous"
    BY <1>5, <2>1, ZenonT(30)
  <2>3. Config(cur)' = Config(a) /\ (Observed(cur)' <=> Observed(a))
    BY <1>1, <2>1, Zenon DEF Config, Observed
  <2>4. QED
    BY <1>2, <2>1, <2>2, <2>3 DEF StepInv
<1>7. \A b \in Assertions' : series'[b] # "running"
  BY <1>1, <1>5, NoneRuns, SMTT(20)
<1>8. QED
  BY <1>1, <1>2, <1>3, <1>4, <1>6, <1>7, LoopGoesOn, SMTT(20)

LEMMA StepEvaluateTransportSelection ==
  ASSUME IInv, NEW a \in Assertions, EvaluateTransportSelection(a)
  PROVE  IInv'
<1>1. /\ pc = "next" /\ cur = a /\ delivered[a[1]] # "ambiguous" /\ ~Observed(a) /\ Start(a)
      /\ pc' = "started" /\ UNCHANGED <<cur, verdicts, results, told>>
      /\ outcome' = TransportWitness(Config(a))
  BY DEF EvaluateTransportSelection, At
<1>2. IsEvaluation(Config(a).kind, outcome')
  BY <1>1, Configured, TransportEvaluated DEF IInv, TypeInv
<1>3. QED
  BY <1>1, <1>2, EvaluationHeld, SMTT(20)

LEMMA StepStartEvaluation ==
  ASSUME IInv, NEW a \in Assertions, StartEvaluation(a)
  PROVE  IInv'
<1>1. /\ pc = "polled" /\ cur = a /\ Start(a)
      /\ pc' = "started" /\ UNCHANGED <<cur, verdicts, results, told>>
      /\ outcome' \in {Unsupported(Config(a), "preflight"), EvaluateObserved(Config(a), result)}
  BY DEF StartEvaluation
<1>2. pc \in Working \ {"next"}
  BY <1>1 DEF Working
<1>3. /\ Observed(a) /\ delivered[a[1]] # "ambiguous"
      /\ samples[a] # <<>> /\ series[a] \in ObservationTerminal
      /\ result.last.ev = "match" /\ result.outcome # "error" => series[a] = "ok"
  BY <1>1, <1>2, Zenon DEF IInv, LoopInv, StepInv
<1>4. Config(a) \in ObserverAssertions
  BY <1>3, Configured DEF IInv, TypeInv
<1>5. IsEvaluation(Config(a).kind, outcome') /\ (outcome'.result = "pass" => series[a] = "ok")
  BY <1>1, <1>3, <1>4, ObservedEvaluated, PreflightEvaluated, ZenonT(30)
<1>6. QED
  BY <1>1, <1>3, <1>5, EvaluationHeld

LEMMA StepPersistEvaluation ==
  ASSUME IInv, NEW a \in Assertions, PersistEvaluation(a)
  PROVE  IInv'
<1> DEFINE category == ClassifyAssertion(outcome.result, TerminalState(outcome),
                                         ErrorOrigin(Config(a).kind, outcome))
<1>1. /\ pc = "started" /\ cur = a /\ assertion[a] = "running"
      /\ EvidenceReferences(a, outcome) # {}
      /\ \A r \in EvidenceReferences(a, outcome) : RequireEvidenceReference(a, r)
      /\ evaluation' = [evaluation EXCEPT ![a] = outcome]
      /\ assertion' = [assertion EXCEPT ![a] = TerminalState(outcome)]
      /\ told' = [told EXCEPT ![a] = category]
      /\ verdicts' = verdicts \cup {category}
      /\ cur' = <<a[1], a[2] + 1>> /\ pc' = "next"
      /\ UNCHANGED <<plan, epoch, run, delivered, scenario, series, samples, results>>
  BY DEF PersistEvaluation
<1> HIDE DEF category
<1>2. pc \in Working \ {"next"} /\ pc' \in Working
  BY <1>1 DEF Working
<1>3. /\ delivered[a[1]] # "ambiguous" /\ IsEvaluation(Config(a).kind, outcome)
      /\ Observed(a) => samples[a] # <<>> /\ series[a] \in ObservationTerminal
      /\ Observed(a) /\ outcome.result = "pass" => series[a] = "ok"
  BY <1>1, <1>2, Zenon DEF IInv, LoopInv, StepInv
<1>4. Assertions' = Assertions /\ ScenarioOrder' = ScenarioOrder
  BY <1>1, Zenon DEF Assertions, ScenarioOrder
<1>5. /\ TerminalState(outcome) \in {"passed", "failed", "error", "unsupported"}
      /\ outcome # NotEvaluated
  <2>1. ExistingOrigin(outcome.code) \in {"harness_error", "invalid_input", "environment_error"}
    BY DEF ExistingOrigin
  <2>2. QED
    BY <1>3, <2>1, EvaluationClass
<1>6. TypeInv'
  BY <1>1, <1>4, <1>5, Zenon DEF IInv, TypeInv
<1>7. /\ assertion'[a] = TerminalState(outcome) /\ evaluation'[a] = outcome /\ told'[a] = category
      /\ \A b \in Assertions \ {a} : SameRows(b)
  BY <1>1 DEF IInv, TypeInv, SameRows
<1>8. ExistingCategory(a)' = category
  <2>1. ErrorOrigin(Config(a).kind, outcome) = ExistingOrigin(outcome.code)
    BY <1>3 DEF IsEvaluation
  <2>2. ExistingCategory(a)' = ClassifyAssertion(outcome.result, TerminalState(outcome),
                                                 ExistingOrigin(outcome.code))
    BY <1>5, <1>7 DEF ExistingCategory
  <2>3. QED
    BY <2>1, <2>2, ZenonT(30) DEF category
<1>9. RowInv(a)'
  <2>1. RowInv(a)
    BY DEF IInv
  <2>2. SampleInv(a)'
    BY <1>1, <2>1, ZenonT(30) DEF RowInv, SampleInv, Observed, Config
  <2>3. Config(a)' = Config(a) /\ (Observed(a)' <=> Observed(a))
        /\ samples'[a] = samples[a] /\ series'[a] = series[a] /\ delivered' = delivered
    BY <1>1 DEF Config, Observed
  <2>4. EvidenceReferences(a, evaluation[a])' = EvidenceReferences(a, outcome)
    BY <1>7, <2>3, Zenon DEF EvidenceReferences
  <2>5. \A r : RequireEvidenceReference(a, r)' <=> RequireEvidenceReference(a, r)
    BY <2>3 DEF RequireEvidenceReference
  <2>6. (/\ EvidenceReferences(a, evaluation[a]) # {}
         /\ \A r \in EvidenceReferences(a, evaluation[a]) : RequireEvidenceReference(a, r))'
    BY <1>1, <2>4, <2>5, Zenon
  <2>7. assertion'[a] \in AssertionTerminal /\ evaluation'[a] # NotEvaluated'
    BY <1>5, <1>7 DEF AssertionTerminal, NotEvaluated, Evaluated
  <2>8. QED
    BY <1>3, <1>7, <1>8, <2>2, <2>3, <2>6, <2>7, Zenon DEF RowInv
<1>10. /\ Keeps
       /\ (\A b \in Assertions : RowInv(b))' /\ (\A s \in ScenarioOrder : ScenarioInv(s))'
  BY <1>1, <1>7, <1>9, OneMoves DEF AssertionTerminal
<1>11. CountInv'
  <2>1. assertion'[a] \in AssertionTerminal
    BY <1>5, <1>7 DEF AssertionTerminal
  <2>2. QED
    BY <1>1, <1>2, <1>3, <1>8, <1>10, <2>1, CountNext, Zenon
<1>12. StepInv'
  BY <1>1 DEF StepInv
<1>13. \A b \in Assertions' : series'[b] # "running"
  BY <1>1, <1>4, NoneRuns, Zenon
<1>14. QED
  BY <1>1, <1>2, <1>6, <1>10, <1>11, <1>12, <1>13, LoopGoesOn

-----------------------------------------------------------------------------
(* Polling. *)

LEMMA Lengthened ==
  ASSUME NEW S, NEW s \in Seq(S), NEW r \in S
  PROVE  /\ Len(s) \in Nat /\ Len(Append(s, r)) = Len(s) + 1
         /\ DOMAIN Append(s, r) = 1 .. Len(s) + 1 /\ DOMAIN s = 1 .. Len(s)
         /\ Append(s, r)[Len(s) + 1] = r /\ Append(s, r) # <<>>
         /\ \A i \in 1 .. Len(s) : Append(s, r)[i] = s[i]
  BY SMTT(20)

LEMMA SampleAppended ==
  ASSUME IInv, NEW a \in Assertions, pc \in {"invoke", "wait"}, cur = a,
         NEW record \in Records, NEW state \in {"none"} \cup ObservationTerminal,
         AppendSample(a, record, state), UNCHANGED told,
         record.status = "ok" => record.snapshot,
         state = "ok" => record.status = "ok",
         record.ev = "match" => record.status = "ok" /\ state = "ok"
  PROVE  /\ TypeInv' /\ Keeps /\ samples'[a] # <<>>
         /\ series'[a] = IF state = "none" THEN "running" ELSE state
         /\ \A b \in Assertions' : b # a => series'[b] # "running"
         /\ (\A b \in Assertions : RowInv(b))' /\ (\A s \in ScenarioOrder : ScenarioInv(s))'
<1> DEFINE next == IF state = "none" THEN "running" ELSE state
<1>1. /\ series[a] = "running" /\ samples' = [samples EXCEPT ![a] = Append(samples[a], record)]
      /\ series' = [series EXCEPT ![a] = next]
      /\ UNCHANGED <<plan, epoch, run, delivered, scenario, assertion, evaluation>>
  BY DEF AppendSample
<1>2. Assertions' = Assertions /\ ScenarioOrder' = ScenarioOrder
  BY <1>1, Zenon DEF Assertions, ScenarioOrder
<1>3. next \in {"running"} \cup ObservationTerminal
  OBVIOUS
<1>4. samples[a] \in Seq(Records) /\ Append(samples[a], record) \in Seq(Records)
  BY DEF IInv, TypeInv
<1> HIDE DEF next
<1>5. TypeInv'
  BY <1>1, <1>2, <1>3, <1>4 DEF IInv, TypeInv
<1>6. /\ samples'[a] = Append(samples[a], record) /\ series'[a] = next
      /\ \A b \in Assertions \ {a} : SameRows(b)
  BY <1>1 DEF IInv, TypeInv, SameRows
<1>7. pc \in Working \ {"next"}
  BY DEF Working
<1>8. assertion[a] = "pending" /\ delivered[a[1]] # "ambiguous"
  BY <1>7, Zenon DEF IInv, LoopInv, StepInv
<1>9. RowInv(a)'
  <2>1. RowInv(a) /\ SampleInv(a)
    BY Zenon DEF IInv, RowInv
  <2>2. SampleInv(a)'
    <3> DEFINE n == Len(samples[a])
    <3>1. /\ n \in Nat /\ Len(samples'[a]) = n + 1 /\ DOMAIN samples'[a] = 1 .. n + 1
          /\ samples'[a][n + 1] = record /\ \A i \in 1 .. n : samples'[a][i] = samples[a][i]
          /\ DOMAIN samples[a] = 1 .. n /\ samples'[a] # <<>>
      <4>1. samples[a] \in Seq(Records) /\ samples'[a] = Append(samples[a], record)
        BY <1>4, <1>6, Zenon
      <4>2. QED
        BY <4>1, Lengthened
    <3> HIDE DEF n
    <3>2. \A i \in 1 .. n : /\ samples[a][i].ev # "match"
                            /\ samples[a][i].status = "ok" => samples[a][i].snapshot
      BY <1>1, <2>1, <3>1 DEF SampleInv
    <3>3. next = "ok" => state = "ok"
      BY DEF next
    <3>4. state = "ok" => next = "ok"
      BY DEF next
    <3>5. ASSUME NEW i \in DOMAIN samples'[a]
          PROVE  /\ samples'[a][i].status = "ok" => samples'[a][i].snapshot
                 /\ samples'[a][i].ev = "match" =>
                      samples'[a][i].status = "ok" /\ series'[a] = "ok" /\ i = Len(samples'[a])
      <4>1. CASE i \in 1 .. n
        BY <4>1, <3>1, <3>2, SMTT(20)
      <4>2. CASE i = n + 1
        BY <4>2, <3>1, <3>4, <1>6, SMTT(20)
      <4>3. QED
        BY <3>1, <3>5, <4>1, <4>2, SMTT(20)
    <3>6. next # "none" /\ (Observed(a)' <=> Observed(a))
      BY <1>1, <1>3 DEF ObservationTerminal, Observed, Config
    <3>7. Observed(a)
      BY <1>1, <2>1, SMTT(20) DEF SampleInv
    <3>8. series'[a] = "ok" => samples'[a][Len(samples'[a])].status = "ok"
      BY <3>1, <3>3, <1>6
    <3>9. QED
      BY <3>1, <3>5, <3>6, <3>7, <3>8, <1>6, ZenonT(30) DEF SampleInv
  <2>3. assertion'[a] = "pending" /\ evaluation'[a] = evaluation[a] /\ told'[a] = told[a]
        /\ delivered' = delivered
    BY <1>1, <1>8
  <2>4. "pending" \notin AssertionTerminal
    BY DEF AssertionTerminal
  <2>5. QED
    BY <1>8, <2>1, <2>2, <2>3, <2>4, Zenon DEF RowInv
<1>10. /\ Keeps
       /\ (\A b \in Assertions : RowInv(b))' /\ (\A s \in ScenarioOrder : ScenarioInv(s))'
  BY <1>1, <1>6, <1>8, <1>9, OneMoves DEF AssertionTerminal
<1>11. \A b \in Assertions' : b # a => series'[b] # "running"
  <2>1. \A b \in Assertions : b # a => series[b] # "running"
    BY <1>7 DEF IInv, LoopInv, Working
  <2>2. QED
    BY <1>2, <1>6, <2>1, Zenon DEF SameRows
<1>12. samples'[a] # <<>>
  BY <1>4, <1>6
<1>13. QED
  BY <1>5, <1>6, <1>10, <1>11, <1>12 DEF next

\* A poll result with an outcome.
IsResult(r, o) ==
  /\ DOMAIN r = {"outcome", "final", "matched", "valid", "elapsed", "last"}
  /\ r.outcome = o

LEMMA Outcomes ==
  ASSUME NEW o, NEW state
  PROVE  /\ IsResult(Outcome(o, state), o)
         /\ \A x : IsResult([Outcome(o, state) EXCEPT !.elapsed = x], o)
         /\ \A x : IsResult([Outcome(o, state) EXCEPT !.valid = x], o)
         /\ \A x, y : IsResult([Outcome(o, state) EXCEPT !.matched = x, !.valid = y], o)
<1>1. IsResult(Outcome(o, state), o)
  BY DEF Outcome, NoResult, IsResult
<1>2. QED
  BY <1>1 DEF IsResult

\* The poll ends with a sample that closes its series.
LEMMA PollEnds ==
  ASSUME IInv, NEW a \in Assertions, pc = "invoke", cur = a,
         NEW record \in Records, NEW state \in ObservationTerminal,
         AppendSample(a, record, state),
         record.status = "ok" => record.snapshot,
         state = "ok" => record.status = "ok",
         record.ev = "match" => record.status = "ok" /\ state = "ok",
         NEW o, NEW r, IsResult(r, o), NEW last, Return(r, last),
         last.ev = "match" /\ o # "error" => state = "ok"
  PROVE  IInv'
<1>1. /\ pc' = "polled" /\ UNCHANGED <<cur, verdicts, results, told>>
      /\ result' = [r EXCEPT !.valid = r.valid \/ poll.valid, !.last = last]
  BY DEF Return
<1>2. result'.last = last /\ result'.outcome = o
  <2>1. ASSUME NEW x
        PROVE  /\ [r EXCEPT !.valid = x, !.last = last].last = last
               /\ [r EXCEPT !.valid = x, !.last = last].outcome = o
    BY DEF IsResult
  <2>2. QED
    BY <1>1, <2>1, Zenon
<1>3. state # "none" /\ state # "running" /\ state \in {"none"} \cup ObservationTerminal
  BY DEF ObservationTerminal
<1>4. /\ TypeInv' /\ Keeps /\ samples'[a] # <<>> /\ series'[a] = state
      /\ \A b \in Assertions' : b # a => series'[b] # "running"
      /\ (\A b \in Assertions : RowInv(b))' /\ (\A s \in ScenarioOrder : ScenarioInv(s))'
  BY <1>1, <1>3, SampleAppended
<1>5. UNCHANGED <<plan, run, delivered, assertion>>
  BY DEF AppendSample
<1>6. pc \in Working \ {"next"} /\ pc' \in Working
  BY <1>1 DEF Working
<1>7. CountInv'
  BY <1>1, <1>4, <1>5, <1>6, CountKept
<1>8. StepInv'
  <2>1. assertion[a] = "pending" /\ delivered[a[1]] # "ambiguous" /\ series[a] = "running"
    BY <1>6, Zenon DEF IInv, LoopInv, StepInv
  <2>2. Observed(a)
    BY <2>1, Zenon DEF IInv, RowInv, SampleInv
  <2>3. cur' = a /\ assertion'[a] = "pending" /\ delivered'[a[1]] # "ambiguous"
        /\ a \in Assertions'
    BY <1>1, <1>4, <1>5, <2>1, PlanKept, SMTT(20)
  <2>4. Observed(cur)'
    BY <1>5, <2>2, <2>3 DEF Observed, Config
  <2>5. QED
    BY <1>1, <1>2, <1>4, <2>3, <2>4 DEF StepInv
<1>9. \A b \in Assertions' : series'[b] # "running"
  BY <1>3, <1>4, Zenon
<1>10. QED
  BY <1>4, <1>5, <1>6, <1>7, <1>8, <1>9, LoopGoesOn

\* The poller waits for another answer.
LEMMA PollGoesOn ==
  ASSUME IInv, NEW a \in Assertions, pc = "invoke", cur = a,
         NEW record \in Records, AppendSample(a, record, "none"),
         record.status = "ok" => record.snapshot, record.ev # "match",
         NEW last, NEW valid, Continue(last, valid), last.ev # "match"
  PROVE  IInv'
<1>1. /\ pc' = "wait" /\ UNCHANGED <<cur, verdicts, results, told>>
      /\ poll' = [poll EXCEPT !.last = last, !.valid = valid]
  BY DEF Continue
<1>2. /\ TypeInv' /\ Keeps /\ series'[a] = "running"
      /\ \A b \in Assertions' : b # a => series'[b] # "running"
      /\ (\A b \in Assertions : RowInv(b))' /\ (\A s \in ScenarioOrder : ScenarioInv(s))'
  <2>1. "none" \in {"none"} \cup ObservationTerminal /\ "none" # "ok"
    OBVIOUS
  <2>2. QED
    BY <1>1, <2>1, SampleAppended
<1>3. UNCHANGED <<plan, epoch, run, delivered, assertion>>
  BY DEF AppendSample
<1>4. pc \in Working \ {"next"} /\ pc' \in Working
  BY <1>1 DEF Working
<1>5. CountInv'
  BY <1>1, <1>2, <1>3, <1>4, CountKept
<1>6. StepInv'
  <2>1. /\ assertion[a] = "pending" /\ delivered[a[1]] # "ambiguous"
        /\ poll = [last |-> poll.last, valid |-> poll.valid, expired |-> poll.expired]
    BY <1>4, Zenon DEF IInv, LoopInv, StepInv
  <2>2. poll' = [last |-> last, valid |-> valid, expired |-> poll.expired]
    BY <1>1, <2>1, Zenon
  <2>3. /\ poll' = [last |-> poll'.last, valid |-> poll'.valid, expired |-> poll'.expired]
        /\ poll'.last.ev # "match"
    BY <2>2
  <2>4. cur' = a /\ assertion'[a] = "pending" /\ delivered'[a[1]] # "ambiguous"
        /\ a \in Assertions'
    BY <1>1, <1>2, <1>3, <2>1, PlanKept
  <2>5. QED
    BY <1>1, <1>2, <2>3, <2>4, Zenon DEF StepInv
<1>7. \A b \in Assertions' : series'[b] = "running" => cur' = b
  BY <1>1, <1>2
<1>8. QED
  BY <1>1, <1>2, <1>3, <1>4, <1>5, <1>6, <1>7, LoopGoesOn

\* What is known of the poller while it polls.
LEMMA Polling ==
  ASSUME IInv, NEW a \in Assertions, pc \in {"invoke", "wait"}, cur = a
  PROVE  /\ poll = [last |-> poll.last, valid |-> poll.valid, expired |-> poll.expired]
         /\ poll.last.ev # "match"
<1>1. pc \in Working
  BY DEF Working
<1>2. QED
  BY <1>1, Zenon DEF IInv, LoopInv, StepInv

LEMMA PlainRecords ==
  /\ UnsupportedRecord \in Records /\ UnsupportedRecord.status = "unsupported"
  /\ UnsupportedRecord.ev = "none"
  /\ \A c \in {"deadline", "timeout"} :
       /\ TimeoutRecord(c) \in Records /\ TimeoutRecord(c).status = "timeout"
       /\ TimeoutRecord(c).ev = "none"
  /\ \A c \in {"observer", "predicate", "cancelled"} :
       /\ ErrorRecord(c) \in Records /\ ErrorRecord(c).status = "error"
       /\ ErrorRecord(c).ev = "none"
BY DEF UnsupportedRecord, TimeoutRecord, ErrorRecord, Records

LEMMA StepPollUnsupported ==
  ASSUME IInv, NEW a \in Assertions, PollUnsupported(a)
  PROVE  IInv'
<1>1. pc = "invoke" /\ cur = a /\ AppendSample(a, UnsupportedRecord, "unsupported")
      /\ Return(Outcome("unsupported", "unsupported"), NoResponse)
  BY DEF PollUnsupported
<1>2. NoResponse.ev = "none" /\ "unsupported" \in ObservationTerminal
  BY DEF NoResponse, ObservationTerminal
<1>3. IsResult(Outcome("unsupported", "unsupported"), "unsupported")
  BY Outcomes, Zenon
<1>4. QED
  BY <1>1, <1>2, <1>3, PlainRecords, PollEnds

LEMMA StepPollDeadline ==
  ASSUME IInv, NEW a \in Assertions, PollDeadline(a)
  PROVE  IInv'
<1> DEFINE r == [Outcome("timed_out", "timed_out") EXCEPT !.elapsed = TRUE]
<1>1. pc = "invoke" /\ cur = a /\ AppendSample(a, TimeoutRecord("deadline"), "timed_out")
      /\ Return(r, poll.last)
  BY DEF PollDeadline
<1>2. "timed_out" \in ObservationTerminal /\ IsResult(r, "timed_out")
  BY Outcomes, Zenon DEF ObservationTerminal
<1> HIDE DEF r
<1>3. QED
  BY <1>1, <1>2, Polling, PlainRecords, PollEnds

LEMMA StepInvocationTimeout ==
  ASSUME IInv, NEW a \in Assertions, InvocationTimeout(a)
  PROVE  IInv'
<1>1. pc = "invoke" /\ cur = a /\ AppendSample(a, TimeoutRecord("timeout"), "timed_out")
  BY DEF InvocationTimeout, Invoking
<1>2. PICK late \in BOOLEAN :
        Return([Outcome("timed_out", "timed_out") EXCEPT !.elapsed = late], poll.last)
  BY DEF InvocationTimeout
<1> DEFINE r == [Outcome("timed_out", "timed_out") EXCEPT !.elapsed = late]
<1>3. "timed_out" \in ObservationTerminal /\ IsResult(r, "timed_out") /\ Return(r, poll.last)
  BY <1>2, Outcomes, Zenon DEF ObservationTerminal
<1> HIDE DEF r
<1>4. QED
  BY <1>1, <1>3, Polling, PlainRecords, PollEnds

LEMMA StepInvocationError ==
  ASSUME IInv, NEW a \in Assertions, InvocationError(a)
  PROVE  IInv'
<1>1. pc = "invoke" /\ cur = a
  BY DEF InvocationError, Invoking
<1>2. CASE AppendSample(a, ErrorRecord("observer"), "none") /\ Continue(poll.last, poll.valid)
  BY <1>1, <1>2, Polling, PlainRecords, PollGoesOn
<1>3. CASE AppendSample(a, ErrorRecord("observer"), "error")
           /\ Return(Outcome("error", "error"), poll.last)
  <2>1. "error" \in ObservationTerminal /\ IsResult(Outcome("error", "error"), "error")
    BY Outcomes, Zenon DEF ObservationTerminal
  <2>2. QED
    BY <1>1, <1>3, <2>1, Polling, PlainRecords, PollEnds
<1>4. QED
  BY <1>2, <1>3 DEF InvocationError

LEMMA StepCapabilitiesChanged ==
  ASSUME IInv, NEW a \in Assertions, CapabilitiesChanged(a)
  PROVE  IInv'
<1>1. pc = "invoke" /\ cur = a /\ AppendSample(a, ErrorRecord("observer"), "error")
      /\ Return(Outcome("error", "error"), poll.last)
  BY DEF CapabilitiesChanged, Invoking
<1>2. "error" \in ObservationTerminal /\ IsResult(Outcome("error", "error"), "error")
  BY Outcomes, Zenon DEF ObservationTerminal
<1>3. QED
  BY <1>1, <1>2, Polling, PlainRecords, PollEnds

\* The sample of an accepted answer.
LEMMA AnswerRecord ==
  ASSUME NEW a, NEW x \in Accepted(a)
  PROVE  /\ RecordOf(x) \in Records /\ RecordOf(x).status = x.status
         /\ x.status = "ok" => RecordOf(x).snapshot
         /\ RecordOf(x).ev = "match" => x.ev = "match"
         /\ x.status # "ok" => x.ev = "none"
         /\ ResponseOf(x).ev = x.ev
<1>1. /\ x.status \in {"ok", "pending", "unsupported", "error"} /\ x.ev \in Evidence \cup {"none"}
      /\ x.status # "ok" => x.ev = "none"
      /\ x.coherent \in BOOLEAN
  BY Zenon DEF Accepted, Answers
<1>2. x.coherent
  BY DEF Accepted, ValidForRequest, CoherentShape
<1>3. RecordOf(x) = [status |-> x.status, category |-> "observer",
                     snapshot |-> x.coherent /\ x.status = "ok",
                     ev |-> IF x.sensitive THEN "none" ELSE x.ev]
  BY DEF RecordOf
<1>4. RecordOf(x) \in Records
  BY <1>1, <1>3 DEF Records
<1>5. RecordOf(x).status = x.status /\ (x.status = "ok" => RecordOf(x).snapshot)
      /\ (RecordOf(x).ev = "match" => x.ev = "match")
  <2>1. RecordOf(x).status = x.status
    BY DEF RecordOf
  <2>2. RecordOf(x).ev = IF x.sensitive THEN "none" ELSE x.ev
    BY DEF RecordOf
  <2>3. x.status = "ok" => RecordOf(x).snapshot
    BY <1>2, Zenon DEF RecordOf
  <2>4. QED
    BY <2>1, <2>2, <2>3
<1>6. QED
  BY <1>1, <1>4, <1>5 DEF ResponseOf

LEMMA MatchPasses ==
  ASSUME NEW config, NEW ev
  PROVE  ev = "match" => PollPredicate(config, ev) = "pass"
BY DEF PollPredicate, EvaluatePredicate, EvaluateState, Evaluated

LEMMA StepAnswerOk ==
  ASSUME IInv, NEW a \in Assertions, pc = "invoke", cur = a, NEW x \in Accepted(a), AnswerOk(a, x)
  PROVE  IInv'
<1> DEFINE p == PollPredicate(Config(a), x.ev)
           r == ResponseOf(x)
           failure == [Outcome("error", "error") EXCEPT !.valid = TRUE]
           match == [Outcome("matched", "ok") EXCEPT !.matched = TRUE, !.valid = TRUE]
           mismatch == [Outcome("mismatch", "ok") EXCEPT !.valid = TRUE]
<1>1. /\ x.status = "ok"
      /\ \/ /\ p = "error"
            /\ AppendSample(a, ErrorRecord("predicate"), "error") /\ Return(failure, r)
         \/ /\ p = "pass"
            /\ AppendSample(a, RecordOf(x), "ok") /\ Return(match, r)
         \/ /\ p = "fail"
            /\ AppendSample(a, RecordOf(x), "ok") /\ Return(mismatch, r)
         \/ /\ p = "fail"
            /\ AppendSample(a, RecordOf(x), "none") /\ Continue(r, TRUE)
  BY Zenon DEF AnswerOk
<1>2. /\ IsResult(failure, "error") /\ IsResult(match, "matched") /\ IsResult(mismatch, "mismatch")
      /\ "ok" \in ObservationTerminal /\ "error" \in ObservationTerminal
  BY Outcomes, Zenon DEF ObservationTerminal
<1>3. x.ev = "match" => p = "pass"
  BY MatchPasses
<1>4. /\ RecordOf(x) \in Records /\ RecordOf(x).status = "ok" /\ RecordOf(x).snapshot
      /\ RecordOf(x).ev = "match" => x.ev = "match"
      /\ r.ev = x.ev
  BY <1>1, AnswerRecord
<1> HIDE DEF p, r, failure, match, mismatch
<1>5. CASE AppendSample(a, ErrorRecord("predicate"), "error") /\ Return(failure, r)
  BY <1>2, <1>5, PlainRecords, PollEnds, SMTT(20)
<1>6. CASE AppendSample(a, RecordOf(x), "ok") /\ Return(match, r)
  BY <1>2, <1>4, <1>6, PollEnds, SMTT(20)
<1>7. CASE AppendSample(a, RecordOf(x), "ok") /\ Return(mismatch, r)
  BY <1>2, <1>4, <1>7, PollEnds
<1>8. CASE p = "fail" /\ AppendSample(a, RecordOf(x), "none") /\ Continue(r, TRUE)
  <2>1. x.ev # "match" /\ RecordOf(x).ev # "match" /\ r.ev # "match"
    BY <1>3, <1>4, <1>8
  <2>2. QED
    BY <1>4, <1>8, <2>1, PollGoesOn, Zenon
<1>9. QED
  BY <1>1, <1>5, <1>6, <1>7, <1>8, Zenon

\* An answer without evidence.
LEMMA StepAnswerOther ==
  ASSUME IInv, NEW a \in Assertions, pc = "invoke", cur = a, NEW x \in Accepted(a),
         x.status # "ok", NEW state \in ObservationTerminal \ {"ok"},
         \/ AppendSample(a, RecordOf(x), "none") /\ Continue(ResponseOf(x), poll.valid)
         \/ AppendSample(a, RecordOf(x), state) /\ Return(Outcome(state, state), ResponseOf(x))
  PROVE  IInv'
<1>1. /\ RecordOf(x) \in Records /\ RecordOf(x).status # "ok"
      /\ RecordOf(x).ev # "match" /\ ResponseOf(x).ev # "match"
  BY AnswerRecord
<1>2. CASE AppendSample(a, RecordOf(x), "none") /\ Continue(ResponseOf(x), poll.valid)
  BY <1>1, <1>2, PollGoesOn
<1>3. CASE AppendSample(a, RecordOf(x), state) /\ Return(Outcome(state, state), ResponseOf(x))
  <2>1. IsResult(Outcome(state, state), state)
    BY Outcomes, Zenon
  <2>2. QED
    BY <1>1, <1>3, <2>1, PollEnds
<1>4. QED
  BY <1>2, <1>3

LEMMA StepPollAnswer ==
  ASSUME IInv, NEW a \in Assertions, PollAnswer(a)
  PROVE  IInv'
<1>1. pc = "invoke" /\ cur = a
  BY DEF PollAnswer, Invoking
<1>2. PICK x \in Accepted(a) :
        AnswerOk(a, x) \/ AnswerPending(a, x) \/ AnswerUnsupported(a, x) \/ AnswerError(a, x)
  BY DEF PollAnswer
<1>3. {"pending", "unsupported", "error"} \subseteq ObservationTerminal \ {"ok"}
  BY DEF ObservationTerminal
<1>4. CASE AnswerOk(a, x)
  BY <1>1, <1>4, StepAnswerOk
<1>5. CASE AnswerPending(a, x)
  <2>1. /\ x.status # "ok" /\ "pending" \in ObservationTerminal \ {"ok"}
        /\ \/ AppendSample(a, RecordOf(x), "none") /\ Continue(ResponseOf(x), poll.valid)
           \/ /\ AppendSample(a, RecordOf(x), "pending")
              /\ Return(Outcome("pending", "pending"), ResponseOf(x))
    BY <1>3, <1>5 DEF AnswerPending
  <2>2. QED
    BY <1>1, <2>1, StepAnswerOther
<1>6. CASE AnswerUnsupported(a, x)
  <2>1. /\ x.status # "ok" /\ "unsupported" \in ObservationTerminal \ {"ok"}
        /\ AppendSample(a, RecordOf(x), "unsupported")
        /\ Return(Outcome("unsupported", "unsupported"), ResponseOf(x))
    BY <1>3, <1>6 DEF AnswerUnsupported
  <2>2. QED
    BY <1>1, <2>1, StepAnswerOther
<1>7. CASE AnswerError(a, x)
  <2>1. /\ x.status # "ok" /\ "error" \in ObservationTerminal \ {"ok"}
        /\ \/ AppendSample(a, RecordOf(x), "none") /\ Continue(ResponseOf(x), poll.valid)
           \/ /\ AppendSample(a, RecordOf(x), "error")
              /\ Return(Outcome("error", "error"), ResponseOf(x))
    BY <1>3, <1>7 DEF AnswerError
  <2>2. QED
    BY <1>1, <2>1, StepAnswerOther
<1>8. QED
  BY <1>2, <1>4, <1>5, <1>6, <1>7

LEMMA StepNextRequest ==
  ASSUME IInv, NEW a \in Assertions, NextRequest(a)
  PROVE  IInv'
<1>1. /\ pc = "wait" /\ cur = a /\ pc' = "invoke" /\ UNCHANGED journal
      /\ UNCHANGED <<cur, verdicts, results, told>>
  BY DEF NextRequest
<1>2. PICK expired \in BOOLEAN : poll' = [poll EXCEPT !.expired = expired]
  BY DEF NextRequest
<1>3. /\ Keeps
      /\ (\A b \in Assertions : RowInv(b))' /\ (\A s \in ScenarioOrder : ScenarioInv(s))'
  BY <1>1, NoneMoves DEF journal
<1>4. /\ plan' = plan /\ epoch' = epoch /\ run' = run /\ delivered' = delivered
      /\ assertion' = assertion /\ series' = series
  BY <1>1 DEF journal
<1>5. TypeInv'
  BY <1>1, <1>3, PlanKept, Zenon DEF IInv, TypeInv, journal
<1>6. pc \in Working \ {"next"} /\ pc' \in Working
  BY <1>1 DEF Working
<1>7. CountInv'
  BY <1>1, <1>3, <1>4, <1>6, CountKept
<1>8. StepInv'
  <2>1. /\ series[a] = "running" /\ assertion[a] = "pending"
        /\ delivered[a[1]] # "ambiguous"
    BY <1>1, <1>6, Zenon DEF IInv, LoopInv, StepInv
  <2>2. poll' = [last |-> poll.last, valid |-> poll.valid, expired |-> expired]
    BY <1>1, <1>2, Polling
  <2>3. /\ poll' = [last |-> poll'.last, valid |-> poll'.valid, expired |-> poll'.expired]
        /\ poll'.last.ev # "match"
    BY <1>1, <2>2, Polling
  <2>4. a \in Assertions'
    BY <1>3, PlanKept
  <2>5. QED
    BY <1>1, <1>4, <2>1, <2>3, <2>4 DEF StepInv
<1>9. \A b \in Assertions' : series'[b] = "running" => cur' = b
  <2>1. \A b \in Assertions : series[b] = "running" => cur = b
    BY <1>1 DEF IInv, LoopInv
  <2>2. QED
    BY <1>1, <1>3, <1>4, <2>1, PlanKept, SMTT(20)
<1>10. QED
  BY <1>1, <1>3, <1>4, <1>5, <1>6, <1>7, <1>8, <1>9, LoopGoesOn
=============================================================================
