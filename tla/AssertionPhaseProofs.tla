------------------------ MODULE AssertionPhaseProofs ------------------------
(***************************************************************************)
(* The second half of a run for any plan, any number of processes and any  *)
(* number of polls: an evaluation rests on the evidence it refers to, an   *)
(* ended scenario is the reduction of its evaluations, a run ends with its *)
(* scenarios, and a resume is refused for few causes.  All follow from the *)
(* invariant of AssertionRowProofs, which the remaining steps, those of    *)
(* the scenario, the run, a crash and a resume, keep as well.              *)
(***************************************************************************)
EXTENDS AssertionRowProofs

-----------------------------------------------------------------------------
(* Reduction. *)

\* The category of an assertion that has ended.
LEMMA AssertionCategoryRange ==
  ASSUME IInv, NEW a \in Assertions, assertion[a] \in AssertionTerminal
  PROVE  /\ ExistingCategory(a) \in {"pass", "receiver_failure", "unsupported", "harness_error",
                                     "invalid_input", "environment_error"}
         /\ ExistingCategory(a) = "pass" <=> assertion[a] = "passed"
<1>1. /\ IsEvaluation(Config(a).kind, evaluation[a])
      /\ assertion[a] = TerminalState(evaluation[a])
  BY Zenon DEF IInv, RowInv
<1>2. ExistingOrigin(evaluation[a].code) \in
        {"harness_error", "invalid_input", "environment_error"}
  BY DEF ExistingOrigin
<1> DEFINE e == evaluation[a]
           o == ExistingOrigin(e.code)
           c == ClassifyAssertion(e.result, TerminalState(e), o)
<1>3. /\ TerminalState(e) \in {"passed", "failed", "error", "unsupported"}
      /\ TerminalState(e) = "passed" <=> e.result = "pass"
      /\ c \in {"pass", "receiver_failure", "unsupported", o}
      /\ c = "pass" <=> e.result = "pass"
  BY <1>1, <1>2, EvaluationClass
<1>4. ExistingCategory(a) = c
  BY <1>1, <1>3 DEF ExistingCategory
<1>5. o \in {"harness_error", "invalid_input", "environment_error"}
  BY <1>2
<1> HIDE DEF c, o
<1>6. QED
  BY <1>1, <1>3, <1>4, <1>5

LEMMA AllCategories ==
  Categories = {"harness_error", "invalid_input", "ambiguous", "environment_error",
                "unsupported", "receiver_failure", "cancelled", "pass"}
<1>1. /\ DOMAIN Precedence = 1 .. 8
      /\ Precedence[1] = "harness_error" /\ Precedence[2] = "invalid_input"
      /\ Precedence[3] = "ambiguous" /\ Precedence[4] = "environment_error"
      /\ Precedence[5] = "unsupported" /\ Precedence[6] = "receiver_failure"
      /\ Precedence[7] = "cancelled" /\ Precedence[8] = "pass"
  BY DEF Precedence
<1>2. \A i : i \in 1 .. 8 <=> i \in {1, 2, 3, 4, 5, 6, 7, 8}
  OBVIOUS
<1>3. ASSUME NEW c \in Categories
      PROVE  c \in {"harness_error", "invalid_input", "ambiguous", "environment_error",
                    "unsupported", "receiver_failure", "cancelled", "pass"}
  <2>1. PICK i \in {1, 2, 3, 4, 5, 6, 7, 8} : c = Precedence[i]
    BY <1>1, <1>2, ZenonT(30) DEF Categories
  <2>2. QED
    BY <1>1, <2>1
<1>4. \A i \in {1, 2, 3, 4, 5, 6, 7, 8} : Precedence[i] \in Categories
  BY <1>1, <1>2, Zenon DEF Categories
<1>5. QED
  BY <1>1, <1>3, <1>4

\* The categories a scenario without ambiguous delivery is reduced from.
LEMMA ScenarioCategoryRange ==
  ASSUME IInv, NEW s \in ScenarioOrder, delivered[s] # "ambiguous",
         \A a \in Mine(s) : assertion[a] \in AssertionTerminal
  PROVE  LET S == {delivered[s]} \cup {ExistingCategory(a) : a \in Mine(s)}
         IN  /\ S \subseteq Categories \ {"ambiguous"} /\ S # {}
             /\ CategoryOf(s) = Reduce(S) /\ CategoryOf(s) \in S
<1> DEFINE S == {delivered[s]} \cup {ExistingCategory(a) : a \in Mine(s)}
<1>1. delivered[s] \in Categories \ {"ambiguous"}
  <2>1. delivered[s] \in DeliveryCategories
    BY PlanShape DEF IInv, TypeInv, ScenarioOrder
  <2>2. QED
    BY <2>1, AllCategories DEF DeliveryCategories
<1>2. \A a \in Mine(s) : ExistingCategory(a) \in Categories \ {"ambiguous"}
  BY AssertionCategoryRange, AllCategories DEF Mine
<1>3. S \subseteq Categories \ {"ambiguous"} /\ S # {}
  BY <1>1, <1>2, Zenon
<1>4. CategoryOf(s) = Reduce(S)
  BY Zenon DEF CategoryOf
<1> HIDE DEF S
<1>5. S \subseteq Categories
  BY <1>3, Zenon
<1>6. CategoryOf(s) \in S
  BY <1>3, <1>4, <1>5, Reduced
<1>7. QED
  BY <1>3, <1>4, <1>6, Zenon DEF S

\* What the run is reduced from once every scenario is settled.
LEMMA ResultsRange ==
  ASSUME IInv, results = {CategoryOf(s) : s \in ScenarioOrder},
         \A s \in ScenarioOrder : delivered[s] # "ambiguous" => scenario[s] # "running"
  PROVE  /\ results \subseteq Categories /\ results # {} /\ Reduce(results) \in results
         /\ "ambiguous" \in results <=> \E s \in ScenarioOrder : delivered[s] = "ambiguous"
<1>1. ASSUME NEW s \in ScenarioOrder
      PROVE  CategoryOf(s) \in Categories /\ (CategoryOf(s) = "ambiguous" <=> delivered[s] = "ambiguous")
  <2>1. CASE delivered[s] = "ambiguous"
    BY <2>1, AllCategories DEF CategoryOf
  <2>2. CASE delivered[s] # "ambiguous"
    <3>1. \A a \in Mine(s) : assertion[a] \in AssertionTerminal
      BY <2>2, Zenon DEF IInv, ScenarioInv
    <3>2. CategoryOf(s) \in Categories \ {"ambiguous"}
      BY <2>2, <3>1, ScenarioCategoryRange, Zenon
    <3>3. QED
      BY <2>2, <3>2
  <2>3. QED
    BY <2>1, <2>2
<1>2. results \subseteq Categories
  BY <1>1, Zenon
<1>3. results # {}
  <2>1. 1 \in ScenarioOrder
    BY PlanShape DEF IInv, TypeInv, ScenarioOrder
  <2>2. QED
    BY <2>1, Zenon
<1>4. Reduce(results) \in results
  BY <1>2, <1>3, Reduced, Zenon
<1>5. "ambiguous" \in results <=> \E s \in ScenarioOrder : delivered[s] = "ambiguous"
  BY <1>1, Zenon
<1>6. QED
  BY <1>2, <1>3, <1>4, <1>5, Zenon

LEMMA EndedStates ==
  ASSUME NEW c
  PROVE  ScenarioStateFor(c) \in ScenarioTerminal /\ ScenarioStateFor(c) # "running"
BY DEF ScenarioStateFor, ScenarioTerminal

LEMMA StepFinishScenario ==
  ASSUME IInv, FinishScenario
  PROVE  IInv'
<1>1. PICK n \in ScenarioOrder : n = cur[1]
  BY Zenon DEF FinishScenario
<1> DEFINE category == Reduce({delivered[n]} \cup verdicts)
<1>2. /\ pc = "next" /\ cur[2] = Len(plan[n]) + 1
      /\ \/ /\ scenario[n] = "running"
            /\ scenario' = [scenario EXCEPT ![n] = ScenarioStateFor(category)]
         \/ /\ scenario[n] = ScenarioStateFor(category)
            /\ scenario' = scenario
      /\ results' = results \cup {category} /\ verdicts' = {} /\ cur' = <<n + 1, 1>>
      /\ UNCHANGED <<plan, epoch, run, delivered, assertion, evaluation, series, samples,
                     pc, told>>
  BY <1>1, Zenon DEF FinishScenario
<1>3. pc \in Working /\ pc' \in Working /\ pc' = "next"
  BY <1>2 DEF Working
<1>4. CountInv
  BY <1>3 DEF IInv, LoopInv
<1>5. Len(plan[n]) \in Nat \ {0}
  BY PlanShape DEF IInv, TypeInv
<1>6. delivered[n] # "ambiguous"
  BY <1>1, <1>2, <1>4, <1>5 DEF CountInv
<1>7. Passed = Mine(n)
  <2>1. ASSUME NEW b \in Assertions, b[1] = n PROVE b[2] < cur[2]
    BY <1>2, <1>5, <2>1, Configured DEF IInv, TypeInv
  <2>2. QED
    BY <1>1, <2>1, Zenon DEF Passed, Mine
<1>8. category = CategoryOf(n) /\ \A a \in Mine(n) : assertion[a] \in AssertionTerminal
  <2>1. verdicts = {ExistingCategory(a) : a \in Mine(n)}
    BY <1>4, <1>7, Zenon DEF CountInv
  <2>2. category = CategoryOf(n)
    BY <1>6, <2>1, Zenon DEF CategoryOf
  <2>3. QED
    BY <1>4, <1>7, <2>2, Zenon DEF CountInv
<1> HIDE DEF category
<1>9. Assertions' = Assertions /\ ScenarioOrder' = ScenarioOrder
  BY <1>2, Zenon DEF Assertions, ScenarioOrder
<1>10. TypeInv'
  BY <1>2, <1>9, EndedStates, ZenonT(30) DEF IInv, TypeInv
<1>11. /\ scenario'[n] = ScenarioStateFor(category)
       /\ scenario[n] # "running" => scenario'[n] = scenario[n]
       /\ \A s \in ScenarioOrder \ {n} : scenario'[s] = scenario[s]
  BY <1>2 DEF IInv, TypeInv
<1>12. \A b \in Assertions : RowInv(b)' /\ ExistingCategory(b)' = ExistingCategory(b)
  <2>1. \A b \in Assertions : SameRows(b)
    BY <1>2, Zenon DEF SameRows
  <2>2. QED
    BY <1>2, <2>1, RowKept DEF IInv
<1>13. Keeps
  BY <1>2, <1>11, <1>12, Zenon DEF Keeps
<1>14. CategoryOf(n)' = category
  BY <1>6, <1>8, <1>13, CategoryKept
<1>15. ScenarioInv(n)'
  <2>1. Mine(n)' = Mine(n)
    BY <1>9, Zenon DEF Mine
  <2>2. QED
    BY <1>2, <1>6, <1>8, <1>11, <1>14, <2>1, ZenonT(30) DEF ScenarioInv
<1>16. \A s \in ScenarioOrder \ {n} : ScenarioInv(s)'
  BY <1>2, <1>11, <1>13, ScenarioKept DEF IInv
<1>17. CountInv'
  <2>1. scenario'[n] # "running"
    BY <1>11, EndedStates
  <2>2. QED
    BY <1>1, <1>2, <1>3, <1>13, <1>14, <2>1, CountScenario, SMTT(20)
<1>18. StepInv'
  BY <1>3 DEF StepInv
<1>19. \A b \in Assertions' : series'[b] # "running"
  BY <1>2, <1>9, NoneRuns
<1>20. (\A b \in Assertions : RowInv(b))' /\ (\A s \in ScenarioOrder : ScenarioInv(s))'
  BY <1>9, <1>12, <1>15, <1>16, Zenon
<1>21. QED
  BY <1>2, <1>3, <1>10, <1>17, <1>18, <1>19, <1>20, LoopGoesOn

-----------------------------------------------------------------------------
(* The end of a process, and the next one. *)

LEMMA StepFinishRun ==
  ASSUME IInv, FinishRun
  PROVE  IInv'
<1>1. /\ pc = "next" /\ cur[1] = Len(plan) + 1 /\ run' = RunStateFor(Reduce(results))
      /\ pc' = "stopped"
      /\ UNCHANGED <<plan, epoch, delivered, scenario, assertion, evaluation, series, samples,
                     results, told>>
  BY DEF FinishRun
<1>2. /\ Keeps
      /\ (\A b \in Assertions : RowInv(b))' /\ (\A s \in ScenarioOrder : ScenarioInv(s))'
  BY <1>1, NoneMoves
<1>3. CountInv
  BY <1>1 DEF IInv, LoopInv, Working
<1>4. 1 .. cur[1] - 1 = ScenarioOrder
  BY <1>1, PlanShape DEF ScenarioOrder, IInv, TypeInv
<1>5. /\ results = {CategoryOf(s) : s \in ScenarioOrder}
      /\ \A s \in ScenarioOrder : delivered[s] # "ambiguous" => scenario[s] # "running"
  BY <1>3, <1>4, Zenon DEF CountInv
<1>6. /\ Reduce(results) \in Categories
      /\ Reduce(results) = "ambiguous" => \E s \in ScenarioOrder : delivered[s] = "ambiguous"
  BY <1>5, ResultsRange
<1>7. /\ run' \in {"completed", "paused", "cancelled", "failed"}
      /\ run' = "paused" => Reduce(results) = "ambiguous"
  BY <1>1, <1>6, AllCategories DEF RunStateFor
<1>8. TypeInv'
  <2>1. run' \in {"running", "paused", "completed", "cancelled", "failed"}
    BY <1>7
  <2>2. QED
    BY <1>1, <1>2, <2>1, PlanKept, Zenon DEF IInv, TypeInv
<1>9. LoopInv'
  BY <1>1 DEF LoopInv, Working
<1>10. RunInv'
  <2>1. ScenarioOrder' = ScenarioOrder
    BY <1>2, PlanKept
  <2>2. ASSUME NEW s \in ScenarioOrder PROVE CategoryOf(s)' = CategoryOf(s)
    <3>1. delivered[s] # "ambiguous" => \A a \in Mine(s) : assertion[a] \in AssertionTerminal
      BY <1>5, Zenon DEF IInv, ScenarioInv
    <3>2. QED
      BY <1>1, <1>2, <3>1, CategoryKept
  <2>3. results' = {CategoryOf(s) : s \in ScenarioOrder}'
    BY <1>1, <1>5, <2>1, <2>2, Zenon
  <2>4. QED
    BY <1>1, <1>5, <1>6, <1>7, <2>1, <2>3, Zenon DEF RunInv
<1>11. QED
  BY <1>2, <1>8, <1>9, <1>10, Zenon DEF IInv

\* The process ends with the journal as it is.
LEMMA StepCrash ==
  ASSUME IInv, Crash \/ RefuseResume
  PROVE  IInv'
<1>1. pc # "stopped" /\ pc' = "stopped" /\ UNCHANGED <<journal, told>>
  BY DEF Crash, RefuseResume
<1>2. /\ Keeps
      /\ (\A b \in Assertions : RowInv(b))' /\ (\A s \in ScenarioOrder : ScenarioInv(s))'
  BY <1>1, NoneMoves DEF journal
<1>3. TypeInv'
  BY <1>1, <1>2, PlanKept, Zenon DEF IInv, TypeInv, journal
<1>4. LoopInv'
  BY <1>1 DEF LoopInv, Working
<1>5. RunInv'
  <2>1. run' = run /\ delivered' = delivered /\ ScenarioOrder' = ScenarioOrder
    BY <1>1, <1>2, PlanKept DEF journal
  <2>2. run \notin RunTerminal
    BY <1>1 DEF IInv, RunInv
  <2>3. QED
    BY <2>1, <2>2, Zenon DEF IInv, RunInv
<1>6. QED
  BY <1>2, <1>3, <1>4, <1>5, Zenon DEF IInv

LEMMA StepCancelPoll ==
  ASSUME IInv, NEW a \in Assertions, CancelPoll(a)
  PROVE  IInv'
<1>1. /\ pc \in {"invoke", "wait"} /\ cur = a /\ pc' = "stopped"
      /\ AppendSample(a, ErrorRecord("cancelled"), "cancelled") /\ UNCHANGED told
  BY DEF CancelPoll
<1>2. "cancelled" \in {"none"} \cup ObservationTerminal
  BY DEF ObservationTerminal
<1>3. /\ TypeInv' /\ (\A b \in Assertions : RowInv(b))'
      /\ (\A s \in ScenarioOrder : ScenarioInv(s))'
  BY <1>1, <1>2, PlainRecords, SampleAppended
<1>4. run' = "running"
  <2>1. run = "running"
    BY <1>1 DEF IInv, LoopInv, Working
  <2>2. QED
    BY <1>1, <2>1 DEF AppendSample
<1>5. RunInv'
  BY <1>4 DEF RunInv, RunTerminal
<1>6. LoopInv'
  BY <1>1, Zenon DEF LoopInv, Working
<1>7. QED
  BY <1>3, <1>5, <1>6, Zenon DEF IInv

LEMMA StepResume ==
  ASSUME IInv, Resume
  PROVE  IInv'
<1>1. /\ pc = "stopped" /\ run \in {"running", "paused"} /\ epoch' = epoch + 1
      /\ series' = RecoverSeries /\ pc' = "validating"
      /\ cur' = <<1, 1>> /\ verdicts' = {} /\ results' = {}
      /\ UNCHANGED <<plan, run, delivered, scenario, assertion, evaluation, samples, told>>
  BY DEF Resume, Forget
<1>2. Assertions' = Assertions /\ ScenarioOrder' = ScenarioOrder
  BY <1>1, Zenon DEF Assertions, ScenarioOrder
<1>3. ASSUME NEW b \in Assertions
      PROVE  /\ series[b] = "running" => series'[b] = "error"
             /\ series[b] # "running" => series'[b] = series[b]
             /\ series'[b] \in {"none"} \cup ObservationTerminal
  BY <1>1 DEF RecoverSeries, IInv, TypeInv, ObservationTerminal
<1>4. TypeInv'
  <2>1. series' \in [Assertions -> {"none", "running"} \cup ObservationTerminal]
    <3>1. series' = [b \in Assertions |-> series'[b]]
      BY <1>1 DEF RecoverSeries
    <3>2. QED
      BY <1>3, <3>1
  <2>2. epoch' \in Nat
    BY <1>1 DEF IInv, TypeInv
  <2>3. QED
    BY <1>1, <1>2, <2>1, <2>2, Zenon DEF IInv, TypeInv
<1>5. ASSUME NEW b \in Assertions
      PROVE  RowInv(b)' /\ ExistingCategory(b)' = ExistingCategory(b)
  <2>1. RowInv(b)
    BY <1>5 DEF IInv
  <2>2. ExistingCategory(b)' = ExistingCategory(b)
    BY <1>1, Zenon DEF ExistingCategory
  <2>3. CASE series[b] # "running"
    <3>1. SameRows(b)
      BY <1>1, <1>3, <1>5, <2>3, Zenon DEF SameRows
    <3>2. QED
      BY <1>1, <2>1, <3>1, RowKept, Zenon
  <2>4. CASE series[b] = "running"
    <3>1. series'[b] = "error" /\ "running" \notin ObservationTerminal
      BY <1>3, <1>5, <2>4 DEF ObservationTerminal
    <3>2. Config(b)' = Config(b) /\ (Observed(b)' <=> Observed(b))
      BY <1>1, Zenon DEF Config, Observed
    <3>3. SampleInv(b)'
      BY <1>1, <2>1, <2>4, <3>1, <3>2, Zenon DEF RowInv, SampleInv
    <3>4. EvidenceReferences(b, evaluation[b])' = EvidenceReferences(b, evaluation[b])
      BY <1>1, <3>2, Zenon DEF EvidenceReferences
    <3>5. \A r \in EvidenceReferences(b, evaluation[b]) :
            RequireEvidenceReference(b, r) => RequireEvidenceReference(b, r)'
      <4>1. \A r \in EvidenceReferences(b, evaluation[b]) : r[1] \in {"attempt", "observation"}
        BY DEF EvidenceReferences
      <4>2. ASSUME NEW r, r[1] \in {"attempt", "observation"}
            PROVE  RequireEvidenceReference(b, r) => RequireEvidenceReference(b, r)'
        BY <1>1, <3>1, <3>2, <4>2, Zenon DEF RequireEvidenceReference
      <4>3. QED
        BY <4>1, <4>2
    <3>6. assertion[b] \in AssertionTerminal =>
            (/\ EvidenceReferences(b, evaluation[b]) # {}
             /\ \A r \in EvidenceReferences(b, evaluation[b]) : RequireEvidenceReference(b, r))'
      BY <2>1, <3>4, <3>5, Zenon DEF RowInv
    <3>7. Observed(b) => assertion[b] = "pending"
      BY <2>1, <2>4, <3>1, Zenon DEF RowInv
    <3>8. "pending" \notin AssertionTerminal
      BY DEF AssertionTerminal
    <3>9. assertion'[b] = assertion[b] /\ evaluation'[b] = evaluation[b] /\ told'[b] = told[b]
          /\ delivered' = delivered
      BY <1>1
    <3>10. QED
      BY <2>1, <2>2, <3>2, <3>3, <3>6, <3>7, <3>8, <3>9, Zenon DEF RowInv
  <2>5. QED
    BY <2>2, <2>3, <2>4
<1>6. Keeps
  BY <1>1, <1>5, Zenon DEF Keeps
<1>7. \A s \in ScenarioOrder : ScenarioInv(s)'
  BY <1>1, <1>6, ScenarioKept DEF IInv
<1>8. RunInv'
  BY <1>1, <1>2 DEF IInv, RunInv, RunTerminal
<1>9. LoopInv'
  BY <1>1, <1>2, <1>3 DEF LoopInv, Working, ObservationTerminal
<1>10. QED
  BY <1>2, <1>4, <1>5, <1>7, <1>8, <1>9, Zenon DEF IInv

LEMMA StepValidateResume ==
  ASSUME IInv, ValidateResume
  PROVE  IInv'
<1>1. /\ pc = "validating" /\ run' = "running" /\ pc' = "next"
      /\ delivered' \in Deliveries /\ Len(delivered') = Len(plan)
      /\ \A s \in ScenarioOrder : delivered[s] # "ambiguous" => delivered'[s] = delivered[s]
      /\ UNCHANGED <<plan, epoch, scenario, assertion, evaluation, series, samples, cur,
                     verdicts, results, told>>
  BY DEF ValidateResume
<1>2. Assertions' = Assertions /\ ScenarioOrder' = ScenarioOrder
  BY <1>1, Zenon DEF Assertions, ScenarioOrder
<1>3. cur = <<1, 1>> /\ verdicts = {} /\ results = {}
  BY <1>1 DEF IInv, LoopInv
<1>4. TypeInv'
  <2>1. delivered' \in Seq(DeliveryCategories)
    BY <1>1, PhaseBounds
  <2>2. run' \in {"running", "paused", "completed", "cancelled", "failed"}
    BY <1>1
  <2>3. Len(delivered') = Len(plan')
    BY <1>1
  <2>4. QED
    BY <1>1, <1>2, <2>1, <2>2, <2>3, Zenon DEF IInv, TypeInv
<1>5. ASSUME NEW b \in Assertions
      PROVE  RowInv(b)' /\ ExistingCategory(b)' = ExistingCategory(b)
  <2>1. RowInv(b) /\ SameRows(b) /\ b[1] \in ScenarioOrder
    BY <1>1, <1>5, Configured DEF IInv, TypeInv, SameRows
  <2>2. delivered'[b[1]] = "ambiguous" => delivered[b[1]] = "ambiguous"
    BY <1>1, <2>1, Zenon
  <2>3. QED
    BY <1>1, <2>1, <2>2, RowKept
<1>6. Keeps
  BY <1>1, <1>5, Zenon DEF Keeps
<1>7. \A s \in ScenarioOrder : ScenarioInv(s)'
  <2>1. \A s \in ScenarioOrder : delivered'[s] = "ambiguous" => delivered[s] = "ambiguous"
    BY <1>1, Zenon
  <2>2. QED
    BY <1>1, <1>6, <2>1, ScenarioKept DEF IInv
<1>8. RunInv'
  BY <1>1 DEF RunInv, RunTerminal
<1>9. CountInv'
  <2>1. cur' = <<1, 1>> /\ cur'[1] = 1 /\ cur'[2] = 1
    BY <1>1, <1>3
  <2>2. Passed' = {}
    <3>1. \A b \in Assertions : ~(b[2] < 1)
      BY Configured, PlanShape DEF IInv, TypeInv
    <3>2. QED
      BY <1>2, <2>1, <3>1 DEF Passed
  <2>3. 1 .. cur'[1] - 1 = {}
    BY <2>1
  <2>4. {ExistingCategory(a) : a \in Passed}' = {} /\ {CategoryOf(s) : s \in 1 .. cur[1] - 1}' = {}
    BY <2>2, <2>3, Zenon
  <2>5. cur'[1] \in Nat \ {0} /\ cur'[2] \in Nat \ {0} /\ cur'[1] <= Len(plan') + 1
        /\ ~(cur'[2] > 1) /\ cur' = <<cur'[1], cur'[2]>>
    BY <1>1, <2>1, PlanShape DEF IInv, TypeInv
  <2>6. verdicts' = {} /\ results' = {}
    BY <1>1, <1>3
  <2>7. QED
    BY <2>2, <2>3, <2>4, <2>5, <2>6, Zenon DEF CountInv
<1>10. StepInv'
  BY <1>1 DEF StepInv, Working
<1>11. LoopInv'
  <2>1. \A b \in Assertions' : series'[b] # "running"
    BY <1>1, <1>2, NoneRuns
  <2>2. pc' \in Working /\ pc' # "validating"
    BY <1>1 DEF Working
  <2>3. QED
    BY <1>1, <1>9, <1>10, <2>1, <2>2, Zenon DEF LoopInv
<1>12. QED
  BY <1>2, <1>4, <1>5, <1>7, <1>8, <1>11, Zenon DEF IInv

-----------------------------------------------------------------------------
(* The answer a later process reads from the samples. *)

LOCAL INSTANCE WellFoundedInduction

LEMMA Greatest ==
  ASSUME NEW n \in Nat, NEW S, S \subseteq 1 .. n, S # {}
  PROVE  \E i \in S : \A j \in S : j <= i
<1> DEFINE T == {n - i : i \in S}
<1>1. T \subseteq Nat /\ T # {}
  <2>1. \A i \in S : n - i \in Nat
    OBVIOUS
  <2>2. QED
    BY <2>1, Zenon
<1>2. PICK x \in T : \A y \in T : ~(<<y, x>> \in OpToRel(<, Nat))
  BY <1>1, NatLessThanWellFounded, WFMin, Zenon
<1>3. \A y \in T : ~(y < x)
  BY <1>1, <1>2, Zenon DEF OpToRel
<1>4. PICK i \in S : x = n - i
  OBVIOUS
<1>5. ASSUME NEW j \in S PROVE j <= i
  BY <1>3, <1>4
<1>6. QED
  BY <1>4, <1>5

\* The answer a later process reads from the samples matches only where the series is ok.
LEMMA RecoveredMatch ==
  ASSUME IInv, NEW a \in Assertions, samples[a] # <<>>
  PROVE  RecoveredPollResult(a).last.ev = "match" => series[a] = "ok"
<1> DEFINE records == samples[a]
           answered == {i \in DOMAIN records : records[i].status # "timeout"}
           latest == CHOOSE i \in answered : \A j \in answered : j <= i
<1>1. records \in Seq(Records) /\ SampleInv(a)
  BY DEF IInv, TypeInv, RowInv
<1>2. RecoveredPollResult(a).last =
        IF answered = {} THEN NoResponse
        ELSE [status |-> records[latest].status, ev |-> records[latest].ev, retry |-> FALSE]
  BY DEF RecoveredPollResult
<1>3. CASE answered = {}
  BY <1>2, <1>3 DEF NoResponse
<1>4. CASE answered # {}
  <2>1. answered \subseteq 1 .. Len(records) /\ Len(records) \in Nat
    BY <1>1
  <2>2. \E i \in answered : \A j \in answered : j <= i
    <3> HIDE DEF answered, records
    <3> QED
      BY <1>4, <2>1, Greatest, Zenon
  <2>3. latest \in DOMAIN records
    <3>1. latest \in answered
      <4> HIDE DEF answered
      <4> QED
        BY <2>2, Zenon
    <3>2. QED
      BY <3>1, Zenon
  <2>4. RecoveredPollResult(a).last.ev = records[latest].ev
    <3> HIDE DEF latest, answered, records
    <3> QED
      BY <1>2, <1>4
  <2>5. QED
    <3> HIDE DEF latest
    <3> QED
      BY <1>1, <2>3, <2>4, Zenon DEF SampleInv
<1>5. QED
  BY <1>3, <1>4

LEMMA StepEvaluateRecovered ==
  ASSUME IInv, NEW a \in Assertions, EvaluateRecovered(a)
  PROVE  IInv'
<1>1. /\ pc = "next" /\ cur = a /\ delivered[a[1]] # "ambiguous" /\ samples[a] # <<>>
      /\ pc' = "started" /\ UNCHANGED <<cur, verdicts, results, told>>
      /\ Start(a) \/ (assertion[a] = "running" /\ UNCHANGED journal)
      /\ outcome' = EvaluateObserved(Config(a), RecoveredPollResult(a))
  BY DEF EvaluateRecovered, At
<1>2. series[a] \in {"none", "running"} \cup ObservationTerminal /\ series[a] # "running"
  BY <1>1, NoneRuns DEF IInv, TypeInv
<1>3. Observed(a) /\ series[a] \in ObservationTerminal
  BY <1>1, <1>2, Zenon DEF IInv, RowInv, SampleInv
<1>4. Config(a) \in ObserverAssertions
  BY <1>3, Configured, SMTT(20) DEF IInv, TypeInv
<1>5. IsEvaluation(Config(a).kind, outcome') /\ (outcome'.result = "pass" => series[a] = "ok")
  BY <1>1, <1>4, RecoveredMatch, ObservedEvaluated, SMTT(20)
<1>6. QED
  BY <1>1, <1>3, <1>5, EvaluationHeld, ZenonT(30)

-----------------------------------------------------------------------------
(* The invariant. *)

LEMMA Initially ==
  ASSUME Init
  PROVE  IInv
<1>1. Len(plan) \in Nat \ {0}
  BY PlanShape DEF Init
<1>2. TypeInv
  <2>1. delivered \in Seq(DeliveryCategories)
    BY PhaseBounds DEF Init
  <2>2. QED
    BY <2>1 DEF TypeInv, Init
<1>3. ASSUME NEW a \in Assertions
      PROVE  RowInv(a)
  <2>1. assertion[a] = "pending" /\ evaluation[a] = NotEvaluated /\ series[a] = "none"
        /\ samples[a] = <<>> /\ told[a] = "none"
    BY <1>3 DEF Init
  <2>2. SampleInv(a)
    BY <2>1 DEF SampleInv
  <2>3. "pending" \notin AssertionTerminal
    BY DEF AssertionTerminal
  <2>4. QED
    BY <2>1, <2>2, <2>3, Zenon DEF RowInv
<1>4. ASSUME NEW s \in ScenarioOrder
      PROVE  ScenarioInv(s)
  BY <1>4 DEF Init, ScenarioInv
<1>5. RunInv
  BY DEF Init, RunInv, RunTerminal
<1>6. CountInv
  <2>1. cur = <<1, 1>> /\ cur[1] = 1 /\ cur[2] = 1 /\ plan \in Plans
    BY DEF Init
  <2>2. Passed = {}
    <3>1. \A b \in Assertions : ~(b[2] < 1)
      BY <2>1, Configured, PlanShape
    <3>2. QED
      BY <2>1, <3>1 DEF Passed
  <2>3. 1 .. cur[1] - 1 = {}
    BY <2>1
  <2>4. {ExistingCategory(a) : a \in Passed} = {} /\ {CategoryOf(s) : s \in 1 .. cur[1] - 1} = {}
    BY <2>2, <2>3, Zenon
  <2>5. cur[1] \in Nat \ {0} /\ cur[2] \in Nat \ {0} /\ cur[1] <= Len(plan) + 1
        /\ ~(cur[2] > 1) /\ cur = <<cur[1], cur[2]>>
    BY <1>1, <2>1
  <2>6. verdicts = {} /\ results = {}
    BY DEF Init
  <2>7. QED
    BY <2>2, <2>3, <2>4, <2>5, <2>6, ZenonT(30) DEF CountInv
<1>7. LoopInv
  <2>1. pc = "next" /\ run = "running" /\ \A a \in Assertions : series[a] # "running"
    BY DEF Init
  <2>2. StepInv
    BY <2>1 DEF StepInv, Working
  <2>3. pc \in Working /\ pc # "validating"
    BY <2>1 DEF Working
  <2>4. QED
    BY <1>6, <2>1, <2>2, <2>3, Zenon DEF LoopInv
<1>8. QED
  BY <1>2, <1>3, <1>4, <1>5, <1>7, ZenonT(30) DEF IInv

LEMMA Stuttering ==
  ASSUME IInv, UNCHANGED vars
  PROVE  IInv'
<1>1. UNCHANGED <<plan, epoch, run, delivered, scenario, assertion, evaluation, series, samples,
                  pc, cur, poll, result, outcome, verdicts, results, told>>
  BY DEF vars, journal, memory
<1>2. /\ Keeps
      /\ (\A b \in Assertions : RowInv(b))' /\ (\A s \in ScenarioOrder : ScenarioInv(s))'
  BY <1>1, NoneMoves
<1>3. Assertions' = Assertions /\ ScenarioOrder' = ScenarioOrder
  BY <1>2, PlanKept
<1>4. TypeInv'
  BY <1>1, <1>3, Zenon DEF IInv, TypeInv
<1>5. \A s : CategoryOf(s)' = CategoryOf(s)
  BY <1>1, Zenon DEF CategoryOf, ExistingCategory, Mine, Assertions, ScenarioOrder
<1>6. RunInv'
  BY <1>1, <1>3, <1>5, Zenon DEF IInv, RunInv
<1>7. StepInv => StepInv'
  BY <1>1, <1>3, Zenon DEF StepInv, Observed, Config
<1>8. pc \in Working => CountInv'
  BY <1>1, <1>2, CountKept
<1>9. LoopInv'
  BY <1>1, <1>3, <1>7, <1>8, ZenonT(30) DEF IInv, LoopInv
<1>10. QED
  BY <1>2, <1>4, <1>6, <1>9, Zenon DEF IInv

LEMMA NextPreserves ==
  ASSUME IInv, [Next]_vars
  PROVE  IInv'
<1>1. CASE Step
  <2>1. CASE AmbiguousScenario \/ FinishScenario \/ FinishRun \/ ValidateResume \/ RefuseResume
    BY <2>1, StepAmbiguousScenario, StepFinishScenario, StepFinishRun, StepValidateResume,
       StepCrash, SMTT(20)
  <2>2. ASSUME NEW a \in Assertions,
               \/ KeepEvaluation(a) \/ EvaluateRecovered(a) \/ EvaluateTransportSelection(a)
               \/ RequestCapabilities(a) \/ BeginSeries(a)
               \/ PollUnsupported(a) \/ PollDeadline(a) \/ InvocationTimeout(a)
               \/ InvocationError(a) \/ CapabilitiesChanged(a) \/ PollAnswer(a)
               \/ NextRequest(a) \/ StartEvaluation(a) \/ PersistEvaluation(a)
        PROVE  IInv'
    BY <2>2, StepKeepEvaluation, StepEvaluateRecovered, StepEvaluateTransportSelection,
       StepRequestCapabilities, StepBeginSeries, StepPollUnsupported, StepPollDeadline,
       StepInvocationTimeout, StepInvocationError, StepCapabilitiesChanged, StepPollAnswer,
       StepNextRequest, StepStartEvaluation, StepPersistEvaluation
  <2>3. QED
    BY <1>1, <2>1, <2>2 DEF Step
<1>2. CASE \E a \in Assertions : CancelPoll(a)
  BY <1>2, StepCancelPoll
<1>3. CASE Crash
  BY <1>3, StepCrash
<1>4. CASE Resume
  BY <1>4, StepResume
<1>5. CASE Rest \/ UNCHANGED vars
  BY <1>5, Stuttering DEF Rest
<1>6. QED
  BY <1>1, <1>2, <1>3, <1>4, <1>5, SMTT(20) DEF Next

\* What a process holds in memory is what a later one would read from the journal,
\* through every crash, cancellation and resumption.
THEOREM MemoryIsJournal == Spec => []IInv
<1>1. Init => IInv
  BY Initially
<1>2. IInv /\ [Next]_vars => IInv'
  BY NextPreserves
<1>3. QED
  BY <1>1, <1>2, PTL DEF Spec

-----------------------------------------------------------------------------
(* What the invariant says of the evidence, the verdicts and the reports. *)

LEMMA Backed ==
  ASSUME IInv
  PROVE  EvaluationsBacked
<1> SUFFICES ASSUME NEW a \in Assertions
             PROVE  /\ evaluation[a] # NotEvaluated <=> assertion[a] \in AssertionTerminal
                    /\ assertion[a] \in AssertionTerminal =>
                         assertion[a] = TerminalState(evaluation[a])
                    /\ Observed(a) /\ assertion[a] # "pending" =>
                         samples[a] # <<>> /\ series[a] \in ObservationTerminal
                    /\ Observed(a) /\ assertion[a] = "passed" =>
                         series[a] = "ok" /\ samples[a][Len(samples[a])].status = "ok"
                    /\ series[a] # "none" => ObserverSeriesRow(series[a])
                    /\ \A i \in DOMAIN samples[a] :
                         ObservationSamplesRow(series[a], samples[a][i])
                    /\ evaluation[a] # NotEvaluated =>
                         LET links == EvidenceReferences(a, evaluation[a])
                         IN  /\ AssertionEvaluationsRow(evaluation[a])
                             /\ links # {} /\ EvidenceLinksTable({r[1] : r \in links})
                             /\ \A r \in links : RequireEvidenceReference(a, r)
  BY Zenon DEF EvaluationsBacked
<1>1. RowInv(a) /\ SampleInv(a)
  BY Zenon DEF IInv, RowInv
<1>2. series[a] \in {"none", "running"} \cup ObservationTerminal /\ samples[a] \in Seq(Records)
  BY DEF IInv, TypeInv
<1>3. Observed(a) /\ assertion[a] = "passed" =>
        series[a] = "ok" /\ samples[a][Len(samples[a])].status = "ok"
  <2>1. assertion[a] = "passed" => assertion[a] \in AssertionTerminal
    BY DEF AssertionTerminal
  <2>2. assertion[a] = "passed" => evaluation[a].result = "pass"
    BY <1>1, <2>1, EvaluationClass, Zenon DEF RowInv
  <2>3. QED
    BY <1>1, <2>1, <2>2, Zenon DEF RowInv, SampleInv
<1>4. series[a] # "none" => ObserverSeriesRow(series[a])
  BY <1>2 DEF ObserverSeriesRow, ObservationStates, ObservationTerminal
<1>5. ASSUME NEW i \in DOMAIN samples[a]
      PROVE  ObservationSamplesRow(series[a], samples[a][i])
  <2>1. samples[a][i] \in Records /\ samples[a] # <<>>
    BY <1>2, <1>5
  <2>2. samples[a][i].status \in {"ok", "pending", "unsupported", "error", "timeout"}
    BY <2>1 DEF Records
  <2>3. QED
    BY <1>1, <1>5, <2>1, <2>2, Zenon DEF SampleInv, ObservationSamplesRow
<1>6. ASSUME evaluation[a] # NotEvaluated
      PROVE  LET links == EvidenceReferences(a, evaluation[a])
             IN  /\ AssertionEvaluationsRow(evaluation[a])
                 /\ links # {} /\ EvidenceLinksTable({r[1] : r \in links})
                 /\ \A r \in links : RequireEvidenceReference(a, r)
  <2>1. AssertionEvaluationsRow(evaluation[a])
    BY <1>1, <1>6, Zenon DEF RowInv, IsEvaluation, AssertionEvaluationsRow
  <2>2. \A r \in EvidenceReferences(a, evaluation[a]) : r[1] \in {"attempt", "observation"}
    BY DEF EvidenceReferences
  <2>3. EvidenceLinksTable({r[1] : r \in EvidenceReferences(a, evaluation[a])})
    BY <2>2, Zenon DEF EvidenceLinksTable
  <2>4. QED
    BY <1>1, <1>6, <2>1, <2>3, Zenon DEF RowInv
<1>7. QED
  BY <1>1, <1>3, <1>4, <1>5, <1>6, Zenon DEF RowInv

\* Every evaluation rests on the evidence it refers to, in rows the tables admit, for
\* any plan and any interruptions.
THEOREM EvaluationsRestOnEvidence == Spec => []EvaluationsBacked
  BY MemoryIsJournal, Backed, PTL

LEMMA Reduction ==
  ASSUME IInv
  PROVE  ScenarioIsItsReduction
<1>1. ASSUME NEW a \in Assertions, told[a] # "none" PROVE ExistingCategory(a) = told[a]
  BY <1>1, Zenon DEF IInv, RowInv
<1>2. ASSUME NEW s \in ScenarioOrder, scenario[s] \in ScenarioTerminal
      PROVE  /\ \A a \in Mine(s) : assertion[a] \in AssertionTerminal
             /\ scenario[s] = ScenarioStateFor(
                  Reduce({delivered[s]} \cup {ExistingCategory(a) : a \in Mine(s)}))
             /\ scenario[s] = "passed" =>
                  GuardScenarioPass([a \in Mine(s) |-> assertion[a]],
                                    [a \in Mine(s) |-> Observed(a) /\ Config(a).skip])
  <2> DEFINE S == {delivered[s]} \cup {ExistingCategory(a) : a \in Mine(s)}
  <2>1. scenario[s] # "running"
    BY <1>2 DEF ScenarioTerminal
  <2>2. /\ delivered[s] # "ambiguous" /\ scenario[s] = ScenarioStateFor(CategoryOf(s))
        /\ \A a \in Mine(s) : assertion[a] \in AssertionTerminal
    BY <1>2, <2>1, Zenon DEF IInv, ScenarioInv
  <2>3. S \subseteq Categories /\ S # {} /\ CategoryOf(s) = Reduce(S)
    BY <1>2, <2>2, ScenarioCategoryRange, Zenon
  <2>4. ASSUME scenario[s] = "passed", NEW a \in Mine(s) PROVE assertion[a] = "passed"
    <3>1. CategoryOf(s) = "pass"
      BY <2>2, <2>4, Zenon DEF ScenarioStateFor
    <3>2. S = {"pass"}
      <4> HIDE DEF S
      <4> QED
        BY <2>3, <3>1, Reduced, Zenon
    <3>3. ExistingCategory(a) = "pass"
      BY <3>2, Zenon
    <3>4. QED
      BY <2>2, <3>3, AssertionCategoryRange, Zenon DEF Mine
  <2>5. QED
    BY <2>2, <2>3, <2>4, Zenon DEF GuardScenarioPass
<1>3. QED
  BY <1>1, <1>2, Zenon DEF ScenarioIsItsReduction, Mine

\* An ended scenario has the state its deliveries and evaluations reduce to, and the
\* categories read from the journal are those the evaluations were made with.
THEOREM ScenariosAreReductions == Spec => []ScenarioIsItsReduction
  BY MemoryIsJournal, Reduction, PTL

LEMMA Ended ==
  ASSUME IInv
  PROVE  RunEndsWithItsScenarios
<1>1. ASSUME run = "completed"
      PROVE  /\ \A s \in ScenarioOrder : scenario[s] \in ScenarioTerminal
             /\ \A s \in ScenarioOrder : delivered[s] # "ambiguous"
  <2>1. run \in RunTerminal
    BY <1>1 DEF RunTerminal
  <2>2. /\ results = {CategoryOf(s) : s \in ScenarioOrder} /\ run = RunStateFor(Reduce(results))
        /\ \A s \in ScenarioOrder : delivered[s] # "ambiguous" => scenario[s] # "running"
    BY <2>1, Zenon DEF IInv, RunInv
  <2>3. /\ results \subseteq Categories /\ results # {} /\ Reduce(results) \in results
        /\ "ambiguous" \in results <=> \E s \in ScenarioOrder : delivered[s] = "ambiguous"
    BY <2>2, ResultsRange, Zenon
  <2>4. \A c \in Categories :
          RunStateFor(c) = "completed" =>
            c \in {"pass", "receiver_failure", "environment_error", "unsupported"}
    BY AllCategories DEF RunStateFor
  <2>5. "ambiguous" \notin results
    BY <1>1, <2>2, <2>3, <2>4, Reduced, Zenon
  <2>6. \A s \in ScenarioOrder : scenario[s] \in {"running"} \cup ScenarioTerminal
    BY DEF IInv, TypeInv
  <2>7. QED
    BY <2>2, <2>3, <2>5, <2>6, Zenon
<1>2. ASSUME run = "paused"
      PROVE  \E s \in ScenarioOrder :
               /\ scenario[s] = "running" /\ delivered[s] = "ambiguous"
               /\ \A a \in Assertions : a[1] = s => assertion[a] = "pending"
  <2>1. PICK s \in ScenarioOrder : delivered[s] = "ambiguous"
    BY <1>2, Zenon DEF IInv, RunInv
  <2>2. scenario[s] = "running"
    BY <2>1, Zenon DEF IInv, ScenarioInv
  <2>3. \A a \in Assertions : a[1] = s => assertion[a] = "pending"
    BY <2>1, Zenon DEF IInv, RowInv
  <2>4. QED
    BY <2>1, <2>2, <2>3, Zenon
<1>3. ASSUME \A s \in ScenarioOrder : delivered[s] # "ambiguous"
      PROVE  GuardRunCompletion([s \in ScenarioOrder |->
               IF delivered[s] = "ambiguous" THEN "active" ELSE "satisfied"])
  BY <1>3 DEF GuardRunCompletion
<1>4. QED
  BY <1>1, <1>2, <1>3, Zenon DEF RunEndsWithItsScenarios

\* A completed run has ended every scenario and a paused one has a scenario to settle.
THEOREM RunsEndWithTheirScenarios == Spec => []RunEndsWithItsScenarios
  BY MemoryIsJournal, Ended, PTL

LEMMA Continuable ==
  ASSUME IInv
  PROVE  RefusalHasCause
<1> SUFFICES ASSUME pc = "validating", NEW s \in ScenarioOrder,
                    \A a \in Assertions :
                      a[1] = s /\ delivered[s] # "ambiguous" => ~RefusalCause(a)
             PROVE  ScenarioResumable(s)
  BY Zenon DEF RefusalHasCause
<1>1. ScenarioInv(s) /\ \A a \in Mine(s) : a \in Assertions /\ a[1] = s /\ RowInv(a)
  BY Zenon DEF IInv, Mine
<1>2. CASE delivered[s] = "ambiguous"
  BY <1>1, <1>2, Zenon DEF ScenarioResumable, ScenarioInv, RowInv, Mine
<1>3. CASE delivered[s] # "ambiguous"
  <2>1. ASSUME NEW a \in Mine(s) PROVE Resumable(a)
    <3>1. RowInv(a) /\ SampleInv(a) /\ a \in Assertions /\ ~RefusalCause(a)
      BY <1>1, <1>3, <2>1, Zenon DEF RowInv
    <3>2. series[a] # "running"
      BY <3>1 DEF IInv, LoopInv
    <3>3. series[a] # "none" => samples[a] # <<>> /\ BundleRecoverable(a)
      BY <3>1, <3>2, SMTT(20) DEF SampleInv, RefusalCause
    <3>4. assertion[a] = "running" => samples[a] # <<>>
      BY <3>1 DEF RowInv, RefusalCause
    <3>5. assertion[a] # "cancelled"
      BY <3>1, ZenonT(30) DEF IInv, TypeInv
    <3>6. evaluation[a] # NotEvaluated <=> assertion[a] \in AssertionTerminal \ {"cancelled"}
      BY <3>1, <3>5, Zenon DEF RowInv
    <3>7. QED
      BY <3>3, <3>4, <3>6, Zenon DEF Resumable
  <2>2. scenario[s] # "running" =>
          /\ \A a \in Mine(s) : assertion[a] \in AssertionTerminal
          /\ scenario[s] = ScenarioStateFor(
               Reduce({delivered[s]} \cup {ExistingCategory(a) : a \in Mine(s)}))
    BY <1>1, <1>3, Zenon DEF ScenarioInv, CategoryOf
  <2>3. QED
    BY <1>3, <2>1, <2>2, Zenon DEF ScenarioResumable, Mine
<1>4. QED
  BY <1>2, <1>3

\* A resume is refused only for an observation without a sample, a transport evaluation
\* without its row, or evidence that was not persisted, for any plan and any
\* interruptions.
THEOREM RefusalsHaveCauses == Spec => []RefusalHasCause
  BY MemoryIsJournal, Continuable, PTL

-----------------------------------------------------------------------------
(* The reports. *)

\* The snapshot, field by field.
LEMMA Snapshot ==
  ASSUME NEW retried, NEW s \in ScenarioOrder
  PROVE  /\ ReportSnapshot(retried).category =
              IF run \in RunTerminal THEN Reduce(results) ELSE "none"
         /\ ReportSnapshot(retried).scenario = scenario
         /\ ReportSnapshot(retried).attempts[s] =
              {SettlingClassification(delivered[s])} \cup retried
         /\ ReportSnapshot(retried).observations[s] =
              UNION {{samples[a][i].status : i \in DOMAIN samples[a]} : a \in Mine(s)}
         /\ ReportSnapshot(retried).assertions[s] =
              {[result |-> evaluation[a].result, state |-> assertion[a]] :
                 a \in {b \in Mine(s) : evaluation[b] # NotEvaluated}}
  BY Zenon DEF ReportSnapshot, Mine

LEMMA Settled ==
  ASSUME NEW d \in DeliveryCategories
  PROVE  AttemptVerdict(SettlingClassification(d)) = d
  BY DEF DeliveryCategories, AttemptVerdict, SettlingClassification

LEMMA AttemptsExported ==
  ASSUME IInv, NEW s \in ScenarioOrder,
         NEW retried, retried \subseteq {"receiver_rejected", "environment_failure"}
  PROVE  /\ delivered[s] \in AttemptCategories(ReportSnapshot(retried), s)
         /\ delivered[s] \in DeliveryCategories
         /\ AttemptCategories(ReportSnapshot(retried), s) \subseteq DeliveryCategories
<1>1. delivered[s] \in DeliveryCategories
  BY DEF IInv, TypeInv, ScenarioOrder
<1>2. /\ AttemptVerdict("receiver_rejected") = "receiver_failure"
      /\ AttemptVerdict("environment_failure") = "environment_error"
  BY DEF AttemptVerdict
<1>3. {"receiver_failure", "environment_error"} \subseteq DeliveryCategories
  BY DEF DeliveryCategories
<1>4. ReportSnapshot(retried).attempts[s] = {SettlingClassification(delivered[s])} \cup retried
  BY Snapshot, Zenon
<1>5. ASSUME NEW c \in ReportSnapshot(retried).attempts[s]
      PROVE  AttemptVerdict(c) \in DeliveryCategories
  BY <1>1, <1>2, <1>3, <1>4, <1>5, Settled, Zenon
<1>6. delivered[s] \in AttemptCategories(ReportSnapshot(retried), s)
  BY <1>1, <1>4, Settled, Zenon DEF AttemptCategories
<1>7. QED
  BY <1>1, <1>5, <1>6, Zenon DEF AttemptCategories

LEMMA SamplesExported ==
  ASSUME IInv, NEW s \in ScenarioOrder, NEW retried
  PROVE  ObservationCategories(ReportSnapshot(retried), s)
           \subseteq {"pass", "unsupported", "environment_error"}
<1> DEFINE Statuses == {"ok", "pending", "unsupported", "error", "timeout"}
<1>1. ASSUME NEW a \in Mine(s), NEW i \in DOMAIN samples[a]
      PROVE  samples[a][i].status \in Statuses
  <2>1. samples[a] \in Seq(Records)
    BY DEF IInv, TypeInv, Mine
  <2>2. samples[a][i] \in Records
    BY <1>1, <2>1
  <2>3. QED
    BY <2>2 DEF Records
<1>2. ReportSnapshot(retried).observations[s] =
        UNION {{samples[a][i].status : i \in DOMAIN samples[a]} : a \in Mine(s)}
  BY Snapshot, Zenon
<1>3. ReportSnapshot(retried).observations[s] \subseteq Statuses
  <2> SUFFICES ASSUME NEW y \in ReportSnapshot(retried).observations[s] PROVE y \in Statuses
    BY Zenon
  <2>1. PICK a \in Mine(s) : y \in {samples[a][i].status : i \in DOMAIN samples[a]}
    BY <1>2, Zenon
  <2>2. PICK i \in DOMAIN samples[a] : y = samples[a][i].status
    BY <2>1, Zenon
  <2>3. QED
    BY <1>1, <2>2, Zenon
<1>4. \A x \in {"ok", "unsupported", "error", "timeout"} :
        ObservationCategory(x) \in {"pass", "unsupported", "environment_error"}
  BY DEF ObservationCategory
<1>5. QED
  BY <1>3, <1>4, Zenon DEF ObservationCategories, ExportedSamples

LEMMA EvaluationsExported ==
  ASSUME IInv, NEW s \in ScenarioOrder, NEW retried
  PROVE  LET x == ReportSnapshot(retried)
             E == {"pass", "receiver_failure", "unsupported"}
         IN  /\ AssertionCategories(x, s) \subseteq E \cup AssertionErrorCategories
             /\ x.category = "none" => AssertionCategories(x, s) \subseteq E \cup {"harness_error"}
             /\ \A a \in Mine(s) :
                  assertion[a] \in AssertionTerminal /\ assertion[a] # "passed" =>
                    \E c \in AssertionCategories(x, s) : c # "pass"
<1> DEFINE x == ReportSnapshot(retried)
           E == {"pass", "receiver_failure", "unsupported"}
           origin == IF x.category \in AssertionErrorCategories THEN x.category
                     ELSE "harness_error"
           Item(a) == [result |-> evaluation[a].result, state |-> assertion[a]]
           Class(a) == ClassifyAssertion(evaluation[a].result, assertion[a], origin)
<1>1. /\ origin \in AssertionErrorCategories
      /\ x.category = "none" => origin = "harness_error"
  BY DEF AssertionErrorCategories
<1>2. x.assertions[s] = {Item(a) : a \in {b \in Mine(s) : evaluation[b] # NotEvaluated}}
  BY Snapshot, Zenon
<1>3. ASSUME NEW a PROVE AssertionCategory(Item(a), x.category) = Class(a)
  <2>1. Item(a).result = evaluation[a].result /\ Item(a).state = assertion[a]
    OBVIOUS
  <2>2. QED
    BY <2>1, Zenon DEF AssertionCategory
<1>4. ASSUME NEW a \in Mine(s), assertion[a] \in AssertionTerminal
      PROVE  Class(a) \in E \cup {origin} /\ (Class(a) = "pass" <=> assertion[a] = "passed")
  <2>1. IsEvaluation(Config(a).kind, evaluation[a]) /\ assertion[a] = TerminalState(evaluation[a])
    BY <1>4, Zenon DEF IInv, RowInv, Mine
  <2> HIDE DEF origin
  <2>2. QED
    BY <1>1, <2>1, EvaluationClass, Zenon DEF AssertionErrorCategories
<1>5. ASSUME NEW a \in Mine(s)
      PROVE  evaluation[a] # NotEvaluated <=> assertion[a] \in AssertionTerminal
  BY <1>5, Zenon DEF IInv, RowInv, Mine
<1> HIDE DEF x, origin, Class, Item, E
<1>6. AssertionCategories(x, s) =
        {Class(a) : a \in {b \in Mine(s) : assertion[b] \in AssertionTerminal}}
  BY <1>2, <1>3, <1>5, Zenon DEF AssertionCategories
<1>7. QED
  BY <1>1, <1>4, <1>6, Zenon DEF x, E

\* The records of a scenario have categories, and one of them is that of its
\* deliveries.
LEMMA RecordsExported ==
  ASSUME IInv, NEW s \in ScenarioOrder,
         NEW retried, retried \subseteq {"receiver_rejected", "environment_failure"}
  PROVE  /\ delivered[s] \in RecordCategories(ReportSnapshot(retried), s)
         /\ RecordCategories(ReportSnapshot(retried), s) \subseteq Categories
         /\ ReportSnapshot(retried).category = "none" =>
              "invalid_input" \notin RecordCategories(ReportSnapshot(retried), s)
<1> DEFINE x == ReportSnapshot(retried)
<1>1. /\ delivered[s] \in AttemptCategories(x, s)
      /\ AttemptCategories(x, s) \subseteq DeliveryCategories
  BY AttemptsExported, Zenon
<1>2. ObservationCategories(x, s) \subseteq {"pass", "unsupported", "environment_error"}
  BY SamplesExported, Zenon
<1>3. /\ AssertionCategories(x, s)
           \subseteq {"pass", "receiver_failure", "unsupported"} \cup AssertionErrorCategories
      /\ x.category = "none" =>
           AssertionCategories(x, s)
             \subseteq {"pass", "receiver_failure", "unsupported"} \cup {"harness_error"}
  BY EvaluationsExported, Zenon
<1>4. RecordCategories(x, s) = AttemptCategories(x, s) \cup ObservationCategories(x, s)
                               \cup AssertionCategories(x, s)
  BY Zenon DEF RecordCategories
<1> HIDE DEF x
<1>5. /\ RecordCategories(x, s) \subseteq Categories
      /\ x.category = "none" => "invalid_input" \notin RecordCategories(x, s)
  BY <1>1, <1>2, <1>3, <1>4, AllCategories DEF DeliveryCategories, AssertionErrorCategories
<1>6. QED
  BY <1>1, <1>4, <1>5, Zenon DEF x

LEMMA SummaryShows ==
  ASSUME IInv, run # "running",
         NEW retried, retried \subseteq {"receiver_rejected", "environment_failure"}
  PROVE  /\ run \in RunTerminal => SummaryCategory(ReportSnapshot(retried)) = Reduce(results)
         /\ run = "paused" =>
              SummaryCategory(ReportSnapshot(retried)) \in {"ambiguous", "harness_error"}
<1> DEFINE x == ReportSnapshot(retried)
           S == ResultCategories(x)
<1>1. Len(plan) \in Nat \ {0} /\ 1 \in ScenarioOrder
  BY PlanShape DEF IInv, TypeInv, ScenarioOrder
<1>2. x.category = (IF run \in RunTerminal THEN Reduce(results) ELSE "none") /\ x.scenario = scenario
  BY <1>1, Snapshot, Zenon
<1>3. ASSUME run \in RunTerminal PROVE SummaryCategory(x) = Reduce(results)
  <2>1. results \subseteq Categories /\ Reduce(results) \in results
    BY <1>3, ResultsRange, Zenon DEF IInv, RunInv
  <2>2. "none" \notin Categories
    BY AllCategories
  <2>3. QED
    BY <1>2, <1>3, <2>1, <2>2, Zenon DEF SummaryCategory, ReduceResult
<1>4. ASSUME run = "paused" PROVE SummaryCategory(x) \in {"ambiguous", "harness_error"}
  <2>1. x.category = "none"
    BY <1>2, <1>4 DEF RunTerminal
  <2>2. DOMAIN x.scenario = ScenarioOrder
    BY <1>2 DEF IInv, TypeInv
  <2>3. S = UNION {RecordCategories(x, s) : s \in ScenarioOrder}
    BY <2>2, Zenon DEF ResultCategories
  <2>4. \A s \in ScenarioOrder : /\ delivered[s] \in RecordCategories(x, s)
                                 /\ RecordCategories(x, s) \subseteq Categories \ {"invalid_input"}
    BY <2>1, RecordsExported, Zenon
  <2>5. \E s \in ScenarioOrder : delivered[s] = "ambiguous"
    BY <1>4, Zenon DEF IInv, RunInv
  <2> HIDE DEF S, x
  <2>6. "ambiguous" \in S /\ S \subseteq Categories \ {"invalid_input"}
    BY <2>3, <2>4, <2>5, Zenon
  <2>7. Reduce(S) \in S /\ Reduce(S) \in {"harness_error", "invalid_input", "ambiguous"}
    BY <2>6, Reduced, Zenon
  <2>8. SummaryCategory(x) = Reduce(S)
    BY <2>1, <2>6, Zenon DEF SummaryCategory, ReduceResult, S
  <2>9. QED
    BY <2>6, <2>7, <2>8
<1>5. QED
  BY <1>3, <1>4, Zenon

LEMMA HtmlShows ==
  ASSUME IInv, NEW s \in ScenarioOrder,
         NEW retried, retried \subseteq {"receiver_rejected", "environment_failure"},
         scenario[s] \in {"failed", "error"} \/ delivered[s] = "ambiguous"
  PROVE  HtmlClassification(ReportSnapshot(retried), s) # "pass"
<1> DEFINE x == ReportSnapshot(retried)
           c == ScenarioStateCategory(scenario[s], x.category)
           S == {c} \cup RecordCategories(x, s)
<1>1. HtmlClassification(x, s) = Reduce(S)
  BY Snapshot, Zenon DEF HtmlClassification
<1>2. c \in Categories /\ (scenario[s] \in {"failed", "error"} => c # "pass")
  <2>1. scenario[s] \in {"running"} \cup ScenarioTerminal
    BY DEF IInv, TypeInv
  <2> HIDE DEF x
  <2>2. QED
    BY <2>1, AllCategories DEF ScenarioTerminal, ScenarioStateCategory, AssertionErrorCategories
<1>3. delivered[s] \in S /\ S \subseteq Categories
  BY <1>2, RecordsExported, Zenon
<1>4. \E d \in S : d # "pass"
  <2>1. CASE delivered[s] = "ambiguous"
    BY <1>3, <2>1
  <2>2. CASE scenario[s] \in {"failed", "error"}
    BY <1>2, <2>2, Zenon
  <2>3. QED
    BY <2>1, <2>2, Zenon
<1> HIDE DEF S, x
<1>5. Reduce(S) # "pass"
  BY <1>3, <1>4, Reduced, Zenon
<1>6. QED
  BY <1>1, <1>5, Zenon DEF x

\* A case that is rendered as something other than passed.
LEMMA CaseShown ==
  ASSUME NEW x, NEW s, NEW c,
         \/ c \in AssertionCategories(x, s) \ {"pass"}
         \/ c \in AttemptCategories(x, s) \ {"pass", "receiver_failure"},
         c \in Categories
  PROVE  SuiteElements(x, s) \ {"passed"} # {}
<1>1. c # "pass"
  OBVIOUS
<1>2. RenderCase(c) # "passed"
  BY <1>1, AllCategories DEF RenderCase
<1>3. c \in JUnitCases(x, s)
  BY Zenon DEF JUnitCases
<1>4. RenderCase(c) \in SuiteElements(x, s)
  BY <1>3, Zenon DEF SuiteElements
<1>5. QED
  BY <1>2, <1>4, Zenon

LEMMA SuiteShows ==
  ASSUME IInv, NEW s \in ScenarioOrder,
         NEW retried, retried \subseteq {"receiver_rejected", "environment_failure"},
         scenario[s] \in {"failed", "error"} \/ delivered[s] = "ambiguous"
  PROVE  \/ SuiteElements(ReportSnapshot(retried), s) \ {"passed"} # {}
         \/ delivered[s] = "receiver_failure"
<1> DEFINE x == ReportSnapshot(retried)
           D == AttemptCategories(x, s)
           A == AssertionCategories(x, s)
<1>1. delivered[s] \in D /\ delivered[s] \in Categories
  BY AttemptsExported, RecordsExported, Zenon
<1>2. A \subseteq Categories
  BY RecordsExported, Zenon DEF RecordCategories
<1>3. CASE delivered[s] \notin {"pass", "receiver_failure"}
  BY <1>1, <1>3, CaseShown, Zenon
<1>4. CASE delivered[s] = "pass"
  <2>1. scenario[s] \in {"failed", "error"}
    BY <1>4
  <2>2. /\ scenario[s] = ScenarioStateFor(CategoryOf(s)) /\ delivered[s] # "ambiguous"
        /\ \A a \in Mine(s) : assertion[a] \in AssertionTerminal
    BY <1>4, <2>1 DEF IInv, ScenarioInv
  <2>3. CategoryOf(s) # "pass"
    BY <2>1, <2>2 DEF ScenarioStateFor
  <2>4. CategoryOf(s) \in {delivered[s]} \cup {ExistingCategory(a) : a \in Mine(s)}
    BY <2>2, ScenarioCategoryRange, Zenon
  <2>5. PICK a \in Mine(s) : ExistingCategory(a) # "pass"
    BY <1>4, <2>3, <2>4, Zenon
  <2>6. assertion[a] # "passed"
    BY <2>2, <2>5, AssertionCategoryRange, Zenon DEF Mine
  <2>7. \E c \in A : c # "pass"
    BY <2>2, <2>6, EvaluationsExported, Zenon
  <2>8. QED
    BY <1>2, <2>7, CaseShown, Zenon
<1>5. QED
  BY <1>3, <1>4

LEMMA Shown ==
  ASSUME IInv
  PROVE  ReportsShowProblems
<1>1. \A retried \in SUBSET {"receiver_rejected", "environment_failure"} :
        retried \subseteq {"receiver_rejected", "environment_failure"}
  OBVIOUS
<1>2. QED
  BY <1>1, SummaryShows, HtmlShows, SuiteShows, Zenon DEF ReportsShowProblems

\* No report of a run that ended or paused hides a scenario that failed, erred or is
\* ambiguous, whatever was retried before.
THEOREM ReportsAreHonest == Spec => []ReportsShowProblems
  BY MemoryIsJournal, Shown, PTL
=============================================================================
