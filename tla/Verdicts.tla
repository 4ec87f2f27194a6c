------------------------------ MODULE Verdicts ------------------------------
(***************************************************************************)
(* Result categories and their reduction (runtime/verdicts.py), and the    *)
(* states the runner derives from them (runtime/runner.py).                *)
(***************************************************************************)
EXTENDS Integers, Sequences

Precedence ==
  <<"harness_error", "invalid_input", "ambiguous", "environment_error",
    "unsupported", "receiver_failure", "cancelled", "pass">>

Categories == {Precedence[i] : i \in DOMAIN Precedence}

\* Reduction of a nonempty set of categories: the first by precedence.
Reduce(categories) ==
  CHOOSE c \in categories :
    \E i \in DOMAIN Precedence :
      /\ Precedence[i] = c
      /\ \A j \in 1 .. i - 1 : Precedence[j] \notin categories

\* Category of an attempt that settled its delivery.
AttemptVerdict(classification) ==
  CASE classification \in {"planned", "receiver_accepted"} -> "pass"
    [] classification = "receiver_rejected" -> "receiver_failure"
    [] classification = "environment_failure" -> "environment_error"
    [] classification = "harness_failure" -> "harness_error"
    [] classification = "cancelled" -> "cancelled"
    [] classification = "ambiguous" -> "ambiguous"

ClassifyAssertion(result, state, origin) ==
  CASE state = "passed" /\ result = "pass" -> "pass"
    [] state = "failed" /\ result = "fail" -> "receiver_failure"
    [] state = "unsupported" /\ result \in {"error", "skipped"} -> "unsupported"
    [] state = "error" /\ result = "error" -> origin
    [] state = "cancelled" -> "cancelled"

ScenarioStateFor(category) ==
  CASE category = "pass" -> "passed"
    [] category = "receiver_failure" -> "failed"
    [] category = "ambiguous" -> "ambiguous"
    [] category = "cancelled" -> "cancelled"
    [] OTHER -> "error"

RunStateFor(category) ==
  CASE category \in {"pass", "receiver_failure", "environment_error", "unsupported"} ->
         "completed"
    [] category = "ambiguous" -> "paused"
    [] category = "cancelled" -> "cancelled"
    [] category \in {"harness_error", "invalid_input"} -> "failed"
=============================================================================
