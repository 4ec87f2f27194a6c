-------------------------- MODULE TransitionGuards --------------------------
(***************************************************************************)
(* What the journal requires of a transition besides the owner epoch       *)
(* (journal/repositories.py): the prior state and an edge of the table     *)
(* and, for some target states, facts of other rows.  A transition that a  *)
(* guard refuses raises, and ends the process that asked for it: the       *)
(* modules that take transitions show that they are never refused.         *)
(***************************************************************************)
EXTENDS LifecycleTables

ValidateProjectionAndEdge(edges, prior, next) == <<prior, next>> \in edges

\* A run is completed when no delivery is open or ambiguous.
GuardRunCompletion(deliveries) ==
  \A d \in DOMAIN deliveries :
    deliveries[d] \notin {"pending", "eligible", "active", "ambiguous"}

\* A scenario passes when its assertions passed or were skipped as configured.
GuardScenarioPass(assertions, skips) ==
  \A a \in DOMAIN assertions :
    assertions[a] = "passed" \/ (assertions[a] = "unsupported" /\ skips[a])

\* The attempt a transition of a delivery refers to as its cause.
RequireRelatedAttempt(attempts, cause, d, allowed) ==
  cause[1] = d /\ attempts[cause] \in allowed

\* Nothing satisfies a delivery by an assertion, the other cause the code knows.
GuardDeliverySatisfaction(attempts, d) ==
  \E cause \in DOMAIN attempts : RequireRelatedAttempt(attempts, cause, d, {"succeeded"})

ValidateDeliveryGuards(attempts, d, next) ==
  next = "satisfied" => GuardDeliverySatisfaction(attempts, d)

ClassificationsByTerminalState(state) ==
  CASE state \in {"not_sent", "transport_failed"} -> {"environment_failure", "harness_failure"}
    [] state = "succeeded" -> {"receiver_accepted"}
    [] state = "rejected" -> {"receiver_rejected"}
    [] state = "unknown_outcome" -> {"ambiguous"}
    [] state = "cancelled" -> {"cancelled"}

ValidateRetrySchedule(state, retry) == retry => state \in AtomicRetryStates

GuardTerminalAttempt(state, classification, retry) ==
  /\ classification \in ClassificationsByTerminalState(state)
  /\ ValidateRetrySchedule(state, retry)
=============================================================================
