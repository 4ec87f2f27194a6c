-------------------------- MODULE LifecycleTables --------------------------
(***************************************************************************)
(* The authoritative state tables of the journal (journal/transitions.py): *)
(* for every entity kind its states, the edges a transition may take and   *)
(* the states no edge leaves.  A transition outside these tables is        *)
(* refused by the repository, whoever asks for it.                         *)
(***************************************************************************)

RunEdges ==
  {"planned"} \X {"running", "cancelled", "failed"}
  \cup {"running"} \X {"paused", "completed", "cancelled", "failed"}
  \cup {"paused"} \X {"running", "cancelled", "failed"}

DeliveryEdges ==
  {"pending"} \X {"eligible", "skipped", "cancelled"}
  \cup {"eligible"} \X {"active", "skipped", "cancelled"}
  \cup {"active"} \X {"eligible", "satisfied", "exhausted", "ambiguous", "cancelled"}

AttemptEdges ==
  {"scheduled"} \X {"claimed", "cancelled"}
  \cup {"claimed"} \X {"pre_send_committed", "not_sent", "cancelled"}
  \cup {"pre_send_committed"} \X {"connecting", "not_sent", "cancelled"}
  \cup {"connecting"}
       \X {"sending", "not_sent", "transport_failed", "unknown_outcome", "cancelled"}
  \cup {"sending"} \X {"awaiting_response", "transport_failed", "unknown_outcome"}
  \cup {"awaiting_response"}
       \X {"response_observed", "transport_failed", "unknown_outcome"}
  \cup {"response_observed"} \X {"succeeded", "rejected", "transport_failed"}

ScenarioEdges ==
  {"pending"} \X {"eligible", "skipped", "error", "cancelled"}
  \cup {"eligible"} \X {"running", "skipped", "error", "cancelled"}
  \cup {"running"}
       \X {"passed", "failed", "error", "skipped", "ambiguous", "cancelled"}

ObservationEdges ==
  {"scheduled"} \X {"running", "cancelled"}
  \cup {"running"}
       \X {"ok", "pending", "unsupported", "error", "timed_out", "cancelled"}

AssertionEdges ==
  {"pending"} \X {"running", "cancelled"}
  \cup {"running"} \X {"passed", "failed", "error", "unsupported", "cancelled"}

RunStates == {"planned", "running", "paused", "completed", "cancelled", "failed"}
RunTerminal == {"completed", "cancelled", "failed"}

ScenarioStates ==
  {"pending", "eligible", "running", "passed", "failed", "error", "skipped",
   "ambiguous", "cancelled"}
ScenarioTerminal == {"passed", "failed", "error", "skipped", "ambiguous", "cancelled"}

ObservationStates ==
  {"scheduled", "running", "ok", "pending", "unsupported", "error", "timed_out",
   "cancelled"}
ObservationTerminal ==
  {"ok", "pending", "unsupported", "error", "timed_out", "cancelled"}

AssertionStates ==
  {"pending", "running", "passed", "failed", "error", "unsupported", "cancelled"}
AssertionTerminal == {"passed", "failed", "error", "unsupported", "cancelled"}

DeliveryStates ==
  {"pending", "eligible", "active", "satisfied", "exhausted", "ambiguous",
   "skipped", "cancelled"}
DeliveryTerminal == {"satisfied", "exhausted", "ambiguous", "skipped", "cancelled"}

AttemptTerminal ==
  {"not_sent", "succeeded", "rejected", "transport_failed", "unknown_outcome",
   "cancelled"}
AttemptLive ==
  {"pre_send_committed", "connecting", "sending", "awaiting_response",
   "response_observed"}
AttemptStates == {"scheduled", "claimed"} \cup AttemptLive \cup AttemptTerminal

\* Attempt outcomes a terminal transaction may pair with a retry schedule, and
\* those the claim of a following attempt accepts in its predecessor.
AtomicRetryStates == {"not_sent", "rejected", "transport_failed"}
RetryPredecessorStates == AtomicRetryStates \cup {"unknown_outcome"}
=============================================================================
