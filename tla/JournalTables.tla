--------------------------- MODULE JournalTables ---------------------------
(***************************************************************************)
(* What the journal's tables admit (journal/migrations/): the CHECK, UNIQUE*)
(* and FOREIGN KEY constraints SQLite applies to every statement of a      *)
(* transaction, over rows abstracted to the columns the modules have.  A   *)
(* row outside them rolls its whole transaction back, so a component that  *)
(* writes one stops there.  Formats of identifiers, digests and timestamps *)
(* and the 53 and 63 bit bounds of integers are left out.                  *)
(***************************************************************************)
EXTENDS Integers, LifecycleTables

\* No two rows agree on a key.
UniqueKey(rows, Key(_)) == \A r, s \in rows : Key(r) = Key(s) => r = s

-----------------------------------------------------------------------------
(* v0001: the history of transitions. *)

\* transitions: for each kind of entity, the states a row may name.  A row without a
\* prior state, which names the initial one, is left out.
RunTransition(from, to) ==
  {from, to} \subseteq {"planned", "running", "paused", "completed", "cancelled", "failed"}
ScenarioTransition(from, to) ==
  {from, to} \subseteq {"pending", "eligible", "running", "passed", "failed", "error",
                        "skipped", "ambiguous", "cancelled"}
DeliveryTransition(from, to) ==
  {from, to} \subseteq {"pending", "eligible", "active", "satisfied", "exhausted",
                        "ambiguous", "cancelled", "skipped"}
AttemptTransition(from, to) ==
  {from, to} \subseteq {"scheduled", "claimed", "pre_send_committed", "connecting",
                        "sending", "awaiting_response", "response_observed", "not_sent",
                        "succeeded", "rejected", "transport_failed", "unknown_outcome",
                        "cancelled"}
ObservationTransition(from, to) ==
  {from, to} \subseteq {"scheduled", "running", "ok", "pending", "unsupported", "error",
                        "timed_out", "cancelled"}
AssertionTransition(from, to) ==
  {from, to} \subseteq {"pending", "running", "passed", "failed", "error", "unsupported",
                        "cancelled"}

\* Every edge of the tables in Python is one the table in SQL admits.
TransitionsTable ==
  /\ \A e \in RunEdges : RunTransition(e[1], e[2])
  /\ \A e \in ScenarioEdges : ScenarioTransition(e[1], e[2])
  /\ \A e \in DeliveryEdges : DeliveryTransition(e[1], e[2])
  /\ \A e \in AttemptEdges : AttemptTransition(e[1], e[2])
  /\ \A e \in ObservationEdges : ObservationTransition(e[1], e[2])
  /\ \A e \in AssertionEdges : AssertionTransition(e[1], e[2])

-----------------------------------------------------------------------------
(* v0001: the plan of a run. *)

\* runs: a journal holds one run.
RunsTable(state, owner) == state \in RunStates /\ owner \in Nat

\* scenarios, events and assertions: rows are <<scenario, ordinal, id>>.
ScenariosTable(rows) ==
  UniqueKey(rows, LAMBDA r : r[2]) /\ UniqueKey(rows, LAMBDA r : r[3])

EventsTable(rows, scenarios) ==
  /\ \A r \in rows : \E s \in scenarios : s[3] = r[1]
  /\ UniqueKey(rows, LAMBDA r : <<r[1], r[2]>>)
  /\ UniqueKey(rows, LAMBDA r : r[3])

\* event_dependencies: rows are <<scenario, event, dependency>>.
EventDependenciesTable(rows, events) ==
  \A r \in rows :
    /\ r[2] # r[3]
    /\ \A end \in {r[2], r[3]} : \E e \in events : e[1] = r[1] /\ e[3] = end

\* deliveries: rows are <<scenario, ordinal, id, event>>.
DeliveriesTable(rows, events) ==
  /\ \A r \in rows : \E e \in events : e[1] = r[1] /\ e[3] = r[4]
  /\ UniqueKey(rows, LAMBDA r : <<r[1], r[2]>>)
  /\ UniqueKey(rows, LAMBDA r : r[3])

AssertionsTable(rows, scenarios) ==
  /\ \A r \in rows : \E s \in scenarios : s[3] = r[1]
  /\ UniqueKey(rows, LAMBDA r : r[3])

-----------------------------------------------------------------------------
(* v0001: execution. *)

\* attempts: the row of the n-th attempt of a delivery, with its predecessor in
\* the same delivery, or itself for none (UNIQUE (delivery_id, ordinal) is the
\* domain of the rows).
AttemptsRow(states, a, predecessor) ==
  /\ states[a] \in AttemptStates
  /\ predecessor # a => predecessor \in DOMAIN states /\ states[predecessor] # "none"

\* schedule_entries: who consumed an entry is known exactly when it is consumed.
ScheduleEntriesRow(entry, consumer) == entry = "consumed" <=> consumer # 0

\* recovery_decisions: a decision names an attempt of the run.
RecoveryDecisionsRow(states, a, policy) ==
  /\ states[a] # "none"
  /\ policy \in {"stop", "observe", "redeliver", "operator_decision"}

\* Triggers: history, samples, evaluations, links and decisions only grow.
AppendOnly(rows, next) == rows \subseteq next

-----------------------------------------------------------------------------
(* v0001: observation and assertions. *)

\* observer_series: one series for an observer at a checkpoint.
ObserverSeriesRow(state) == state \in ObservationStates

ObservationSamplesRow(series, sample) ==
  /\ series # "none"
  /\ sample.status \in {"ok", "pending", "unsupported", "error", "timeout"}
  /\ sample.status = "ok" => sample.snapshot

AssertionEvaluationsRow(evaluation) ==
  evaluation.result \in {"pass", "fail", "error", "skipped", "pending"}

EvidenceLinksTable(kinds) ==
  kinds \subseteq {"attempt", "observation", "record", "artifact", "transition",
                   "recovery_decision"}

-----------------------------------------------------------------------------
(* v0002: attempt_records.  Absent columns are "null", an absent status 0. *)

FailedEvidence == {"timed_out", "connection_failed", "protocol_failed"}

AttemptRecordsColumns(row) ==
  /\ row.state \in {"acknowledged", "rejected", "cancelled", "unknown_outcome"}
                   \cup FailedEvidence
  /\ row.response_status = 0 \/ row.response_status \in 100 .. 599

\* Columns that are present together or not at all.
AttemptRecordsGroups(row) ==
  /\ row.request_method \in {"null", "POST"}
  /\ row.response_status = 0 =>
       row.response_body_sha256 = "null" /\ row.response_captured = "null"
  /\ row.response_status # 0 => row.response_captured # "null"
  /\ row.error_category = "null" => row.error_phase = "null"

AttemptRecordsOutcome(row) ==
  \/ /\ row.state = "acknowledged" /\ row.classification = "receiver_accepted"
     /\ row.response_status # 0 /\ row.error_category = "null"
  \/ /\ row.state = "rejected" /\ row.classification = "receiver_rejected"
     /\ row.response_status # 0 /\ row.error_category = "null"
  \/ /\ row.state \in FailedEvidence
     /\ row.classification \in {"environment_failure", "harness_failure"}
     /\ row.error_category # "null"
  \/ row.state = "cancelled" /\ row.classification = "cancelled" /\ row.response_status = 0
  \/ /\ row.state = "unknown_outcome" /\ row.classification = "ambiguous"
     /\ row.error_category # "null"

AttemptRecordsTable(row) ==
  AttemptRecordsColumns(row) /\ AttemptRecordsGroups(row) /\ AttemptRecordsOutcome(row)

-----------------------------------------------------------------------------
(* v0004: attempt_response_staging. *)

StagingColumns(row) ==
  /\ row.terminal_state \in {"succeeded", "rejected", "transport_failed"}
  /\ row.request_method = "POST"
  /\ row.response_status \in 100 .. 599
  /\ row.response_body_sha256 # "null"

StagingOutcome(row) ==
  \/ /\ row.terminal_state = "succeeded" /\ row.classification = "receiver_accepted"
     /\ row.state = "acknowledged" /\ row.response_status \in 200 .. 299
     /\ row.error_category = "null" /\ row.error_phase = "null"
  \/ /\ row.terminal_state = "rejected" /\ row.classification = "receiver_rejected"
     /\ row.state = "rejected" /\ row.response_status \notin 200 .. 299
     /\ row.error_category = "null" /\ row.error_phase = "null"
  \/ /\ row.terminal_state = "transport_failed"
     /\ row.classification = "environment_failure"
     /\ row.state \in FailedEvidence /\ row.error_category # "null"

StagingTable(row) == StagingColumns(row) /\ StagingOutcome(row)

\* The foreign key of both evidence tables.
EvidenceForeignKey(states, a) == states[a] # "none"
=============================================================================
