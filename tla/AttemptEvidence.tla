-------------------------- MODULE AttemptEvidence --------------------------
(***************************************************************************)
(* The evidence row of an attempt, from the executor's result to the two   *)
(* tables that keep it (runtime/attempts.py, journal/transitions.py,       *)
(* journal/repositories.py), and back from the staging table when another  *)
(* process ends the attempt (recovery/scanner.py), with the two durable    *)
(* steps that write it.  Four places say which rows may exist: the         *)
(* command, the repository, the table and the scanner.  A row one of them  *)
(* refuses leaves the attempt in flight.                                   *)
(***************************************************************************)
EXTENDS HttpExecutor, JournalTables, TransitionGuards

\* No error beside a verdict of the receiver.
TransportError(e, terminal) ==
  IF Classification(terminal) \in {"receiver_accepted", "receiver_rejected"} THEN "null"
  ELSE IF e.error = NoError THEN "ambiguous_transport" ELSE e.error.code

TransportEvidence(e, terminal) ==
  [terminal_state |-> terminal,
   state |-> EvidenceState(e, terminal),
   classification |-> Classification(terminal),
   request_method |-> "POST",
   response_status |-> e.response.status,
   response_captured |-> IF e.response.present THEN "bytes" ELSE "null",
   response_body_sha256 |-> IF e.response.complete THEN "digest" ELSE "null",
   error_category |-> TransportError(e, terminal),
   error_phase |-> IF TransportError(e, terminal) \in {"null", "ambiguous_transport"}
                     THEN "null" ELSE "phase",
   response_headers_elapsed |-> IF e.headers THEN "set" ELSE "null"]

\* What the command refuses to represent.
ExpectedClassifications(state) ==
  CASE state = "acknowledged" -> {"receiver_accepted"}
    [] state = "rejected" -> {"receiver_rejected"}
    [] state \in FailedEvidence -> {"environment_failure", "harness_failure"}
    [] state = "unknown_outcome" -> {"ambiguous"}

ShapeIsValid(row) ==
  /\ row.classification \in ExpectedClassifications(row.state)
  /\ IF row.state \in {"acknowledged", "rejected"}
       THEN row.response_status # 0 /\ row.error_category = "null"
       ELSE row.error_category # "null"

\* A response has no time of its head without being there.
CommandIsValid(row) ==
  /\ row.response_headers_elapsed # "null" => row.response_captured # "null"
  /\ ShapeIsValid(row)

\* A staged response has a body, and its evidence determines the terminal state.
StagingIsValid(row, retry) ==
  /\ row.response_status # 0 /\ row.response_body_sha256 # "null"
  /\ <<row.terminal_state, row.state, row.classification>> =
       IF row.error_category # "null"
         THEN <<"transport_failed", row.state, "environment_failure">>
       ELSE IF row.response_status \in 200 .. 299
         THEN <<"succeeded", "acknowledged", "receiver_accepted">>
       ELSE <<"rejected", "rejected", "receiver_rejected">>
  /\ row.terminal_state = "transport_failed" => row.state \in FailedEvidence
  /\ retry => row.terminal_state \in {"rejected", "transport_failed"}

\* What the repository accepts beside a terminal state.
EvidenceStatesByTerminalState(terminal) ==
  CASE terminal = "not_sent" -> {"connection_failed", "protocol_failed"}
    [] terminal = "succeeded" -> {"acknowledged"}
    [] terminal = "rejected" -> {"rejected"}
    [] terminal = "transport_failed" -> FailedEvidence
    [] terminal = "unknown_outcome" -> {"unknown_outcome"}

EvidencePresenceIsValid(row) ==
  /\ row.classification = Classification(row.terminal_state)
  /\ row.state \in EvidenceStatesByTerminalState(row.terminal_state)

\* The columns of a staged response, and the evidence the scanner makes of them.
StagingValues(row) ==
  [row EXCEPT !.error_phase = IF row.error_category = "null" THEN "null" ELSE @]
RebuiltStaging(stagingRow) ==
  [stagingRow EXCEPT !.error_phase =
     IF stagingRow.error_category = "null" THEN "null" ELSE @]

-----------------------------------------------------------------------------
(* Steps: the end of an attempt. *)

\* The row is made before anything of the result is durable; one that cannot be
\* made ends the worker with the attempt in the phase it had reached.
EvidenceRaises(a) ==
  /\ attempt[a].pc = "finished" /\ attempt[a].durable # "response_observed"
  /\ ~CommandIsValid(TransportEvidence(attempt[a], TerminalReduction(attempt[a])))
  /\ Step(a, [attempt[a] EXCEPT !.pc = "raised"])

\* A complete response is staged durably before the terminal transition.
Observe(a) ==
  /\ attempt[a].pc = "finished"
  /\ attempt[a].response.complete
  /\ attempt[a].durable # "response_observed"
  /\ CommandIsValid(TransportEvidence(attempt[a], TerminalReduction(attempt[a])))
  /\ Step(a, [attempt[a] EXCEPT !.durable = "response_observed"])

Terminate(a, retryableStatuses) ==
  LET e == attempt[a]
      terminal == TerminalReduction(e)
  IN
  /\ e.pc = "finished"
  /\ e.response.complete => e.durable = "response_observed"
  /\ CommandIsValid(TransportEvidence(e, terminal))
  /\ Step(a, [e EXCEPT !.pc = "done", !.durable = terminal,
                       !.predicate = RetryPredicate(e, terminal, retryableStatuses),
                       !.evidence = EvidenceState(e, terminal)])

-----------------------------------------------------------------------------
(* Properties. *)

\* Only the deadline of a whole attempt, when it strikes between the head of a
\* response and its body, is a result that no row can be made of.  Of every other
\* result the row is one that the command, the repository and the table admit, and
\* so is the row of a staged response, from which the scanner rebuilds the same
\* evidence: what the executor returns leaves no attempt that neither its worker
\* nor a recovery can end.
EvidenceIsAdmitted ==
  \A a \in Attempts :
    LET e == attempt[a]
        row == TransportEvidence(e, TerminalReduction(e))
        Retry == RetryPredicate(e, row.terminal_state, 100 .. 599) # "none"
    IN /\ e.pc = "finished" =>
            \/ e.error.code = "total_timeout" /\ e.headers /\ ~e.response.present
            \/ /\ CommandIsValid(row) /\ EvidencePresenceIsValid(row)
               /\ GuardTerminalAttempt(row.terminal_state, row.classification, Retry)
               /\ AttemptRecordsTable(row)
       /\ e.pc = "finished" /\ e.response.complete =>
            /\ StagingIsValid(row, Retry)
            /\ StagingTable(StagingValues(row))
            /\ RebuiltStaging(StagingValues(row)) = row

\* A timeout after the request may have left, without a complete response, is
\* classified as unknown in the journal when the attempt ends (requirement HTTP-021).
TimeoutIsClassified ==
  \A a \in Attempts :
    LET e == attempt[a]
    IN e.pc \in {"done", "raised"} /\ e.left /\ e.error.code \in TimeoutCodes
         /\ ~e.response.complete => e.durable = "unknown_outcome"
=============================================================================
