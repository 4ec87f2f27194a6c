---------------------------- MODULE HttpExecutor ----------------------------
(***************************************************************************)
(* One physical HTTP attempt (http/executor.py) under its journal-first    *)
(* lifecycle (runtime/attempts.py): pool slot, pinned dial, write, response*)
(* head, response body, shielded close and terminal reduction, with a      *)
(* durable checkpoint before each physical phase and a timeout that may    *)
(* cancel at any await.  Attempts run concurrently and share the pool.     *)
(*                                                                         *)
(* A reply is [interim, head, status, framing, declared, prefix, body,     *)
(* tail, end]: an informational response before it, whether its head       *)
(* arrives whole, its status, how its body is framed, the length it        *)
(* declares, the bytes that arrive together with the head and those that   *)
(* arrive at all, how a chunked body breaks off, and what the stream does  *)
(* afterwards (stay open, close, reset).                                   *)
(***************************************************************************)
EXTENDS NetworkPolicy

CONSTANTS
  Attempts,     \* physical attempts of this run
  DrainLimit    \* body units read before a response is too large

VARIABLES
  attempt       \* what every attempt is doing, and what the journal says of it

-----------------------------------------------------------------------------
(* The request on the wire. *)

ForbiddenUserHeaders ==
  {"host", "content-length", "transfer-encoding", "connection", "proxy-authorization", "te",
   "trailer", "upgrade"}
ClientOwnedHeaders == ForbiddenUserHeaders \cup {"accept-encoding", "user-agent"}

RequestTarget(command) == Gate(command.target = "origin-form", "request-target-invalid")

\* Refusals of a command, before any durable or physical step of the executor.
BuildWireRequest(command) ==
  FirstError(
    <<Gate(command.size # "over-limit", "request-too-large")>>
    \o [i \in DOMAIN command.headers |->
          LET h == command.headers[i]
          IN FirstError(
               <<Gate(h.owner = "user" => h.name \notin ForbiddenUserHeaders, "forbidden-header"),
                 Gate(h.name \notin ClientOwnedHeaders, "forbidden-header"),
                 Gate(\A j \in 1 .. i - 1 : command.headers[j].name # h.name,
                      "duplicate-header")>>)]
    \o <<RequestTarget(command)>>)

-----------------------------------------------------------------------------
(* The response: which of "timeout", "protocol", "connection" ends a read. *)

NoBodyStatuses == {204, 205, 304}

\* More bytes are needed and the stream has no more.
Receive(end) ==
  CASE end = "open" -> "timeout" [] end = "closed" -> "protocol" [] end = "reset" -> "connection"

ParseResponseHead(reply) ==
  Gate(reply.head # "malformed" /\ reply.framing # "conflict", "protocol")

ReadFinalResponseHead(reply) ==
  FirstError(
    <<Gate(reply.interim \notin {"switching", "framed"}, "protocol"),
      Gate(reply.head # "partial", Receive(reply.end)),
      ParseResponseHead(reply)>>)

\* Only what came with the head can be too much: after it exactly the missing
\* bytes are asked for, and what follows them is never read.
ReadContentLength(reply) ==
  FirstError(<<Gate(reply.prefix <= reply.declared, "protocol"),
               Gate(reply.body >= reply.declared, Receive(reply.end))>>)

\* A body of exactly the limit is already too large here.
ReadUntilClose(reply) ==
  FirstError(<<Gate(reply.body < DrainLimit, "too-large"),
               IF reply.end = "closed" THEN "ok" ELSE Receive(reply.end)>>)

\* A line that does not arrive is no body timeout for the caller, whose
\* catch-all clause takes it for a failed connection.
ReadLine(reply) == IF reply.end = "open" THEN "connection" ELSE Receive(reply.end)
FillBuffer(reply) == Receive(reply.end)

ReadChunked(reply) ==
  FirstError(<<Gate(reply.body <= DrainLimit, "too-large"),
               CASE reply.tail = "final" -> "ok"
                 [] reply.tail = "malformed" -> "protocol"
                 [] reply.tail = "in-data" -> FillBuffer(reply)
                 [] reply.tail = "in-line" -> ReadLine(reply)>>)

ReadResponseBody(reply) ==
  IF reply.status \in NoBodyStatuses
    THEN Gate(/\ reply.prefix = 0
              /\ reply.framing # "chunked"
              /\ reply.framing = "length" => reply.declared = 0, "protocol")
  ELSE IF reply.framing = "chunked" THEN ReadChunked(reply)
  ELSE IF reply.framing = "length"
    THEN FirstError(<<Gate(reply.declared <= DrainLimit, "too-large"),
                      ReadContentLength(reply)>>)
  ELSE ReadUntilClose(reply)

-----------------------------------------------------------------------------
(* Results, and what the lifecycle makes of them. *)

NoResponse == [present |-> FALSE, status |-> 0, complete |-> FALSE]
ResponseEvidence(reply) == [present |-> TRUE, status |-> reply.status, complete |-> TRUE]
EmptyResponseFromHead(reply) == [present |-> TRUE, status |-> reply.status, complete |-> FALSE]

NoError == [code |-> "none", retryable |-> FALSE]

Outcome(e) ==
  IF e.response.present THEN "response" ELSE IF e.left THEN "unknown_outcome" ELSE "not_sent"

\* What AttemptResult refuses to represent.
ResultIsValid(e) ==
  /\ Outcome(e) = "not_sent" => ~e.left
  /\ Outcome(e) = "unknown_outcome" => e.left
  /\ Outcome(e) = "response" <=> e.response.present

ClassifyDialError(dial) ==
  IF dial.code = "connect-timeout" THEN "connect_timeout"
  ELSE IF dial.code \in {"tls-failed", "tls-configuration-failed"} THEN "tls_error"
  ELSE "connection_error"

\* A rejection by the destination policy is no PinnedDialError: it falls into
\* the catch-all clause, which calls it retryable.
DialFailure(dial) ==
  [code |-> ClassifyDialError(dial),
   retryable |-> dial.retryable \/ dial.code = "policy-rejected"]

BodyError(kind) ==
  CASE kind = "timeout" -> [code |-> "read_timeout", retryable |-> TRUE]
    [] kind = "too-large" -> [code |-> "response_too_large", retryable |-> FALSE]
    [] kind = "protocol" -> [code |-> "protocol_error", retryable |-> FALSE]
    [] kind = "connection" -> [code |-> "connection_error", retryable |-> TRUE]

\* The terminal state; a durable send phase outranks a result that says nothing
\* was sent, and a response without its whole body proves nothing.
TerminalReduction(e) ==
  IF Outcome(e) = "not_sent"
    THEN IF e.durable \in {"sending", "awaiting_response"} THEN "unknown_outcome" ELSE "not_sent"
  ELSE IF Outcome(e) = "unknown_outcome" \/ ~e.response.complete THEN "unknown_outcome"
  ELSE IF e.error # NoError THEN "transport_failed"
  ELSE IF e.response.status \in 200 .. 299 THEN "succeeded"
  ELSE "rejected"

Classification(terminal) ==
  CASE terminal = "unknown_outcome" -> "ambiguous"
    [] terminal \in {"not_sent", "transport_failed"} -> "environment_failure"
    [] terminal = "succeeded" -> "receiver_accepted"
    [] terminal = "rejected" -> "receiver_rejected"

TimeoutCodes == {"connect_timeout", "pool_timeout", "read_timeout", "total_timeout", "write_timeout"}

RetryPredicate(e, terminal, retryableStatuses) ==
  CASE Classification(terminal) = "receiver_rejected"
       /\ e.response.status \in retryableStatuses -> "retryable_status"
    [] Classification(terminal) = "environment_failure" /\ e.error.code \in TimeoutCodes ->
         "timed_out"
    [] Classification(terminal) = "environment_failure" /\ e.error.code \notin TimeoutCodes
       /\ e.error.retryable -> "connection_failed"
    [] OTHER -> "none"

\* Mutant of EvidenceState: an attempt that was never sent may have timed out.
EvidenceStateOfTimeout(e, terminal) ==
  CASE terminal = "succeeded" -> "acknowledged"
    [] terminal = "rejected" -> "rejected"
    [] terminal = "unknown_outcome" -> "unknown_outcome"
    [] terminal \in {"not_sent", "transport_failed"} /\ e.error.code \in TimeoutCodes ->
         "timed_out"
    [] terminal \in {"not_sent", "transport_failed"} /\ e.error.code = "protocol_error" ->
         "protocol_failed"
    [] OTHER -> "connection_failed"

\* The state named in the evidence row beside the terminal state.
EvidenceState(e, terminal) ==
  CASE terminal = "succeeded" -> "acknowledged"
    [] terminal = "rejected" -> "rejected"
    [] terminal = "unknown_outcome" -> "unknown_outcome"
    [] terminal = "transport_failed" /\ e.error.code \in TimeoutCodes -> "timed_out"
    [] terminal \in {"not_sent", "transport_failed"} /\ e.error.code = "protocol_error" ->
         "protocol_failed"
    [] OTHER -> "connection_failed"

-----------------------------------------------------------------------------
(* Steps. *)

Waiting ==
  [pc |-> "waiting", slot |-> FALSE, durable |-> "claimed", left |-> FALSE, sent |-> "none",
   pin |-> NoAddress, peer |-> NoPeer, allowed |-> {}, headers |-> FALSE,
   response |-> NoResponse, error |-> NoError, predicate |-> "none", evidence |-> "none"]

ExecutorInit == attempt = [a \in Attempts |-> Waiting]

SlotsInUse == Cardinality({a \in Attempts : attempt[a].slot})

Step(a, e) == attempt' = [attempt EXCEPT ![a] = e]

\* The result is known: the connection is closed under its shield, the slot
\* released, and the durable phase is read again before the reduction.
Finished(e, error) == [e EXCEPT !.pc = "finished", !.slot = FALSE, !.error = error]

\* The pre-send phase is durable before the executor looks at the command.
StartAttempt(a, command) ==
  /\ attempt[a].pc = "waiting"
  /\ Step(a, [attempt[a] EXCEPT
                !.durable = "pre_send_committed",
                !.pc = IF BuildWireRequest(command) = "ok" THEN "pool" ELSE "raised"])

\* A slot is acquired and the connecting phase is made durable.
AcquireSlot(a, poolSize) ==
  /\ attempt[a].pc = "pool"
  /\ SlotsInUse < poolSize
  /\ Step(a, [attempt[a] EXCEPT !.slot = TRUE, !.durable = "connecting", !.pc = "dial"])

PoolTimeout(a, poolSize) ==
  /\ attempt[a].pc = "pool"
  /\ SlotsInUse = poolSize
  /\ Step(a, Finished(attempt[a], [code |-> "pool_timeout", retryable |-> TRUE]))

DialPeer(a, policy, answer, link) ==
  LET dial == Dial(policy, answer, link)
  IN
  /\ attempt[a].pc = "dial"
  /\ Step(a, IF dial.code = "ok"
               THEN [attempt[a] EXCEPT !.pc = "connected", !.pin = dial.pin,
                                       !.peer = dial.peer, !.allowed = dial.allowed]
               ELSE Finished(attempt[a], DialFailure(dial)))

\* The sending phase is durable; no byte has left.
SendStarted(a) ==
  /\ attempt[a].pc = "connected"
  /\ Step(a, [attempt[a] EXCEPT !.durable = "sending", !.pc = "write"])

\* Head and body, whole.
WriteRequest(a) ==
  /\ attempt[a].pc = "write"
  /\ Step(a, [attempt[a] EXCEPT !.left = TRUE, !.sent = "all", !.pc = "written"])

\* The write times out or the connection fails, wherever in the request.
WriteFails(a, code, sent) ==
  /\ attempt[a].pc = "write"
  /\ Step(a, Finished([attempt[a] EXCEPT !.left = TRUE, !.sent = sent],
                      [code |-> code, retryable |-> TRUE]))

AwaitingResponse(a) ==
  /\ attempt[a].pc = "written"
  /\ Step(a, [attempt[a] EXCEPT !.durable = "awaiting_response", !.pc = "read"])

\* The journal refuses a checkpoint: the executor raises with the connection
\* closed and the slot released, and the attempt stays in its durable phase.
CheckpointFails(a, poolSize) ==
  /\ attempt[a].pc \in {"pool", "connected", "written"}
  /\ attempt[a].pc = "pool" => SlotsInUse < poolSize
  /\ Step(a, [attempt[a] EXCEPT !.pc = "raised", !.slot = FALSE])

HeadFails(a, kind) ==
  /\ attempt[a].pc = "read"
  /\ kind \in {"timeout", "protocol", "connection"}
  /\ Step(a, Finished(attempt[a], BodyError(kind)))

\* The time of the head is part of the result from here on.
ReadHead(a, reply) ==
  /\ attempt[a].pc = "read"
  /\ Step(a, IF ReadFinalResponseHead(reply) = "ok"
               THEN [attempt[a] EXCEPT !.pc = "body", !.headers = TRUE]
               ELSE Finished(attempt[a], BodyError(ReadFinalResponseHead(reply))))

\* Mutant of ReadBody: whatever arrived of the body is taken for all of it.
ReadBodyHead(a, reply) ==
  /\ attempt[a].pc = "body"
  /\ Step(a, Finished([attempt[a] EXCEPT !.response = ResponseEvidence(reply)], NoError))

ReadBody(a, reply) ==
  /\ attempt[a].pc = "body"
  /\ Step(a, IF ReadResponseBody(reply) = "ok"
               THEN Finished([attempt[a] EXCEPT !.response = ResponseEvidence(reply)], NoError)
               ELSE Finished([attempt[a] EXCEPT !.response = EmptyResponseFromHead(reply)],
                             BodyError(ReadResponseBody(reply))))

\* The deadline of the whole attempt strikes at an await: before the write, when
\* the sending phase is durable but nothing is marked as sent, inside it, or while
\* the connection is closed, when it replaces the result of a complete response.
TotalTimeout(a) ==
  /\ \/ attempt[a].pc \in {"pool", "dial", "connected", "write", "written", "read", "body"}
     \/ /\ attempt[a].pc = "finished" /\ attempt[a].durable # "response_observed"
        /\ attempt[a].error.code # "total_timeout"
  /\ \E cut \in IF attempt[a].pc = "write"
                  THEN {<<FALSE, "none">>, <<TRUE, "none">>, <<TRUE, "part">>, <<TRUE, "all">>}
                  ELSE {<<attempt[a].left, attempt[a].sent>>} :
       Step(a, Finished([attempt[a] EXCEPT !.left = cut[1], !.sent = cut[2]],
                        [code |-> "total_timeout", retryable |-> TRUE]))
=============================================================================
