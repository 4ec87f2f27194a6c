-------------------------- MODULE ObserverProtocol --------------------------
(***************************************************************************)
(* The observer protocol (observers/protocol.py): what an observer         *)
(* declares, what it may answer, and which answers the harness accepts.    *)
(* Keys, types and values of evidence are abstracted to whether they cover *)
(* the request and to how they compare with what an assertion expects.     *)
(***************************************************************************)
EXTENDS Integers, Sequences

Evidence == {"match", "mismatch", "unusable", "uncomparable", "invalid"}

\* covers: every requested key and type is declared; fits: the request stays
\* within max_queries; safe: read-only and idempotent; pending: may say so.
Capabilities == [covers : BOOLEAN, fits : BOOLEAN, safe : BOOLEAN, pending : BOOLEAN]

NoResponse == [status |-> "none", ev |-> "none", retry |-> FALSE]

\* An answer as it arrives: whether it repeats the request identity, whether its
\* fields fit its status, the capabilities it declares, and its evidence.
Answers(declared) ==
  [correlated : BOOLEAN, coherent : BOOLEAN, declares : declared,
   status : {"ok"}, gives : {"requested", "extra", "missing", "mistyped"},
   ev : Evidence, sensitive : BOOLEAN, retry : {FALSE}]
  \cup
  [correlated : BOOLEAN, coherent : BOOLEAN, declares : declared,
   status : {"pending", "unsupported", "error"}, gives : {"nothing"},
   ev : {"none"}, sensitive : {FALSE}, retry : BOOLEAN]

Negotiated(c) == c.covers /\ c.fits

AutomaticPollingAllowed(c) == Negotiated(c) /\ c.safe /\ c.pending

AutomaticRetryAllowed(c, response) ==
  c.safe /\ response.status = "error" /\ response.retry

\* The status and the other fields of an answer belong together.
CoherentShape(answer) ==
  /\ answer.coherent
  /\ answer.retry => answer.status = "error"

\* Whether the harness accepts an answer to an observe request.
ValidForRequest(answer) ==
  /\ CoherentShape(answer)
  /\ answer.correlated
  /\ Negotiated(answer.declares) \/ answer.status = "unsupported"
  /\ answer.status = "pending" => answer.declares.pending
  /\ answer.status = "ok" => answer.gives = "requested"

-----------------------------------------------------------------------------
(* The two transports of a request, by what becomes of it: "answer", or an *)
(* exception with its category and whether another invocation may help.    *)

Answered == [category |-> "answer", retryable |-> FALSE]
Raises(category, retryable) == [category |-> category, retryable |-> retryable]

\* An HTTP exchange: whether the token makes a header, the executor's error, else
\* the status, whether the body came whole, its media type, and its validity.
HttpExchanges ==
  [credential : BOOLEAN,
   code : {"none", "read_timeout", "response_too_large", "connection_error"},
   status : {200, 302, 401, 500}, whole : BOOLEAN, json : BOOLEAN, valid : BOOLEAN]

HttpProbeInvoke(x) ==
  IF ~x.credential THEN Raises("observer_auth_error", FALSE)
  ELSE IF x.code = "read_timeout" THEN Raises("observer_timeout", TRUE)
  ELSE IF x.code = "response_too_large" THEN Raises("resource_limit", FALSE)
  ELSE IF x.code # "none" THEN Raises("observer_http_error", TRUE)
  ELSE IF x.status \in {401, 403} THEN Raises("observer_auth_error", FALSE)
  ELSE IF x.status \notin 200 .. 299 THEN Raises("observer_http_error", FALSE)
  ELSE IF ~x.whole THEN Raises("resource_limit", FALSE)
  ELSE IF ~(x.json /\ x.valid) THEN Raises("observer_protocol_error", FALSE)
  ELSE Answered

\* The three pipes of a process, read and written at once: too much output of either
\* is told before a pipe that the process closed early.
CommunicateBounded(x) ==
  IF x.output = "excessive" THEN Raises("resource_limit", FALSE)
  ELSE IF x.output = "broken_pipe" THEN Raises("observer_process_error", FALSE)
  ELSE Answered

\* A process run: whether the executable is still the prepared one, whether it
\* starts and ends in time, what it writes, its exit code, and the validity.
CommandRuns ==
  [pinned : BOOLEAN, starts : BOOLEAN, timely : BOOLEAN,
   output : {"response", "nothing", "excessive", "broken_pipe"}, code : {0, 1}, valid : BOOLEAN]

CommandInvoke(x) ==
  IF ~x.pinned THEN Raises("configuration_error", FALSE)
  ELSE IF ~x.starts THEN Raises("observer_process_error", FALSE)
  ELSE IF ~x.timely THEN Raises("observer_timeout", TRUE)
  ELSE IF CommunicateBounded(x) # Answered THEN CommunicateBounded(x)
  ELSE IF x.code # 0 \/ x.output = "nothing" THEN Raises("observer_process_error", FALSE)
  ELSE IF ~x.valid THEN Raises("observer_protocol_error", FALSE)
  ELSE Answered

InvocationErrors ==
  ({HttpProbeInvoke(x) : x \in HttpExchanges} \cup {CommandInvoke(x) : x \in CommandRuns})
    \ {Answered}

-----------------------------------------------------------------------------
(* Accepted answers and their durable form.                                *)

ResponseOf(answer) == [status |-> answer.status, ev |-> answer.ev, retry |-> answer.retry]

\* The durable projection of an answer: sensitive evidence is not persisted, and a
\* coherent "ok" carries the revision of the snapshot it was read from.
RecordOf(answer) ==
  [status |-> answer.status, category |-> "observer",
   snapshot |-> answer.coherent /\ answer.status = "ok",
   ev |-> IF answer.sensitive THEN "none" ELSE answer.ev]

ErrorRecord(category) ==
  [status |-> "error", category |-> category, snapshot |-> FALSE, ev |-> "none"]
TimeoutRecord(category) ==
  [status |-> "timeout", category |-> category, snapshot |-> FALSE, ev |-> "none"]
UnsupportedRecord ==
  [status |-> "unsupported", category |-> "observer", snapshot |-> FALSE, ev |-> "none"]
=============================================================================
