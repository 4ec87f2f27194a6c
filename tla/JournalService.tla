--------------------------- MODULE JournalService ---------------------------
(***************************************************************************)
(* The writer of an opened journal (journal/service.py): callers of one    *)
(* process submit operations to a bounded queue, one task runs them, each  *)
(* in a transaction of its own, and closing or cancelling the service      *)
(* refuses what is left.  Tasks interleave only where the code awaits: an  *)
(* operation runs from BEGIN IMMEDIATE to its answer without one, but its  *)
(* process may be killed, and other processes use the same file.           *)
(*                                                                         *)
(* An operation writes Writes rows and is abstracted to its caller's name; *)
(* any statement of it may fail (a constraint, a limit, an authorizer      *)
(* denial, an awaitable result, a lost transaction).                       *)
(***************************************************************************)
EXTENDS JournalSchema

CONSTANTS
  Caller,     \* tasks that submit one operation each, numbered as they submit
  Home,       \* the process each caller belongs to
  Writes,     \* rows one operation writes
  Capacity    \* queue_capacity

ASSUME ServiceBounds ==
  /\ Caller \subseteq Nat \ {0} /\ Home \in [Caller -> Process]
  /\ Writes \in Nat \ {0} /\ Capacity \in Nat \ {0} /\ Capacity <= 4096

VARIABLES
  service,     \* JournalServiceState of each process, "none" before it is opened
  sendOpen,    \* the send stream is open
  buffer,      \* queued operations
  blocked,     \* senders waiting for room, first come first
  current,     \* the operation the serving task holds, or Idle
  stage,       \* how far the serving task is
  call         \* state of each caller

serviceVars ==
  <<service, sendOpen, buffer, blocked, current, stage, call>>
vars == <<schemaVars, serviceVars>>

\* JournalServiceState, and the steps of the serving task.
Services == {"none", "running", "closing", "closed"}
Stages == {"receive", "write", "commit", "answer", "drain", "close", "done"}

Idle == 0
Answered == {"ok", "failed", "closed"}
Pending == {"blocked", "queued"}

Init ==
  /\ SchemaInit
  /\ service = [p \in Process |-> "none"]
  /\ sendOpen = [p \in Process |-> FALSE]
  /\ buffer = [p \in Process |-> <<>>]
  /\ blocked = [p \in Process |-> <<>>]
  /\ current = [p \in Process |-> Idle]
  /\ stage = [p \in Process |-> "receive"]
  /\ call = [c \in Caller |-> "new"]

\* The writer policy holds (validate_writer_connection) and the task group starts
\* the serving task.
Managed(p) ==
  /\ at[p] = "opened" /\ service[p] = "none"
  /\ service' = [service EXCEPT ![p] = "running"]
  /\ sendOpen' = [sendOpen EXCEPT ![p] = TRUE]
  /\ UNCHANGED <<schemaVars, buffer, blocked, current, stage, call>>

\* No other task of the process runs while an operation does.
InOperation(p) == stage[p] \in {"write", "commit", "answer"}

----------------------------------------------------------------------------
\* Callers

Answer(c, what) == [call EXCEPT ![c] = what]

\* execute: a service that no longer runs, or whose stream is closed, refuses; a
\* waiting receiver is handed the operation, a buffer with room takes it, else
\* the shielded sender waits.
Execute(c) ==
  LET p == Home[c] IN
  /\ call[c] = "new" /\ service[p] # "none" /\ ~InOperation(p)
  /\ \A d \in Caller : d < c => call[d] # "new"
  /\ \/ /\ service[p] # "running" \/ ~sendOpen[p]
        /\ call' = Answer(c, "closed")
        /\ UNCHANGED <<buffer, blocked, current>>
     \/ /\ service[p] = "running" /\ sendOpen[p]
        /\ \/ /\ stage[p] = "receive" /\ current[p] = Idle /\ buffer[p] = <<>>
              /\ current' = [current EXCEPT ![p] = c]
              /\ call' = Answer(c, "queued")
              /\ UNCHANGED <<buffer, blocked>>
           \/ /\ ~(stage[p] = "receive" /\ current[p] = Idle /\ buffer[p] = <<>>)
              /\ Len(buffer[p]) < Capacity
              /\ buffer' = [buffer EXCEPT ![p] = Append(@, c)]
              /\ call' = Answer(c, "queued")
              /\ UNCHANGED <<blocked, current>>
           \/ /\ Len(buffer[p]) >= Capacity
              /\ blocked' = [blocked EXCEPT ![p] = Append(@, c)]
              /\ call' = Answer(c, "blocked")
              /\ UNCHANGED <<buffer, current>>
  /\ UNCHANGED <<schemaVars, service, sendOpen, stage>>

\* aclose stops acceptance and waits for the serving task.
Aclose(p) ==
  /\ service[p] = "running" /\ ~InOperation(p)
  /\ service' = [service EXCEPT ![p] = "closing"]
  /\ sendOpen' = [sendOpen EXCEPT ![p] = FALSE]
  /\ UNCHANGED <<schemaVars, buffer, blocked, current, stage, call>>

----------------------------------------------------------------------------
\* The serving task

\* receive_nowait moves the first waiting sender into the buffer, then takes the
\* oldest operation.
Shifted(p) == IF blocked[p] = <<>> THEN buffer[p] ELSE Append(buffer[p], Head(blocked[p]))
Unblocked(p) == IF blocked[p] = <<>> THEN <<>> ELSE Tail(blocked[p])
Woken(p) == IF blocked[p] = <<>> THEN {} ELSE {Head(blocked[p])}

Receive(p) ==
  /\ service[p] \in {"running", "closing"} /\ stage[p] = "receive" /\ current[p] = Idle
  /\ Shifted(p) # <<>>
  /\ current' = [current EXCEPT ![p] = Head(Shifted(p))]
  /\ buffer' = [buffer EXCEPT ![p] = Tail(Shifted(p))]
  /\ blocked' = [blocked EXCEPT ![p] = Unblocked(p)]
  /\ call' = [c \in Caller |-> IF c \in Woken(p) THEN "queued" ELSE call[c]]
  /\ UNCHANGED <<schemaVars, service, sendOpen, stage>>

Complete(p, what) ==
  /\ call' = Answer(current[p], what)
  /\ current' = [current EXCEPT ![p] = Idle]
  /\ stage' = [stage EXCEPT ![p] = "receive"]

\* An operation received while the service closes is refused unexecuted.
RefuseReceived(p) ==
  /\ stage[p] = "receive" /\ current[p] # Idle /\ service[p] = "closing"
  /\ Complete(p, "closed")
  /\ UNCHANGED <<schemaVars, service, sendOpen, buffer, blocked>>

Stage(p, what) == stage' = [stage EXCEPT ![p] = what]

\* mutant: an open transaction is reused
RunOperationReuse(p) ==
  /\ stage[p] = "receive" /\ current[p] # Idle /\ service[p] = "running"
  /\ writer = p \/ BeginImmediate(p)
  /\ writer = p => UNCHANGED <<writer, txn>>
  /\ Stage(p, "write")
  /\ UNCHANGED <<disk, linked, backups, at, version, next, copy, deaths, original,
                 service, sendOpen, buffer, blocked, current, call>>

RunOperation(p) ==
  /\ stage[p] = "receive" /\ current[p] # Idle /\ service[p] = "running"
  /\ BeginImmediate(p)
  /\ Stage(p, "write")
  /\ UNCHANGED <<disk, linked, backups, at, version, next, copy, deaths, original,
                 service, sendOpen, buffer, blocked, current, call>>

\* BEGIN IMMEDIATE fails: the lock stays with another process past the busy
\* timeout, or this connection is still inside a transaction.
OperationBusy(p) ==
  /\ stage[p] = "receive" /\ current[p] # Idle /\ service[p] = "running"
  /\ writer # Nobody
  /\ Complete(p, "failed")
  /\ UNCHANGED <<schemaVars, service, sendOpen, buffer, blocked>>

ExecuteWrite(p) ==
  /\ stage[p] = "write"
  /\ txn' = [txn EXCEPT !.rows = Append(@, current[p])]
  /\ Stage(p, IF Len(txn'.rows) = Len(disk.rows) + Writes THEN "commit" ELSE "write")
  /\ UNCHANGED <<disk, writer, linked, backups, at, version, next, copy, deaths, original,
                 service, sendOpen, buffer, blocked, current, call>>

CommitOperation(p) ==
  /\ stage[p] = "commit"
  /\ Commit
  /\ Stage(p, "answer")
  /\ UNCHANGED <<linked, backups, at, version, next, copy, deaths, original,
                 service, sendOpen, buffer, blocked, current, call>>

AnswerOperation(p) ==
  /\ stage[p] = "answer"
  /\ Complete(p, "ok")
  /\ UNCHANGED <<schemaVars, service, sendOpen, buffer, blocked>>

\* Anything raised before COMMIT returns is answered after a rollback; when that
\* fails too, the connection stays inside the transaction.
OperationFails(p) ==
  /\ stage[p] \in {"write", "commit"}
  /\ \/ Rollback
     \/ UNCHANGED <<disk, txn, writer>>
  /\ Complete(p, "failed")
  /\ UNCHANGED <<linked, backups, at, version, next, copy, deaths, original,
                 service, sendOpen, buffer, blocked>>

----------------------------------------------------------------------------
\* The end of the serving task

\* The stream ends once it is closed and empty; a cancelled scope ends the task
\* at its next receive, while the service still counts as running.
EndOfStream(p) ==
  /\ stage[p] = "receive" /\ current[p] = Idle
  /\ service[p] = "closing" /\ Shifted(p) = <<>>
  /\ Stage(p, "drain")
  /\ UNCHANGED <<schemaVars, service, sendOpen, buffer, blocked, current, call>>

CancelServe(p) ==
  /\ stage[p] = "receive" /\ current[p] = Idle
  /\ service[p] \in {"running", "closing"}
  /\ Stage(p, "drain")
  /\ sendOpen' = [sendOpen EXCEPT ![p] = FALSE]
  /\ UNCHANGED <<schemaVars, service, buffer, blocked, current, call>>

Left(p) == {buffer[p][i] : i \in DOMAIN buffer[p]} \cup {blocked[p][i] : i \in DOMAIN blocked[p]}

\* mutant: only the operations already buffered are refused
RejectBufferedOnly(p) ==
  /\ stage[p] = "drain"
  /\ LET left == {buffer[p][i] : i \in DOMAIN buffer[p]} IN
     call' = [c \in Caller |-> IF c \in left THEN "closed" ELSE call[c]]
  /\ buffer' = [buffer EXCEPT ![p] = <<>>]
  /\ Stage(p, "close")
  /\ UNCHANGED <<schemaVars, service, sendOpen, blocked, current>>

\* _reject_buffered_operations also drains the senders that still wait.
RejectBuffered(p) ==
  /\ stage[p] = "drain"
  /\ call' = [c \in Caller |-> IF c \in Left(p) THEN "closed" ELSE call[c]]
  /\ buffer' = [buffer EXCEPT ![p] = <<>>]
  /\ blocked' = [blocked EXCEPT ![p] = <<>>]
  /\ Stage(p, "close")
  /\ UNCHANGED <<schemaVars, service, sendOpen, current>>

\* Closing the connection rolls back whatever it still holds.
CloseConnection(p) ==
  /\ stage[p] = "close"
  /\ service' = [service EXCEPT ![p] = "closed"]
  /\ Stage(p, "done")
  /\ IF writer = p THEN Rollback ELSE UNCHANGED <<disk, txn, writer>>
  /\ UNCHANGED <<linked, backups, at, version, next, copy, deaths, original,
                 sendOpen, buffer, blocked, current, call>>

----------------------------------------------------------------------------
\* A process is killed: its transaction, its queue and its callers are gone, and
\* another one may be started in its place.
Die(p) ==
  /\ deaths < MaxDeaths /\ at[p] \notin {"start", "refused"} /\ service[p] # "closed"
  /\ deaths' = deaths + 1
  /\ Go(p, "start")
  /\ IF writer = p THEN Rollback ELSE UNCHANGED <<disk, txn, writer>>
  /\ service' = [service EXCEPT ![p] = "none"]
  /\ sendOpen' = [sendOpen EXCEPT ![p] = FALSE]
  /\ buffer' = [buffer EXCEPT ![p] = <<>>]
  /\ blocked' = [blocked EXCEPT ![p] = <<>>]
  /\ current' = [current EXCEPT ![p] = Idle]
  /\ stage' = [stage EXCEPT ![p] = "receive"]
  /\ call' = [c \in Caller |-> IF Home[c] = p /\ call[c] \in Pending THEN "gone" ELSE call[c]]
  /\ Forget(p)
  /\ UNCHANGED <<linked, backups, original>>

ServeStep(p) ==
  \/ Receive(p) \/ RefuseReceived(p) \/ RunOperation(p) \/ OperationBusy(p)
  \/ ExecuteWrite(p) \/ CommitOperation(p) \/ AnswerOperation(p) \/ OperationFails(p)
  \/ EndOfStream(p) \/ RejectBuffered(p) \/ CloseConnection(p)

ProcessStep(p) ==
  \/ (OpenStep(p) \/ Retry(p)) /\ UNCHANGED serviceVars
  \/ Managed(p) \/ Aclose(p) \/ CancelServe(p) \/ Die(p)
  \/ ServeStep(p)

Next ==
  \/ Link /\ UNCHANGED serviceVars
  \/ \E p \in Process : ProcessStep(p)
  \/ \E c \in Caller : Execute(c)

Spec == Init /\ [][Next]_vars

----------------------------------------------------------------------------
RowsOf(c) == {i \in DOMAIN disk.rows : disk.rows[i] = c}

\* What a caller is told is what the journal holds: an operation answered "ok" is
\* there whole and once, one answered with an error or refused left nothing, and
\* no operation is ever there in part or split by another's rows, whatever fails
\* and whoever dies (_run_operation, _rollback_after_failure, _serve).
AnswersMatchJournal ==
  \A c \in Caller :
    /\ \/ RowsOf(c) = {}
       \/ \E lo \in 0 .. Len(disk.rows) : RowsOf(c) = lo + 1 .. lo + Writes
    /\ call[c] = "ok" => RowsOf(c) # {}
    /\ call[c] \in {"new", "failed", "closed"} => RowsOf(c) = {}

\* Where the service of p holds the operation of c.
Holds(p, c) ==
  {<<"buffer", i>> : i \in {i \in DOMAIN buffer[p] : buffer[p][i] = c}}
  \cup {<<"blocked", i>> : i \in {i \in DOMAIN blocked[p] : blocked[p][i] = c}}
  \cup IF current[p] = c THEN {<<"current", 0>>} ELSE {}

\* No caller is left waiting inside its shielded scope: an operation without an
\* answer is in the hands of a service that is not closed, in one place, and a
\* sender waits only while the queue is full, so that the next receive wakes it
\* (execute, aclose, _serve, _reject_buffered_operations).
PendingIsHeld ==
  /\ \A c \in Caller :
       IF call[c] \in Pending THEN \E place \in Holds(Home[c], c) : Holds(Home[c], c) = {place}
       ELSE Holds(Home[c], c) = {}
  /\ \A p \in Process :
       /\ service[p] \in {"none", "closed"} => \A c \in Caller : Holds(p, c) = {}
       /\ blocked[p] # <<>> => Len(buffer[p]) = Capacity
=============================================================================
