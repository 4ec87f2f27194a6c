---------------------------- MODULE DeliveryRun ----------------------------
(***************************************************************************)
(* One run of the harness: the journal's attempts, deliveries and schedule *)
(* (journal/), the workers that send requests (runtime/runner.py,          *)
(* runtime/attempts.py, http/executor.py) and the processes that resume    *)
(* the run after a crash (runtime/resume.py, recovery/, journal/resume.py).*)
(*                                                                         *)
(* A process is named by the owner epoch it runs under.  Every action that *)
(* changes a journal variable is one SQLite transaction: transactions of   *)
(* the single-writer service are serialised and atomic.  Memory of a       *)
(* process (mode, policy, scanned, pc, now) is lost when it stops.         *)
(*                                                                         *)
(* Left out: identities, timestamps, evidence payloads and digests; the    *)
(* phase column, which is a function of the live attempt state; scenarios, *)
(* observations and assertions; concurrency groups, which only restrict    *)
(* how the workers of one batch interleave.                                *)
(***************************************************************************)
EXTENDS Integers, JournalTables, TransitionGuards

CONSTANTS
  Deliveries,     \* the deliveries of the compiled manifest
  PlanLength,     \* PlanLength[d]: number of attempt templates of delivery d
  ConditionalOn,  \* ConditionalOn[a]: retry predicates of template a
  NotBefore,      \* NotBefore[a]: logical due time of template a
  MaxEpoch,       \* bound: processes that ever own the run
  Overlap         \* TRUE: a process may be taken over while it still runs

Predicates == {"timed_out", "connection_failed", "retryable_status"}

\* A physical attempt is named by its delivery and ordinal: attempts has
\* UNIQUE (delivery_id, ordinal).
Attempts == UNION {{d} \X (1 .. PlanLength[d]) : d \in Deliveries}
Epochs == 1 .. MaxEpoch
Succ(a) == <<a[1], a[2] + 1>>
Pred(a) == <<a[1], a[2] - 1>>

\* scheduler/retries.py and manifest validation: at most 32 templates, due times
\* that never decrease along the plan of a delivery.
ASSUME PlanAssumption ==
  /\ PlanLength \in [Deliveries -> 1 .. 32]
  /\ ConditionalOn \in [Attempts -> SUBSET Predicates]
  /\ NotBefore \in [Attempts -> Nat]
  /\ \A a \in Attempts : Succ(a) \in Attempts => NotBefore[a] <= NotBefore[Succ(a)]

ASSUME BoundAssumption == MaxEpoch \in Nat \ {0} /\ Overlap \in BOOLEAN

VARIABLES
  epoch,        \* runs.owner_epoch
  run,          \* runs.state
  delivery,     \* deliveries.state
  attempt,      \* attempts.state, "none" when the row does not exist
  owner,        \* attempts.owner_epoch, 0 when there is no row
  staged,       \* attempt_response_staging: the outcome a response determined
  entry,        \* schedule_entries: "none", "pending" or "consumed"
  consumedBy,   \* schedule_entries.consumed_by_owner_epoch, 0 when unconsumed
  redelivered,  \* recovery_decisions of kind redelivery_created, by attempt
  preflight,    \* the resume between its read-only preflight and its run lock
  mode,         \* what each process is doing
  policy,       \* the --on-ambiguous choice each process was started with
  scanned,      \* the scanner's plan: attempt states read and not yet handled
  pc,           \* position of each worker of each process
  now,          \* logical_now_ns of each process
  wire          \* history: how often request bytes of an attempt left

journal == <<epoch, run, delivery, attempt, owner, staged, entry, consumedBy,
             redelivered>>
memory == <<mode, policy, scanned, pc, now>>
vars == <<journal, preflight, memory, wire>>

NoStaging == [terminal |-> "none", retry |-> FALSE]
Outcomes == [terminal : {"none"} \cup AttemptTerminal, retry : BOOLEAN]
Modes == {"none", "owner", "applying", "continuing", "running", "stopped"}
Policies == {"none", "stop", "operator", "redeliver"}
NoResume == [policy |-> "none", run |-> "none"]
Resumes == [policy : Policies, run : {"none"} \cup (RunStates \ RunTerminal)]
Positions == {"idle", "due", "leased", "prepared", "connecting", "sending",
              "sent", "awaiting", "observed", "reduced"}

\* Every variable holds a value of its column or in-memory type.
TypeOK ==
  /\ epoch \in Epochs
  /\ run \in RunStates
  /\ delivery \in [Deliveries -> DeliveryStates]
  /\ attempt \in [Attempts -> {"none"} \cup AttemptStates]
  /\ owner \in [Attempts -> 0 .. MaxEpoch]
  /\ staged \in [Attempts -> Outcomes]
  /\ entry \in [Attempts -> {"none", "pending", "consumed"}]
  /\ consumedBy \in [Attempts -> 0 .. MaxEpoch]
  /\ redelivered \in SUBSET Attempts
  /\ preflight \in Resumes
  /\ mode \in [Epochs -> Modes]
  /\ policy \in [Epochs -> Policies]
  /\ scanned \in [Epochs -> [Attempts -> {"none"} \cup AttemptStates]]
  /\ pc \in [Epochs -> [Attempts -> Positions]]
  /\ now \in [Epochs -> Nat]
  /\ wire \in [Attempts -> Nat]

-----------------------------------------------------------------------------
(* Queries of the journal.                                                 *)

HasSuccessor(a) == Succ(a) \in Attempts /\ attempt[Succ(a)] # "none"

\* The pending-schedule query: not consumed, or consumed under the owner epoch
\* of the run by a claim that went no further.
Pending ==
  {a \in Attempts :
     \/ entry[a] = "pending"
     \/ entry[a] = "consumed" /\ attempt[a] = "claimed" /\ consumedBy[a] = epoch}

\* Read-only preflight of a resume, before any ownership is taken.
PreflightAmbiguous ==
  {a \in Attempts :
     /\ attempt[a] \in {"connecting", "sending", "awaiting_response", "unknown_outcome"}
     /\ ~HasSuccessor(a)}

\* Ambiguous leaves of a recovery plan once it is applied.
Ambiguous == {a \in Attempts : attempt[a] = "unknown_outcome" /\ ~HasSuccessor(a)}

\* Retry decision: the next template exists and names the predicate.
RetryScheduled(a, predicate) ==
  Succ(a) \in Attempts /\ predicate \in ConditionalOn[Succ(a)]

DeliveryStateFor(outcome) ==
  CASE outcome = "succeeded" -> "satisfied"
    [] outcome = "unknown_outcome" -> "ambiguous"
    [] outcome = "cancelled" -> "cancelled"
    [] OTHER -> "exhausted"

\* A delivery the runner has a verdict for.
Settled(d) ==
  \/ delivery[d] \in DeliveryTerminal
  \/ delivery[d] = "active" /\ \E a \in Ambiguous : a[1] = d

Idle(e) == \A a \in Attempts : pc[e][a] = "idle"

\* The owner fence of every transaction: the run still has the epoch of the caller.
Owns(e) == epoch = e

\* A process that ends takes its memory with it.
Stop(e) ==
  /\ mode' = [mode EXCEPT ![e] = "stopped"]
  /\ policy' = [policy EXCEPT ![e] = "none"]
  /\ scanned' = [scanned EXCEPT ![e] = [a \in Attempts |-> "none"]]
  /\ pc' = [pc EXCEPT ![e] = [a \in Attempts |-> "idle"]]
  /\ now' = [now EXCEPT ![e] = 0]

Init ==
  /\ epoch = 1
  /\ run = "planned"
  /\ delivery = [d \in Deliveries |-> "pending"]
  /\ attempt = [a \in Attempts |-> "none"]
  /\ owner = [a \in Attempts |-> 0]
  /\ staged = [a \in Attempts |-> NoStaging]
  /\ entry = [a \in Attempts |-> IF a[2] = 1 THEN "pending" ELSE "none"]
  /\ consumedBy = [a \in Attempts |-> 0]
  /\ redelivered = {}
  /\ preflight = NoResume
  /\ mode = [e \in Epochs |-> IF e = 1 THEN "continuing" ELSE "none"]
  /\ policy = [e \in Epochs |-> "none"]
  /\ scanned = [e \in Epochs |-> [a \in Attempts |-> "none"]]
  /\ pc = [e \in Epochs |-> [a \in Attempts |-> "idle"]]
  /\ now = [e \in Epochs |-> 0]
  /\ wire = [a \in Attempts |-> 0]

-----------------------------------------------------------------------------
(* The runner: batches of due schedule entries, one worker per entry.      *)

\* Planned or paused to running, after the checks of ValidateResume.
ActivateRun(e) ==
  /\ mode[e] = "continuing" /\ Owns(e)
  /\ run \in {"planned", "paused", "running"}
  /\ run' = "running"
  /\ mode' = [mode EXCEPT ![e] = "running"]
  /\ UNCHANGED <<epoch, delivery, attempt, owner, staged, entry, consumedBy,
                 redelivered, preflight, policy, scanned, pc, now, wire>>

\* The loop head: read the pending schedule (no fence), advance logical time to
\* the earliest due time and release a worker for every entry due then.  The entries
\* an operator decision blocks are those of ambiguous deliveries, which have none
\* (ConsentedSuccessor).
LoadDue(e) ==
  /\ mode[e] = "running" /\ Idle(e)
  /\ \E first \in Pending :
       /\ \A a \in Pending : NotBefore[first] <= NotBefore[a]
       /\ now[e] <= NotBefore[first]
       /\ now' = [now EXCEPT ![e] = NotBefore[first]]
       /\ pc' = [pc EXCEPT ![e] =
                   [a \in Attempts |->
                      IF a \in Pending /\ NotBefore[a] = NotBefore[first]
                        THEN "due" ELSE "idle"]]
  /\ UNCHANGED <<journal, preflight, mode, policy, scanned, wire>>

\* First attempts move their delivery to active, one transaction per edge.
ActivateDelivery(e, a) ==
  /\ pc[e][a] = "due" /\ a[2] = 1 /\ Owns(e)
  /\ \/ delivery[a[1]] = "pending" /\ delivery' = [delivery EXCEPT ![a[1]] = "eligible"]
     \/ delivery[a[1]] = "eligible" /\ delivery' = [delivery EXCEPT ![a[1]] = "active"]
  /\ UNCHANGED <<epoch, run, attempt, owner, staged, entry, consumedBy, redelivered,
                 preflight, memory, wire>>

\* What the claim transaction requires of an attempt it inserts or finds prepared.
Claimable(e, a) ==
  /\ a[2] > 1 => attempt[Pred(a)] \in RetryPredecessorStates
  /\ attempt[a] = "none" \/ (attempt[a] = "scheduled" /\ owner[a] = e)

\* Mutant of ClaimSchedule: the consumer of the entry is not recorded.
ClaimAnonymously(e, a) ==
  /\ pc[e][a] = "due" /\ Owns(e)
  /\ a[2] = 1 => delivery[a[1]] = "active"
  /\ entry[a] = "pending" /\ Claimable(e, a)
  /\ entry' = [entry EXCEPT ![a] = "consumed"]
  /\ attempt' = [attempt EXCEPT ![a] = "claimed"]
  /\ owner' = [owner EXCEPT ![a] = e]
  /\ pc' = [pc EXCEPT ![e][a] = "leased"]
  /\ UNCHANGED <<epoch, run, delivery, staged, consumedBy, redelivered, preflight,
                 mode, policy, scanned, now, wire>>

\* Consume the schedule entry and create or promote its attempt, atomically.
ClaimSchedule(e, a) ==
  /\ pc[e][a] = "due" /\ Owns(e)
  /\ a[2] = 1 => delivery[a[1]] = "active"
  /\ entry[a] = "pending" /\ Claimable(e, a)
  /\ entry' = [entry EXCEPT ![a] = "consumed"]
  /\ consumedBy' = [consumedBy EXCEPT ![a] = e]
  /\ attempt' = [attempt EXCEPT ![a] = "claimed"]
  /\ owner' = [owner EXCEPT ![a] = e]
  /\ pc' = [pc EXCEPT ![e][a] = "leased"]
  /\ UNCHANGED <<epoch, run, delivery, staged, redelivered, preflight, mode, policy,
                 scanned, now, wire>>

\* A rebound claim is replayed: its durable claim transition is verified.
ReplayClaim(e, a) ==
  /\ pc[e][a] = "due" /\ Owns(e)
  /\ a[2] = 1 => delivery[a[1]] = "active"
  /\ entry[a] = "consumed" /\ consumedBy[a] = e /\ owner[a] = e
  /\ pc' = [pc EXCEPT ![e][a] = "leased"]
  /\ UNCHANGED <<journal, preflight, mode, policy, scanned, now, wire>>

\* Mutant of Phase: the transaction does not check the owner epoch.
PhaseUnfenced(e, a, here, source, target, there) ==
  /\ pc[e][a] = here
  /\ attempt[a] = source
  /\ attempt' = [attempt EXCEPT ![a] = target]
  /\ pc' = [pc EXCEPT ![e][a] = there]
  /\ UNCHANGED <<epoch, run, delivery, owner, staged, entry, consumedBy, redelivered,
                 preflight, mode, policy, scanned, now, wire>>

\* One phase transaction of an attempt: owner fence and compare-and-swap.
Phase(e, a, here, source, target, there) ==
  /\ pc[e][a] = here /\ Owns(e)
  /\ attempt[a] = source
  /\ attempt' = [attempt EXCEPT ![a] = target]
  /\ pc' = [pc EXCEPT ![e][a] = there]
  /\ UNCHANGED <<epoch, run, delivery, owner, staged, entry, consumedBy, redelivered,
                 preflight, mode, policy, scanned, now, wire>>

CommitPreSend(e, a) == Phase(e, a, "leased", "claimed", "pre_send_committed", "prepared")
ConnectionAttemptStarted(e, a) ==
  Phase(e, a, "prepared", "pre_send_committed", "connecting", "connecting")
RequestSendStarted(e, a) ==
  Phase(e, a, "connecting", "connecting", "sending", "sending")
AwaitingResponse(e, a) ==
  Phase(e, a, "sent", "sending", "awaiting_response", "awaiting")

\* Mutant of Transmit: the request is written before its phase is durable.
TransmitEarly(e, a) ==
  /\ pc[e][a] \in {"connecting", "sending"}
  /\ wire' = [wire EXCEPT ![a] = @ + 1]
  /\ pc' = [pc EXCEPT ![e][a] = "sent"]
  /\ UNCHANGED <<journal, preflight, mode, policy, scanned, now>>

\* The executor marks that bytes may have left and writes the request.
Transmit(e, a) ==
  /\ pc[e][a] = "sending"
  /\ wire' = [wire EXCEPT ![a] = @ + 1]
  /\ pc' = [pc EXCEPT ![e][a] = "sent"]
  /\ UNCHANGED <<journal, preflight, mode, policy, scanned, now>>

\* Mutant of Terminate: the staged response is not consumed.
TerminateKeepsStaging(a, terminal, retry) ==
  /\ attempt' = [attempt EXCEPT ![a] = terminal]
  /\ staged' = staged
  /\ IF retry
       THEN /\ entry[Succ(a)] = "none"
            /\ entry' = [entry EXCEPT ![Succ(a)] = "pending"]
       ELSE entry' = entry

\* The journal part of a terminal transaction: outcome, staging consumed, and the
\* retry schedule of the next template when the decision was to retry.
Terminate(a, terminal, retry) ==
  /\ attempt' = [attempt EXCEPT ![a] = terminal]
  /\ staged' = [staged EXCEPT ![a] = NoStaging]
  /\ IF retry
       THEN /\ entry[Succ(a)] = "none"
            /\ entry' = [entry EXCEPT ![Succ(a)] = "pending"]
       ELSE entry' = entry

\* Mutant of AfterTerminal: a delivery with a retry to come is reduced.
ReduceAlways(terminal, retry) == IF terminal = "unknown_outcome" THEN "idle" ELSE "reduced"

\* After a terminal transaction the worker is done, unless the delivery has to be
\* reduced with it.
AfterTerminal(terminal, retry) ==
  IF retry \/ terminal = "unknown_outcome" THEN "idle" ELSE "reduced"

Conclude(e, a, terminal, retry) ==
  /\ Owns(e)
  /\ Terminate(a, terminal, retry)
  /\ pc' = [pc EXCEPT ![e][a] = AfterTerminal(terminal, retry)]
  /\ UNCHANGED <<epoch, run, delivery, owner, consumedBy, redelivered, preflight, mode,
                 policy, scanned, now, wire>>

\* The executor returns without having marked bytes as sent: pool, dial, TLS or
\* total-timeout failures.  The durable state decides what that proves.
NotSentReasons(position) ==
  IF position = "connecting" THEN {"timed_out", "connection_failed", "none"}
                             ELSE {"timed_out"}

ReturnNotSent(e, a) ==
  \E predicate \in NotSentReasons(pc[e][a]) :
    /\ pc[e][a] \in {"prepared", "connecting", "sending"}
    /\ \/ /\ attempt[a] \in {"pre_send_committed", "connecting"}
          /\ Conclude(e, a, "not_sent", RetryScheduled(a, predicate))
       \/ /\ attempt[a] = "sending"
          /\ Conclude(e, a, "unknown_outcome", FALSE)

\* Mutant of ReturnUnknown: a response timeout is retried like any other timeout.
RetryUnknown(e, a) ==
  /\ pc[e][a] \in {"sent", "awaiting"}
  /\ attempt[a] \in {"sending", "awaiting_response"}
  /\ Conclude(e, a, "unknown_outcome", RetryScheduled(a, "timed_out"))

\* Bytes may have left and there is no complete response: write, header or body
\* failures and timeouts.
ReturnUnknown(e, a) ==
  /\ pc[e][a] \in {"sent", "awaiting"}
  /\ attempt[a] \in {"sending", "awaiting_response"}
  /\ Conclude(e, a, "unknown_outcome", FALSE)

\* A complete response: 2xx, another status that the scenario may call retryable,
\* or a response followed by the total timeout.
CompleteResponses ==
  {<<"succeeded", "none">>, <<"rejected", "none">>, <<"rejected", "retryable_status">>,
   <<"transport_failed", "timed_out">>}

\* Mutant of ResponseObserved: the retry is scheduled with the staging already.
ScheduleWithResponse(e, a) ==
  /\ pc[e][a] = "awaiting" /\ Owns(e) /\ attempt[a] = "awaiting_response"
  /\ \E r \in CompleteResponses :
       /\ staged' = [staged EXCEPT ![a] = [terminal |-> r[1], retry |-> FALSE]]
       /\ entry' = IF RetryScheduled(a, r[2])
                     THEN [entry EXCEPT ![Succ(a)] = "pending"] ELSE entry
  /\ attempt' = [attempt EXCEPT ![a] = "response_observed"]
  /\ pc' = [pc EXCEPT ![e][a] = "observed"]
  /\ UNCHANGED <<epoch, run, delivery, owner, consumedBy, redelivered, preflight, mode,
                 policy, scanned, now, wire>>

\* The response is made durable with the outcome it determines.
ResponseObserved(e, a) ==
  /\ pc[e][a] = "awaiting" /\ Owns(e) /\ attempt[a] = "awaiting_response"
  /\ \E r \in CompleteResponses :
       staged' = [staged EXCEPT ![a] =
                    [terminal |-> r[1], retry |-> RetryScheduled(a, r[2])]]
  /\ attempt' = [attempt EXCEPT ![a] = "response_observed"]
  /\ pc' = [pc EXCEPT ![e][a] = "observed"]
  /\ UNCHANGED <<epoch, run, delivery, owner, entry, consumedBy, redelivered,
                 preflight, mode, policy, scanned, now, wire>>

CommitOutcome(e, a) ==
  /\ pc[e][a] = "observed" /\ attempt[a] = "response_observed"
  /\ Conclude(e, a, staged[a].terminal, staged[a].retry)

\* A delivery without a retry to come is reduced to the state its attempt implies.
TerminalizeDelivery(e, a) ==
  /\ pc[e][a] = "reduced" /\ Owns(e)
  /\ delivery[a[1]] = "active"
  /\ delivery' = [delivery EXCEPT ![a[1]] = DeliveryStateFor(attempt[a])]
  /\ pc' = [pc EXCEPT ![e][a] = "idle"]
  /\ UNCHANGED <<epoch, run, attempt, owner, staged, entry, consumedBy, redelivered,
                 preflight, mode, policy, scanned, now, wire>>

\* The schedule is drained and every delivery has a verdict.  The assertions of an
\* unambiguous scenario, not modelled here, may end in a harness error, which takes
\* precedence over every other category.
FinishRun(e) ==
  /\ mode[e] = "running" /\ Owns(e) /\ Idle(e) /\ Pending = {}
  /\ \A d \in Deliveries : Settled(d)
  /\ run = "running"
  /\ \/ run' = IF Ambiguous = {} THEN "completed" ELSE "paused"
     \/ run' = "failed" /\ \E d \in Deliveries : delivery[d] \in DeliveryTerminal
  /\ Stop(e)
  /\ UNCHANGED <<epoch, delivery, attempt, owner, staged, entry, consumedBy,
                 redelivered, preflight, wire>>

-----------------------------------------------------------------------------
(* Crash, takeover and recovery.                                           *)

Alive(e) == mode[e] \notin {"none", "stopped"}

\* The process dies, is cancelled or stops on an exception, at any point.
Crash(e) ==
  /\ Alive(e)
  /\ Stop(e)
  /\ UNCHANGED <<journal, preflight, wire>>

\* A transaction of a process that no longer owns the run is refused, and the
\* process stops on StaleOwnerEpochError.
FencedOut(e) ==
  /\ Alive(e) /\ ~Owns(e)
  /\ Stop(e)
  /\ UNCHANGED <<journal, preflight, wire>>

\* A resume reads the journal while it owns nothing and the owner may still be at
\* work.  Without an explicit policy an ambiguous run is only reported.  Of several
\* resumes under way, preflight is the one that will have the run lock.
PreflightResume ==
  /\ epoch < MaxEpoch /\ run \notin RunTerminal
  /\ \E p \in Policies :
       /\ p = "none" => PreflightAmbiguous = {}
       /\ preflight' = [policy |-> p, run |-> run]
  /\ UNCHANGED <<journal, memory, wire>>

\* With the run lock held the journal is read again: a run whose state or epoch is
\* another one than before is refused, one that became ambiguous is not.  Then the
\* epoch is advanced.
TakeOver(e) ==
  /\ e = epoch + 1
  /\ Overlap \/ \A f \in Epochs : ~Alive(f)
  /\ preflight.run = run
  /\ policy' = [policy EXCEPT ![e] = preflight.policy]
  /\ preflight' = NoResume
  /\ epoch' = e
  /\ mode' = [mode EXCEPT ![e] = "owner"]
  /\ UNCHANGED <<run, delivery, attempt, owner, staged, entry, consumedBy, redelivered,
                 scanned, pc, now, wire>>

\* The recovery scan reads every attempt in one transaction.
Scan(e) ==
  /\ mode[e] = "owner" /\ Owns(e)
  /\ scanned' = [scanned EXCEPT ![e] = attempt]
  /\ mode' = [mode EXCEPT ![e] = "applying"]
  /\ UNCHANGED <<journal, preflight, policy, pc, now, wire>>

ToRebind(e) == {a \in Attempts : scanned[e][a] \in {"scheduled", "claimed"}}
ToTerminate(e) == {a \in Attempts : scanned[e][a] \in AttemptLive}

\* Mutant of RebindAttempt: only the schedule entry is bound to the new owner.
RebindEntryOnly(e, a) ==
  /\ mode[e] = "applying" /\ Owns(e) /\ a \in ToRebind(e)
  /\ attempt[a] = scanned[e][a]
  /\ \/ attempt[a] = "scheduled" /\ entry[a] = "pending" /\ consumedBy' = consumedBy
     \/ /\ attempt[a] = "claimed" /\ entry[a] = "consumed" /\ consumedBy[a] = owner[a]
        /\ consumedBy' = [consumedBy EXCEPT ![a] = e]
  /\ scanned' = [scanned EXCEPT ![e][a] = "none"]
  /\ UNCHANGED <<epoch, run, delivery, attempt, owner, staged, entry, redelivered,
                 preflight, mode, policy, pc, now, wire>>

\* An attempt that never left the planner is bound to the new owner, and with a
\* claim the schedule entry it consumed.
RebindAttempt(e, a) ==
  /\ mode[e] = "applying" /\ Owns(e) /\ a \in ToRebind(e)
  /\ attempt[a] = scanned[e][a]
  /\ \/ attempt[a] = "scheduled" /\ entry[a] = "pending" /\ consumedBy' = consumedBy
     \/ /\ attempt[a] = "claimed" /\ entry[a] = "consumed" /\ consumedBy[a] = owner[a]
        /\ consumedBy' = [consumedBy EXCEPT ![a] = e]
  /\ owner' = [owner EXCEPT ![a] = e]
  /\ scanned' = [scanned EXCEPT ![e][a] = "none"]
  /\ UNCHANGED <<epoch, run, delivery, attempt, staged, entry, redelivered, preflight,
                 mode, policy, pc, now, wire>>

\* Mutant of RecoveredState: a request whose write only began is called unsent.
RecoverAsUnsent(a, state) ==
  CASE state \in {"pre_send_committed", "sending"} -> "not_sent"
    [] state = "response_observed" -> staged[a].terminal
    [] OTHER -> "unknown_outcome"

\* What the durable phase of an interrupted attempt proves about it.
RecoveredState(a, state) ==
  CASE state = "pre_send_committed" -> "not_sent"
    [] state = "response_observed" -> staged[a].terminal
    [] OTHER -> "unknown_outcome"

\* Automatic classification of an interrupted attempt.  Only a staged response
\* carries a retry decision.
TerminateAttempt(e, a) ==
  /\ mode[e] = "applying" /\ Owns(e) /\ ToRebind(e) = {} /\ a \in ToTerminate(e)
  /\ attempt[a] = scanned[e][a]
  /\ Terminate(a, RecoveredState(a, scanned[e][a]), staged[a].retry)
  /\ scanned' = [scanned EXCEPT ![e][a] = "none"]
  /\ UNCHANGED <<epoch, run, delivery, owner, consumedBy, redelivered, preflight, mode,
                 policy, pc, now, wire>>

Applied(e) == mode[e] = "applying" /\ ToRebind(e) = {} /\ ToTerminate(e) = {}

\* Mutant of Reducible: only successful deliveries are reduced by the recovery.
ReducibleIfSucceeded(a) ==
  /\ delivery[a[1]] = "active"
  /\ attempt[a] = "succeeded"
  /\ \A b \in Attempts : b[1] = a[1] /\ b[2] > a[2] => attempt[b] = "none"
  /\ \A b \in Pending : b[1] # a[1]

\* Deliveries whose last attempt is final and that have nothing left to run.
Reducible(a) ==
  /\ delivery[a[1]] = "active"
  /\ attempt[a] \in AttemptTerminal \ {"unknown_outcome"}
  /\ \A b \in Attempts : b[1] = a[1] /\ b[2] > a[2] => attempt[b] = "none"
  /\ \A b \in Pending : b[1] # a[1]

ReduceDelivery(e, a) ==
  /\ Applied(e) /\ Owns(e) /\ Reducible(a)
  /\ delivery' = [delivery EXCEPT ![a[1]] = DeliveryStateFor(attempt[a])]
  /\ UNCHANGED <<epoch, run, attempt, owner, staged, entry, consumedBy, redelivered,
                 preflight, memory, wire>>

Recovered(e) == Applied(e) /\ Owns(e) /\ \A a \in Attempts : ~Reducible(a)

\* The manifest authorises one more attempt after an ambiguous one.
Redeliverable(a) ==
  /\ Succ(a) \in Attempts /\ attempt[Succ(a)] = "none"
  /\ "timed_out" \in ConditionalOn[Succ(a)]

\* The ambiguous attempts the bundle has a redelivery for; two of one delivery
\* leave it without.
RedeliveryTemplates ==
  {a \in Ambiguous : Redeliverable(a) /\ \A b \in Ambiguous : b[1] = a[1] => b = a}

RedeliveryAuthorized == Ambiguous \subseteq RedeliveryTemplates

\* Mutant of BuildPlan: a resume without a policy relies on its preflight.
BuildPlanTrustsPreflight(p) ==
  IF Ambiguous = {} \/ p = "none" THEN {"continue"}
  ELSE IF p = "operator" THEN {"decided", "stop"}
  ELSE IF p = "redeliver" /\ RedeliveryAuthorized THEN {"redelivery"}
  ELSE {"stop"}

\* What the policy of the invocation makes of the ambiguous attempts.  Operator
\* verdicts may be missing or leave an attempt unknown; observe needs a rule that the
\* bundles of this version never have.
BuildPlan(p) ==
  IF Ambiguous = {} THEN {"continue"}
  ELSE IF p = "operator" THEN {"decided", "stop"}
  ELSE IF p = "redeliver" /\ RedeliveryAuthorized THEN {"redelivery"}
  ELSE {"stop"}

ContinueUnambiguous(e) ==
  /\ Recovered(e) /\ "continue" \in BuildPlan(policy[e])
  /\ mode' = [mode EXCEPT ![e] = "continuing"]
  /\ UNCHANGED <<journal, preflight, policy, scanned, pc, now, wire>>

\* Stop, observe and a redelivery that any ambiguous attempt is not authorised for
\* end the resume without new work.
StopAmbiguous(e) ==
  /\ Recovered(e) /\ "stop" \in BuildPlan(policy[e])
  /\ Stop(e)
  /\ UNCHANGED <<journal, preflight, wire>>

\* Operator verdicts on every ambiguous attempt let the rest of the run go on.
OperatorDecision(e) ==
  /\ Recovered(e) /\ "decided" \in BuildPlan(policy[e])
  /\ mode' = [mode EXCEPT ![e] = "continuing"]
  /\ UNCHANGED <<journal, preflight, policy, scanned, pc, now, wire>>

\* The next planned attempt of every delivery with an ambiguous one.
AuthorizedRedeliveries == {Succ(a) : a \in Ambiguous}

\* Manifest and operator both consent: every ambiguous attempt gets a prepared
\* successor and its schedule entry, in one transaction with the decisions.
Redeliver(e) ==
  /\ Recovered(e) /\ "redelivery" \in BuildPlan(policy[e])
  /\ LET created == AuthorizedRedeliveries IN
       /\ attempt' = [a \in Attempts |-> IF a \in created THEN "scheduled" ELSE attempt[a]]
       /\ owner' = [a \in Attempts |-> IF a \in created THEN e ELSE owner[a]]
       /\ entry' = [a \in Attempts |-> IF a \in created THEN "pending" ELSE entry[a]]
  /\ redelivered' = redelivered \cup Ambiguous
  /\ mode' = [mode EXCEPT ![e] = "continuing"]
  /\ UNCHANGED <<epoch, run, delivery, staged, consumedBy, preflight, policy, scanned,
                 pc, now, wire>>

-----------------------------------------------------------------------------
(* The checks between the recovery and the first step of the runner.  They *)
(* read the journal once more and raise when it is not as expected.        *)

\* The schedule the policy was decided on: not consumed, or consumed by a claim
\* that was bound to this owner.
LoadSchedule(e) ==
  {a \in Attempts :
     \/ entry[a] = "pending"
     \/ /\ entry[a] = "consumed" /\ consumedBy[a] = e
        /\ attempt[a] = "claimed" /\ owner[a] = e}

ValidateResumeSchedule(e) == LoadSchedule(e) = Pending

RejectTerminalTargets == \A a \in Pending : delivery[a[1]] \notin DeliveryTerminal

ResumeActivationPreflight == run \in {"planned", "paused", "running"}

\* Every delivery has a verdict or exactly one attempt to run, on a delivery that
\* can still run and after a predecessor that ended.
ResumeExecutionPreflight ==
  /\ \A a, b \in Pending : a[1] = b[1] => a = b
  /\ \A a \in Pending :
       /\ delivery[a[1]] \in {"pending", "eligible", "active", "ambiguous"}
       /\ attempt[a] \notin AttemptTerminal
       /\ a[2] > 1 => attempt[Pred(a)] \in AttemptTerminal
  /\ \A d \in Deliveries : Settled(d) \/ \E a \in Pending : a[1] = d

\* The assertions of a resumed run are those of AssertionPhase.
ValidateResume(e) ==
  /\ ValidateResumeSchedule(e)
  /\ RejectTerminalTargets
  /\ ResumeActivationPreflight
  /\ ResumeExecutionPreflight

-----------------------------------------------------------------------------
Worker(e, a) ==
  \/ ActivateDelivery(e, a)
  \/ ClaimSchedule(e, a)
  \/ ReplayClaim(e, a)
  \/ CommitPreSend(e, a)
  \/ ConnectionAttemptStarted(e, a)
  \/ RequestSendStarted(e, a)
  \/ Transmit(e, a)
  \/ AwaitingResponse(e, a)
  \/ ReturnNotSent(e, a)
  \/ ReturnUnknown(e, a)
  \/ ResponseObserved(e, a)
  \/ CommitOutcome(e, a)
  \/ TerminalizeDelivery(e, a)

Recovery(e, a) ==
  \/ RebindAttempt(e, a)
  \/ TerminateAttempt(e, a)
  \/ ReduceDelivery(e, a)

\* The steps a process takes by itself while it lives.
Process(e) ==
  \/ ActivateRun(e)
  \/ LoadDue(e)
  \/ FinishRun(e)
  \/ Scan(e)
  \/ ContinueUnambiguous(e)
  \/ StopAmbiguous(e)
  \/ OperatorDecision(e)
  \/ Redeliver(e)
  \/ FencedOut(e)
  \/ \E a \in Attempts : Worker(e, a) \/ Recovery(e, a)

Next ==
  \/ PreflightResume
  \/ \E e \in Epochs : Process(e) \/ TakeOver(e) \/ Crash(e)

Spec == Init /\ [][Next]_vars

\* A live process keeps going: its event loop runs every ready task and every
\* physical step ends by a timeout at the latest.  Nothing makes a process crash
\* or an operator resume.
Fairness == \A e \in Epochs : WF_vars(Process(e))
FairSpec == Spec /\ Fairness

-----------------------------------------------------------------------------
(* Properties.                                                             *)

PossiblySent == {"sending", "awaiting_response", "response_observed", "succeeded",
                 "rejected", "transport_failed", "unknown_outcome"}

\* Request bytes of one attempt leave at most once, and only an attempt whose durable
\* state admits it: whatever crashes, is taken over or recovered, no attempt that the
\* journal calls unsent (or has not yet committed to send) has reached the receiver.
\* The journal-first order of runtime/attempts.py and http/executor.py is for this.
SendAccounting ==
  \A a \in Attempts : wire[a] <= 1 /\ (wire[a] > 0 => attempt[a] \in PossiblySent)

\* Work that follows an attempt exists only when the attempt ended in a definite
\* failure with a retry, or ended ambiguous and a redelivery decision is on record:
\* a possible duplicate is never sent without consent.
ConsentedSuccessor ==
  \A a \in Attempts :
    Succ(a) \in Attempts /\ entry[Succ(a)] # "none" =>
      \/ attempt[a] \in AtomicRetryStates
      \/ attempt[a] = "unknown_outcome" /\ a \in redelivered

Open(a) == entry[a] = "pending" \/ attempt[a] \in {"scheduled", "claimed"} \cup AttemptLive

\* A delivery has at most one attempt that is scheduled, claimed or in flight.
OneOpenAttempt ==
  \A a, b \in Attempts : a[1] = b[1] /\ Open(a) /\ Open(b) => a = b

\* A response is staged exactly while its attempt is response_observed, so that the
\* recovery scan never rejects the staging table.
StagingMatchesAttempts ==
  \A a \in Attempts : staged[a] # NoStaging <=> attempt[a] = "response_observed"

\* While the owner applies a recovery plan, what the scan read is still true: no
\* compare-and-swap of the recovery can be refused.
ScanStaysCurrent ==
  \A e \in Epochs : Owns(e) /\ mode[e] = "applying" =>
    \A a \in ToRebind(e) \cup ToTerminate(e) :
      /\ attempt[a] = scanned[e][a]
      /\ attempt[a] = "scheduled" => entry[a] = "pending"
      /\ attempt[a] = "claimed" => entry[a] = "consumed" /\ consumedBy[a] = owner[a]

\* The checks of a continuation hold whenever a recovered owner reaches them: the two
\* queries of the schedule agree, every delivery is settled or has exactly one pending
\* attempt, on a delivery that can still run, after a final predecessor.
ContinuationReady ==
  \A e \in Epochs : Owns(e) /\ mode[e] = "continuing" => ValidateResume(e)

\* Whatever the running owner finds pending it can claim: fresh or prepared attempts
\* by a first claim, rebound ones by a replay; none is refused for its owner, and
\* none is due before the logical time the process has reached.
PendingIsClaimable ==
  \A e \in Epochs : Owns(e) /\ mode[e] = "running" =>
    \A a \in Pending :
      /\ IF entry[a] = "pending" THEN Claimable(e, a) ELSE owner[a] = e
      /\ Idle(e) => now[e] <= NotBefore[a]

\* A final delivery has the state its last attempt implies and no work left; a
\* completed run passes the guard of its completion; and when the owner has
\* drained the schedule, every delivery has a verdict.
FinalStatesAgree ==
  /\ \A d \in Deliveries : delivery[d] \in DeliveryTerminal =>
       /\ \E a \in Attempts :
            /\ a[1] = d /\ ~HasSuccessor(a)
            /\ attempt[a] \in AttemptTerminal
            /\ delivery[d] = DeliveryStateFor(attempt[a])
       /\ \A a \in Attempts : a[1] = d => ~Open(a)
  /\ run = "completed" => GuardRunCompletion(delivery)
  /\ \A e \in Epochs : Owns(e) /\ mode[e] = "running" /\ Idle(e) /\ Pending = {} =>
       run = "running" /\ \A d \in Deliveries : Settled(d)

\* The rows the transactions of all processes leave behind are rows the journal's
\* tables admit: an attempt has its predecessor's row, an entry its consumer, a staged
\* response and a redelivery decision their attempt, and no retry is staged with a
\* success.  A process is never stopped by a constraint that a sequence of crashes
\* and recoveries led it to violate.
RowsAdmitted ==
  /\ TransitionsTable
  /\ RunsTable(run, epoch)
  /\ \A a \in Attempts :
       /\ attempt[a] # "none" =>
            AttemptsRow(attempt, a, IF a[2] = 1 THEN a ELSE Pred(a))
       /\ ScheduleEntriesRow(entry[a], consumedBy[a])
       /\ staged[a] # NoStaging =>
            /\ EvidenceForeignKey(attempt, a)
            /\ staged[a].terminal \in {"succeeded", "rejected", "transport_failed"}
            /\ staged[a].retry => staged[a].terminal # "succeeded"
       /\ a \in redelivered => RecoveryDecisionsRow(attempt, a, "redeliver")

\* A process without an ambiguity policy goes on, and contacts the receiver, only in a
\* run in which no send of an earlier owner is unknown.  The preflight of its resume
\* does not ensure that: the former owner may have sent a request, and died, after it.
NoContactWhileUnknown ==
  \A e \in Epochs : mode[e] \in {"continuing", "running"} /\ policy[e] = "none" =>
    \A a \in Ambiguous : owner[a] >= e

\* One transaction moves attempts, deliveries and the run along edges of their tables,
\* and a delivery to satisfied only after an attempt that succeeded.
AlongTables ==
  /\ \A a \in Attempts : attempt'[a] # attempt[a] =>
       \/ ValidateProjectionAndEdge(AttemptEdges, attempt[a], attempt'[a])
       \/ attempt[a] = "none" /\ attempt'[a] \in {"scheduled", "claimed"}
  /\ \A d \in Deliveries : delivery'[d] # delivery[d] =>
       /\ ValidateProjectionAndEdge(DeliveryEdges, delivery[d], delivery'[d])
       /\ ValidateDeliveryGuards(attempt, d, delivery'[d])
  /\ run' # run => ValidateProjectionAndEdge(RunEdges, run, run')
  /\ AppendOnly(redelivered, redelivered')

\* Every change of a projection is an edge of the authoritative table that its guard
\* admits, so no transition is refused, final attempts, deliveries and runs never
\* change, and a decision once recorded stays.
TableEdgesOnly == [][AlongTables]_vars

\* A process that does not crash ends: it finishes or pauses the run, stops on an
\* ambiguity or is fenced out.  It never reaches a point where every transaction it
\* could submit is refused, which the code reports as an integrity error.
ProcessesEnd == \A e \in Epochs : Alive(e) ~> ~Alive(e)
=============================================================================
