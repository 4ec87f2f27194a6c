# A verification model of webhook-receiver-conformance

The harness compiles scenarios into signed webhook deliveries, sends them to a receiver,
records every step in a SQLite journal, asks observers what the receiver did, and reports
a verdict. It can resume a run after it died. This directory holds TLA+ modules of that
system, TLC runs for small instances, and TLAPS proofs for all instances of its core.

Paths below are relative to `src/src/webhook_receiver_conformance/`, specification
documents to `src/specification/`.

## 1. The system and its modules

A *run* executes *scenarios*; a scenario has *deliveries*; a delivery has a plan of
*attempts*, the first unconditional, the others conditional on how the one before ended.
A *process* owns a run under an *owner epoch* stored in the journal. `PROJECT.json` lists
every component with what is and is not modelled, and the hazards at the lines where they
bite.

| part of the system | modules | root of the run |
| --- | --- | --- |
| lifecycle tables and guards (`journal/transitions.py`, `journal/repositories.py`) | `LifecycleTables`, `TransitionGuards` | used by all below |
| constraints of the tables (`journal/migrations/`) | `JournalTables` | used by all below |
| deliveries, crashes, resumes (`runtime/runner.py`, `recovery/`, `journal/`) | `DeliveryRun` | `MCDeliveryRun` |
| run lock and epoch (`journal/run_lock.py`, `runtime/resume.py`) | `RunOwnership`, implementing `EpochOwnership` | `MCRunOwnership` |
| observations, assertions, verdicts (`observers/`, `assertions/`, `runtime/`) | `AssertionPhase`, `ObserverProtocol`, `Verdicts`, `ReportProjections` | `MCAssertionPhase` |
| opening, migrating and writing a journal (`journal/schema.py`, `journal/service.py`) | `JournalSchema`, `JournalService` | `MCJournalService` |
| from configuration to signed requests (`scenario/`, `mutations/`, `signatures/`, `manifest/`, `journal/bootstrap.py`) | `ScenarioValidation`, `Mutations`, `Signing`, `ManifestCompiler`, `JournalBootstrap`, `Planning` | `MCPlanning` |
| a whole command (`cli/`, `config/`, `network/`, `http/`, `reporting/`, `src/reference_receivers/`) | `ConfigLoading`, `NetworkPolicy`, `HttpExecutor`, `AttemptEvidence`, `ReferenceReceiver`, `Reports`, `Gates`, `ConformanceCommand` | `MCConformanceCommand` |

The parts share definitions, not copies: every module that takes a transition uses the
edges of `LifecycleTables` and the guards of `TransitionGuards`, every module that writes
a row the constraints of `JournalTables`, and every module that reduces a verdict
`Verdicts`.

### Deliveries (`DeliveryRun`)

One action is one SQLite transaction or the one write to the socket.

| variable | code |
| --- | --- |
| `epoch`, `run`, `delivery`, `attempt`, `owner` | rows of `runs`, `deliveries`, `attempts` |
| `staged` | `attempt_response_staging`: outcome and retry decision of a response |
| `entry`, `consumedBy` | `schedule_entries` and who consumed them |
| `redelivered` | `recovery_decisions` of kind `redelivery_created` |
| `preflight` | what a resume read before it has the run lock: the policy and the run state |
| `mode`, `policy`, `scanned`, `pc`, `now` | memory of each process, lost when it stops |
| `wire` | history: requests that left, per attempt |

Processes are named by their owner epoch. `Worker` is one entry of a batch in
`_execute_schedules`: activate the delivery, claim, five durable phases, terminal
transaction, reduction. `Recovery` and the policy actions are `RecoveryScanner.apply` and
`ResumePolicyEngine`. A resume reads the journal while it owns nothing (`PreflightResume`)
and takes the run over later (`TakeOver`), when the former owner may have sent more: only
state and epoch are compared again. `Crash` is death, cancellation or an unhandled
exception at any point; `FencedOut` is `StaleOwnerEpochError`. Where the code raises an
integrity error when a condition fails, the condition is a guard, and an invariant or
`ProcessesEnd` says it never fails. `Overlap = TRUE` lets owners run next to each other:
the lock excludes that, and the run shows what the epoch fence achieves without it.

### Ownership (`RunOwnership`, `EpochOwnership`)

System calls on POSIX are the steps: exclusive creation, open, `flock`, truncate, write,
identity check, preflight before and under the lock, compare-and-swap of the epoch,
unlink, unlock. Inodes are separate from the path, so a process may hold a descriptor of
an unlinked file. `EpochOwnership` is the promise: one owner at a time, of an unfinished
run, under a new epoch. `DeliveryRun` with `Overlap = FALSE` relies on it.

### The assertion phase (`AssertionPhase`)

After the deliveries, the runner polls observers until a deadline, stores samples,
evaluates assertions, reduces scenarios and ends or pauses the run; a resume does the
rest after a crash. An action that changes a journal variable is one transaction. The
observer answers with anything `ObserverProtocol` accepts or fails in each of the ways an
HTTP or command exchange can fail. Evidence is abstracted to how it compares: it matches,
is contrary, has the wrong type, cannot be compared or projected, or is missing.
`ReportProjections` computes the summary, JUnit and HTML verdicts from the same journal,
each by its own code, and `Verdicts` the precedence of categories. Evidence may be marked
sensitive; it is then not persisted, and a resume finds the sample without its value.

### The journal file and its writer (`JournalSchema`, `JournalService`)

The file is abstracted to what its checks compare: `user_version`, the ledger rows, the
migrations that have all of their objects, the statements of the next one that ran, and
the rows operations wrote. SQLite is external: one writer transaction at a time, visible
at COMMIT, gone when its process dies. `JournalSchema` is opening and upgrading with its
backup; `JournalService` the bounded queue, the serving task, closing and cancellation.
Tasks interleave only where the code awaits; processes interleave everywhere.

### Planning (`Planning` and the modules it extends)

A JSON document is a function from pointers to nodes, a body a prefix of its
serialization with padding and flipped bits, HMAC is injective, a digest stands for its
content. Over these, the mutation operators, the pipeline around the signer, the three
signature schemes and their verification, semantic validation, compilation, loading,
reduction and the bootstrap rows are operators translated one by one. `Planning` runs
them: plan commands that share a directory and may die between files, a run or a replay
that loads the bundle, seeds a journal and builds every request. An export of a reduced
bundle loads its source again and then reads its effective configuration, and a plan
command may install another bundle before and between the two. `Documents` are the
fixture contents a mutation list is tried on.

### A command (`ConformanceCommand` and the modules it extends)

`ConfigLoading` reads a document and checks each path, one path at a time, against a file
system that others change between the checks and after the last one; `NetworkPolicy`
decides the destination, resolves, pins, dials, compares the peer with the pin and
challenges public targets; `HttpExecutor` runs two attempts over one pool against a
server that may answer anything and stop anywhere, before, inside or after the head;
`AttemptEvidence` makes the evidence rows that the command, repository, table and recovery
scanner each check, and says where the command raises instead; `ReferenceReceiver` is the
correct receiver and eight flawed ones with two workers and a crash.

`Reports` installs report files. A version of the records has rows (assertions, attempts)
and a run state. The runner writes its own JSON files, a resume regenerates the set twice,
an offline `report` may have begun before the evaluation it overwrites, and an `inspect`
reads the directory meanwhile. Writing a file, replacing it and registering the set are
separate steps. `ConformanceCommand` composes all of these into one invocation, with its
exit code.

## 2. Runs

| run | properties | states |
| --- | --- | --- |
| `crash_recovery` | `RowsAdmitted`, `ContinuationReady`, `PendingIsClaimable`, `FinalStatesAgree`, `NoContactWhileUnknown`, `ProcessesEnd` (liveness) | 152,814 |
| `overlapping_owners` | `SendAccounting`, `ConsentedSuccessor`, `OneOpenAttempt`, `StagingMatchesAttempts`, `ScanStaysCurrent`, `TableEdgesOnly` | 366,440 |
| `lock_races` | `LockProtects`, `OnlyCrashesLeaveALock`, `ImplementsOwnership` (refinement) | |
| `assertion_phase` | `EvaluationsBacked`, `ScenarioIsItsReduction`, `RunEndsWithItsScenarios`, `ReportsShowProblems`, `RefusalHasCause`, `ProcessEnds` (liveness) | 189,612 |
| `journal_writer` | `LedgerTellsSchema`, `UpgradeIsRecoverable`, `AnswersMatchJournal`, `PendingIsHeld` | 1,378,899 |
| `planning` | `AcceptedExecutes`, `CyclesAreReported`, `SignatureTellsFault`, `LoadedIsOneCompilation`, `ReducedReplays` | 96,851 |
| `command_session` | `PeerAuthorized`, `OutcomeIsHonest`, `EvidenceIsAdmitted`, `ReceiverKeepsItsWord`, `LoadedPathsHold`, `ReportsAgree` | 899,739 |
| `dead_owner`, `recovered_verdict`, `expected_rejection`, `retry_jitter`, `body_timeout` | violated: section 4 | |

What they show, and the bounds:

- `crash_recovery`: two deliveries, one of them with a retry, one crash or one overlapping
  resume under every policy, whose preflight may be stale. Recovery reaches a journal on
  which the continuation checks hold; pending work can be claimed and is not due in the
  past; final states agree; the tables admit every row; a resume without a policy contacts
  the receiver only when no send is in doubt; and no reachable journal refuses everything
  a live process could do next. Two deliveries are needed for several ambiguities in one
  recovery and for batches of two workers.
- `overlapping_owners`: one delivery, three owners that may all still run. Three give a
  recovery that dies and is repeated, and two stale owners. The epoch fence alone keeps
  the journal truthful about what was sent.
- `lock_races`: the first owner and three resumes, crashes between any two system calls:
  a creator, a process with an old descriptor, a taker-over and a releasing owner at once.
- `assertion_phase`: two scenarios, an observer assertion of each kind in one and a
  transport assertion over several attempts in the other, at most two polls, up to two
  resumes. Two polls give a first sample, a changed one and a deadline; two resumes a
  recovery that dies. Every verdict is backed by rows a resume can recompute; a resume is
  refused only for an observation that ended without a sample, a transport evaluation that
  had begun, or samples whose evidence was not persisted; and no report hides what went
  wrong, except that a JUnit report passes a scenario whose only failure is a rejected
  delivery (section 4).
- `journal_writer`: two processes, a catalog of two migrations of two statements, a file
  that is new, one version old or one version too new, three callers, a queue of one, one
  death. Two statements and two rows make "in part" possible; three callers fill the
  queue, its buffer and its waiting line; one old version is one upgrade with a backup.
- `planning`: about 4,300 projects: every pair of mutation operators under every signer,
  every dependency graph of three events, every baseline graph of three scenarios, step
  lists, groups and retries, two plan commands. A pair is what one operator can spoil for
  the next; three nodes give a cycle that is reached from outside. What the validator
  accepts executes unless the content of the fixture decides otherwise, and an exported
  bundle is the selected part of the compilation that was loaded.
- `command_session`: every invocation puts one part at work (documents and paths,
  destinations and challenges, replies, the pool, each receiver under two racing
  deliveries), with one exchange of a path, one receiver crash and two report writers. A
  drain limit of two bytes has a body below, at and above it. A request goes to the
  pinned address of an admitted answer; the journal claims no more of an attempt than
  happened; its evidence passes every check, or raises as section 4 says; loaded paths are
  below a real root but for an exchange after the last look at them; and once the writers
  have ended the registry describes the files that are there.

In the retry plans the second template is conditional on a timeout or a retryable status
but not on a failed connection, so all three outcomes of the decision occur. Deadlock is
checked in `assertion_phase`, whose `Rest` says where it may stop; in the others a
finished run, a run nobody resumes or a command that exited does stop.

Fairness. `DeliveryRun!FairSpec` (`crash_recovery`) has weak fairness of the steps of each
process: its event loop runs every ready task, and every physical step is bounded by a
timeout. `AssertionPhase!Spec` has weak fairness of `Step`, the work of the one process:
invocations and sleeps end by `anyio.fail_after` and journal calls are answered. Nothing
is assumed of crashes, cancellation, takeovers or the operator.

Every property of a passing run has a mutant in `PROJECT.json`: a plausible bug in one
definition under which TLC finds the property violated.

## 3. Proofs

`DeliveryRunProofs` proves, for all deliveries, plans of at most 32 templates with
non-decreasing due times and any number of owners (overlapping or not): `TypeCorrect`,
`SendsAreAccounted`, `DuplicatesAreConsented`, `AttemptsAreSequential`,
`StagingIsConsistent`, `RecoveryIsNeverRefused`, `ChangesFollowTables` and
`RowsAreAdmitted`. Only the types are inductive by themselves. `IInv` adds to them:

- `SendInv`: a worker at or past the write acts on an attempt the journal calls possibly
  sent; at most one worker is about to write an attempt, and nothing of it has left yet;
- `StagingInv`: a response is staged with `response_observed` only, decides a definite
  outcome, and a retry only of a failure;
- `ChainInv`: an entry is consumed by its own attempt and exists only after every earlier
  attempt of the delivery is final, which yields consent and sequentiality;
- `OwnerInv`: workers exist only in running processes, no epoch is used before it is
  taken, a claim and its entry have one owner, and the scan of the owner is current.

Each conjunct has one lemma with a step per action. `RowsAreAdmitted` adds `RowsInv`, what
the constraints need beyond `IInv`: the consumer of an entry and the attempt of a
decision.

`DeliveryOutcomeProofs` proves, for the same runs, `ContinuationsAreReady`,
`PendingCanBeClaimed`, `FinalStatesMatchAttempts` and `NoPolicyNoContact`. `OutcomeInv`
has what the journal alone keeps true (`LifeInv`: every delivery has a newest entry, and a
final one was decided by its newest attempt) and what the owner relies on in each mode
(`WorkInv`: the state a worker left its attempt in, and what recovery has yet to do).
`SettledInv` says that nothing of an earlier owner is in flight or in doubt in a run that
is continued without a policy: it comes from the scan under the new epoch, and not from
the preflight, whose answer may be stale.

`RunOwnershipProofs` proves, for any finite set of processes, `LockIsExclusive`,
`CleanExitLeavesNoLock` and the refinement `OwnershipIsImplemented`. Its invariant says
that a process past `flock` has the advisory lock of its descriptor (`Locking`), that a
file stays empty until its creator has locked it (`Creation`), and that from the moment a
process may write, the path names its file and the creator is not about to discard it
(`Naming`). `Responsible` is for the leftover file alone. The key point is that an empty
file is never taken over: it may belong to a creator that is yet to lock it.

`JournalServiceProofs` proves, for any number of processes, migrations, statements,
callers and deaths, `JournalIsWhole` and `UpgradesAreRecoverable`. Neither property says
anything of a process half-way through a migration, so `Inv` adds per process what its
next step relies on: `TxnInv` gives the version, ledger, objects and statements its open
transaction has reached in each place, that the file below it is still the version it
starts from, and that only an opened service or a migration holds the writer lock;
`BackupInv` says that a copy in the making is unverified, holds the original version
while the file still does, and that a verified one exists wherever a migration may
start. Steps are grouped by their effect (`Quiet`, `LetGo`, `InsideStep`, `CommitStep`,
`ServiceStep`), and `Compose` carries the other processes. The assumptions are those of
`SchemaBounds` and `ServiceBounds`.

`JournalQueueProofs` proves `PendingOperationsAreHeld` by `QueueInv`, which says for each
operation whose hands it is in and that the state of its caller says the same, and for
each stage of the serving task what the queue may hold. `JournalAnswersProofs` proves
`AnswersAreTrue` by its `RowInv`: an open transaction is the committed file and some rows
of one operation, and the file is made of whole operations.

`AssertionPhaseProofs` proves, for any plan, number of polls and number of resumes
(`PhaseBounds`), `MemoryIsJournal`, `EvaluationsRestOnEvidence`, `ScenariosAreReductions`,
`RunsEndWithTheirScenarios`, `RefusalsHaveCauses` and `ReportsAreHonest`. The inductive
invariant `IInv` is in `AssertionRowProofs`: the rows of each assertion (`RowInv`, with
`SampleInv` for its samples), each scenario (`ScenarioInv`), the run (`RunInv`) and the
process (`LoopInv`). The last is why the others are not inductive alone: a verdict is
reduced from what the process counted in memory (`CountInv`), which must be what a later
process would read from the journal.

Only model-checked: liveness (`ProcessesEnd`, `ProcessEnds`), since fairness and ENABLED
are out of the prover's reach, and the planning and command properties, which rest on
folds and searches over their data and would need induction over it.

## 4. Where code and documents disagree

Five runs are violated by what the code does. `PROJECT.json` quotes the documents.

- `dead_owner`: `acquire_run_lock` writes epoch N+1 into `run.lock` before
  `advance_resume_owner_epoch` moves the journal from N to N+1. A process that dies in
  between leaves a lock no later resume may take over (`journal/run_lock.py:514`).
- `recovered_verdict`: a resume evaluates the samples of an interrupted observation as if
  its deadline had passed, so one early contrary sample fails the receiver
  (`runtime/runner.py:2640`). 19-reliability-and-recovery.md:21 has the observer asked
  again, as do `scripts/crash_harness.py:160` and
  `validation/evidence/crash-matrix.json:129`; the code never does.
- `expected_rejection`: a delivery the receiver rejects makes its scenario a receiver
  failure, also when the rejection is what the scenario asserts
  (`runtime/verdicts.py:110`). The JUnit report of such a run is all green
  (`runtime/reporting.py:497`), while summary and HTML say `receiver_failure`.
- `retry_jitter`: the compiler does not clamp a backoff plus a negative jitter at zero
  (`manifest/compiler.py:566`); the attempt that was answered cannot be settled.
- `body_timeout`: a total deadline that strikes while the body is read leaves a header
  time without a response, for which the evidence command raises
  (`journal/transitions.py:480`): the attempt stays in flight, and the run ends as a
  harness error instead of recording `unknown_outcome`.

Met while modelling, and visible in the definitions the map names, without a run:

- `validate_project_semantics` is called by no command, only by `scripts/benchmark.py` and
  tests (10-architecture.md:67 has it in the execution flow). `Planning` therefore lets a
  caller run the validator or not, and `AcceptedExecutes` speaks of projects it accepted.
- The validator accepts three kinds of mutation lists that no content satisfies
  (`LeftToThePipeline`): a truncation followed by an oversized body whose target is at or
  below the truncated length, where it refuses the others (`scenario/validate.py:1125`,
  `mutations/raw_ops.py:251`; 14-mutations.md:36 names a conflict with later operators
  that need bytes beyond the retained range); a cut or alteration past the end of the
  fixed invalid text (`mutations/raw_ops.py:32`); and one type asked for twice at one
  pointer. It also accepts a stale-signature age beyond the logical time, which fails at
  runtime. An age below a second may leave the stamped second unchanged.
- The ambiguity of a run is looked at before the lock is held and not again under it
  (`runtime/resume.py:321`). A resume without a policy may therefore take over a run that
  became ambiguous meanwhile; recovery still stops it before any contact.
- A scenario left ambiguous is outranked by a failure or harness error of another: the run
  ends and the ambiguity can no longer be resumed (`runtime/runner.py:4059`;
  09-state-machines.md:32 keeps it resumable).
- A resume is refused after a crash during an observer invocation that had no sample
  (`runtime/runner.py:2308`; 19-reliability-and-recovery.md:20 asks for a retry), after a
  crash during a transport evaluation, and when evidence of an eventual assertion was
  sensitive and therefore not persisted, even if the assertion is already evaluated.
- `run` and `replay` turn the classified exit of a failed public preflight into
  `harness_failure`; `resume` re-raises it (`cli/main.py:646`, `:881`, `:732`).
- `--output` is validated against the project root and resolved against the working
  directory (`config/loader.py:2328`, `cli/main.py:1274`).
- Two processes that open an old journal at once: `_verify_ledger` reads version and rows
  outside a transaction, and the later one may report an integrity error for a journal
  that is whole. `LedgerTellsSchema` shows that the file itself stays right.
- The executor records a read timeout inside a chunk-size line as a connection error, and
  takes a body of exactly the drain limit for too large when it is read until close.
- An exception of one attempt arrives in an `ExceptionGroup` and becomes `harness_error`.
- An offline `report` that read its records early may replace newer files of the run it
  overlaps: nothing orders the writers, the files may be of several versions until the
  next regeneration, and `inspect` compares rows but not the verdict. What
  05-product-requirements.md:2772 asks for, that every registered digest matches its file,
  holds once all writers have ended and none was cut short (`RegistryMatchesFiles`).

## 5. Not modelled

- Secrets and redaction: values are resolved and text replaced, nothing has a lifecycle.
  No code inserts a redaction event.
- Reconciliation (`recovery/reconcile.py`): a version 1 bundle has no observation rules,
  so the observe policy always yields a stop plan.
- `runtime/cancellation.py`: no command uses it; cancelled pollers, callers and services
  are modelled where they are handled.
- Windows: the lock and file-guard branches; `ConfigLoading` has both platforms.
- Clocks: wall time is abstracted to the order of deadlines and of due times.
- Event payload digests and the audit rows of the journal; the check of every stored
  digest on resume is one step that succeeds or fails.
- Syntax of URLs, headers, JSON, YAML scalars, identifiers and certificates: valid or not.
- Rendering of reports, console output, diagnostics and their wording; the model classes
  of configuration, manifest and protocol messages, whose validators are formats; and the
  scripts of the repository (benchmark, release and documentation checks), which keep no
  state of a run.
- The sensitive-logging receiver, whose flaw is in its log, and the five-second barrier of
  the check-then-insert receiver, whose race the interleaving of workers covers.
- `no_backup` of `apply_migrations`: no command passes it.

Most of the lines outside the map are of these kinds: field validators of data classes,
renderers, parsers and scripts.
