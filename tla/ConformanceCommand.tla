------------------------- MODULE ConformanceCommand -------------------------
(***************************************************************************)
(* One invocation of the command line (cli/main.py) from its arguments to  *)
(* its exit code, composed of the parts it drives: the configuration       *)
(* loader, the destination policy and its public challenge, the HTTP       *)
(* executor with two attempts under way, the receiver at the other end,    *)
(* and the reports, which an offline `report` and an `inspect` share.      *)
(*                                                                         *)
(* A project is what the user brings and what answers: [doc, platform,     *)
(* receiver, consent, secrets, pool, requests, server, variant, database,  *)
(* answers, links, replies, challenges].                                   *)
(***************************************************************************)
EXTENDS AttemptEvidence, ReferenceReceiver, Reports, ConfigLoading, Verdicts

CONSTANTS
  Invocations,     \* the commands that may be given: [kind, bundled, project]
  Command,         \* the writer that is the command itself
  RetryableStatuses

VARIABLES
  command,    \* the invocation
  wire        \* what is on the way between every attempt and the server

vars == <<command, wire, attempt, receiverVars, reportVars, loadVars>>

NoProject == [server |-> "none"]

NoCommand ==
  [kind |-> "none", bundled |-> FALSE, project |-> NoProject, phase |-> "idle",
   doubt |-> FALSE, authorization |-> "none", challenged |-> FALSE,
   verdict |-> "none", state |-> "none", exit |-> "none"]

NoReply ==
  [interim |-> "none", head |-> "whole", status |-> 0, framing |-> "length", declared |-> 0,
   prefix |-> 0, body |-> 0, tail |-> "final", end |-> "open"]
NoWire == [state |-> "none", reply |-> NoReply]

Project == command.project
Used == DOMAIN Project.requests
ReceiverAtRest == ReceiverInit("correct", EmptyDatabase)

Init ==
  /\ command = NoCommand
  /\ wire = [a \in Attempts |-> NoWire]
  /\ ExecutorInit
  /\ ReceiverAtRest
  /\ ReportsInit
  /\ LoadInit

-----------------------------------------------------------------------------
(* Ends of an invocation. *)

Leave(exit) == command' = [command EXCEPT !.phase = "exited", !.exit = exit]

\* What an exception becomes: its own category if it has one, a fault of the input
\* if it is a ValueError, TypeError or OSError, else an incident of the harness.
InternalOrInputFailure(error) ==
  CASE error \in Categories -> error
    [] error \in {"ValueError", "TypeError", "OSError"} -> "invalid_input"
    [] OTHER -> "harness_error"

\* run and replay catch the classified exit of a failed challenge like any other
\* exception; resume lets it pass.
ExitOfChallenge(phase) ==
  IF command.kind = "resume" THEN PreflightCategory(phase)
  ELSE InternalOrInputFailure("Exit")

Proceed(phase) == command' = [command EXCEPT !.phase = phase]

RestUnchanged == UNCHANGED <<wire, attempt, receiverVars, reportVars, loadVars>>

-----------------------------------------------------------------------------
(* Arguments, bundle, journal, configuration, secrets. *)

\* replay and resume read a bundle, run may, plan and validate do not.
Invoke(invocation) ==
  /\ command.phase = "idle"
  /\ invocation.kind \in {"replay", "resume"} => invocation.bundled
  /\ invocation.kind \in {"plan", "validate"} => ~invocation.bundled
  /\ command' = [NoCommand EXCEPT
       !.kind = invocation.kind, !.bundled = invocation.bundled,
       !.project = [invocation.project EXCEPT !.doc.bundled = invocation.bundled],
       !.phase = IF invocation.bundled THEN "bundle" ELSE "config"]
  /\ RestUnchanged

LoadBundle(valid) ==
  /\ command.phase = "bundle"
  /\ IF valid THEN Proceed(IF command.kind = "resume" THEN "journal" ELSE "config")
              ELSE Leave(InternalOrInputFailure("ValueError"))
  /\ RestUnchanged

\* What resume ends with before it opens its configuration: an exception, or the
\* category of a workflow that does not continue.
ResumeCommand(found, policy) ==
  CASE found = "terminal" -> InternalOrInputFailure("ResumeJournalProjectionError")
    [] found = "locked" -> InternalOrInputFailure("RunLockError")
    [] found = "ambiguous" /\ policy \in {"none", "stop"} -> "ambiguous"
    [] OTHER -> "none"

\* What resume finds in the journal decides before anything else is opened: a run
\* that has ended, or an ambiguity nobody gave a policy for, takes no lock.
ResumeWorkflow(found, policy) ==
  LET exit == ResumeCommand(found, policy)
  IN /\ command.phase = "journal"
     /\ IF exit # "none" THEN Leave(exit)
        ELSE command' = [command EXCEPT !.phase = "config", !.doubt = found = "ambiguous"]
     /\ RestUnchanged

LoadConfig ==
  /\ command.phase = "config"
  /\ \/ ReadConfiguration(Project.doc, Project.platform)
     \/ NormalizePath
     \/ \E node \in DOMAIN tree, kind \in {"link", "absent", "file"} : Swap(node, kind)
     \/ FinishPaths
     \/ Revalidate
  /\ UNCHANGED <<command, wire, attempt, receiverVars, reportVars>>

\* Consent is given on the command line exactly when the target is public, and
\* names its host and port.
RequirePublicConsent(receiver, consent) ==
  IF receiver.profile # "public_authorized" THEN ~consent.present
  ELSE /\ consent.present
       /\ ConsentBinding(consent) = <<Destination(receiver.url).host, Destination(receiver.url).port>>

\* A loaded configuration is checked for consent before a secret is read.
RequireLoaded ==
  /\ command.phase = "config"
  /\ load.pc \in {"accepted", "refused"}
  /\ IF load.pc = "refused" THEN Leave(LoadCategory(Head(load.found)))
     ELSE IF command.kind = "validate" THEN Leave("pass")
     ELSE IF command.kind # "plan" /\ ~RequirePublicConsent(Project.receiver, Project.consent)
       THEN Leave("invalid_input")
     ELSE Proceed("secrets")
  /\ load' = IdleLoad
  /\ tree' = [node \in DOMAIN InitialTree |-> [kind |-> InitialTree[node], id |-> 0]]
  /\ UNCHANGED <<wire, attempt, receiverVars, reportVars>>

\* All secrets or none: one that cannot be resolved closes those before it.
ResolveSecrets ==
  /\ command.phase = "secrets"
  /\ IF "unresolvable" \in Project.secrets THEN Leave("invalid_input")
     ELSE Proceed(IF command.kind = "plan" THEN "compile"
                  ELSE IF command.bundled THEN "prepare" ELSE "target")
  /\ RestUnchanged

CompileRunBundle(error) ==
  /\ command.phase = "compile"
  /\ Leave(IF error = "none" THEN "pass" ELSE InternalOrInputFailure(error))
  /\ RestUnchanged

\* A loaded bundle is copied and verified before the target is touched, that of a
\* resume before the journal has a new owner.
PrepareLoaded(error) ==
  /\ command.phase = "prepare"
  /\ IF error # "none" THEN Leave(InternalOrInputFailure(error))
     ELSE Proceed(IF command.kind = "resume" THEN "recovery" ELSE "target")
  /\ RestUnchanged

\* The recovery (DeliveryRun) has settled what it could.  With an ambiguity left, a
\* redelivery the bundle does not authorise for all of them, and any policy that
\* needs more than the command line gives it, stops.
RequireContinuation(continues) ==
  /\ command.phase = "recovery"
  /\ IF command.doubt /\ ~continues THEN Leave("ambiguous")
     ELSE command' = [command EXCEPT !.phase = "validation", !.doubt = FALSE]
  /\ RestUnchanged

\* A resume retains its validated inputs and an authorization that is only issued yet.
RetainValidation ==
  /\ command.phase = "validation"
  /\ IF ParseDestinationPolicy(Project.receiver, Project.consent) # "ok"
       THEN Leave(InternalOrInputFailure("ValueError"))
       ELSE command' = [command EXCEPT !.phase = "target", !.authorization = "issued"]
  /\ RestUnchanged

-----------------------------------------------------------------------------
(* The public target answers a challenge before it is sent a fixture. *)

Public == Project.receiver.profile = "public_authorized"

\* A target that is not public is not challenged.
ClaimPublicChallenge ==
  /\ command.phase = "target"
  /\ command' = [command EXCEPT
       !.phase = IF Public THEN "challenge" ELSE "activate",
       !.authorization = IF Public /\ @ = "issued" THEN "challenging" ELSE @]
  /\ RestUnchanged

\* policy, resolution, connection; then the nonce is sent and its reply read.
PreflightPublicTarget(exchange) ==
  LET policy == ParseDestinationPolicy(Project.receiver, Project.consent)
      dial == Dial(Policy(Project.receiver, Project.consent), exchange.answer, exchange.link)
      phase == IF policy # "ok" THEN "policy"
               ELSE IF dial.code # "ok"
                 THEN IF dial.phase = "resolution" THEN "resolution" ELSE "connection"
               ELSE IF exchange.fails # "none" THEN exchange.fails
               ELSE IF \/ ReadChallengeReply(exchange.reply) # "ok"
                       \/ ParseChallengeReply(exchange.reply) # "ok"
                       \/ ValidateChallengeReply(exchange.reply) # "ok"
                 THEN "validation"
               ELSE "none"
  IN
  /\ command.phase = "challenge"
  /\ IF phase # "none" THEN Leave(ExitOfChallenge(phase))
     ELSE command' = [command EXCEPT
            !.phase = "activate", !.challenged = TRUE,
            !.authorization = IF @ = "challenging" THEN "challenged" ELSE @]
  /\ RestUnchanged

\* A resumed run consumes its authorization: issued is enough for a target that is
\* not public, a public one needs the challenge.
ConsumeResumeAuthorization ==
  \/ command.kind # "resume"
  \/ command.authorization = (IF Public THEN "challenged" ELSE "issued")

\* The run becomes active under its lock; the policy is parsed before any dial.
RunPrepared ==
  LET policy == ParseDestinationPolicy(Project.receiver, Project.consent)
  IN
  /\ command.phase = "activate"
  /\ IF ~ConsumeResumeAuthorization \/ policy # "ok"
       THEN /\ Leave(InternalOrInputFailure("ValueError"))
            /\ UNCHANGED <<variant, db>>
       ELSE /\ command' = [command EXCEPT
                 !.phase = "deliver",
                 !.authorization = IF @ = "none" THEN @ ELSE "consuming"]
            /\ variant' = Project.variant
            /\ db' = Project.database
  /\ UNCHANGED <<txn, owner, handler, mem, crashes, acked>>
  /\ UNCHANGED <<wire, attempt, reportVars, loadVars>>

-----------------------------------------------------------------------------
(* Deliveries: attempts on this side, a server on the other. *)

Delivering == command.phase = "deliver"

\* The connections are closed; nobody asks the target or the attempts again.
PutAway ==
  /\ wire' = [a \in Attempts |-> NoWire]
  /\ attempt' = [a \in Attempts |-> Waiting]
  /\ variant' = "correct" /\ db' = EmptyDatabase /\ txn' = EmptyDatabase /\ owner' = "none"
  /\ handler' = [w \in Workers |-> Idle] /\ mem' = EmptyMemory /\ crashes' = 0 /\ acked' = {}

Arrive(a, state) == wire' = [wire EXCEPT ![a].state = state]

\* Steps of an attempt that put nothing on the wire and take nothing off it.
ExecuteAttempt(a) ==
  /\ Delivering
  /\ a \in Used
  /\ \/ StartAttempt(a, Project.requests[a].wire)
     \/ AcquireSlot(a, Project.pool)
     \/ PoolTimeout(a, Project.pool)
     \/ \E answer \in Project.answers, link \in Project.links :
          DialPeer(a, Policy(Project.receiver, Project.consent), answer, link)
     \/ SendStarted(a)
     \/ AwaitingResponse(a)
     \/ CheckpointFails(a, Project.pool)
     \/ EvidenceRaises(a)
     \/ Observe(a)
     \/ Terminate(a, RetryableStatuses)
  /\ UNCHANGED <<command, wire, receiverVars, reportVars, loadVars>>

\* A request that left whole arrives, however its write or its attempt ended.
SendRequest(a) ==
  /\ Delivering
  /\ \/ WriteRequest(a)
     \/ \E code \in {"write_timeout", "connection_error"}, sent \in {"none", "part", "all"} :
          WriteFails(a, code, sent)
     \/ TotalTimeout(a)
  /\ wire' = IF attempt[a].sent # "all" /\ attempt'[a].sent = "all"
               THEN [wire EXCEPT ![a].state = "request"] ELSE wire
  /\ UNCHANGED <<command, receiverVars, reportVars, loadVars>>

ReceiveReply(a) ==
  /\ Delivering
  /\ \/ wire[a].state = "replied" /\ (ReadHead(a, wire[a].reply) \/ ReadBody(a, wire[a].reply))
     \/ wire[a].state \in {"request", "serving"} /\ HeadFails(a, "timeout")
     \/ wire[a].state = "reset" /\ HeadFails(a, "connection")
  /\ UNCHANGED <<command, wire, receiverVars, reportVars, loadVars>>

\* A server of any kind answers as it likes.
ServeOther(a) ==
  /\ Delivering
  /\ Project.server = "other"
  /\ wire[a].state = "request"
  /\ \E reply \in Project.replies : wire' = [wire EXCEPT ![a] = [state |-> "replied", reply |-> reply]]
  /\ UNCHANGED <<command, attempt, receiverVars, reportVars, loadVars>>

\* The reference receiver: one worker for each connection.
EmptyResponse(status) == [NoReply EXCEPT !.status = status]

ServeReference(a) ==
  /\ Delivering
  /\ Project.server = "reference"
  /\ \/ wire[a].state = "request" /\ Accept(a, Project.requests[a].request) /\ Arrive(a, "serving")
     \/ (Authenticate(a) \/ Begin(a) \/ ApplyEffects(a) \/ Commit(a) \/ Unavailable(a))
        /\ UNCHANGED wire
     \/ /\ Respond(a)
        /\ wire' = [wire EXCEPT ![a] = [state |-> "replied",
                                         reply |-> EmptyResponse(Status(handler[a].outcome))]]
  /\ UNCHANGED <<command, attempt, reportVars, loadVars>>

FlushQueue ==
  /\ Delivering
  /\ Flush
  /\ UNCHANGED <<command, wire, attempt, reportVars, loadVars>>

CrashReceiver ==
  /\ Delivering
  /\ ReceiverCrash
  /\ wire' = [a \in Attempts |-> IF wire[a].state = "serving" THEN [wire[a] EXCEPT !.state = "reset"]
                                 ELSE wire[a]]
  /\ UNCHANGED <<command, attempt, reportVars, loadVars>>

\* An exception of one attempt cancels the others of its group at their awaits and
\* ends the run; what they have in the journal is left to a resume.
AttemptRaised ==
  /\ Delivering
  /\ \E a \in Used : attempt[a].pc = "raised"
  /\ PutAway
  /\ Leave(InternalOrInputFailure("ExceptionGroup"))
  /\ UNCHANGED <<reportVars, loadVars>>

\* All deliveries are settled, which gives the verdict.
FinishDeliveries ==
  /\ Delivering
  /\ \A a \in Used : attempt[a].pc = "done"
  /\ command' = [command EXCEPT
       !.phase = "finished",
       !.verdict = Reduce({AttemptVerdict(Classification(attempt[a].durable)) : a \in Used})]
  /\ RestUnchanged

\* Ctrl-C: every attempt under way is cancelled at its await.
Interrupt ==
  /\ command.phase \notin {"idle", "exited", "reports", "state"}
  /\ PutAway
  /\ Leave("cancelled")
  /\ UNCHANGED <<reportVars, loadVars>>

-----------------------------------------------------------------------------
(* Reports and the exit code.  The target and the attempts are done with.  *)

Kind == IF command.kind = "resume" THEN "resume" ELSE "run"

BeginEvaluation ==
  /\ command.phase = "finished"
  /\ command' = [NoCommand EXCEPT !.kind = Kind, !.phase = "evaluation",
                                  !.verdict = command.verdict]
  /\ PutAway
  /\ UNCHANGED <<reportVars, loadVars>>

\* The assertions are evaluated (AssertionPhase).
EvaluateAssertions ==
  /\ command.phase = "evaluation"
  /\ Proceed("finalize")
  /\ RecordEvaluations
  /\ UNCHANGED <<wire, attempt, receiverVars, loadVars>>

FinalizeRun ==
  /\ command.phase = "finalize"
  /\ Proceed("reports")
  /\ FinalizeOrPause(command.verdict, Command, command.kind = "resume")
  /\ UNCHANGED <<wire, attempt, receiverVars, loadVars>>

Reporting ==
  \/ command.phase \in {"evaluation", "finalize", "reports", "state"}
  \/ command.phase = "exited" /\ command.verdict # "none"

\* Regeneration by the command or by an offline `report`.
RegenerateReports(w) ==
  /\ Reporting
  /\ w = Command => command.phase = "reports"
  /\ \/ InstallJsonReports(w)
     \/ LoadReportSnapshot(w)
     \/ StageFile(w)
     \/ CheckTarget(w)
     \/ ReplaceTarget(w)
     \/ VerifyInstalledFile(w)
     \/ PrepareArtifacts(w)
     \/ VerifyPrepared(w)
     \/ ReplaceArtifactRegistry(w)
     \/ ConfirmRegistry(w)
     \/ ReportWriteFails(w)
     \/ WriterDies(w)
  /\ UNCHANGED <<command, wire, attempt, receiverVars, loadVars>>

InspectRun ==
  /\ Reporting
  /\ \/ SnapshotJournal
     \/ \E p \in SanitizedPaths : ReadRegisteredFile(p)
     \/ ValidateReportCoherence
  /\ UNCHANGED <<command, wire, attempt, receiverVars, loadVars>>

\* A resumed run is reported by its runner, and when that has ended by the command.
ResumeRegenerated ==
  /\ command.phase = "reports" /\ command.kind = "resume"
  /\ RegenerateAgain(Command)
  /\ command' = [command EXCEPT !.kind = "run"]
  /\ UNCHANGED <<wire, attempt, receiverVars, loadVars>>

\* The command goes on when its own reports are registered; it fails with them.
ReportsRegenerated ==
  /\ command.phase = "reports"
  /\ \/ writer[Command].pc = "done" /\ command.kind = "run" /\ Proceed("state")
     \/ writer[Command].pc \in {"refused", "broken"} /\ Leave("harness_error")
  /\ RestUnchanged

\* run-state.json, then the exit code of the verdict.
WriteRunState ==
  /\ command.phase = "state"
  /\ command' = [command EXCEPT
       !.phase = "exited", !.exit = command.verdict,
       !.state = IF command.verdict \in {"ambiguous", "cancelled"} THEN "resumable" ELSE "final"]
  /\ RestUnchanged

-----------------------------------------------------------------------------

Next ==
  \/ \E invocation \in Invocations : Invoke(invocation)
  \/ \E valid \in BOOLEAN : LoadBundle(valid)
  \/ \E found \in {"terminal", "ambiguous", "locked", "interrupted"},
        policy \in {"none", "stop", "redeliver", "observe", "operator_decision"} :
        ResumeWorkflow(found, policy)
  \/ LoadConfig
  \/ RequireLoaded
  \/ ResolveSecrets
  \/ \E error \in {"none", "ValueError", "RuntimeError"} : CompileRunBundle(error)
  \/ \E error \in {"none", "ValueError", "RuntimeError"} : PrepareLoaded(error)
  \/ \E continues \in BOOLEAN : RequireContinuation(continues)
  \/ RetainValidation
  \/ ClaimPublicChallenge
  \/ command.phase = "challenge"
     /\ \E exchange \in Project.challenges : PreflightPublicTarget(exchange)
  \/ RunPrepared
  \/ \E a \in Attempts : \/ ExecuteAttempt(a)
                          \/ SendRequest(a)
                          \/ ReceiveReply(a)
                          \/ ServeOther(a)
                          \/ ServeReference(a)
  \/ FlushQueue
  \/ CrashReceiver
  \/ AttemptRaised
  \/ FinishDeliveries
  \/ Interrupt
  \/ BeginEvaluation
  \/ EvaluateAssertions
  \/ FinalizeRun
  \/ \E w \in Writers : RegenerateReports(w)
  \/ InspectRun
  \/ ResumeRegenerated
  \/ ReportsRegenerated
  \/ WriteRunState

Spec == Init /\ [][Next]_vars

-----------------------------------------------------------------------------
(* Properties. *)

\* Bytes of a fixture go only over a connection whose other end is the address that
\* was pinned out of the answer of this dial, at the port of the URL, all of that
\* answer being of the classes the profile admits; and to a public target only with
\* its exact consent and after it answered the challenge of this command: the gates
\* of policy, dialer, command and runner together.
PeerAuthorized ==
  \A a \in Attempts :
    attempt[a].left /\ Delivering =>
      /\ attempt[a].peer = <<attempt[a].pin, Destination(Project.receiver.url).port>>
      /\ attempt[a].pin \in attempt[a].allowed
      /\ \A address \in attempt[a].allowed :
           ClassifyAddress(address) \in AcceptedClasses(Project.receiver.profile)
      /\ Public => /\ command.challenged
                   /\ RequirePublicConsent(Project.receiver, Project.consent)

\* All that a reply announces arrived: the declared length, the last chunk, or the
\* end of the stream where only the end says so.
ArrivedWhole(reply) ==
  /\ reply.head = "whole"
  /\ \/ reply.status \in NoBodyStatuses
     \/ reply.framing = "length" /\ reply.body >= reply.declared
     \/ reply.framing = "chunked" /\ reply.tail = "final"
     \/ reply.framing = "close" /\ reply.end = "closed"

\* What the journal says of a settled attempt is what happened: nothing left for
\* "not_sent"; a reply arrived whole, with the status class that is recorded, for
\* "succeeded" and "rejected", and for "transport_failed", which is a whole reply
\* whose connection was being closed when the deadline struck.  Whatever else may
\* have reached the server is in doubt, and what is in doubt is not sent again by
\* itself.  A run that passes on the correct receiver left every event in its inbox.
OutcomeIsHonest ==
  /\ \A a \in Attempts :
       LET e == attempt[a]
           answered == wire[a].state = "replied" /\ ArrivedWhole(wire[a].reply)
       IN e.pc = "done" =>
            /\ e.durable = "not_sent" => e.sent = "none"
            /\ e.durable \in {"succeeded", "rejected", "transport_failed"} => answered
            /\ e.durable \in {"succeeded", "rejected"} =>
                 (e.durable = "succeeded") = (wire[a].reply.status \in 200 .. 299)
            /\ e.durable = "transport_failed" => e.error.code = "total_timeout"
            /\ e.sent # "none" /\ ~answered =>
                 e.durable = "unknown_outcome" /\ e.predicate = "none"
  /\ command.phase = "finished" /\ command.verdict = "pass" /\ Project.server = "reference"
       /\ variant # "acknowledge-before-commit" =>
       \A a \in Used : Prior(db, Project.requests[a].request) # {}

\* The receiver keeps its word, through races of its workers and its own death:
\* what it acknowledged is durable and every event has its effects once.
ReceiverKeepsItsWord == AcknowledgedIsDurable /\ EffectsExactlyOnce

\* What a loaded configuration names is a real file or directory below a real root,
\* without a link on the way, whoever changed the tree while it was loaded: only a
\* change after the last look at a node goes unnoticed, which on POSIX is the look
\* when its path is normalized, and on Windows the probe of the node, or of something
\* below it, in the revalidation.
LoadedPathsHold ==
  load.pc = "accepted" =>
    /\ \A node \in {RootChain[i] : i \in DOMAIN RootChain} \ load.late :
         load.platform = "windows" \/ node = Root => tree[node].kind = "directory"
    /\ \A i \in DOMAIN ConfigPaths(Project.doc) :
         LET ref == ConfigPaths(Project.doc)[i]
         IN  \A j \in DOMAIN ref.parts :
               LET kind == tree[ref.parts[j]].kind
                   final == j = Len(ref.parts)
               IN  \/ ref.parts[j] \in load.late
                   \/ final /\ (kind = ref.want \/ (kind = "absent" /\ ref.optional))
                   \/ ~final /\ kind = "directory"

\* The registry describes the files, an accepted inspection shows the records of the
\* journal, and nothing temporary is left behind, however a run that ends, an offline
\* regeneration that began before or after it did, and an inspection interleave.
ReportsAgree == RegistryMatchesFiles /\ InspectionIsCoherent /\ TemporariesAreOwned
=============================================================================
