------------------------- MODULE DeliveryRunProofs -------------------------
(***************************************************************************)
(* What DeliveryRun guarantees for every plan, every number of deliveries  *)
(* and of owner epochs, with or without overlapping processes.             *)
(***************************************************************************)
EXTENDS DeliveryRun, TLAPS

-----------------------------------------------------------------------------
(* Attempts and their neighbours.                                          *)

\* An attempt is a delivery with a positive ordinal.
LEMMA AttemptFacts ==
  ASSUME NEW a \in Attempts
  PROVE  /\ a = <<a[1], a[2]>> /\ a[1] \in Deliveries /\ a[2] \in Nat /\ a[2] >= 1
         /\ Succ(a)[1] = a[1] /\ Succ(a)[2] = a[2] + 1
BY PlanAssumption DEF Attempts, Succ

\* Different attempts have different successors.
LEMMA SuccInjective ==
  ASSUME NEW a \in Attempts, NEW b \in Attempts, Succ(a) = Succ(b)
  PROVE  a = b
BY AttemptFacts DEF Succ

\* What precedes the successor of an attempt is the attempt or precedes it.
LEMMA BeforeSuccessor ==
  ASSUME NEW a \in Attempts, NEW b \in Attempts, NEW c \in Attempts,
         c = Succ(a), b[1] = c[1], b[2] < c[2]
  PROVE  b[1] = a[1] /\ (b[2] < a[2] \/ b = a)
<1>1. b[1] = a[1] /\ b[2] < a[2] + 1
  BY AttemptFacts
<1>2. a[2] \in Nat /\ b[2] \in Nat
  BY AttemptFacts
<1>3. b[2] < a[2] \/ b[2] = a[2]
  BY <1>1, <1>2
<1>4. b[2] = a[2] => b = a
  BY <1>1, AttemptFacts
<1> QED BY <1>1, <1>3, <1>4

\* build_plan plans a redelivery only if the bundle has one for every ambiguous
\* attempt.
LEMMA RedeliveryConsented ==
  ASSUME NEW e, Redeliver(e)
  PROVE  \A a \in Ambiguous : Redeliverable(a)
<1>1. "redelivery" \in BuildPlan(policy[e])
  BY DEF Redeliver
<1>2. RedeliveryAuthorized
  BY <1>1 DEF BuildPlan
<1> QED BY <1>2 DEF RedeliveryAuthorized, RedeliveryTemplates

\* A redelivery schedules attempts that did not exist and touches no other.
LEMMA RedeliverEffect ==
  ASSUME NEW e, Redeliver(e)
  PROVE  /\ pc' = pc /\ wire' = wire
         /\ \A a \in Attempts : \/ attempt'[a] = attempt[a]
                                \/ attempt[a] = "none" /\ attempt'[a] = "scheduled"
<1>1. \A a \in AuthorizedRedeliveries : attempt[a] = "none"
  BY RedeliveryConsented DEF AuthorizedRedeliveries, Redeliverable
<1> QED BY <1>1 DEF Redeliver

\* An owner epoch fits its columns.
LEMMA EpochRange ==
  ASSUME NEW e \in Epochs
  PROVE  e \in 0 .. MaxEpoch
BY BoundAssumption DEF Epochs

-----------------------------------------------------------------------------
(* Types.                                                                  *)

\* The journal and the memory of a new run have their types.
LEMMA TypeInit == Init => TypeOK
BY BoundAssumption, PlanAssumption
DEF Init, TypeOK, Epochs, Outcomes, NoStaging, NoResume, Resumes, Modes, Policies, Positions, RunStates,
    DeliveryStates, AttemptStates

\* A terminal transaction keeps the types.
LEMMA ConcludeType ==
  ASSUME TypeOK, NEW e \in Epochs, NEW a \in Attempts,
         NEW terminal \in {"none"} \cup AttemptTerminal, NEW retry,
         Conclude(e, a, terminal, retry)
  PROVE  TypeOK'
BY DEF Conclude, Terminate, AfterTerminal, NoStaging, TypeOK, Outcomes, Positions,
       AttemptStates, AttemptTerminal

\* Every step keeps the types.
LEMMA TypeNext == TypeOK /\ [Next]_vars => TypeOK'
<1> SUFFICES ASSUME TypeOK, Next PROVE TypeOK'
  BY DEF TypeOK, vars, journal, memory
<1> USE DEF TypeOK, Modes, Policies, Positions, RunStates, DeliveryStates, AttemptStates,
            AttemptTerminal, AttemptLive, journal, memory
<1>1. ASSUME NEW e \in Epochs, NEW a \in Attempts, ActivateDelivery(e, a) PROVE TypeOK'
  BY <1>1 DEF ActivateDelivery
<1>2. ASSUME NEW e \in Epochs, NEW a \in Attempts, ClaimSchedule(e, a) PROVE TypeOK'
  BY <1>2, EpochRange DEF ClaimSchedule
<1>3. ASSUME NEW e \in Epochs, NEW a \in Attempts, ReplayClaim(e, a) PROVE TypeOK'
  BY <1>3 DEF ReplayClaim
<1>4. ASSUME NEW e \in Epochs, NEW a \in Attempts, CommitPreSend(e, a) PROVE TypeOK'
  BY <1>4 DEF CommitPreSend, Phase
<1>5. ASSUME NEW e \in Epochs, NEW a \in Attempts, ConnectionAttemptStarted(e, a)
      PROVE  TypeOK'
  BY <1>5 DEF ConnectionAttemptStarted, Phase
<1>6. ASSUME NEW e \in Epochs, NEW a \in Attempts, RequestSendStarted(e, a) PROVE TypeOK'
  BY <1>6 DEF RequestSendStarted, Phase
<1>7. ASSUME NEW e \in Epochs, NEW a \in Attempts, Transmit(e, a) PROVE TypeOK'
  <2>1. wire' \in [Attempts -> Nat]
    BY <1>7 DEF Transmit
  <2> QED BY <1>7, <2>1 DEF Transmit
<1>8. ASSUME NEW e \in Epochs, NEW a \in Attempts, AwaitingResponse(e, a) PROVE TypeOK'
  BY <1>8 DEF AwaitingResponse, Phase
<1>9. ASSUME NEW e \in Epochs, NEW a \in Attempts, ReturnNotSent(e, a) PROVE TypeOK'
  <2>1. PICK predicate : Conclude(e, a, "not_sent", RetryScheduled(a, predicate))
                        \/ Conclude(e, a, "unknown_outcome", FALSE)
    BY <1>9 DEF ReturnNotSent
  <2> QED BY <2>1, ConcludeType
<1>10. ASSUME NEW e \in Epochs, NEW a \in Attempts, ReturnUnknown(e, a) PROVE TypeOK'
  BY <1>10, ConcludeType DEF ReturnUnknown
<1>11. ASSUME NEW e \in Epochs, NEW a \in Attempts, ResponseObserved(e, a) PROVE TypeOK'
  <2>1. PICK r \in CompleteResponses :
          staged' = [staged EXCEPT ![a] =
                       [terminal |-> r[1], retry |-> RetryScheduled(a, r[2])]]
    BY <1>11 DEF ResponseObserved
  <2>2. r[1] \in AttemptTerminal /\ RetryScheduled(a, r[2]) \in BOOLEAN
    BY DEF CompleteResponses, RetryScheduled
  <2>3. [terminal |-> r[1], retry |-> RetryScheduled(a, r[2])] \in Outcomes
    BY <2>2 DEF Outcomes
  <2>4. staged' \in [Attempts -> Outcomes]
    BY <2>1, <2>3
  <2> QED BY <1>11, <2>4 DEF ResponseObserved
<1>12. ASSUME NEW e \in Epochs, NEW a \in Attempts, CommitOutcome(e, a) PROVE TypeOK'
  BY <1>12, ConcludeType DEF CommitOutcome, Outcomes
<1>13. ASSUME NEW e \in Epochs, NEW a \in Attempts, TerminalizeDelivery(e, a)
      PROVE  TypeOK'
  <2>1. delivery[a[1]] = "active"
    BY <1>13 DEF TerminalizeDelivery
  <2>2. /\ DeliveryStateFor(attempt[a]) \in {"satisfied", "exhausted", "ambiguous", "cancelled"}
        /\ DeliveryStateFor(attempt[a]) = "satisfied" => attempt[a] = "succeeded"
    BY DEF DeliveryStateFor
  <2>3. DeliveryStateFor(attempt[a]) = "satisfied" => GuardDeliverySatisfaction(attempt, a[1])
    BY <2>2 DEF GuardDeliverySatisfaction, RequireRelatedAttempt
  <2> QED BY <1>13, <2>1, <2>2, <2>3 DEF TerminalizeDelivery
<1>14. ASSUME NEW e \in Epochs, NEW a \in Attempts, RebindAttempt(e, a) PROVE TypeOK'
  BY <1>14, EpochRange DEF RebindAttempt
<1>15. ASSUME NEW e \in Epochs, NEW a \in Attempts, TerminateAttempt(e, a) PROVE TypeOK'
  BY <1>15 DEF TerminateAttempt, Terminate, RecoveredState, NoStaging, Outcomes
<1>16. ASSUME NEW e \in Epochs, NEW a \in Attempts, ReduceDelivery(e, a) PROVE TypeOK'
  BY <1>16 DEF ReduceDelivery, DeliveryStateFor
<1>17. ASSUME NEW e \in Epochs, ActivateRun(e) PROVE TypeOK'
  BY <1>17 DEF ActivateRun
<1>18. ASSUME NEW e \in Epochs, LoadDue(e) PROVE TypeOK'
  <2>1. PICK first \in Pending :
          /\ now' = [now EXCEPT ![e] = NotBefore[first]]
          /\ pc' = [pc EXCEPT ![e] =
                      [a \in Attempts |->
                         IF a \in Pending /\ NotBefore[a] = NotBefore[first]
                           THEN "due" ELSE "idle"]]
    BY <1>18 DEF LoadDue
  <2>2. NotBefore[first] \in Nat
    BY PlanAssumption DEF Pending
  <2>3. now' \in [Epochs -> Nat]
    BY <2>1, <2>2
  <2>4. pc' \in [Epochs -> [Attempts -> Positions]]
    BY <2>1
  <2> QED BY <1>18, <2>3, <2>4 DEF LoadDue
<1>19. ASSUME NEW e \in Epochs, FinishRun(e) PROVE TypeOK'
  BY <1>19 DEF FinishRun, Stop
<1>20. ASSUME NEW e \in Epochs, Scan(e) PROVE TypeOK'
  BY <1>20 DEF Scan, Outcomes
<1>21. ASSUME NEW e \in Epochs, ContinueUnambiguous(e) PROVE TypeOK'
  BY <1>21 DEF ContinueUnambiguous
<1>22. ASSUME NEW e \in Epochs, StopAmbiguous(e) PROVE TypeOK'
  BY <1>22 DEF StopAmbiguous, Stop
<1>23. ASSUME NEW e \in Epochs, OperatorDecision(e) PROVE TypeOK'
  BY <1>23 DEF OperatorDecision
<1>24. ASSUME NEW e \in Epochs, Redeliver(e) PROVE TypeOK'
  BY <1>24, EpochRange DEF Redeliver, AuthorizedRedeliveries, Ambiguous
<1>25. ASSUME NEW e \in Epochs, FencedOut(e) PROVE TypeOK'
  BY <1>25 DEF FencedOut, Stop
<1>26. ASSUME NEW e \in Epochs, TakeOver(e) PROVE TypeOK'
  BY <1>26 DEF TakeOver, NoResume, Resumes
<1>27. ASSUME NEW e \in Epochs, Crash(e) PROVE TypeOK'
  BY <1>27 DEF Crash, Stop
<1>28. ASSUME PreflightResume PROVE TypeOK'
  BY <1>28 DEF PreflightResume, Resumes
<1> HIDE DEF TypeOK, Modes, Policies, Positions, RunStates, DeliveryStates,
             AttemptStates, AttemptTerminal, AttemptLive, journal, memory
<1> QED
  BY <1>1, <1>2, <1>3, <1>4, <1>5, <1>6, <1>7, <1>8, <1>9, <1>10, <1>11, <1>12,
     <1>13, <1>14, <1>15, <1>16, <1>17, <1>18, <1>19, <1>20, <1>21, <1>22, <1>23, <1>24,
     <1>25, <1>26, <1>27, <1>28
  DEF Next, Process, Worker, Recovery

\* Every variable keeps its type in every run.
THEOREM TypeCorrect == Spec => []TypeOK
BY TypeInit, TypeNext, PTL DEF Spec

-----------------------------------------------------------------------------
(* The inductive invariant.  SendAccounting and ConsentedSuccessor speak   *)
(* of one attempt at a time, but what protects them is the position of     *)
(* every worker, the staged response and the order of a delivery's entries.*)

\* A worker that may write, or has written, acts on an attempt the journal calls
\* possibly sent; at most one worker is about to write, and nothing has left yet.
SendInv ==
  /\ \A e \in Epochs, a \in Attempts :
       pc[e][a] \in {"sending", "sent", "awaiting"} => attempt[a] \in PossiblySent
  /\ \A a \in Attempts : attempt[a] \notin PossiblySent => wire[a] = 0
  /\ \A a \in Attempts : wire[a] = 0 \/ wire[a] = 1
  /\ \A e \in Epochs, a \in Attempts : pc[e][a] = "sending" => wire[a] = 0
  /\ \A e, f \in Epochs, a \in Attempts :
       pc[e][a] = "sending" /\ pc[f][a] = "sending" => e = f

\* What a staged response decides: a definite outcome, and a retry only of a failure.
StagingInv ==
  \A a \in Attempts :
    IF attempt[a] = "response_observed"
      THEN /\ staged[a].terminal \in {"succeeded", "rejected", "transport_failed"}
           /\ staged[a].retry => staged[a].terminal # "succeeded"
      ELSE staged[a] = NoStaging

\* The entries of a delivery are a chain: an entry is consumed by its own attempt,
\* and exists only after every earlier attempt is final.
ChainInv ==
  /\ \A a \in Attempts : entry[a] = "none" => attempt[a] = "none"
  /\ \A a \in Attempts : entry[a] = "consumed" <=> attempt[a] \notin {"none", "scheduled"}
  /\ \A a, b \in Attempts :
       a[1] = b[1] /\ a[2] < b[2] /\ entry[b] # "none" => attempt[a] \in AttemptTerminal
  /\ ConsentedSuccessor

\* Workers exist only in a running process, no epoch is used before it is taken, a
\* claim and its entry have one owner, and a scan of the owner is current.
OwnerInv ==
  /\ \A e \in Epochs : mode[e] # "running" => Idle(e)
  /\ \A e \in Epochs : e > epoch => mode[e] = "none"
  /\ \A a \in Attempts : attempt[a] = "claimed" => consumedBy[a] = owner[a]
  /\ \A e \in Epochs : Owns(e) /\ mode[e] = "applying" =>
       \A a \in ToRebind(e) \cup ToTerminate(e) : attempt[a] = scanned[e][a]

IInv == TypeOK /\ SendInv /\ StagingInv /\ ChainInv /\ OwnerInv

\* A new run satisfies the inductive invariant.
LEMMA IInvInit == Init => IInv
<1> SUFFICES ASSUME Init PROVE IInv
  OBVIOUS
<1>1. TypeOK
  BY TypeInit
<1>2. SendInv
  BY DEF Init, SendInv
<1>3. StagingInv
  BY DEF Init, StagingInv
<1>4. ChainInv
  BY AttemptFacts DEF Init, ChainInv, ConsentedSuccessor
<1>5. OwnerInv
  BY BoundAssumption DEF Init, OwnerInv, Idle, Owns, Epochs
<1> QED BY <1>1, <1>2, <1>3, <1>4, <1>5 DEF IInv

\* An executor that reports nothing sent ends an unsent attempt as not_sent, and one
\* whose send phase is durable as ambiguous.
LEMMA NotSentStep ==
  ASSUME NEW e \in Epochs, NEW a \in Attempts, ReturnNotSent(e, a)
  PROVE  \E retry \in BOOLEAN :
           \/ /\ attempt[a] \in {"pre_send_committed", "connecting"}
              /\ Conclude(e, a, "not_sent", retry)
           \/ /\ attempt[a] = "sending"
              /\ Conclude(e, a, "unknown_outcome", FALSE)
BY DEF ReturnNotSent, RetryScheduled

\* Every step keeps the workers and the journal consistent about what was sent.
LEMMA SendNext == IInv /\ Next => SendInv'
<1> SUFFICES ASSUME IInv, Next PROVE SendInv'
  OBVIOUS
<1> USE DEF IInv, TypeOK, SendInv, PossiblySent, journal, memory
<1>1. ASSUME NEW e \in Epochs, NEW a \in Attempts, ActivateDelivery(e, a) PROVE SendInv'
  BY <1>1 DEF ActivateDelivery
<1>2. ASSUME NEW e \in Epochs, NEW a \in Attempts, ClaimSchedule(e, a) PROVE SendInv'
  BY <1>2 DEF ClaimSchedule, Claimable
<1>3. ASSUME NEW e \in Epochs, NEW a \in Attempts, ReplayClaim(e, a) PROVE SendInv'
  BY <1>3 DEF ReplayClaim
<1>4. ASSUME NEW e \in Epochs, NEW a \in Attempts, CommitPreSend(e, a) PROVE SendInv'
  BY <1>4 DEF CommitPreSend, Phase
<1>5. ASSUME NEW e \in Epochs, NEW a \in Attempts, ConnectionAttemptStarted(e, a)
      PROVE  SendInv'
  BY <1>5 DEF ConnectionAttemptStarted, Phase
<1>6. ASSUME NEW e \in Epochs, NEW a \in Attempts, RequestSendStarted(e, a) PROVE SendInv'
  <2>1. /\ attempt[a] = "connecting"
        /\ attempt' = [attempt EXCEPT ![a] = "sending"]
        /\ pc' = [pc EXCEPT ![e][a] = "sending"]
        /\ wire' = wire
    BY <1>6 DEF RequestSendStarted, Phase
  <2>2. wire[a] = 0 /\ \A f \in Epochs : pc[f][a] \notin {"sending", "sent", "awaiting"}
    BY <2>1
  <2> QED BY <2>1, <2>2
<1>7. ASSUME NEW e \in Epochs, NEW a \in Attempts, Transmit(e, a) PROVE SendInv'
  BY <1>7 DEF Transmit
<1>8. ASSUME NEW e \in Epochs, NEW a \in Attempts, AwaitingResponse(e, a) PROVE SendInv'
  BY <1>8 DEF AwaitingResponse, Phase
<1>9. ASSUME NEW e \in Epochs, NEW a \in Attempts, ReturnNotSent(e, a) PROVE SendInv'
  <2>1. PICK there \in {"idle", "reduced"} :
          /\ pc' = [pc EXCEPT ![e][a] = there] /\ wire' = wire
          /\ \/ /\ attempt[a] \in {"pre_send_committed", "connecting"}
                /\ attempt' = [attempt EXCEPT ![a] = "not_sent"]
             \/ /\ attempt[a] = "sending"
                /\ attempt' = [attempt EXCEPT ![a] = "unknown_outcome"]
    BY <1>9, NotSentStep DEF Conclude, Terminate, AfterTerminal
  <2>2. CASE attempt[a] = "sending"
    <3>1. attempt' = [attempt EXCEPT ![a] = "unknown_outcome"]
      BY <2>1, <2>2
    <3> QED BY <2>1, <3>1
  <2>3. CASE attempt[a] # "sending"
    <3>1. wire[a] = 0 /\ \A f \in Epochs : pc[f][a] \notin {"sending", "sent", "awaiting"}
      BY <2>1, <2>3
    <3>2. /\ attempt'[a] = "not_sent"
          /\ \A b \in Attempts : b # a => attempt'[b] = attempt[b]
      BY <2>1, <2>3
    <3>3. \A f \in Epochs, b \in Attempts :
            pc'[f][b] \in {"sending", "sent", "awaiting"} => b # a /\ pc'[f][b] = pc[f][b]
      BY <2>1, <3>1
    <3>4. \A f \in Epochs, b \in Attempts :
            pc'[f][b] \in {"sending", "sent", "awaiting"} => attempt'[b] \in PossiblySent
      BY <3>2, <3>3
    <3>5. \A b \in Attempts : attempt'[b] \notin PossiblySent => wire'[b] = 0
      BY <2>1, <3>1, <3>2
    <3>6. \A f \in Epochs, b \in Attempts : pc'[f][b] = "sending" => wire'[b] = 0
      BY <2>1, <3>3
    <3>7. \A f, g \in Epochs, b \in Attempts :
            pc'[f][b] = "sending" /\ pc'[g][b] = "sending" => f = g
      BY <3>3
    <3>8. \A b \in Attempts : wire'[b] = 0 \/ wire'[b] = 1
      BY <2>1
    <3> HIDE DEF TypeOK, IInv
    <3> QED BY <3>4, <3>5, <3>6, <3>7, <3>8
  <2> QED BY <2>2, <2>3
<1>10. ASSUME NEW e \in Epochs, NEW a \in Attempts, ReturnUnknown(e, a) PROVE SendInv'
  BY <1>10 DEF ReturnUnknown, Conclude, Terminate, AfterTerminal
<1>11. ASSUME NEW e \in Epochs, NEW a \in Attempts, ResponseObserved(e, a) PROVE SendInv'
  BY <1>11 DEF ResponseObserved
<1>12. ASSUME NEW e \in Epochs, NEW a \in Attempts, CommitOutcome(e, a) PROVE SendInv'
  BY <1>12 DEF CommitOutcome, Conclude, Terminate, AfterTerminal, StagingInv
<1>13. ASSUME NEW e \in Epochs, NEW a \in Attempts, TerminalizeDelivery(e, a)
      PROVE  SendInv'
  BY <1>13 DEF TerminalizeDelivery
<1>14. ASSUME NEW e \in Epochs, NEW a \in Attempts, RebindAttempt(e, a) PROVE SendInv'
  BY <1>14 DEF RebindAttempt
<1>15. ASSUME NEW e \in Epochs, NEW a \in Attempts, TerminateAttempt(e, a) PROVE SendInv'
  BY <1>15 DEF TerminateAttempt, Terminate, RecoveredState, ToTerminate, AttemptLive, StagingInv
<1>16. ASSUME NEW e \in Epochs, NEW a \in Attempts, ReduceDelivery(e, a) PROVE SendInv'
  BY <1>16 DEF ReduceDelivery
<1>17. ASSUME NEW e \in Epochs, ActivateRun(e) PROVE SendInv'
  BY <1>17 DEF ActivateRun
<1>18. ASSUME NEW e \in Epochs, LoadDue(e) PROVE SendInv'
  BY <1>18 DEF LoadDue, Idle
<1>19. ASSUME NEW e \in Epochs, FinishRun(e) PROVE SendInv'
  BY <1>19 DEF FinishRun, Stop
<1>20. ASSUME NEW e \in Epochs, Scan(e) PROVE SendInv'
  BY <1>20 DEF Scan
<1>21. ASSUME NEW e \in Epochs, ContinueUnambiguous(e) PROVE SendInv'
  BY <1>21 DEF ContinueUnambiguous
<1>22. ASSUME NEW e \in Epochs, StopAmbiguous(e) PROVE SendInv'
  BY <1>22 DEF StopAmbiguous, Stop
<1>23. ASSUME NEW e \in Epochs, OperatorDecision(e) PROVE SendInv'
  BY <1>23 DEF OperatorDecision
<1>24. ASSUME NEW e \in Epochs, Redeliver(e) PROVE SendInv'
  <2>1. /\ pc' = pc /\ wire' = wire
        /\ \A a \in Attempts : \/ attempt'[a] = attempt[a]
                               \/ attempt[a] = "none" /\ attempt'[a] = "scheduled"
    BY <1>24, RedeliverEffect
  <2> HIDE DEF TypeOK, IInv
  <2>2. SendInv
    BY DEF IInv
  <2> QED BY <2>1, <2>2
<1>25. ASSUME NEW e \in Epochs, FencedOut(e) PROVE SendInv'
  BY <1>25 DEF FencedOut, Stop
<1>26. ASSUME NEW e \in Epochs, TakeOver(e) PROVE SendInv'
  BY <1>26 DEF TakeOver
<1>27. ASSUME NEW e \in Epochs, Crash(e) PROVE SendInv'
  BY <1>27 DEF Crash, Stop
<1>28. ASSUME PreflightResume PROVE SendInv'
  BY <1>28 DEF PreflightResume
<1> HIDE DEF IInv, TypeOK, SendInv, PossiblySent, journal, memory
<1> QED
  BY <1>1, <1>2, <1>3, <1>4, <1>5, <1>6, <1>7, <1>8, <1>9, <1>10, <1>11, <1>12,
     <1>13, <1>14, <1>15, <1>16, <1>17, <1>18, <1>19, <1>20, <1>21, <1>22, <1>23, <1>24,
     <1>25, <1>26, <1>27, <1>28
  DEF Next, Process, Worker, Recovery

\* Every step keeps staged responses definite and bound to observed attempts.
LEMMA StagingNext == IInv /\ Next => StagingInv'
<1> SUFFICES ASSUME IInv, Next PROVE StagingInv'
  OBVIOUS
<1> USE DEF IInv, TypeOK, StagingInv, journal, memory
<1>1. ASSUME NEW e \in Epochs, NEW a \in Attempts, ActivateDelivery(e, a)
      PROVE  StagingInv'
  BY <1>1 DEF ActivateDelivery
<1>2. ASSUME NEW e \in Epochs, NEW a \in Attempts, ClaimSchedule(e, a) PROVE StagingInv'
  BY <1>2 DEF ClaimSchedule, Claimable
<1>3. ASSUME NEW e \in Epochs, NEW a \in Attempts, ReplayClaim(e, a) PROVE StagingInv'
  BY <1>3 DEF ReplayClaim
<1>4. ASSUME NEW e \in Epochs, NEW a \in Attempts, CommitPreSend(e, a) PROVE StagingInv'
  BY <1>4 DEF CommitPreSend, Phase
<1>5. ASSUME NEW e \in Epochs, NEW a \in Attempts, ConnectionAttemptStarted(e, a)
      PROVE  StagingInv'
  BY <1>5 DEF ConnectionAttemptStarted, Phase
<1>6. ASSUME NEW e \in Epochs, NEW a \in Attempts, RequestSendStarted(e, a)
      PROVE  StagingInv'
  BY <1>6 DEF RequestSendStarted, Phase
<1>7. ASSUME NEW e \in Epochs, NEW a \in Attempts, Transmit(e, a) PROVE StagingInv'
  BY <1>7 DEF Transmit
<1>8. ASSUME NEW e \in Epochs, NEW a \in Attempts, AwaitingResponse(e, a)
      PROVE  StagingInv'
  BY <1>8 DEF AwaitingResponse, Phase
<1>9. ASSUME NEW e \in Epochs, NEW a \in Attempts, ReturnNotSent(e, a) PROVE StagingInv'
  <2>1. /\ staged' = [staged EXCEPT ![a] = NoStaging]
        /\ \/ attempt' = [attempt EXCEPT ![a] = "not_sent"]
           \/ attempt' = [attempt EXCEPT ![a] = "unknown_outcome"]
    BY <1>9, NotSentStep DEF Conclude, Terminate
  <2> QED BY <2>1
<1>10. ASSUME NEW e \in Epochs, NEW a \in Attempts, ReturnUnknown(e, a) PROVE StagingInv'
  BY <1>10 DEF ReturnUnknown, Conclude, Terminate, NoStaging
<1>11. ASSUME NEW e \in Epochs, NEW a \in Attempts, ResponseObserved(e, a)
      PROVE  StagingInv'
  <2>1. PICK r \in CompleteResponses :
          staged' = [staged EXCEPT ![a] =
                       [terminal |-> r[1], retry |-> RetryScheduled(a, r[2])]]
    BY <1>11 DEF ResponseObserved
  <2>2. "none" \notin Predicates
    BY DEF Predicates
  <2>3. RetryScheduled(a, r[2]) => r[1] # "succeeded"
    BY <2>2, PlanAssumption DEF CompleteResponses, RetryScheduled
  <2>4. r[1] \in {"succeeded", "rejected", "transport_failed"}
    BY DEF CompleteResponses
  <2> QED BY <1>11, <2>1, <2>3, <2>4 DEF ResponseObserved
<1>12. ASSUME NEW e \in Epochs, NEW a \in Attempts, CommitOutcome(e, a) PROVE StagingInv'
  BY <1>12 DEF CommitOutcome, Conclude, Terminate, NoStaging
<1>13. ASSUME NEW e \in Epochs, NEW a \in Attempts, TerminalizeDelivery(e, a)
      PROVE  StagingInv'
  BY <1>13 DEF TerminalizeDelivery
<1>14. ASSUME NEW e \in Epochs, NEW a \in Attempts, RebindAttempt(e, a) PROVE StagingInv'
  BY <1>14 DEF RebindAttempt
<1>15. ASSUME NEW e \in Epochs, NEW a \in Attempts, TerminateAttempt(e, a)
      PROVE  StagingInv'
  BY <1>15 DEF TerminateAttempt, Terminate, RecoveredState, ToTerminate, AttemptLive, NoStaging
<1>16. ASSUME NEW e \in Epochs, NEW a \in Attempts, ReduceDelivery(e, a) PROVE StagingInv'
  BY <1>16 DEF ReduceDelivery
<1>17. ASSUME NEW e \in Epochs, ActivateRun(e) PROVE StagingInv'
  BY <1>17 DEF ActivateRun
<1>18. ASSUME NEW e \in Epochs, LoadDue(e) PROVE StagingInv'
  BY <1>18 DEF LoadDue
<1>19. ASSUME NEW e \in Epochs, FinishRun(e) PROVE StagingInv'
  BY <1>19 DEF FinishRun, Stop
<1>20. ASSUME NEW e \in Epochs, Scan(e) PROVE StagingInv'
  BY <1>20 DEF Scan
<1>21. ASSUME NEW e \in Epochs, ContinueUnambiguous(e) PROVE StagingInv'
  BY <1>21 DEF ContinueUnambiguous
<1>22. ASSUME NEW e \in Epochs, StopAmbiguous(e) PROVE StagingInv'
  BY <1>22 DEF StopAmbiguous, Stop
<1>23. ASSUME NEW e \in Epochs, OperatorDecision(e) PROVE StagingInv'
  BY <1>23 DEF OperatorDecision
<1>24. ASSUME NEW e \in Epochs, Redeliver(e) PROVE StagingInv'
  BY <1>24, RedeliveryConsented DEF Redeliver, AuthorizedRedeliveries, Redeliverable
<1>25. ASSUME NEW e \in Epochs, FencedOut(e) PROVE StagingInv'
  BY <1>25 DEF FencedOut, Stop
<1>26. ASSUME NEW e \in Epochs, TakeOver(e) PROVE StagingInv'
  BY <1>26 DEF TakeOver
<1>27. ASSUME NEW e \in Epochs, Crash(e) PROVE StagingInv'
  BY <1>27 DEF Crash, Stop
<1>28. ASSUME PreflightResume PROVE StagingInv'
  BY <1>28 DEF PreflightResume
<1> HIDE DEF IInv, TypeOK, StagingInv, journal, memory
<1> QED
  BY <1>1, <1>2, <1>3, <1>4, <1>5, <1>6, <1>7, <1>8, <1>9, <1>10, <1>11, <1>12,
     <1>13, <1>14, <1>15, <1>16, <1>17, <1>18, <1>19, <1>20, <1>21, <1>22, <1>23, <1>24,
     <1>25, <1>26, <1>27, <1>28
  DEF Next, Process, Worker, Recovery

\* The recovery gives an interrupted attempt a final state along an edge of the table.
LEMMA RecoveredOutcome ==
  ASSUME StagingInv, NEW a \in Attempts, attempt[a] \in AttemptLive
  PROVE  /\ RecoveredState(a, attempt[a]) \in AttemptTerminal
         /\ <<attempt[a], RecoveredState(a, attempt[a])>> \in AttemptEdges
         /\ staged[a].retry => RecoveredState(a, attempt[a]) \in AtomicRetryStates
<1> USE DEF AttemptLive, AttemptTerminal, AttemptEdges, AtomicRetryStates, RecoveredState
<1>1. CASE attempt[a] = "response_observed"
  BY <1>1 DEF StagingInv
<1>2. CASE attempt[a] # "response_observed"
  <2>1. staged[a].retry = FALSE
    BY <1>2 DEF StagingInv, NoStaging
  <2> QED BY <1>2, <2>1
<1> QED BY <1>1, <1>2

\* A transaction of a worker of the owner keeps ownership.
LEMMA WorkerOwner ==
  ASSUME TypeOK, OwnerInv, NEW e \in Epochs, NEW a \in Attempts, NEW there,
         epoch = e, pc[e][a] # "idle", pc' = [pc EXCEPT ![e][a] = there],
         epoch' = epoch, mode' = mode,
         \A b \in Attempts : attempt'[b] = "claimed" => consumedBy'[b] = owner'[b]
  PROVE  OwnerInv'
<1>1. \A f \in Epochs : mode[f] # "running" => Idle(f)
  BY DEF OwnerInv
<1>2. mode[e] = "running"
  BY <1>1 DEF Idle
<1>3. \A f \in Epochs : f # e => pc'[f] = pc[f]
  BY DEF TypeOK
<1>4. \A f \in Epochs : mode'[f] # "running" => Idle(f)'
  BY <1>1, <1>2, <1>3 DEF Idle
<1>5. \A f \in Epochs : ~(Owns(f)' /\ mode'[f] = "applying")
  BY <1>2 DEF Owns
<1>6. \A f \in Epochs : f > epoch' => mode'[f] = "none"
  BY DEF OwnerInv
<1> QED BY <1>4, <1>5, <1>6 DEF OwnerInv

\* A phase transaction of a worker keeps ownership.
LEMMA PhaseOwner ==
  ASSUME TypeOK, OwnerInv, NEW e \in Epochs, NEW a \in Attempts, NEW target, NEW there,
         target # "claimed", epoch = e, pc[e][a] # "idle",
         attempt' = [attempt EXCEPT ![a] = target], pc' = [pc EXCEPT ![e][a] = there],
         UNCHANGED <<epoch, mode, owner, consumedBy>>
  PROVE  OwnerInv'
<1>1. \A b \in Attempts : attempt'[b] = "claimed" => attempt[b] = "claimed"
  BY DEF TypeOK
<1>2. \A b \in Attempts : attempt[b] = "claimed" => consumedBy[b] = owner[b]
  BY DEF OwnerInv
<1>3. \A b \in Attempts : attempt'[b] = "claimed" => consumedBy'[b] = owner'[b]
  BY <1>1, <1>2
<1> QED BY <1>3, WorkerOwner

\* A process that stops, or dies, leaves ownership as it is.
LEMMA StopOwner ==
  ASSUME TypeOK, OwnerInv, NEW e \in Epochs, mode[e] # "none", Stop(e),
         UNCHANGED <<epoch, attempt, owner, consumedBy>>
  PROVE  OwnerInv'
<1>1. /\ mode'[e] = "stopped" /\ \A b \in Attempts : pc'[e][b] = "idle"
      /\ \A f \in Epochs : f # e => /\ mode'[f] = mode[f] /\ pc'[f] = pc[f]
                                   /\ scanned'[f] = scanned[f]
  BY DEF TypeOK, Stop
<1>2. \A f \in Epochs : mode'[f] # "running" => Idle(f)'
  <2>1. \A f \in Epochs : mode[f] # "running" => Idle(f)
    BY DEF OwnerInv
  <2> QED BY <1>1, <2>1 DEF Idle
<1>3. \A f \in Epochs : f > epoch' => mode'[f] = "none"
  BY <1>1 DEF OwnerInv
<1>4. ASSUME NEW f \in Epochs, Owns(f)', mode'[f] = "applying"
      PROVE  \A a \in (ToRebind(f) \cup ToTerminate(f))' : attempt'[a] = scanned'[f][a]
  <2>1. Owns(f) /\ mode[f] = "applying" /\ scanned'[f] = scanned[f]
    BY <1>1, <1>4 DEF Owns
  <2>2. ToRebind(f)' = ToRebind(f) /\ ToTerminate(f)' = ToTerminate(f)
    BY <2>1 DEF ToRebind, ToTerminate
  <2>3. \A a \in ToRebind(f) \cup ToTerminate(f) : attempt[a] = scanned[f][a]
    BY <2>1 DEF OwnerInv
  <2> QED BY <2>1, <2>2, <2>3
<1> QED BY <1>2, <1>3, <1>4 DEF OwnerInv

\* A process outside its workers that owns the run, or comes to own it, may move on.
LEMMA MoveOwner ==
  ASSUME TypeOK, OwnerInv, NEW e \in Epochs, NEW next \in {"owner", "continuing"},
         mode[e] # "running", epoch <= e, epoch' = e, mode' = [mode EXCEPT ![e] = next],
         pc' = pc, \A a \in Attempts : attempt'[a] = "claimed" => consumedBy'[a] = owner'[a]
  PROVE  OwnerInv'
<1>1. /\ mode'[e] = next
      /\ \A f \in Epochs : f # e => mode'[f] = mode[f]
  BY DEF TypeOK
<1>2. \A f \in Epochs : mode'[f] # "running" => Idle(f)'
  <2>1. \A f \in Epochs : mode[f] # "running" => Idle(f)
    BY DEF OwnerInv
  <2> QED BY <1>1, <2>1 DEF Idle
<1>3. \A f \in Epochs : f > epoch' => mode'[f] = "none"
  <2>1. \A f \in Epochs : f > epoch => mode[f] = "none"
    BY DEF OwnerInv
  <2>2. \A f \in Epochs : f > e => f > epoch /\ f # e
    BY DEF TypeOK, Epochs
  <2> QED BY <1>1, <2>1, <2>2
<1>4. \A f \in Epochs : ~(Owns(f)' /\ mode'[f] = "applying")
  BY <1>1 DEF Owns
<1> QED BY <1>2, <1>3, <1>4 DEF OwnerInv

\* Applying one scanned attempt keeps ownership: what is left of the scan is current.
LEMMA ApplyOwner ==
  ASSUME OwnerInv, NEW e \in Epochs, epoch = e, mode[e] = "applying",
         UNCHANGED <<epoch, mode, pc>>,
         \A b \in Attempts : attempt'[b] = "claimed" => consumedBy'[b] = owner'[b],
         \A b \in Attempts : scanned'[e][b] # "none" =>
           scanned'[e][b] = scanned[e][b] /\ attempt'[b] = attempt[b]
  PROVE  OwnerInv'
<1>1. \A b \in ToRebind(e) \cup ToTerminate(e) : attempt[b] = scanned[e][b]
  BY DEF OwnerInv, Owns
<1>2. \A b \in (ToRebind(e) \cup ToTerminate(e))' : attempt'[b] = scanned'[e][b]
  BY <1>1 DEF ToRebind, ToTerminate, AttemptLive
<1>3. \A f \in Epochs : Owns(f)' => f = e
  BY DEF Owns
<1>4. /\ \A f \in Epochs : mode'[f] # "running" => Idle(f)'
      /\ \A f \in Epochs : f > epoch' => mode'[f] = "none"
  BY DEF OwnerInv, Idle
<1> QED BY <1>2, <1>3, <1>4 DEF OwnerInv

\* A step that changes nothing ownership is about keeps it.
LEMMA SameOwner ==
  ASSUME OwnerInv, UNCHANGED <<epoch, mode, pc, scanned, attempt, owner, consumedBy>>
  PROVE  OwnerInv'
<1>1. \A e \in Epochs : /\ Idle(e)' <=> Idle(e)
                        /\ Owns(e)' <=> Owns(e)
                        /\ ToRebind(e)' = ToRebind(e)
                        /\ ToTerminate(e)' = ToTerminate(e)
  BY DEF Idle, Owns, ToRebind, ToTerminate
<1> QED BY <1>1 DEF OwnerInv

\* Every step keeps ownership: the fence lets only the owner of the run change it.
LEMMA OwnerNext == IInv /\ Next => OwnerInv'
<1> SUFFICES ASSUME IInv, Next PROVE OwnerInv'
  OBVIOUS
<1> USE DEF IInv, journal, memory
<1>0. \A b \in Attempts : attempt[b] = "claimed" => consumedBy[b] = owner[b]
  BY DEF OwnerInv
<1>1. ASSUME NEW e \in Epochs, NEW a \in Attempts, ActivateDelivery(e, a) PROVE OwnerInv'
  BY <1>1, SameOwner DEF ActivateDelivery
<1>2. ASSUME NEW e \in Epochs, NEW a \in Attempts, ClaimSchedule(e, a) PROVE OwnerInv'
  <2>1. \A b \in Attempts : attempt'[b] = "claimed" => consumedBy'[b] = owner'[b]
    BY <1>0, <1>2 DEF ClaimSchedule, TypeOK
  <2> QED BY <1>2, <2>1, WorkerOwner DEF ClaimSchedule, Owns
<1>3. ASSUME NEW e \in Epochs, NEW a \in Attempts, ReplayClaim(e, a) PROVE OwnerInv'
  BY <1>0, <1>3, WorkerOwner DEF ReplayClaim, Owns
<1>4. ASSUME NEW e \in Epochs, NEW a \in Attempts, CommitPreSend(e, a) PROVE OwnerInv'
  BY <1>4, PhaseOwner DEF CommitPreSend, Phase, Owns
<1>5. ASSUME NEW e \in Epochs, NEW a \in Attempts, ConnectionAttemptStarted(e, a)
      PROVE  OwnerInv'
  BY <1>5, PhaseOwner DEF ConnectionAttemptStarted, Phase, Owns
<1>6. ASSUME NEW e \in Epochs, NEW a \in Attempts, RequestSendStarted(e, a)
      PROVE  OwnerInv'
  BY <1>6, PhaseOwner DEF RequestSendStarted, Phase, Owns
<1>7. ASSUME NEW e \in Epochs, NEW a \in Attempts, Transmit(e, a) PROVE OwnerInv'
  <2>1. /\ pc[e][a] # "idle" /\ pc' = [pc EXCEPT ![e][a] = "sent"]
        /\ UNCHANGED <<epoch, mode, attempt, owner, consumedBy, scanned>>
    BY <1>7 DEF Transmit
  <2>2. \A f \in Epochs : mode'[f] # "running" => Idle(f)'
    BY <2>1 DEF TypeOK, OwnerInv, Idle
  <2> QED BY <2>1, <2>2 DEF OwnerInv, Owns, ToRebind, ToTerminate
<1>8. ASSUME NEW e \in Epochs, NEW a \in Attempts, AwaitingResponse(e, a) PROVE OwnerInv'
  BY <1>8, PhaseOwner DEF AwaitingResponse, Phase, Owns
<1>9. ASSUME NEW e \in Epochs, NEW a \in Attempts, ReturnNotSent(e, a) PROVE OwnerInv'
  <2>1. PICK terminal \in {"not_sent", "unknown_outcome"}, retry \in BOOLEAN :
          Conclude(e, a, terminal, retry)
    BY <1>9, NotSentStep
  <2>2. pc[e][a] # "idle"
    BY <1>9 DEF ReturnNotSent
  <2> QED BY <2>1, <2>2, PhaseOwner DEF Conclude, Terminate, Owns
<1>10. ASSUME NEW e \in Epochs, NEW a \in Attempts, ReturnUnknown(e, a) PROVE OwnerInv'
  BY <1>10, PhaseOwner DEF ReturnUnknown, Conclude, Terminate, Owns
<1>11. ASSUME NEW e \in Epochs, NEW a \in Attempts, ResponseObserved(e, a) PROVE OwnerInv'
  BY <1>11, PhaseOwner DEF ResponseObserved, Owns
<1>12. ASSUME NEW e \in Epochs, NEW a \in Attempts, CommitOutcome(e, a) PROVE OwnerInv'
  <2>1. staged[a].terminal # "claimed" /\ pc[e][a] # "idle"
    BY <1>12 DEF CommitOutcome, StagingInv
  <2> QED BY <1>12, <2>1, PhaseOwner DEF CommitOutcome, Conclude, Terminate, Owns
<1>13. ASSUME NEW e \in Epochs, NEW a \in Attempts, TerminalizeDelivery(e, a)
      PROVE  OwnerInv'
  BY <1>0, <1>13, WorkerOwner DEF TerminalizeDelivery, Owns
<1>14. ASSUME NEW e \in Epochs, NEW a \in Attempts, RebindAttempt(e, a) PROVE OwnerInv'
  <2>1. /\ epoch = e /\ mode[e] = "applying"
        /\ owner' = [owner EXCEPT ![a] = e]
        /\ attempt[a] = "claimed" => consumedBy' = [consumedBy EXCEPT ![a] = e]
        /\ attempt[a] # "claimed" => consumedBy' = consumedBy
        /\ scanned' = [scanned EXCEPT ![e][a] = "none"]
        /\ UNCHANGED <<epoch, mode, pc, attempt>>
    BY <1>14 DEF RebindAttempt, Owns
  <2>2. \A b \in Attempts : attempt'[b] = "claimed" => consumedBy'[b] = owner'[b]
    BY <1>0, <2>1 DEF TypeOK
  <2>3. \A b \in Attempts : scanned'[e][b] # "none" =>
          scanned'[e][b] = scanned[e][b] /\ attempt'[b] = attempt[b]
    BY <2>1 DEF TypeOK
  <2> QED BY <2>1, <2>2, <2>3, ApplyOwner
<1>15. ASSUME NEW e \in Epochs, NEW a \in Attempts, TerminateAttempt(e, a) PROVE OwnerInv'
  <2> DEFINE terminal == RecoveredState(a, scanned[e][a])
  <2>0. terminal # "claimed"
    BY <1>15, RecoveredOutcome DEF TerminateAttempt, AttemptTerminal, ToTerminate
  <2> HIDE DEF terminal
  <2>1. /\ mode[e] = "applying" /\ epoch = e
        /\ attempt' = [attempt EXCEPT ![a] = terminal]
        /\ scanned' = [scanned EXCEPT ![e][a] = "none"]
        /\ UNCHANGED <<epoch, mode, pc, owner, consumedBy>>
    BY <1>15 DEF TerminateAttempt, Terminate, terminal, Owns
  <2>2. \A b \in Attempts : attempt'[b] = "claimed" => attempt[b] = "claimed"
    BY <2>0, <2>1 DEF TypeOK
  <2>3. \A b \in Attempts : scanned'[e][b] # "none" =>
          scanned'[e][b] = scanned[e][b] /\ attempt'[b] = attempt[b]
    BY <2>1 DEF TypeOK
  <2>4. \A b \in Attempts : attempt'[b] = "claimed" => consumedBy'[b] = owner'[b]
    BY <1>0, <2>1, <2>2
  <2> QED BY <2>1, <2>3, <2>4, ApplyOwner
<1>16. ASSUME NEW e \in Epochs, NEW a \in Attempts, ReduceDelivery(e, a) PROVE OwnerInv'
  BY <1>16, SameOwner DEF ReduceDelivery
<1>17. ASSUME NEW e \in Epochs, ActivateRun(e) PROVE OwnerInv'
  BY <1>17 DEF ActivateRun, TypeOK, OwnerInv, Idle, Owns, ToRebind, ToTerminate
<1>18. ASSUME NEW e \in Epochs, LoadDue(e) PROVE OwnerInv'
  BY <1>18 DEF LoadDue, TypeOK, OwnerInv, Idle, Owns, ToRebind, ToTerminate
<1>19. ASSUME NEW e \in Epochs, FinishRun(e) PROVE OwnerInv'
  BY <1>19, StopOwner DEF FinishRun
<1>20. ASSUME NEW e \in Epochs, Scan(e) PROVE OwnerInv'
  BY <1>20 DEF Scan, TypeOK, OwnerInv, Idle, Owns, ToRebind, ToTerminate
<1>21. ASSUME NEW e \in Epochs, ContinueUnambiguous(e) PROVE OwnerInv'
  <2>1. /\ mode[e] = "applying" /\ epoch = e /\ epoch' = e /\ pc' = pc
        /\ mode' = [mode EXCEPT ![e] = "continuing"]
        /\ UNCHANGED <<attempt, owner, consumedBy>>
    BY <1>21 DEF ContinueUnambiguous, Recovered, Applied, Owns, journal
  <2>2. \A a \in Attempts : attempt'[a] = "claimed" => consumedBy'[a] = owner'[a]
    BY <2>1 DEF OwnerInv
  <2>3. epoch <= e
    BY <2>1 DEF Epochs
  <2> QED BY <2>1, <2>2, <2>3, MoveOwner
<1>22. ASSUME NEW e \in Epochs, StopAmbiguous(e) PROVE OwnerInv'
  BY <1>22, StopOwner DEF StopAmbiguous, Recovered, Applied
<1>23. ASSUME NEW e \in Epochs, OperatorDecision(e) PROVE OwnerInv'
  <2>1. /\ mode[e] = "applying" /\ epoch = e /\ epoch' = e /\ pc' = pc
        /\ mode' = [mode EXCEPT ![e] = "continuing"]
        /\ UNCHANGED <<attempt, owner, consumedBy>>
    BY <1>23 DEF OperatorDecision, Recovered, Applied, Owns, journal
  <2>2. \A a \in Attempts : attempt'[a] = "claimed" => consumedBy'[a] = owner'[a]
    BY <2>1 DEF OwnerInv
  <2>3. epoch <= e
    BY <2>1 DEF Epochs
  <2> QED BY <2>1, <2>2, <2>3, MoveOwner
<1>24. ASSUME NEW e \in Epochs, Redeliver(e) PROVE OwnerInv'
  <2>1. /\ mode[e] = "applying" /\ epoch = e /\ epoch' = e /\ pc' = pc
        /\ mode' = [mode EXCEPT ![e] = "continuing"]
        /\ consumedBy' = consumedBy
    BY <1>24 DEF Redeliver, Recovered, Applied, Owns
  <2>2. \A a \in Attempts : attempt'[a] = "claimed" =>
          attempt[a] = "claimed" /\ owner'[a] = owner[a]
    BY <1>24 DEF Redeliver, AuthorizedRedeliveries
  <2>3. \A a \in Attempts : attempt'[a] = "claimed" => consumedBy'[a] = owner'[a]
    BY <2>1, <2>2 DEF OwnerInv
  <2>4. epoch <= e
    BY <2>1 DEF Epochs
  <2> QED BY <2>1, <2>3, <2>4, MoveOwner
<1>25. ASSUME NEW e \in Epochs, FencedOut(e) PROVE OwnerInv'
  BY <1>25, StopOwner DEF FencedOut, Alive
<1>26. ASSUME NEW e \in Epochs, TakeOver(e) PROVE OwnerInv'
  <2>1. /\ e = epoch + 1 /\ epoch' = e /\ pc' = pc
        /\ mode' = [mode EXCEPT ![e] = "owner"]
        /\ UNCHANGED <<attempt, owner, consumedBy>>
    BY <1>26 DEF TakeOver
  <2>2. epoch <= e /\ e > epoch
    BY <2>1 DEF TypeOK, Epochs
  <2>3. mode[e] # "running"
    BY <2>2 DEF OwnerInv
  <2>4. \A a \in Attempts : attempt'[a] = "claimed" => consumedBy'[a] = owner'[a]
    BY <2>1 DEF OwnerInv
  <2> QED BY <2>1, <2>2, <2>3, <2>4, MoveOwner
<1>27. ASSUME NEW e \in Epochs, Crash(e) PROVE OwnerInv'
  BY <1>27, StopOwner DEF Crash, Alive
<1>28. ASSUME PreflightResume PROVE OwnerInv'
  BY <1>28, SameOwner DEF PreflightResume
<1> HIDE DEF IInv, journal, memory
<1> QED
  BY <1>1, <1>2, <1>3, <1>4, <1>5, <1>6, <1>7, <1>8, <1>9, <1>10, <1>11, <1>12,
     <1>13, <1>14, <1>15, <1>16, <1>17, <1>18, <1>19, <1>20, <1>21, <1>22, <1>23, <1>24,
     <1>25, <1>26, <1>27, <1>28
  DEF Next, Process, Worker, Recovery

\* Consuming an entry keeps the chain.
LEMMA ClaimChain ==
  ASSUME TypeOK, ChainInv, NEW a \in Attempts,
         attempt[a] \in {"none", "scheduled"}, entry[a] = "pending",
         attempt' = [attempt EXCEPT ![a] = "claimed"],
         entry' = [entry EXCEPT ![a] = "consumed"], redelivered' = redelivered
  PROVE  ChainInv'
BY DEF TypeOK, ChainInv, ConsentedSuccessor, AttemptTerminal, AtomicRetryStates

\* A phase of an attempt in flight keeps the chain.
LEMMA PhaseChain ==
  ASSUME TypeOK, ChainInv, NEW a \in Attempts, NEW target \in AttemptLive,
         attempt[a] \in {"claimed"} \cup AttemptLive,
         attempt' = [attempt EXCEPT ![a] = target], UNCHANGED <<entry, redelivered>>
  PROVE  ChainInv'
BY DEF TypeOK, ChainInv, ConsentedSuccessor, AttemptTerminal, AttemptLive, AtomicRetryStates

\* A terminal transaction keeps the chain: it schedules a retry only of a definite
\* failure, and only the attempt it ends was open.
LEMMA TerminateChain ==
  ASSUME TypeOK, ChainInv, NEW a \in Attempts, NEW terminal \in AttemptTerminal,
         NEW retry \in BOOLEAN, attempt[a] \in AttemptLive,
         retry => terminal \in AtomicRetryStates,
         Terminate(a, terminal, retry), redelivered' = redelivered
  PROVE  ChainInv'
<1> USE DEF TypeOK, ChainInv, AttemptTerminal, AttemptLive, AtomicRetryStates
<1>1. attempt' = [attempt EXCEPT ![a] = terminal] /\ entry[a] = "consumed"
  BY DEF Terminate
<1>2. CASE ~retry
  <2>1. entry' = entry
    BY <1>2 DEF Terminate
  <2> QED BY <1>1, <2>1 DEF ConsentedSuccessor
<1>3. CASE retry
  <2>1. entry' = [entry EXCEPT ![Succ(a)] = "pending"] /\ entry[Succ(a)] = "none"
    BY <1>3 DEF Terminate
  <2>2. \A b \in Attempts : entry'[b] # entry[b] => b = Succ(a) /\ attempt'[b] = "none"
                                                   /\ entry'[b] = "pending"
    BY <1>1, <2>1
  <2>3. \A b \in Attempts : attempt'[b] # attempt[b] => b = a
    BY <1>1
  <2>4. ASSUME NEW b \in Attempts, NEW c \in Attempts,
               b[1] = c[1], b[2] < c[2], entry'[c] # "none"
        PROVE  attempt'[b] \in AttemptTerminal
    <3>1. CASE entry[c] # "none"
      BY <1>1, <2>4, <3>1
    <3>2. CASE entry[c] = "none"
      <4>1. c = Succ(a)
        BY <2>2, <2>4, <3>2
      <4>2. b[1] = a[1] /\ (b[2] < a[2] \/ b = a)
        BY <2>4, <4>1, BeforeSuccessor
      <4>3. b = a \/ attempt[b] \in AttemptTerminal
        BY <1>1, <4>2
      <4> QED BY <1>1, <4>3
    <3> QED BY <3>1, <3>2
  <2>5. ConsentedSuccessor'
    <3> SUFFICES ASSUME NEW b \in Attempts, Succ(b) \in Attempts, entry'[Succ(b)] # "none"
                 PROVE  \/ attempt'[b] \in AtomicRetryStates
                        \/ attempt'[b] = "unknown_outcome" /\ b \in redelivered'
      BY DEF ConsentedSuccessor
    <3>1. CASE b = a
      BY <1>1, <1>3, <3>1
    <3>2. CASE b # a
      <4>1. Succ(b) # Succ(a)
        BY <3>2, SuccInjective
      <4> QED BY <1>1, <2>1, <3>2, <4>1 DEF ConsentedSuccessor
    <3> QED BY <3>1, <3>2
  <2> QED BY <1>1, <2>1, <2>2, <2>3, <2>4, <2>5
<1> QED BY <1>2, <1>3

\* Every step keeps the entries of a delivery a chain.
LEMMA ChainNext == IInv /\ Next => ChainInv'
<1> SUFFICES ASSUME IInv, Next PROVE ChainInv'
  OBVIOUS
<1> USE DEF IInv, journal, memory
<1>1. ASSUME NEW e \in Epochs, NEW a \in Attempts, ActivateDelivery(e, a) PROVE ChainInv'
  BY <1>1 DEF ActivateDelivery, ChainInv, ConsentedSuccessor
<1>2. ASSUME NEW e \in Epochs, NEW a \in Attempts, ClaimSchedule(e, a) PROVE ChainInv'
  BY <1>2, ClaimChain DEF ClaimSchedule, Claimable
<1>3. ASSUME NEW e \in Epochs, NEW a \in Attempts, ReplayClaim(e, a) PROVE ChainInv'
  BY <1>3 DEF ReplayClaim, ChainInv, ConsentedSuccessor
<1>4. ASSUME NEW e \in Epochs, NEW a \in Attempts, CommitPreSend(e, a) PROVE ChainInv'
  BY <1>4, PhaseChain DEF CommitPreSend, Phase, AttemptLive
<1>5. ASSUME NEW e \in Epochs, NEW a \in Attempts, ConnectionAttemptStarted(e, a)
      PROVE  ChainInv'
  BY <1>5, PhaseChain DEF ConnectionAttemptStarted, Phase, AttemptLive
<1>6. ASSUME NEW e \in Epochs, NEW a \in Attempts, RequestSendStarted(e, a)
      PROVE  ChainInv'
  BY <1>6, PhaseChain DEF RequestSendStarted, Phase, AttemptLive
<1>7. ASSUME NEW e \in Epochs, NEW a \in Attempts, Transmit(e, a) PROVE ChainInv'
  BY <1>7 DEF Transmit, ChainInv, ConsentedSuccessor
<1>8. ASSUME NEW e \in Epochs, NEW a \in Attempts, AwaitingResponse(e, a) PROVE ChainInv'
  BY <1>8, PhaseChain DEF AwaitingResponse, Phase, AttemptLive
<1>9. ASSUME NEW e \in Epochs, NEW a \in Attempts, ReturnNotSent(e, a) PROVE ChainInv'
  <2>1. PICK retry \in BOOLEAN :
             \/ /\ attempt[a] \in {"pre_send_committed", "connecting"}
                /\ Conclude(e, a, "not_sent", retry)
             \/ /\ attempt[a] = "sending"
                /\ Conclude(e, a, "unknown_outcome", FALSE)
    BY <1>9, NotSentStep
  <2>2. CASE Conclude(e, a, "not_sent", retry) /\ attempt[a] \in AttemptLive
    BY <2>2, TerminateChain DEF Conclude, AttemptTerminal, AtomicRetryStates
  <2>3. CASE Conclude(e, a, "unknown_outcome", FALSE) /\ attempt[a] \in AttemptLive
    BY <2>3, TerminateChain DEF Conclude, AttemptTerminal
  <2> QED BY <2>1, <2>2, <2>3 DEF AttemptLive
<1>10. ASSUME NEW e \in Epochs, NEW a \in Attempts, ReturnUnknown(e, a) PROVE ChainInv'
  BY <1>10, TerminateChain DEF ReturnUnknown, Conclude, AttemptTerminal, AttemptLive
<1>11. ASSUME NEW e \in Epochs, NEW a \in Attempts, ResponseObserved(e, a) PROVE ChainInv'
  BY <1>11, PhaseChain DEF ResponseObserved, AttemptLive
<1>12. ASSUME NEW e \in Epochs, NEW a \in Attempts, CommitOutcome(e, a) PROVE ChainInv'
  <2>1. /\ staged[a].terminal \in AttemptTerminal /\ staged[a].retry \in BOOLEAN
        /\ staged[a].retry => staged[a].terminal \in AtomicRetryStates
    BY <1>12 DEF CommitOutcome, StagingInv, TypeOK, Outcomes, AttemptTerminal, AtomicRetryStates
  <2> QED BY <1>12, <2>1, TerminateChain DEF CommitOutcome, Conclude, AttemptLive
<1>13. ASSUME NEW e \in Epochs, NEW a \in Attempts, TerminalizeDelivery(e, a)
      PROVE  ChainInv'
  BY <1>13 DEF TerminalizeDelivery, ChainInv, ConsentedSuccessor
<1>14. ASSUME NEW e \in Epochs, NEW a \in Attempts, RebindAttempt(e, a) PROVE ChainInv'
  BY <1>14 DEF RebindAttempt, ChainInv, ConsentedSuccessor
<1>15. ASSUME NEW e \in Epochs, NEW a \in Attempts, TerminateAttempt(e, a) PROVE ChainInv'
  <2>1. attempt[a] \in AttemptLive /\ attempt[a] = scanned[e][a]
    BY <1>15 DEF TerminateAttempt, ToTerminate
  <2>2. staged[a].retry \in BOOLEAN
    BY DEF TypeOK, Outcomes
  <2> QED BY <1>15, <2>1, <2>2, RecoveredOutcome, TerminateChain DEF TerminateAttempt
<1>16. ASSUME NEW e \in Epochs, NEW a \in Attempts, ReduceDelivery(e, a) PROVE ChainInv'
  BY <1>16 DEF ReduceDelivery, ChainInv, ConsentedSuccessor
<1>17. ASSUME NEW e \in Epochs, ActivateRun(e) PROVE ChainInv'
  BY <1>17 DEF ActivateRun, ChainInv, ConsentedSuccessor
<1>18. ASSUME NEW e \in Epochs, LoadDue(e) PROVE ChainInv'
  BY <1>18 DEF LoadDue, ChainInv, ConsentedSuccessor
<1>19. ASSUME NEW e \in Epochs, FinishRun(e) PROVE ChainInv'
  BY <1>19 DEF FinishRun, Stop, ChainInv, ConsentedSuccessor
<1>20. ASSUME NEW e \in Epochs, Scan(e) PROVE ChainInv'
  BY <1>20 DEF Scan, ChainInv, ConsentedSuccessor
<1>21. ASSUME NEW e \in Epochs, ContinueUnambiguous(e) PROVE ChainInv'
  BY <1>21 DEF ContinueUnambiguous, ChainInv, ConsentedSuccessor
<1>22. ASSUME NEW e \in Epochs, StopAmbiguous(e) PROVE ChainInv'
  BY <1>22 DEF StopAmbiguous, Stop, ChainInv, ConsentedSuccessor
<1>23. ASSUME NEW e \in Epochs, OperatorDecision(e) PROVE ChainInv'
  BY <1>23 DEF OperatorDecision, ChainInv, ConsentedSuccessor
<1>24. ASSUME NEW e \in Epochs, Redeliver(e) PROVE ChainInv'
  <2> DEFINE created == {Succ(b) : b \in Ambiguous}
  <2>1. /\ attempt' = [b \in Attempts |-> IF b \in created THEN "scheduled" ELSE attempt[b]]
        /\ entry' = [b \in Attempts |-> IF b \in created THEN "pending" ELSE entry[b]]
        /\ redelivered' = redelivered \cup Ambiguous
    BY <1>24 DEF Redeliver, AuthorizedRedeliveries
  <2>2. \A b \in Ambiguous : /\ b \in Attempts /\ attempt[b] = "unknown_outcome"
                             /\ Succ(b) \in Attempts /\ attempt[Succ(b)] = "none"
    BY <1>24, RedeliveryConsented DEF Redeliver, AuthorizedRedeliveries, Redeliverable, Ambiguous
  <2>3. \A b \in created : attempt[b] = "none"
    BY <2>2
  <2>4. ASSUME NEW b \in Attempts, NEW c \in Attempts,
               b[1] = c[1], b[2] < c[2], entry'[c] # "none"
        PROVE  attempt'[b] \in AttemptTerminal
    <3>1. attempt[b] \in AttemptTerminal
      <4>1. CASE c \in created
        <5>1. PICK d \in Ambiguous : c = Succ(d)
          BY <4>1
        <5>2. d \in Attempts /\ attempt[d] = "unknown_outcome" /\ entry[d] # "none"
          BY <2>2 DEF ChainInv
        <5>3. b[1] = d[1] /\ (b[2] < d[2] \/ b = d)
          BY <2>4, <5>1, <5>2, BeforeSuccessor
        <5> QED BY <5>2, <5>3 DEF ChainInv, AttemptTerminal
      <4>2. CASE c \notin created
        BY <2>1, <2>4, <4>2 DEF ChainInv
      <4> QED BY <4>1, <4>2
    <3>2. b \notin created
      BY <2>3, <3>1 DEF AttemptTerminal
    <3> QED BY <2>1, <3>1, <3>2
  <2>5. ConsentedSuccessor'
    <3> SUFFICES ASSUME NEW b \in Attempts, Succ(b) \in Attempts, entry'[Succ(b)] # "none"
                 PROVE  \/ attempt'[b] \in AtomicRetryStates
                        \/ attempt'[b] = "unknown_outcome" /\ b \in redelivered'
      BY DEF ConsentedSuccessor
    <3>1. CASE Succ(b) \in created
      <4>1. b \in Ambiguous
        BY <2>2, <3>1, SuccInjective
      <4> QED BY <2>1, <2>2, <2>3, <4>1
    <3>2. CASE Succ(b) \notin created
      <4>1. entry[Succ(b)] # "none"
        BY <2>1, <3>2
      <4>2. \/ attempt[b] \in AtomicRetryStates
            \/ attempt[b] = "unknown_outcome" /\ b \in redelivered
        BY <4>1 DEF ChainInv, ConsentedSuccessor
      <4>3. attempt'[b] = attempt[b]
        BY <2>1, <2>3, <4>2 DEF AtomicRetryStates
      <4> QED BY <2>1, <4>2, <4>3
    <3> QED BY <3>1, <3>2
  <2>6. \A b \in Attempts :
          /\ entry'[b] = "none" => attempt'[b] = "none"
          /\ entry'[b] = "consumed" <=> attempt'[b] \notin {"none", "scheduled"}
    BY <2>1, <2>3 DEF ChainInv
  <2> QED BY <2>4, <2>5, <2>6 DEF ChainInv
<1>25. ASSUME NEW e \in Epochs, FencedOut(e) PROVE ChainInv'
  BY <1>25 DEF FencedOut, Stop, ChainInv, ConsentedSuccessor
<1>26. ASSUME NEW e \in Epochs, TakeOver(e) PROVE ChainInv'
  BY <1>26 DEF TakeOver, ChainInv, ConsentedSuccessor
<1>27. ASSUME NEW e \in Epochs, Crash(e) PROVE ChainInv'
  BY <1>27 DEF Crash, Stop, ChainInv, ConsentedSuccessor
<1>28. ASSUME PreflightResume PROVE ChainInv'
  BY <1>28 DEF PreflightResume, ChainInv, ConsentedSuccessor
<1> HIDE DEF IInv, journal, memory
<1> QED
  BY <1>1, <1>2, <1>3, <1>4, <1>5, <1>6, <1>7, <1>8, <1>9, <1>10, <1>11, <1>12,
     <1>13, <1>14, <1>15, <1>16, <1>17, <1>18, <1>19, <1>20, <1>21, <1>22, <1>23, <1>24,
     <1>25, <1>26, <1>27, <1>28
  DEF Next, Process, Worker, Recovery

\* The invariant is inductive.
LEMMA IInvNext == IInv /\ [Next]_vars => IInv'
<1> SUFFICES ASSUME IInv, [Next]_vars PROVE IInv'
  OBVIOUS
<1>1. CASE Next
  <2>1. TypeOK'
    BY <1>1, TypeNext DEF IInv
  <2> QED BY <1>1, <2>1, SendNext, StagingNext, ChainNext, OwnerNext DEF IInv
<1>2. CASE UNCHANGED vars
  <2> USE DEF IInv, vars, journal, memory
  <2>1. TypeOK'
    BY <1>2 DEF TypeOK
  <2>2. SendInv'
    BY <1>2 DEF SendInv
  <2>3. StagingInv'
    BY <1>2 DEF StagingInv
  <2>4. ChainInv'
    BY <1>2 DEF ChainInv, ConsentedSuccessor
  <2>5. OwnerInv'
    BY <1>2, SameOwner
  <2> QED BY <2>1, <2>2, <2>3, <2>4, <2>5
<1> QED BY <1>1, <1>2

\* The inductive invariant holds throughout.
LEMMA Invariance == Spec => []IInv
BY IInvInit, IInvNext, PTL DEF Spec

-----------------------------------------------------------------------------
(* What follows from it.                                                   *)

\* Request bytes of an attempt leave at most once, and only when the journal admits it,
\* whatever crashes, takeovers and recoveries interleave with the workers.
THEOREM SendsAreAccounted == Spec => []SendAccounting
<1>1. IInv => SendAccounting
  <2> SUFFICES ASSUME SendInv, NEW a \in Attempts
               PROVE  wire[a] <= 1 /\ (wire[a] > 0 => attempt[a] \in PossiblySent)
    BY DEF IInv, SendAccounting
  <2>1. /\ wire[a] = 0 \/ wire[a] = 1
        /\ attempt[a] \notin PossiblySent => wire[a] = 0
    BY DEF SendInv
  <2> QED BY <2>1
<1> QED BY <1>1, Invariance, PTL

\* No attempt follows an ambiguous one without a recorded redelivery decision.
THEOREM DuplicatesAreConsented == Spec => []ConsentedSuccessor
<1>1. IInv => ConsentedSuccessor
  BY DEF IInv, ChainInv
<1> QED BY <1>1, Invariance, PTL

\* A delivery never has two attempts scheduled, claimed or in flight.
THEOREM AttemptsAreSequential == Spec => []OneOpenAttempt
<1>1. IInv => OneOpenAttempt
  <2> SUFFICES ASSUME IInv, NEW a \in Attempts, NEW b \in Attempts,
                      a[1] = b[1], Open(a), Open(b)
               PROVE  a = b
    BY DEF OneOpenAttempt
  <2>1. \A c \in Attempts : Open(c) => entry[c] # "none" /\ attempt[c] \notin AttemptTerminal
    BY DEF Open, IInv, ChainInv, AttemptTerminal, AttemptLive
  <2>2. a[2] = b[2] \/ a[2] < b[2] \/ b[2] < a[2]
    BY AttemptFacts
  <2>3. a[2] = b[2]
    BY <2>1, <2>2 DEF IInv, ChainInv
  <2> QED BY <2>3, AttemptFacts
<1> QED BY <1>1, Invariance, PTL

\* A response is staged exactly while its attempt is response_observed.
THEOREM StagingIsConsistent == Spec => []StagingMatchesAttempts
<1>1. IInv => StagingMatchesAttempts
  BY DEF IInv, StagingInv, StagingMatchesAttempts, NoStaging
<1> QED BY <1>1, Invariance, PTL

\* No compare-and-swap of a recovery is refused while its process owns the run, even
\* when the process it took over from still runs.
THEOREM RecoveryIsNeverRefused == Spec => []ScanStaysCurrent
<1>1. IInv => ScanStaysCurrent
  <2> SUFFICES ASSUME IInv, NEW e \in Epochs, Owns(e), mode[e] = "applying",
                      NEW a \in ToRebind(e) \cup ToTerminate(e)
               PROVE  /\ attempt[a] = scanned[e][a]
                      /\ attempt[a] = "scheduled" => entry[a] = "pending"
                      /\ attempt[a] = "claimed" => entry[a] = "consumed"
                                                   /\ consumedBy[a] = owner[a]
    BY DEF ScanStaysCurrent
  <2>1. a \in Attempts
    BY DEF ToRebind, ToTerminate
  <2>2. attempt[a] = scanned[e][a] /\ (attempt[a] = "claimed" => consumedBy[a] = owner[a])
    BY <2>1 DEF IInv, OwnerInv
  <2>3. /\ attempt[a] = "scheduled" => entry[a] = "pending"
        /\ attempt[a] = "claimed" => entry[a] = "consumed"
    BY <2>1 DEF IInv, TypeOK, ChainInv
  <2> QED BY <2>2, <2>3
<1> QED BY <1>1, Invariance, PTL

\* Every step moves the journal along the tables.
LEMMA StepEdges == IInv /\ Next => AlongTables
<1> SUFFICES ASSUME IInv, Next PROVE AlongTables
  OBVIOUS
<1> USE DEF IInv, TypeOK, AlongTables, AppendOnly, AttemptEdges, DeliveryEdges, RunEdges,
            ValidateProjectionAndEdge, ValidateDeliveryGuards, journal, memory
<1>1. ASSUME NEW e \in Epochs, NEW a \in Attempts, ActivateDelivery(e, a)
      PROVE  AlongTables
  BY <1>1 DEF ActivateDelivery
<1>2. ASSUME NEW e \in Epochs, NEW a \in Attempts, ClaimSchedule(e, a) PROVE AlongTables
  BY <1>2 DEF ClaimSchedule, Claimable
<1>3. ASSUME NEW e \in Epochs, NEW a \in Attempts, ReplayClaim(e, a) PROVE AlongTables
  BY <1>3 DEF ReplayClaim
<1>4. ASSUME NEW e \in Epochs, NEW a \in Attempts, CommitPreSend(e, a) PROVE AlongTables
  BY <1>4 DEF CommitPreSend, Phase
<1>5. ASSUME NEW e \in Epochs, NEW a \in Attempts, ConnectionAttemptStarted(e, a)
      PROVE  AlongTables
  BY <1>5 DEF ConnectionAttemptStarted, Phase
<1>6. ASSUME NEW e \in Epochs, NEW a \in Attempts, RequestSendStarted(e, a)
      PROVE  AlongTables
  BY <1>6 DEF RequestSendStarted, Phase
<1>7. ASSUME NEW e \in Epochs, NEW a \in Attempts, Transmit(e, a) PROVE AlongTables
  BY <1>7 DEF Transmit
<1>8. ASSUME NEW e \in Epochs, NEW a \in Attempts, AwaitingResponse(e, a)
      PROVE  AlongTables
  BY <1>8 DEF AwaitingResponse, Phase
<1>9. ASSUME NEW e \in Epochs, NEW a \in Attempts, ReturnNotSent(e, a) PROVE AlongTables
  <2>1. /\ UNCHANGED <<run, delivery, redelivered>>
        /\ \/ /\ attempt[a] \in {"pre_send_committed", "connecting"}
              /\ attempt' = [attempt EXCEPT ![a] = "not_sent"]
           \/ /\ attempt[a] = "sending"
              /\ attempt' = [attempt EXCEPT ![a] = "unknown_outcome"]
    BY <1>9, NotSentStep DEF Conclude, Terminate
  <2> QED BY <2>1
<1>10. ASSUME NEW e \in Epochs, NEW a \in Attempts, ReturnUnknown(e, a) PROVE AlongTables
  BY <1>10 DEF ReturnUnknown, Conclude, Terminate
<1>11. ASSUME NEW e \in Epochs, NEW a \in Attempts, ResponseObserved(e, a)
      PROVE  AlongTables
  BY <1>11 DEF ResponseObserved
<1>12. ASSUME NEW e \in Epochs, NEW a \in Attempts, CommitOutcome(e, a) PROVE AlongTables
  BY <1>12 DEF CommitOutcome, Conclude, Terminate, StagingInv
<1>13. ASSUME NEW e \in Epochs, NEW a \in Attempts, TerminalizeDelivery(e, a)
      PROVE  AlongTables
  <2>1. delivery[a[1]] = "active"
    BY <1>13 DEF TerminalizeDelivery
  <2>2. /\ DeliveryStateFor(attempt[a]) \in {"satisfied", "exhausted", "ambiguous", "cancelled"}
        /\ DeliveryStateFor(attempt[a]) = "satisfied" => attempt[a] = "succeeded"
    BY DEF DeliveryStateFor
  <2>3. DeliveryStateFor(attempt[a]) = "satisfied" => GuardDeliverySatisfaction(attempt, a[1])
    BY <2>2 DEF GuardDeliverySatisfaction, RequireRelatedAttempt
  <2> QED BY <1>13, <2>1, <2>2, <2>3 DEF TerminalizeDelivery
<1>14. ASSUME NEW e \in Epochs, NEW a \in Attempts, RebindAttempt(e, a) PROVE AlongTables
  BY <1>14 DEF RebindAttempt
<1>15. ASSUME NEW e \in Epochs, NEW a \in Attempts, TerminateAttempt(e, a)
      PROVE  AlongTables
  <2>1. attempt[a] \in AttemptLive /\ attempt[a] = scanned[e][a]
    BY <1>15 DEF TerminateAttempt, ToTerminate
  <2>2. <<attempt[a], RecoveredState(a, attempt[a])>> \in AttemptEdges
    BY <2>1, RecoveredOutcome
  <2> HIDE DEF AttemptEdges
  <2> QED BY <1>15, <2>1, <2>2 DEF TerminateAttempt, Terminate
<1>16. ASSUME NEW e \in Epochs, NEW a \in Attempts, ReduceDelivery(e, a)
      PROVE  AlongTables
  <2>1. delivery[a[1]] = "active"
    BY <1>16 DEF ReduceDelivery, Reducible
  <2>2. /\ DeliveryStateFor(attempt[a]) \in {"satisfied", "exhausted", "ambiguous", "cancelled"}
        /\ DeliveryStateFor(attempt[a]) = "satisfied" => attempt[a] = "succeeded"
    BY DEF DeliveryStateFor
  <2>3. DeliveryStateFor(attempt[a]) = "satisfied" => GuardDeliverySatisfaction(attempt, a[1])
    BY <2>2 DEF GuardDeliverySatisfaction, RequireRelatedAttempt
  <2> QED BY <1>16, <2>1, <2>2, <2>3 DEF ReduceDelivery
<1>17. ASSUME NEW e \in Epochs, ActivateRun(e) PROVE AlongTables
  BY <1>17 DEF ActivateRun
<1>18. ASSUME NEW e \in Epochs, LoadDue(e) PROVE AlongTables
  BY <1>18 DEF LoadDue
<1>19. ASSUME NEW e \in Epochs, FinishRun(e) PROVE AlongTables
  BY <1>19 DEF FinishRun, Stop
<1>20. ASSUME NEW e \in Epochs, Scan(e) PROVE AlongTables
  BY <1>20 DEF Scan
<1>21. ASSUME NEW e \in Epochs, ContinueUnambiguous(e) PROVE AlongTables
  BY <1>21 DEF ContinueUnambiguous
<1>22. ASSUME NEW e \in Epochs, StopAmbiguous(e) PROVE AlongTables
  BY <1>22 DEF StopAmbiguous, Stop
<1>23. ASSUME NEW e \in Epochs, OperatorDecision(e) PROVE AlongTables
  BY <1>23 DEF OperatorDecision
<1>24. ASSUME NEW e \in Epochs, Redeliver(e) PROVE AlongTables
  <2>1. /\ \A b \in {Succ(a) : a \in Ambiguous} : attempt[b] = "none"
        /\ UNCHANGED <<run, delivery>> /\ redelivered \subseteq redelivered'
    BY <1>24, RedeliveryConsented DEF Redeliver, AuthorizedRedeliveries, Redeliverable
  <2>2. \A b \in Attempts : attempt'[b] # attempt[b] =>
          attempt[b] = "none" /\ attempt'[b] = "scheduled"
    BY <1>24, <2>1 DEF Redeliver, AuthorizedRedeliveries
  <2> HIDE DEF IInv, TypeOK, AttemptEdges, DeliveryEdges, RunEdges
  <2> QED BY <2>1, <2>2
<1>25. ASSUME NEW e \in Epochs, FencedOut(e) PROVE AlongTables
  BY <1>25 DEF FencedOut, Stop
<1>26. ASSUME NEW e \in Epochs, TakeOver(e) PROVE AlongTables
  BY <1>26 DEF TakeOver
<1>27. ASSUME NEW e \in Epochs, Crash(e) PROVE AlongTables
  BY <1>27 DEF Crash, Stop
<1>28. ASSUME PreflightResume PROVE AlongTables
  BY <1>28 DEF PreflightResume
<1> HIDE DEF IInv, TypeOK, AlongTables, AppendOnly, AttemptEdges, DeliveryEdges, RunEdges,
             journal, memory
<1> QED
  BY <1>1, <1>2, <1>3, <1>4, <1>5, <1>6, <1>7, <1>8, <1>9, <1>10, <1>11, <1>12,
     <1>13, <1>14, <1>15, <1>16, <1>17, <1>18, <1>19, <1>20, <1>21, <1>22, <1>23, <1>24,
     <1>25, <1>26, <1>27, <1>28
  DEF Next, Process, Worker, Recovery

\* Attempts, deliveries and the run change only along the edges of their tables.
THEOREM ChangesFollowTables == Spec => TableEdgesOnly
<1>1. IInv /\ [Next]_vars => [AlongTables]_vars
  BY StepEdges
<1> QED BY <1>1, Invariance, PTL DEF Spec, TableEdgesOnly

-----------------------------------------------------------------------------
(* The rows of the journal.  That an entry names its consumer is not part  *)
(* of IInv: no other property needs it.                                    *)

RowsInv ==
  /\ \A a \in Attempts : entry[a] = "consumed" <=> consumedBy[a] # 0
  /\ \A a \in redelivered : attempt[a] # "none"

\* An attempt row stays in the table.
LEMMA RowsStay ==
  ASSUME AlongTables, NEW a \in Attempts, attempt[a] # "none"
  PROVE  attempt'[a] # "none"
BY DEF AlongTables, AttemptEdges, ValidateProjectionAndEdge

\* Ending an attempt consumes no entry.
LEMMA TerminateRows ==
  ASSUME TypeOK, RowsInv, NEW a \in Attempts, NEW terminal, NEW retry,
         Terminate(a, terminal, retry), UNCHANGED consumedBy, NEW b \in Attempts
  PROVE  entry'[b] = "consumed" <=> consumedBy'[b] # 0
<1>1. entry'[b] = entry[b] \/ (entry[b] = "none" /\ entry'[b] = "pending")
  BY DEF Terminate, TypeOK
<1>2. entry[b] = "consumed" <=> consumedBy[b] # 0
  BY DEF RowsInv
<1> QED BY <1>1, <1>2

\* Every step keeps the pairing of an entry and its consumer.
LEMMA EntryRows ==
  ASSUME IInv, RowsInv, Next, NEW b \in Attempts
  PROVE  entry'[b] = "consumed" <=> consumedBy'[b] # 0
<1>0. TypeOK /\ (entry[b] = "consumed" <=> consumedBy[b] # 0)
  BY DEF IInv, RowsInv
<1>1. ASSUME NEW e \in Epochs, NEW a \in Attempts, ClaimSchedule(e, a)
      PROVE  entry'[b] = "consumed" <=> consumedBy'[b] # 0
  <2>1. e # 0
    BY BoundAssumption DEF Epochs
  <2> QED BY <1>0, <1>1, <2>1 DEF ClaimSchedule, TypeOK
<1>2. ASSUME NEW e \in Epochs, NEW a \in Attempts, RebindAttempt(e, a)
      PROVE  entry'[b] = "consumed" <=> consumedBy'[b] # 0
  <2>1. e # 0
    BY BoundAssumption DEF Epochs
  <2> QED BY <1>0, <1>2, <2>1 DEF RebindAttempt, TypeOK
<1>3. ASSUME NEW e \in Epochs, NEW a \in Attempts, NEW terminal, NEW retry,
             Conclude(e, a, terminal, retry)
      PROVE  entry'[b] = "consumed" <=> consumedBy'[b] # 0
  BY <1>0, <1>3, TerminateRows DEF Conclude
<1>4. ASSUME NEW e \in Epochs, NEW a \in Attempts, TerminateAttempt(e, a)
      PROVE  entry'[b] = "consumed" <=> consumedBy'[b] # 0
  <2>1. Terminate(a, RecoveredState(a, scanned[e][a]), staged[a].retry)
        /\ UNCHANGED consumedBy
    BY <1>4 DEF TerminateAttempt
  <2> QED BY <1>0, <2>1, TerminateRows
<1>5. ASSUME NEW e \in Epochs, Redeliver(e)
      PROVE  entry'[b] = "consumed" <=> consumedBy'[b] # 0
  <2>1. \A c \in {Succ(a) : a \in Ambiguous} : attempt[c] = "none"
    BY <1>5, RedeliveryConsented DEF Redeliver, AuthorizedRedeliveries, Redeliverable
  <2>2. attempt[b] = "none" => entry[b] # "consumed"
    BY DEF IInv, ChainInv
  <2>3. consumedBy' = consumedBy
        /\ (entry'[b] = entry[b] \/ (attempt[b] = "none" /\ entry'[b] = "pending"))
    BY <1>5, <2>1 DEF Redeliver, AuthorizedRedeliveries
  <2> QED BY <1>0, <2>2, <2>3
<1>6. ASSUME UNCHANGED <<entry, consumedBy>>
      PROVE  entry'[b] = "consumed" <=> consumedBy'[b] # 0
  BY <1>0, <1>6
<1>7. ASSUME NEW e \in Epochs, NEW a \in Attempts, Worker(e, a)
      PROVE  entry'[b] = "consumed" <=> consumedBy'[b] # 0
  <2>1. CASE ReturnNotSent(e, a)
    BY <2>1, <1>3 DEF ReturnNotSent
  <2>2. CASE ReturnUnknown(e, a) \/ CommitOutcome(e, a)
    BY <2>2, <1>3 DEF ReturnUnknown, CommitOutcome
  <2>3. CASE ClaimSchedule(e, a)
    BY <2>3, <1>1
  <2>4. CASE \/ ActivateDelivery(e, a) \/ ReplayClaim(e, a) \/ CommitPreSend(e, a)
             \/ ConnectionAttemptStarted(e, a) \/ RequestSendStarted(e, a)
             \/ AwaitingResponse(e, a) \/ Transmit(e, a) \/ ResponseObserved(e, a)
             \/ TerminalizeDelivery(e, a)
    BY <2>4, <1>6 DEF ActivateDelivery, ReplayClaim, CommitPreSend,
       ConnectionAttemptStarted, RequestSendStarted, AwaitingResponse, Phase, Transmit,
       ResponseObserved, TerminalizeDelivery, journal
  <2> QED BY <1>7, <2>1, <2>2, <2>3, <2>4 DEF Worker
<1>8. ASSUME NEW e \in Epochs, NEW a \in Attempts, Recovery(e, a)
      PROVE  entry'[b] = "consumed" <=> consumedBy'[b] # 0
  BY <1>2, <1>4, <1>6, <1>8 DEF Recovery, ReduceDelivery
<1>9. ASSUME NEW e \in Epochs,
             \/ ActivateRun(e) \/ LoadDue(e) \/ FinishRun(e) \/ Scan(e)
             \/ ContinueUnambiguous(e) \/ StopAmbiguous(e) \/ OperatorDecision(e)
             \/ FencedOut(e) \/ TakeOver(e) \/ Crash(e)
      PROVE  entry'[b] = "consumed" <=> consumedBy'[b] # 0
  BY <1>6, <1>9 DEF ActivateRun, LoadDue, FinishRun, Scan, ContinueUnambiguous,
     StopAmbiguous, OperatorDecision, FencedOut, TakeOver, Crash, journal
<1>10. ASSUME PreflightResume PROVE entry'[b] = "consumed" <=> consumedBy'[b] # 0
  BY <1>6, <1>10 DEF PreflightResume, journal
<1> QED BY <1>5, <1>7, <1>8, <1>9, <1>10 DEF Next, Process

\* Only a redelivery adds decisions, and they name ambiguous attempts.
LEMMA DecisionStep ==
  ASSUME IInv, Next
  PROVE  redelivered' \subseteq redelivered \cup Ambiguous
<1>1. ASSUME NEW e \in Epochs, NEW a \in Attempts, Worker(e, a)
      PROVE  redelivered' = redelivered
  BY <1>1 DEF Worker, ActivateDelivery, ClaimSchedule, ReplayClaim, CommitPreSend,
     ConnectionAttemptStarted, RequestSendStarted, AwaitingResponse, Phase, Transmit,
     ReturnNotSent, ReturnUnknown, ResponseObserved, CommitOutcome, Conclude,
     TerminalizeDelivery, journal
<1>2. ASSUME NEW e \in Epochs, NEW a \in Attempts, Recovery(e, a)
      PROVE  redelivered' = redelivered
  BY <1>2 DEF Recovery, RebindAttempt, TerminateAttempt, ReduceDelivery
<1>3. ASSUME NEW e \in Epochs, Redeliver(e)
      PROVE  redelivered' = redelivered \cup Ambiguous
  BY <1>3 DEF Redeliver, AuthorizedRedeliveries
<1>4. ASSUME NEW e \in Epochs,
             \/ ActivateRun(e) \/ LoadDue(e) \/ FinishRun(e) \/ Scan(e)
             \/ ContinueUnambiguous(e) \/ StopAmbiguous(e) \/ OperatorDecision(e)
             \/ FencedOut(e) \/ TakeOver(e) \/ Crash(e)
      PROVE  redelivered' = redelivered
  BY <1>4 DEF ActivateRun, LoadDue, FinishRun, Scan, ContinueUnambiguous,
     StopAmbiguous, OperatorDecision, FencedOut, TakeOver, Crash, journal
<1>5. ASSUME PreflightResume PROVE redelivered' = redelivered
  BY <1>5 DEF PreflightResume, journal
<1> QED BY <1>1, <1>2, <1>3, <1>4, <1>5 DEF Next, Process

\* Every step keeps the rows.
LEMMA RowsNext == IInv /\ RowsInv /\ [Next]_vars => RowsInv'
<1>1. ASSUME IInv, RowsInv, Next PROVE RowsInv'
  <2>1. AlongTables
    BY <1>1, StepEdges
  <2>2. \A b \in Attempts : entry'[b] = "consumed" <=> consumedBy'[b] # 0
    BY <1>1, EntryRows
  <2>3. ASSUME NEW a \in redelivered' PROVE attempt'[a] # "none"
    <3>1. a \in redelivered \cup Ambiguous
      BY <1>1, <2>3, DecisionStep
    <3>2. a \in Attempts /\ attempt[a] # "none"
      BY <1>1, <3>1 DEF RowsInv, IInv, TypeOK, Ambiguous
    <3> QED BY <2>1, <3>2, RowsStay
  <2> QED BY <2>2, <2>3 DEF RowsInv
<1>2. ASSUME RowsInv, UNCHANGED vars PROVE RowsInv'
  BY <1>2 DEF RowsInv, vars, journal
<1> QED BY <1>1, <1>2

\* Every edge of the Python tables has states the SQL table admits.
LEMMA EdgesHold == TransitionsTable
<1>1. \A x \in RunEdges : RunTransition(x[1], x[2])
  BY DEF RunTransition, RunEdges
<1>2. \A x \in ScenarioEdges : ScenarioTransition(x[1], x[2])
  BY DEF ScenarioTransition, ScenarioEdges
<1>3. \A x \in DeliveryEdges : DeliveryTransition(x[1], x[2])
  BY DEF DeliveryTransition, DeliveryEdges
<1>4. \A x \in AttemptEdges : AttemptTransition(x[1], x[2])
  BY DEF AttemptTransition, AttemptEdges
<1>5. \A x \in ObservationEdges : ObservationTransition(x[1], x[2])
  BY DEF ObservationTransition, ObservationEdges
<1>6. \A x \in AssertionEdges : AssertionTransition(x[1], x[2])
  BY DEF AssertionTransition, AssertionEdges
<1> QED BY <1>1, <1>2, <1>3, <1>4, <1>5, <1>6 DEF TransitionsTable

\* The predecessor of a later attempt is an attempt of the same delivery.
LEMMA PredFacts ==
  ASSUME NEW a \in Attempts, a[2] # 1
  PROVE  Pred(a) \in Attempts /\ Pred(a)[1] = a[1] /\ Pred(a)[2] < a[2]
<1>1. PICK d \in Deliveries : a \in {d} \X (1 .. PlanLength[d])
  BY DEF Attempts
<1>2. a[1] = d /\ a[2] \in 1 .. PlanLength[d] /\ PlanLength[d] \in Nat
  BY <1>1, PlanAssumption
<1>3. a[2] - 1 \in 1 .. PlanLength[d]
  BY <1>2
<1>4. Pred(a) \in {d} \X (1 .. PlanLength[d])
  BY <1>2, <1>3 DEF Pred
<1> QED BY <1>2, <1>4 DEF Pred, Attempts

\* For every plan and any number of owners, the rows that crashes, takeovers and
\* recoveries leave behind satisfy the constraints of the journal's tables.
THEOREM RowsAreAdmitted == Spec => []RowsAdmitted
<1>1. Init => RowsInv
  BY DEF Init, RowsInv
<1>2. IInv /\ RowsInv => RowsAdmitted
  <2> SUFFICES ASSUME IInv, RowsInv PROVE RowsAdmitted
    OBVIOUS
  <2>1. RunsTable(run, epoch)
    BY BoundAssumption DEF IInv, TypeOK, RunsTable, Epochs
  <2>2. ASSUME NEW a \in Attempts, attempt[a] # "none"
        PROVE  AttemptsRow(attempt, a, IF a[2] = 1 THEN a ELSE Pred(a))
    <3>1. attempt[a] \in AttemptStates /\ DOMAIN attempt = Attempts
      BY <2>2 DEF IInv, TypeOK
    <3>2. a[2] # 1 => Pred(a) \in Attempts /\ attempt[Pred(a)] # "none"
      <4> SUFFICES ASSUME a[2] # 1
                   PROVE  Pred(a) \in Attempts /\ attempt[Pred(a)] # "none"
        OBVIOUS
      <4>1. Pred(a) \in Attempts /\ Pred(a)[1] = a[1] /\ Pred(a)[2] < a[2]
        BY PredFacts
      <4>2. entry[a] # "none"
        BY <2>2 DEF IInv, ChainInv
      <4>3. attempt[Pred(a)] \in AttemptTerminal
        BY <4>1, <4>2 DEF IInv, ChainInv
      <4> QED BY <4>1, <4>3 DEF AttemptTerminal
    <3> QED BY <3>1, <3>2 DEF AttemptsRow
  <2>3. ASSUME NEW a \in Attempts, staged[a] # NoStaging
        PROVE  /\ EvidenceForeignKey(attempt, a)
               /\ staged[a].terminal \in {"succeeded", "rejected", "transport_failed"}
               /\ staged[a].retry => staged[a].terminal # "succeeded"
    BY <2>3 DEF IInv, StagingInv, EvidenceForeignKey
  <2>4. ASSUME NEW a \in Attempts PROVE ScheduleEntriesRow(entry[a], consumedBy[a])
    BY <2>4 DEF RowsInv, ScheduleEntriesRow
  <2>5. ASSUME NEW a \in redelivered PROVE RecoveryDecisionsRow(attempt, a, "redeliver")
    BY <2>5 DEF RowsInv, RecoveryDecisionsRow
  <2> QED BY <2>1, <2>2, <2>3, <2>4, <2>5, EdgesHold DEF RowsAdmitted
<1> QED BY <1>1, <1>2, Invariance, RowsNext, PTL DEF Spec
=============================================================================
