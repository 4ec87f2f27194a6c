----------------------- MODULE DeliveryOutcomeProofs -----------------------
(***************************************************************************)
(* What becomes of the deliveries of a run, for every plan, every number   *)
(* of deliveries and of owner epochs, with or without overlapping          *)
(* processes: a recovered owner passes the checks of a continuation, finds *)
(* only entries it can claim, and leaves final states that agree.          *)
(***************************************************************************)
EXTENDS DeliveryRunProofs

Definite == AttemptTerminal \ {"unknown_outcome"}

\* The newest entry of a delivery.
Last(a) == entry[a] # "none" /\ (Succ(a) \in Attempts => entry[Succ(a)] = "none")

\* The attempt that decides its delivery.
Ended(a) == attempt[a] \in Definite /\ Last(a)

\* What the journal alone keeps true: every delivery has a newest entry, nothing of it
\* exists before it is active, and a final one was decided by its newest attempt.
LifeInv ==
  /\ \A a \in Attempts : a[2] = 1 => entry[a] # "none" /\ attempt[a] # "scheduled"
  /\ \A d \in Deliveries : \E a \in Attempts : a[1] = d /\ Last(a)
  /\ \A a \in Attempts : staged[a].retry => Succ(a) \in Attempts
  /\ \A a \in Attempts : delivery[a[1]] \in {"pending", "eligible"} => attempt[a] = "none"
  /\ \A d \in Deliveries : delivery[d] \in DeliveryTerminal =>
       \E a \in Attempts : a[1] = d /\ Ended(a) /\ delivery[d] = DeliveryStateFor(attempt[a])
  /\ run = "completed" => \A d \in Deliveries : delivery[d] \in DeliveryTerminal

\* The durable state a worker at some position has left its attempt in.  An attempt
\* that decides its delivery has a worker on its way to reduce it, or is reduced.
Matches(position, a) ==
  /\ position \in {"idle", "due"} => attempt[a] \notin AttemptLive
  /\ position = "due" => a \in Pending
  /\ position = "leased" => attempt[a] = "claimed"
  /\ position = "prepared" => attempt[a] = "pre_send_committed"
  /\ position = "connecting" => attempt[a] = "connecting"
  /\ position \in {"sending", "sent"} => attempt[a] = "sending"
  /\ position = "awaiting" => attempt[a] = "awaiting_response"
  /\ position = "observed" => attempt[a] = "response_observed"
  /\ position = "reduced" => Ended(a)
  /\ position # "reduced" /\ Ended(a) => delivery[a[1]] \in DeliveryTerminal

\* What the owner has bound and released of one attempt while it continues the run.
Place(e, a) ==
  /\ Matches(pc[e][a], a)
  /\ attempt[a] \in {"scheduled", "claimed"} => owner[a] = e
  /\ pc[e][a] # "idle" => now[e] = NotBefore[a]
  /\ a \in Pending => now[e] <= NotBefore[a]

\* What the owner still has to apply of its scan.
Awaits(e, a) ==
  attempt[a] \in {"scheduled", "claimed"} \cup AttemptLive =>
    \/ scanned[e][a] = attempt[a]
    \/ attempt[a] \in {"scheduled", "claimed"} /\ owner[a] = e

\* What the owner of the run may rely on, in each of its modes.
OwnerWork(e) ==
  /\ Alive(e) => run \notin RunTerminal
  /\ mode[e] = "running" => run = "running"
  /\ mode[e] \in {"continuing", "running"} => \A a \in Attempts : Place(e, a)
  /\ mode[e] = "applying" => \A a \in Attempts : Awaits(e, a)

WorkInv ==
  \A e \in Epochs : (mode[e] # "running" => now[e] = 0) /\ (Owns(e) => OwnerWork(e))

OutcomeInv == LifeInv /\ WorkInv

\* In a run that a process without a policy continues, no attempt of an earlier owner is
\* in flight or ambiguous.
SettledInv ==
  \A e \in Epochs, a \in Attempts :
    /\ mode[e] \in {"continuing", "running"} /\ policy[e] = "none"
    /\ attempt[a] # "none" /\ owner[a] < e
    => attempt[a] \in AttemptTerminal /\ a \notin Ambiguous

-----------------------------------------------------------------------------
(* The chain of a delivery's entries.                                      *)

\* An attempt that is not the last of its plan has a successor in it.
LEMMA Ahead ==
  ASSUME NEW a \in Attempts, NEW b \in Attempts, b[1] = a[1], a[2] < b[2]
  PROVE  Succ(a) \in Attempts /\ (b = Succ(a) \/ Succ(a)[2] < b[2])
<1>1. /\ a[1] \in Deliveries /\ a[2] \in Nat /\ b[2] \in Nat /\ b = <<a[1], b[2]>>
      /\ b[2] <= PlanLength[a[1]] /\ PlanLength[a[1]] \in Nat
  BY PlanAssumption DEF Attempts
<1>2. a[2] + 1 \in 1 .. PlanLength[a[1]]
  BY <1>1
<1>3. Succ(a) \in Attempts
  BY <1>1, <1>2 DEF Succ, Attempts
<1>4. b[2] = a[2] + 1 \/ a[2] + 1 < b[2]
  BY <1>1
<1>5. Succ(a)[2] = a[2] + 1 /\ Succ(a) = <<a[1], a[2] + 1>>
  BY DEF Succ
<1> QED BY <1>1, <1>3, <1>4, <1>5

\* Nothing of a delivery follows its newest entry.
LEMMA NothingAfterLast ==
  ASSUME IInv, NEW a \in Attempts, Last(a),
         NEW b \in Attempts, b[1] = a[1], a[2] < b[2]
  PROVE  entry[b] = "none" /\ attempt[b] = "none"
<1> USE DEF IInv, ChainInv
<1>1. Succ(a) \in Attempts /\ entry[Succ(a)] = "none"
  BY Ahead DEF Last
<1>2. attempt[Succ(a)] = "none"
  BY <1>1
<1>3. CASE b = Succ(a)
  BY <1>1, <1>2, <1>3
<1>4. CASE Succ(a)[2] < b[2]
  <2>1. Succ(a)[1] = b[1]
    BY AttemptFacts
  <2>2. entry[b] # "none" => attempt[Succ(a)] \in AttemptTerminal
    BY <1>1, <1>4, <2>1
  <2> QED BY <1>2, <2>2 DEF AttemptTerminal
<1> QED BY <1>3, <1>4, Ahead

\* What precedes an entry of a delivery is final.
LEMMA FinalBefore ==
  ASSUME IInv, NEW a \in Attempts, entry[a] # "none",
         NEW b \in Attempts, b[1] = a[1], b[2] < a[2]
  PROVE  attempt[b] \in AttemptTerminal
BY DEF IInv, ChainInv

\* Two attempts of a delivery are the same, or one is the earlier.
LEMMA Ordered ==
  ASSUME NEW a \in Attempts, NEW b \in Attempts, b[1] = a[1]
  PROVE  b = a \/ b[2] < a[2] \/ a[2] < b[2]
BY AttemptFacts

\* The rows of a final attempt are consumed.
LEMMA FinalRests ==
  ASSUME IInv, NEW a \in Attempts, attempt[a] \in AttemptTerminal
  PROVE  entry[a] = "consumed" /\ ~Open(a) /\ a \notin Pending
<1> USE DEF IInv, ChainInv, AttemptTerminal
<1>1. entry[a] = "consumed"
  OBVIOUS
<1> QED BY <1>1 DEF Open, Pending, AttemptLive

\* A delivery with a deciding attempt has nothing left to run.
LEMMA EndedRests ==
  ASSUME IInv, NEW a \in Attempts, Ended(a), NEW b \in Attempts, b[1] = a[1]
  PROVE  ~Open(b) /\ b \notin Pending
<1>1. entry[a] # "none" /\ attempt[a] \in AttemptTerminal
  BY DEF Ended, Last, Definite
<1>2. CASE b = a
  BY <1>1, <1>2, FinalRests
<1>3. CASE b[2] < a[2]
  BY <1>1, <1>3, FinalBefore, FinalRests
<1>4. CASE a[2] < b[2]
  <2>1. entry[b] = "none" /\ attempt[b] = "none"
    BY <1>4, NothingAfterLast DEF Ended
  <2> QED BY <2>1 DEF Open, Pending, AttemptLive
<1> QED BY <1>2, <1>3, <1>4, Ordered

\* What is pending is open.
LEMMA PendingOpen ==
  ASSUME NEW a \in Pending
  PROVE  a \in Attempts /\ Open(a)
BY DEF Pending, Open

-----------------------------------------------------------------------------
(* How the rows of the journal may change.                                 *)

\* Entries are only added, after an attempt that is not definite, and final attempts
\* stay as they are.
EntriesGrow ==
  /\ \A b \in Attempts : entry[b] # "none" => entry'[b] # "none"
  /\ \A b \in Attempts : entry[b] = "none" /\ entry'[b] # "none" =>
       \E x \in Attempts : b = Succ(x) /\ entry[x] # "none" /\ attempt[x] \notin Definite
  /\ \A b \in Attempts : attempt[b] \in AttemptTerminal => attempt'[b] = attempt[b]

\* Attempts are prepared only as successors and appear only on a delivery that was
\* activated; a retry is staged only where the plan has one.
AttemptsFollow ==
  /\ \A b \in Attempts : attempt'[b] = "scheduled" => attempt[b] = "scheduled" \/ b[2] # 1
  /\ \A b \in Attempts : attempt'[b] # "none" =>
       attempt[b] # "none" \/ delivery[b[1]] \notin {"pending", "eligible"}
  /\ \A b \in Attempts : staged'[b].retry => staged[b].retry \/ Succ(b) \in Attempts

\* Deliveries are activated, and reduced to what their deciding attempt implies.
DeliveriesFollow ==
  /\ \A d \in Deliveries :
       \/ delivery'[d] = delivery[d]
       \/ delivery[d] \in {"pending", "eligible"} /\ delivery'[d] \in {"eligible", "active"}
       \/ /\ delivery[d] = "active"
          /\ \E a \in Attempts :
               a[1] = d /\ Ended(a) /\ delivery'[d] = DeliveryStateFor(attempt[a])
  /\ run' = "completed" =>
       run = "completed" \/ \A d \in Deliveries : delivery[d] \in DeliveryTerminal

\* A definite attempt implies a final state of its delivery, and no ambiguity.
LEMMA DefiniteState ==
  ASSUME NEW s \in Definite
  PROVE  DeliveryStateFor(s) \in {"satisfied", "exhausted", "cancelled"}
BY DEF Definite, AttemptTerminal, DeliveryStateFor

\* Deciding attempts stay so.
LEMMA EndedStays ==
  ASSUME IInv, EntriesGrow, NEW a \in Attempts, Ended(a)
  PROVE  Ended(a)' /\ attempt'[a] = attempt[a]
<1>1. attempt'[a] = attempt[a] /\ entry'[a] # "none"
  BY DEF EntriesGrow, Ended, Last, Definite
<1>2. ASSUME Succ(a) \in Attempts, entry'[Succ(a)] # "none" PROVE FALSE
  <2>1. entry[Succ(a)] = "none"
    BY <1>2 DEF Ended, Last
  <2>2. PICK x \in Attempts : Succ(a) = Succ(x) /\ attempt[x] \notin Definite
    BY <1>2, <2>1 DEF EntriesGrow
  <2>3. x = a
    BY <2>2, SuccInjective
  <2> QED BY <2>2, <2>3 DEF Ended
<1> QED BY <1>1, <1>2 DEF Ended, Last

\* An attempt that does not change is deciding only if it was.
LEMMA EndedBefore ==
  ASSUME IInv, EntriesGrow, NEW a \in Attempts, attempt'[a] = attempt[a], Ended(a)'
  PROVE  Ended(a)
<1>1. attempt[a] \in Definite
  BY DEF Ended
<1>2. entry[a] # "none"
  BY <1>1, FinalRests DEF Definite
<1>3. Succ(a) \in Attempts => entry[Succ(a)] = "none"
  BY DEF EntriesGrow, Ended, Last
<1> QED BY <1>1, <1>2, <1>3 DEF Ended, Last

\* Every delivery keeps a newest entry.
LEMMA LastStays ==
  ASSUME IInv, LifeInv, EntriesGrow, NEW d \in Deliveries
  PROVE  \E a \in Attempts : a[1] = d /\ Last(a)'
<1>1. PICK a \in Attempts : a[1] = d /\ Last(a)
  BY DEF LifeInv
<1>2. entry'[a] # "none"
  BY <1>1 DEF Last, EntriesGrow
<1>3. CASE Succ(a) \in Attempts /\ entry'[Succ(a)] # "none"
  <2>1. entry[Succ(a)] = "none" /\ Succ(a)[1] = d
    BY <1>1, <1>3, AttemptFacts DEF Last
  <2>2. ASSUME Succ(Succ(a)) \in Attempts, entry'[Succ(Succ(a))] # "none" PROVE FALSE
    <3>1. Succ(Succ(a))[1] = Succ(a)[1] /\ Succ(a)[2] < Succ(Succ(a))[2]
      BY <1>3, <2>2, AttemptFacts
    <3>2. attempt[Succ(a)] = "none"
      BY <1>3, <2>1 DEF IInv, ChainInv
    <3>3. entry[Succ(Succ(a))] = "none"
      BY <1>3, <2>2, <3>1, <3>2, FinalBefore DEF AttemptTerminal
    <3>4. PICK x \in Attempts : Succ(Succ(a)) = Succ(x) /\ entry[x] # "none"
      BY <2>2, <3>3 DEF EntriesGrow
    <3>5. x = Succ(a)
      BY <1>3, <3>4, SuccInjective
    <3> QED BY <2>1, <3>4, <3>5
  <2> QED BY <1>3, <2>1, <2>2 DEF Last
<1>4. CASE ~(Succ(a) \in Attempts /\ entry'[Succ(a)] # "none")
  BY <1>1, <1>2, <1>4 DEF Last
<1> QED BY <1>3, <1>4

\* A step that changes the rows so keeps what the journal says of its deliveries.
LEMMA LifeStep ==
  ASSUME IInv, LifeInv, EntriesGrow, AttemptsFollow, DeliveriesFollow
  PROVE  LifeInv'
<1>1. ASSUME NEW a \in Attempts, a[2] = 1
      PROVE  entry'[a] # "none" /\ attempt'[a] # "scheduled"
  BY <1>1 DEF LifeInv, EntriesGrow, AttemptsFollow
<1>2. \A d \in Deliveries : \E a \in Attempts : a[1] = d /\ Last(a)'
  BY LastStays
<1>3. \A a \in Attempts : staged'[a].retry => Succ(a) \in Attempts
  BY DEF LifeInv, AttemptsFollow
<1>4. ASSUME NEW a \in Attempts, delivery'[a[1]] \in {"pending", "eligible"}
      PROVE  attempt'[a] = "none"
  <2>1. a[1] \in Deliveries
    BY AttemptFacts
  <2>2. ASSUME NEW b \in Attempts, Ended(b)
        PROVE  DeliveryStateFor(attempt[b]) \notin {"pending", "eligible"}
    BY <2>2, DefiniteState DEF Ended
  <2>3. delivery[a[1]] \in {"pending", "eligible"}
    BY <1>4, <2>1, <2>2 DEF DeliveriesFollow
  <2> QED BY <2>3 DEF LifeInv, AttemptsFollow
<1>5. ASSUME NEW d \in Deliveries, delivery'[d] \in DeliveryTerminal
      PROVE  \E a \in Attempts :
               a[1] = d /\ Ended(a)' /\ delivery'[d] = DeliveryStateFor(attempt'[a])
  <2>1. \E a \in Attempts :
          a[1] = d /\ Ended(a) /\ delivery'[d] = DeliveryStateFor(attempt[a])
    BY <1>5 DEF LifeInv, DeliveriesFollow, DeliveryTerminal
  <2> QED BY <2>1, EndedStays
<1>6. ASSUME run' = "completed", NEW d \in Deliveries
      PROVE  delivery'[d] \in DeliveryTerminal
  <2>1. delivery[d] \in DeliveryTerminal
    BY <1>6 DEF LifeInv, DeliveriesFollow
  <2> QED BY <2>1 DEF DeliveriesFollow, DeliveryTerminal
<1> QED BY <1>1, <1>2, <1>3, <1>4, <1>5, <1>6 DEF LifeInv

-----------------------------------------------------------------------------
(* Every step changes the rows so.                                         *)

Follows == EntriesGrow /\ AttemptsFollow /\ DeliveriesFollow

\* A step that leaves attempts, entries, staging and deliveries alone.
LEMMA QuietFollows ==
  ASSUME UNCHANGED <<delivery, attempt, staged, entry>>,
         run' = "completed" =>
           run = "completed" \/ \A d \in Deliveries : delivery[d] \in DeliveryTerminal
  PROVE  Follows
BY DEF Follows, EntriesGrow, AttemptsFollow, DeliveriesFollow

\* A phase transaction moves one attempt that exists and is not final.
LEMMA PhaseFollows ==
  ASSUME IInv, NEW a \in Attempts, NEW target,
         attempt[a] \in {"claimed"} \cup AttemptLive, target # "scheduled",
         attempt' = [attempt EXCEPT ![a] = target],
         \A b \in Attempts : staged'[b].retry => staged[b].retry \/ Succ(b) \in Attempts,
         UNCHANGED <<run, delivery, entry>>
  PROVE  Follows
<1>1. \A b \in Attempts : attempt'[b] = IF b = a THEN target ELSE attempt[b]
  BY DEF IInv, TypeOK
<1>2. attempt[a] \notin AttemptTerminal /\ attempt[a] # "none"
  BY DEF AttemptTerminal, AttemptLive
<1> QED BY <1>1, <1>2 DEF Follows, EntriesGrow, AttemptsFollow, DeliveriesFollow

\* A terminal transaction ends one live attempt, with its successor or without.
LEMMA TerminateFollows ==
  ASSUME IInv, NEW a \in Attempts, NEW terminal, NEW retry,
         attempt[a] \in AttemptLive, terminal \in AttemptTerminal,
         Terminate(a, terminal, retry), UNCHANGED <<run, delivery>>
  PROVE  Follows
<1>1. \A b \in Attempts : attempt'[b] = IF b = a THEN terminal ELSE attempt[b]
  BY DEF IInv, TypeOK, Terminate
<1>2. attempt[a] \notin AttemptTerminal /\ attempt[a] # "none" /\ terminal # "scheduled"
  BY DEF AttemptTerminal, AttemptLive
<1>3. entry[a] # "none"
  BY <1>2 DEF IInv, ChainInv
<1>4. \A b \in Attempts : entry'[b] = entry[b] \/ (b = Succ(a) /\ entry'[b] = "pending")
  BY DEF IInv, TypeOK, Terminate
<1>5. EntriesGrow
  BY <1>1, <1>2, <1>3, <1>4 DEF EntriesGrow, Definite
<1>6. \A b \in Attempts : staged'[b].retry => staged[b].retry
  BY DEF IInv, TypeOK, Terminate, NoStaging
<1>7. AttemptsFollow
  BY <1>1, <1>2, <1>6 DEF AttemptsFollow
<1> QED BY <1>5, <1>7 DEF Follows, DeliveriesFollow

\* A delivery with an attempt is activated.
LEMMA Activated ==
  ASSUME LifeInv, NEW a \in Attempts, attempt[a] # "none"
  PROVE  delivery[a[1]] \notin {"pending", "eligible"}
BY DEF LifeInv

\* A claim creates or promotes an attempt of an active delivery.
LEMMA ClaimFollows ==
  ASSUME IInv, LifeInv, NEW e \in Epochs, NEW a \in Attempts, ClaimSchedule(e, a)
  PROVE  Follows
<1>1. /\ \A b \in Attempts : attempt'[b] = IF b = a THEN "claimed" ELSE attempt[b]
      /\ \A b \in Attempts : entry'[b] = IF b = a THEN "consumed" ELSE entry[b]
      /\ entry[a] = "pending" /\ Claimable(e, a)
      /\ a[2] = 1 => delivery[a[1]] = "active"
      /\ UNCHANGED <<run, delivery, staged>>
  BY DEF ClaimSchedule, IInv, TypeOK
<1>2. delivery[a[1]] \notin {"pending", "eligible"}
  <2>1. CASE a[2] = 1
    BY <1>1, <2>1
  <2>2. CASE a[2] # 1
    <3>1. a[2] > 1
      BY <2>2, AttemptFacts
    <3>2. attempt[Pred(a)] # "none"
      BY <1>1, <3>1 DEF Claimable, RetryPredecessorStates, AtomicRetryStates
    <3> QED BY <2>2, <3>2, PredFacts, Activated
  <2> QED BY <2>1, <2>2
<1>3. attempt[a] \notin AttemptTerminal
  BY <1>1 DEF Claimable, AttemptTerminal
<1>4. EntriesGrow
  BY <1>1, <1>3 DEF EntriesGrow
<1>5. AttemptsFollow
  BY <1>1, <1>2 DEF AttemptsFollow
<1> QED BY <1>1, <1>4, <1>5 DEF Follows, DeliveriesFollow

\* A redelivery adds the successors of ambiguous attempts.
LEMMA RedeliverFollows ==
  ASSUME IInv, LifeInv, NEW e \in Epochs, Redeliver(e)
  PROVE  Follows
<1>1. \A b \in Attempts :
        \/ attempt'[b] = attempt[b] /\ entry'[b] = entry[b]
        \/ b \in AuthorizedRedeliveries /\ attempt'[b] = "scheduled" /\ entry'[b] = "pending"
  BY DEF Redeliver
<1>2. \A b \in AuthorizedRedeliveries :
        \E x \in Attempts : b = Succ(x) /\ attempt[x] = "unknown_outcome"
  BY DEF AuthorizedRedeliveries, Ambiguous
<1>3. \A b \in AuthorizedRedeliveries : attempt[b] = "none"
  BY RedeliveryConsented DEF AuthorizedRedeliveries, Redeliverable
<1>4. \A x \in Attempts : attempt[x] = "unknown_outcome" =>
        /\ entry[x] # "none" /\ attempt[x] \notin Definite
        /\ delivery[x[1]] \notin {"pending", "eligible"}
        /\ Succ(x)[1] = x[1] /\ Succ(x)[2] # 1
  BY FinalRests, Activated, AttemptFacts DEF AttemptTerminal, Definite
<1>5. UNCHANGED <<run, delivery, staged>>
  BY DEF Redeliver
<1>6. EntriesGrow
  BY <1>1, <1>2, <1>3, <1>4 DEF EntriesGrow, AttemptTerminal
<1>7. AttemptsFollow
  BY <1>1, <1>2, <1>4, <1>5 DEF AttemptsFollow
<1> QED BY <1>5, <1>6, <1>7 DEF Follows, DeliveriesFollow

\* A delivery is reduced by the attempt that decides it.
LEMMA ReduceFollows ==
  ASSUME IInv, NEW a \in Attempts, Ended(a), delivery[a[1]] = "active",
         delivery' = [delivery EXCEPT ![a[1]] = DeliveryStateFor(attempt[a])],
         UNCHANGED <<run, attempt, staged, entry>>
  PROVE  Follows
<1>1. \A d \in Deliveries :
        delivery'[d] = IF d = a[1] THEN DeliveryStateFor(attempt[a]) ELSE delivery[d]
  BY DEF IInv, TypeOK
<1>2. DeliveriesFollow
  BY <1>1 DEF DeliveriesFollow
<1> QED BY <1>2 DEF Follows, EntriesGrow, AttemptsFollow

\* What the recovery may reduce, its last attempt decides.
LEMMA ReducibleEnded ==
  ASSUME IInv, NEW a \in Attempts, Reducible(a)
  PROVE  Ended(a)
<1>1. attempt[a] \in Definite /\ attempt[a] \in AttemptTerminal
  BY DEF Reducible, Definite
<1>2. entry[a] # "none"
  BY <1>1, FinalRests
<1>3. ASSUME Succ(a) \in Attempts PROVE entry[Succ(a)] = "none"
  <2>1. Succ(a)[1] = a[1] /\ Succ(a)[2] > a[2]
    BY AttemptFacts
  <2>2. attempt[Succ(a)] = "none" /\ Succ(a) \notin Pending
    BY <1>3, <2>1 DEF Reducible
  <2>3. entry[Succ(a)] \in {"none", "pending", "consumed"}
    BY <1>3 DEF IInv, TypeOK
  <2> QED BY <1>3, <2>2, <2>3 DEF Pending, IInv, ChainInv
<1> QED BY <1>1, <1>2, <1>3 DEF Ended, Last

\* A worker that reduces its delivery for the owner holds the deciding attempt.
LEMMA ReducedEnded ==
  ASSUME IInv, WorkInv, NEW e \in Epochs, NEW a \in Attempts, Owns(e), pc[e][a] = "reduced"
  PROVE  Ended(a)
<1>1. mode[e] = "running"
  BY DEF IInv, OwnerInv, Idle
<1> QED BY <1>1 DEF WorkInv, OwnerWork, Place, Matches

\* Without an ambiguity, settled deliveries are final.
LEMMA FinishFollows ==
  ASSUME NEW e \in Epochs, FinishRun(e)
  PROVE  Follows
<1>1. run' = "completed" =>
        run = "completed" \/ \A d \in Deliveries : delivery[d] \in DeliveryTerminal
  BY DEF FinishRun, Settled
<1>2. UNCHANGED <<delivery, attempt, staged, entry>>
  BY DEF FinishRun
<1> QED BY <1>1, <1>2, QuietFollows

\* The outcomes a worker concludes its attempt with.
LEMMA ConcludeCases ==
  ASSUME IInv, LifeInv, NEW e \in Epochs, NEW a \in Attempts,
         ReturnNotSent(e, a) \/ ReturnUnknown(e, a) \/ CommitOutcome(e, a)
  PROVE  \E terminal \in AttemptTerminal, retry \in BOOLEAN :
           /\ attempt[a] \in AttemptLive /\ pc[e][a] \notin {"idle", "due"}
           /\ retry => Succ(a) \in Attempts /\ terminal \in Definite
           /\ Conclude(e, a, terminal, retry)
<1> USE DEF AttemptLive, AttemptTerminal, Definite
<1>1. CASE ReturnNotSent(e, a)
  BY <1>1, Zenon DEF ReturnNotSent, RetryScheduled
<1>2. CASE ReturnUnknown(e, a)
  BY <1>2, Zenon DEF ReturnUnknown
<1>3. CASE CommitOutcome(e, a)
  <2>1. /\ staged[a].terminal \in {"succeeded", "rejected", "transport_failed"}
        /\ staged[a].retry \in BOOLEAN
        /\ pc[e][a] = "observed" /\ attempt[a] = "response_observed"
        /\ Conclude(e, a, staged[a].terminal, staged[a].retry)
    BY <1>3 DEF CommitOutcome, IInv, StagingInv, TypeOK, Outcomes
  <2>2. staged[a].retry => Succ(a) \in Attempts
    BY DEF LifeInv
  <2> QED BY <2>1, <2>2
<1> QED BY <1>1, <1>2, <1>3

\* Every step of the run changes the rows as its deliveries require.
LEMMA NextFollows ==
  ASSUME IInv, OutcomeInv, Next
  PROVE  Follows
<1>0. LifeInv /\ WorkInv
  BY DEF OutcomeInv
<1>1. ASSUME NEW e \in Epochs, NEW a \in Attempts, Worker(e, a) PROVE Follows
  <2>1. CASE ActivateDelivery(e, a)
    <3>1. /\ \A d \in Deliveries :
               \/ delivery'[d] = delivery[d]
               \/ /\ delivery[d] \in {"pending", "eligible"}
                  /\ delivery'[d] \in {"eligible", "active"}
          /\ UNCHANGED <<run, attempt, staged, entry>>
      BY <2>1 DEF ActivateDelivery, IInv, TypeOK
    <3> QED BY <3>1 DEF Follows, EntriesGrow, AttemptsFollow, DeliveriesFollow
  <2>2. CASE ClaimSchedule(e, a)
    BY <1>0, <2>2, ClaimFollows
  <2>3. CASE ReplayClaim(e, a) \/ Transmit(e, a)
    BY <2>3, QuietFollows DEF ReplayClaim, Transmit, journal
  <2>4. CASE \/ CommitPreSend(e, a) \/ ConnectionAttemptStarted(e, a)
             \/ RequestSendStarted(e, a) \/ AwaitingResponse(e, a)
    <3>1. PICK target \in AttemptLive :
            /\ attempt[a] \in {"claimed"} \cup AttemptLive
            /\ attempt' = [attempt EXCEPT ![a] = target]
            /\ UNCHANGED <<run, delivery, entry, staged>>
      BY <2>4 DEF CommitPreSend, ConnectionAttemptStarted, RequestSendStarted,
         AwaitingResponse, Phase, AttemptLive
    <3> QED BY <3>1, PhaseFollows, Zenon DEF AttemptLive
  <2>5. CASE ReturnNotSent(e, a) \/ ReturnUnknown(e, a) \/ CommitOutcome(e, a)
    <3>1. PICK terminal \in AttemptTerminal, retry \in BOOLEAN :
            attempt[a] \in AttemptLive /\ Conclude(e, a, terminal, retry)
      BY <1>0, <2>5, ConcludeCases
    <3> QED BY <3>1, TerminateFollows DEF Conclude
  <2>6. CASE ResponseObserved(e, a)
    <3>1. PICK r \in CompleteResponses :
            staged' = [staged EXCEPT ![a] =
                         [terminal |-> r[1], retry |-> RetryScheduled(a, r[2])]]
      BY <2>6, Zenon DEF ResponseObserved
    <3>2. \A b \in Attempts : staged'[b].retry => staged[b].retry \/ Succ(b) \in Attempts
      BY <3>1, Zenon DEF RetryScheduled, IInv, TypeOK
    <3>3. /\ attempt[a] \in {"claimed"} \cup AttemptLive
          /\ attempt' = [attempt EXCEPT ![a] = "response_observed"]
          /\ UNCHANGED <<run, delivery, entry>>
      BY <2>6 DEF ResponseObserved, AttemptLive
    <3> QED BY <3>2, <3>3, PhaseFollows, Zenon
  <2>7. CASE TerminalizeDelivery(e, a)
    BY <1>0, <2>7, ReducedEnded, ReduceFollows, Zenon DEF TerminalizeDelivery
  <2> QED BY <1>1, <2>1, <2>2, <2>3, <2>4, <2>5, <2>6, <2>7 DEF Worker
<1>2. ASSUME NEW e \in Epochs, NEW a \in Attempts, Recovery(e, a) PROVE Follows
  <2>1. CASE RebindAttempt(e, a)
    BY <2>1, QuietFollows DEF RebindAttempt
  <2>2. CASE TerminateAttempt(e, a)
    <3>1. /\ attempt[a] = scanned[e][a] /\ attempt[a] \in AttemptLive
          /\ Terminate(a, RecoveredState(a, scanned[e][a]), staged[a].retry)
          /\ UNCHANGED <<run, delivery>>
      BY <2>2 DEF TerminateAttempt, ToTerminate
    <3>2. RecoveredState(a, attempt[a]) \in AttemptTerminal
      BY <3>1, RecoveredOutcome, Zenon DEF IInv
    <3> QED BY <3>1, <3>2, TerminateFollows
  <2>3. CASE ReduceDelivery(e, a)
    <3>1. Reducible(a) /\ Ended(a)
      BY <2>3, ReducibleEnded, Zenon DEF ReduceDelivery
    <3> QED BY <2>3, <3>1, ReduceFollows, Zenon DEF ReduceDelivery, Reducible
  <2> QED BY <1>2, <2>1, <2>2, <2>3 DEF Recovery
<1>3. ASSUME NEW e \in Epochs, Redeliver(e) PROVE Follows
  BY <1>0, <1>3, RedeliverFollows
<1>4. ASSUME NEW e \in Epochs, FinishRun(e) PROVE Follows
  BY <1>4, FinishFollows
<1>5. ASSUME NEW e \in Epochs,
             \/ ActivateRun(e) \/ LoadDue(e) \/ Scan(e)
             \/ ContinueUnambiguous(e) \/ StopAmbiguous(e) \/ OperatorDecision(e)
             \/ FencedOut(e) \/ TakeOver(e) \/ Crash(e)
      PROVE  Follows
  <2>1. UNCHANGED <<delivery, attempt, staged, entry>> /\ run' \in {run, "running"}
    BY <1>5, Zenon DEF ActivateRun, LoadDue, Scan, ContinueUnambiguous, StopAmbiguous,
       OperatorDecision, FencedOut, TakeOver, Crash, journal
  <2> QED BY <2>1, QuietFollows
<1>6. ASSUME PreflightResume PROVE Follows
  BY <1>6, QuietFollows DEF PreflightResume, journal
<1> QED BY <1>1, <1>2, <1>3, <1>4, <1>5, <1>6 DEF Next, Process

-----------------------------------------------------------------------------
(* What the owner may rely on.                                             *)

\* Only process e changes its memory.
Moves(e) ==
  \A f \in Epochs : f # e =>
    /\ mode'[f] = mode[f] /\ policy'[f] = policy[f] /\ scanned'[f] = scanned[f]
    /\ pc'[f] = pc[f] /\ now'[f] = now[f]

\* What a process relies on is about the journal and its own memory.
LEMMA OwnerSame ==
  ASSUME NEW f \in Epochs, OwnerWork(f), UNCHANGED journal,
         mode'[f] = mode[f], policy'[f] = policy[f], scanned'[f] = scanned[f],
         pc'[f] = pc[f], now'[f] = now[f]
  PROVE  OwnerWork(f)'
<1> USE DEF journal
<1>1. Pending' = Pending
  BY DEF Pending
<1>2. \A a \in Attempts : Ended(a)' <=> Ended(a)
  BY DEF Ended, Last
<1>3. ASSUME NEW a \in Attempts, Place(f, a) PROVE Place(f, a)'
  <2>1. Matches(pc[f][a], a)'
    BY <1>1, <1>2, <1>3 DEF Place, Matches
  <2> QED BY <1>1, <1>3, <2>1 DEF Place
<1>4. \A a \in Attempts : Awaits(f, a) => Awaits(f, a)'
  BY DEF Awaits
<1>5. Alive(f)' <=> Alive(f)
  BY DEF Alive
<1> QED BY <1>1, <1>3, <1>4, <1>5, Zenon DEF OwnerWork

\* A step of one process, by the owner if it changes the journal, leaves what the
\* others rely on.
LEMMA Compose ==
  ASSUME WorkInv, NEW e \in Epochs, Moves(e), UNCHANGED journal \/ epoch' = e,
         mode'[e] # "running" => now'[e] = 0, Owns(e)' => OwnerWork(e)'
  PROVE  WorkInv'
<1>1. ASSUME NEW f \in Epochs, f # e
      PROVE  (mode'[f] # "running" => now'[f] = 0) /\ (Owns(f)' => OwnerWork(f)')
  <2>1. mode'[f] # "running" => now'[f] = 0
    BY <1>1 DEF Moves, WorkInv
  <2>2. ASSUME Owns(f)' PROVE OwnerWork(f)'
    <3>1. UNCHANGED journal
      BY <1>1, <2>2 DEF Owns
    <3>2. OwnerWork(f)
      BY <2>2, <3>1 DEF Owns, journal, WorkInv
    <3> QED BY <1>1, <3>1, <3>2, OwnerSame DEF Moves
  <2> QED BY <2>1, <2>2
<1> QED BY <1>1 DEF WorkInv

At(e, a) == Matches(pc[e][a], a)

\* An attempt the owner does not touch stays where it is.
LEMMA PlaceStays ==
  ASSUME IInv, Follows, NEW e \in Epochs, NEW b \in Attempts, Place(e, b),
         attempt'[b] = attempt[b], pc'[e][b] = pc[e][b], owner'[b] = owner[b],
         now'[e] = now[e], b \in Pending => b \in Pending',
         b \in Pending' => now[e] <= NotBefore[b]
  PROVE  Place(e, b)'
<1>1. Ended(b)' <=> Ended(b)
  BY EndedStays, EndedBefore, Zenon DEF Follows
<1>2. delivery[b[1]] \in DeliveryTerminal => delivery'[b[1]] \in DeliveryTerminal
  BY AttemptFacts DEF Follows, DeliveriesFollow, DeliveryTerminal
<1>3. Matches(pc[e][b], b)
  BY Zenon DEF Place
<1>4. Matches(pc[e][b], b)'
  <2>1. pc[e][b] = "due" => b \in Pending'
    BY <1>3, Zenon DEF Matches
  <2>2. pc'[e][b] # "reduced" /\ Ended(b)' => delivery'[b[1]] \in DeliveryTerminal
    BY <1>1, <1>2, <1>3, Zenon DEF Matches
  <2> QED BY <1>1, <1>3, <2>1, <2>2, Zenon DEF Matches
<1> QED BY <1>4, Zenon DEF Place

\* A worker of the owner runs inside a running process.
LEMMA AtWork ==
  ASSUME IInv, WorkInv, NEW e \in Epochs, NEW a \in Attempts, Owns(e), pc[e][a] # "idle"
  PROVE  mode[e] = "running" /\ run = "running" /\ \A b \in Attempts : Place(e, b)
<1>1. mode[e] = "running"
  BY DEF IInv, OwnerInv, Idle
<1> QED BY <1>1 DEF WorkInv, OwnerWork

\* A transaction of a worker of the owner, which touches its attempt and at most adds
\* the entry of the next one.
LEMMA WorkerWork ==
  ASSUME IInv, WorkInv, Follows, NEW e \in Epochs, NEW a \in Attempts,
         Owns(e), pc[e][a] # "idle", UNCHANGED <<epoch, mode, now, run>>,
         \A b \in Attempts : b # a =>
           /\ attempt'[b] = attempt[b] /\ owner'[b] = owner[b] /\ pc'[e][b] = pc[e][b]
           /\ consumedBy'[b] = consumedBy[b]
           /\ entry'[b] = entry[b] \/ (b = Succ(a) /\ entry[b] = "none"),
         At(e, a)', attempt'[a] \in {"scheduled", "claimed"} => owner'[a] = e
  PROVE  OwnerWork(e)'
<1>1. mode[e] = "running" /\ run = "running" /\ \A b \in Attempts : Place(e, b)
  BY AtWork
<1>2. now[e] = NotBefore[a]
  BY <1>1 DEF Place
<1>3. /\ NotBefore[a] \in Nat /\ now[e] \in Nat
      /\ Succ(a) \in Attempts => NotBefore[a] <= NotBefore[Succ(a)]
  BY PlanAssumption, Zenon DEF IInv, TypeOK
<1>4. Place(e, a)'
  <2>1. now'[e] = NotBefore[a] /\ now'[e] <= NotBefore[a]
    BY <1>2, <1>3
  <2> QED BY <2>1 DEF Place, At
<1>5. ASSUME NEW b \in Attempts, b # a PROVE Place(e, b)'
  <2>1. b \in Pending => b \in Pending'
    <3>1. CASE entry'[b] = entry[b]
      BY <1>5, <3>1, Zenon DEF Pending
    <3>2. CASE entry[b] = "none"
      BY <3>2 DEF Pending
    <3> QED BY <1>5, <3>1, <3>2, Zenon
  <2>2. b \in Pending' => now[e] <= NotBefore[b]
    <3>1. CASE entry'[b] = entry[b]
      <4>1. b \in Pending' => b \in Pending
        BY <1>5, <3>1 DEF Pending
      <4> QED BY <1>1, <4>1 DEF Place
    <3>2. CASE b = Succ(a)
      BY <1>2, <1>3, <3>2, Zenon
    <3> QED BY <1>5, <3>1, <3>2
  <2>3. Place(e, b)
    BY <1>1, Zenon
  <2> QED BY <1>5, <2>1, <2>2, <2>3, PlaceStays, Zenon
<1>6. mode'[e] = "running" /\ run' = "running"
  BY <1>1
<1>7. \A b \in Attempts : Place(e, b)'
  BY <1>4, <1>5
<1> QED BY <1>6, <1>7 DEF OwnerWork, RunTerminal

\* A step that moves the worker of one attempt changes no other memory.
LEMMA WorkerMoves ==
  ASSUME TypeOK, NEW e \in Epochs, NEW a \in Attempts, NEW there,
         pc' = [pc EXCEPT ![e][a] = there], UNCHANGED <<mode, policy, scanned, now>>
  PROVE  /\ Moves(e) /\ pc'[e][a] = there
         /\ \A b \in Attempts : b # a => pc'[e][b] = pc[e][b]
BY DEF TypeOK, Moves

\* A worker that holds its attempt in a state that decides nothing is where it should be.
LEMMA Holding ==
  ASSUME NEW e \in Epochs, NEW a \in Attempts,
         \/ pc'[e][a] = "leased" /\ attempt'[a] = "claimed"
         \/ pc'[e][a] = "prepared" /\ attempt'[a] = "pre_send_committed"
         \/ pc'[e][a] = "connecting" /\ attempt'[a] = "connecting"
         \/ pc'[e][a] \in {"sending", "sent"} /\ attempt'[a] = "sending"
         \/ pc'[e][a] = "awaiting" /\ attempt'[a] = "awaiting_response"
         \/ pc'[e][a] = "observed" /\ attempt'[a] = "response_observed"
  PROVE  /\ At(e, a)' /\ attempt'[a] # "scheduled"
         /\ attempt'[a] = "claimed" => pc'[e][a] = "leased"
<1>1. ~Ended(a)'
  BY DEF Ended, Definite, AttemptTerminal
<1>2. pc'[e][a] \notin {"idle", "due", "reduced"}
  OBVIOUS
<1> QED BY <1>1, <1>2 DEF At, Matches

\* Claiming, replaying, the phases and the staging of a response.
LEMMA HoldingWork ==
  ASSUME IInv, WorkInv, Follows, NEW e \in Epochs, NEW a \in Attempts,
         \/ ClaimSchedule(e, a) \/ ReplayClaim(e, a) \/ CommitPreSend(e, a)
         \/ ConnectionAttemptStarted(e, a) \/ RequestSendStarted(e, a)
         \/ AwaitingResponse(e, a) \/ ResponseObserved(e, a)
  PROVE  WorkInv'
<1>0. TypeOK
  BY DEF IInv
<1>1. Owns(e) /\ pc[e][a] # "idle" /\ UNCHANGED <<epoch, mode, policy, scanned, now, run>>
  BY Zenon DEF ClaimSchedule, ReplayClaim, CommitPreSend, ConnectionAttemptStarted,
     RequestSendStarted, AwaitingResponse, ResponseObserved, Phase, journal
<1>2. Place(e, a) /\ mode[e] = "running"
  BY <1>1, AtWork, Zenon
<1>3. PICK there \in Positions :
        /\ pc' = [pc EXCEPT ![e][a] = there]
        /\ \/ there = "leased" /\ attempt'[a] = "claimed"
           \/ there = "prepared" /\ attempt'[a] = "pre_send_committed"
           \/ there = "connecting" /\ attempt'[a] = "connecting"
           \/ there = "sending" /\ attempt'[a] = "sending"
           \/ there = "awaiting" /\ attempt'[a] = "awaiting_response"
           \/ there = "observed" /\ attempt'[a] = "response_observed"
  <2>1. CASE ReplayClaim(e, a)
    <3>1. pc[e][a] = "due" /\ entry[a] = "consumed" /\ attempt' = attempt
      BY <2>1 DEF ReplayClaim, journal
    <3>2. a \in Pending
      BY <1>2, <3>1, Zenon DEF Place, Matches
    <3>3. attempt'[a] = "claimed"
      BY <3>1, <3>2, Zenon DEF Pending
    <3> QED BY <2>1, <3>3 DEF ReplayClaim, Positions
  <2>2. CASE ~ReplayClaim(e, a)
    BY <1>0, <2>2, Zenon DEF ClaimSchedule, CommitPreSend, ConnectionAttemptStarted,
       RequestSendStarted, AwaitingResponse, ResponseObserved, Phase, Positions, TypeOK
  <2> QED BY <2>1, <2>2
<1>4. /\ Moves(e) /\ pc'[e][a] = there
      /\ \A b \in Attempts : b # a => pc'[e][b] = pc[e][b]
  BY <1>0, <1>1, <1>3, WorkerMoves, Zenon
<1>5. /\ At(e, a)' /\ attempt'[a] # "scheduled"
      /\ attempt'[a] = "claimed" => pc'[e][a] = "leased"
  BY <1>3, <1>4, Holding
<1>6. \A b \in Attempts : b # a =>
        /\ attempt'[b] = attempt[b] /\ owner'[b] = owner[b]
        /\ consumedBy'[b] = consumedBy[b] /\ entry'[b] = entry[b]
  BY <1>0, Zenon DEF ClaimSchedule, ReplayClaim, CommitPreSend, ConnectionAttemptStarted,
     RequestSendStarted, AwaitingResponse, ResponseObserved, Phase, journal, TypeOK
<1>7. attempt'[a] = "claimed" => owner'[a] = e
  <2>1. CASE ReplayClaim(e, a)
    BY <2>1 DEF ReplayClaim, journal
  <2>2. CASE ClaimSchedule(e, a)
    BY <1>0, <2>2 DEF ClaimSchedule, TypeOK
  <2>3. CASE ~ReplayClaim(e, a) /\ ~ClaimSchedule(e, a)
    BY <1>0, <2>3, Zenon DEF CommitPreSend, ConnectionAttemptStarted, RequestSendStarted,
       AwaitingResponse, ResponseObserved, Phase, TypeOK
  <2> QED BY <2>1, <2>2, <2>3, Zenon
<1>8. OwnerWork(e)'
  BY <1>1, <1>4, <1>5, <1>6, <1>7, WorkerWork, Zenon
<1> QED BY <1>1, <1>2, <1>4, <1>8, Compose, Zenon DEF Owns

\* Writing the request changes nothing the journal says; a worker that no longer owns
\* the run may do so too.
LEMMA TransmitWork ==
  ASSUME IInv, WorkInv, Follows, NEW e \in Epochs, NEW a \in Attempts, Transmit(e, a)
  PROVE  WorkInv'
<1>0. TypeOK
  BY DEF IInv
<1>1. /\ pc[e][a] = "sending" /\ pc' = [pc EXCEPT ![e][a] = "sent"]
      /\ UNCHANGED <<journal, mode, policy, scanned, now>>
  BY DEF Transmit
<1>2. /\ Moves(e) /\ pc'[e][a] = "sent"
      /\ \A b \in Attempts : b # a => pc'[e][b] = pc[e][b]
  BY <1>0, <1>1, WorkerMoves, Zenon
<1>3. ASSUME Owns(e) PROVE OwnerWork(e)'
  <2>1. attempt[a] = "sending"
    BY <1>1, <1>3, AtWork DEF Place, Matches
  <2>2. At(e, a)' /\ attempt'[a] \notin {"scheduled", "claimed"}
    BY <1>1, <1>2, <2>1, Holding DEF journal
  <2> QED BY <1>1, <1>2, <1>3, <2>2, WorkerWork DEF journal
<1>4. mode'[e] # "running" => now'[e] = 0
  BY <1>1 DEF WorkInv
<1>5. Owns(e)' => Owns(e)
  BY <1>1 DEF Owns, journal
<1> QED BY <1>1, <1>2, <1>3, <1>4, <1>5, Compose

\* Activating the delivery of a due attempt.
LEMMA ActivateWork ==
  ASSUME IInv, WorkInv, Follows, NEW e \in Epochs, NEW a \in Attempts,
         ActivateDelivery(e, a)
  PROVE  WorkInv'
<1>1. /\ Owns(e) /\ pc[e][a] = "due"
      /\ UNCHANGED <<epoch, run, attempt, owner, staged, entry, consumedBy, memory>>
  BY Zenon DEF ActivateDelivery
<1>2. mode[e] = "running" /\ Place(e, a)
  BY <1>1, AtWork
<1>3. a \in Pending /\ attempt[a] \notin AttemptLive
  BY <1>1, <1>2 DEF Place, Matches
<1>4. a \in Pending' /\ attempt'[a] \notin AttemptLive /\ pc'[e][a] = "due"
  BY <1>1, <1>3 DEF Pending, memory
<1>5. ~Ended(a)'
  <2>1. attempt[a] \notin AttemptTerminal
    BY <1>3, FinalRests DEF Pending
  <2> QED BY <1>1, <2>1, Zenon DEF Ended, Definite
<1>6. At(e, a)'
  BY <1>4, <1>5 DEF At, Matches
<1>7. attempt'[a] \in {"scheduled", "claimed"} => owner'[a] = e
  BY <1>1, <1>2 DEF Place
<1>8. OwnerWork(e)'
  BY <1>1, <1>6, <1>7, WorkerWork, Zenon DEF memory
<1>9. Moves(e) /\ (mode'[e] # "running" => now'[e] = 0) /\ epoch' = e
  BY <1>1, <1>2, Zenon DEF Moves, memory, Owns
<1> QED BY <1>8, <1>9, Compose

\* Concluding an attempt: its worker is done, or is left to reduce the delivery that
\* the attempt decides.
LEMMA ConcludeWork ==
  ASSUME IInv, WorkInv, Follows, NEW e \in Epochs, NEW a \in Attempts,
         NEW terminal \in AttemptTerminal, NEW retry \in BOOLEAN,
         attempt[a] \in AttemptLive, pc[e][a] \notin {"idle", "due"},
         retry => Succ(a) \in Attempts /\ terminal \in Definite,
         Conclude(e, a, terminal, retry)
  PROVE  WorkInv'
<1>0. TypeOK
  BY DEF IInv
<1>1. /\ Owns(e) /\ Terminate(a, terminal, retry)
      /\ pc' = [pc EXCEPT ![e][a] = AfterTerminal(terminal, retry)]
      /\ UNCHANGED <<epoch, run, owner, consumedBy, mode, policy, scanned, now>>
  BY DEF Conclude
<1>2. /\ Moves(e) /\ pc'[e][a] = AfterTerminal(terminal, retry)
      /\ \A b \in Attempts : b # a => pc'[e][b] = pc[e][b]
  BY <1>0, <1>1, WorkerMoves, Zenon
<1>3. /\ attempt'[a] = terminal
      /\ \A b \in Attempts : b # a => attempt'[b] = attempt[b]
  BY <1>0, <1>1 DEF Terminate, TypeOK
<1>4. \A b \in Attempts : b # a =>
        entry'[b] = entry[b] \/ (b = Succ(a) /\ entry[b] = "none")
  BY <1>0, <1>1 DEF Terminate, TypeOK
<1>5. terminal \notin AttemptLive /\ terminal \notin {"scheduled", "claimed"}
  BY DEF AttemptTerminal, AttemptLive
<1>6. At(e, a)'
  <2>1. CASE retry
    <3>1. pc'[e][a] = "idle" /\ Succ(a) \in Attempts
      BY <1>2, <2>1, Zenon DEF AfterTerminal
    <3>2. entry'[Succ(a)] = "pending"
      BY <1>0, <1>1, <2>1, <3>1 DEF Terminate, TypeOK
    <3>3. ~Ended(a)'
      BY <3>1, <3>2 DEF Ended, Last
    <3> QED BY <1>3, <1>5, <3>1, <3>3, Zenon DEF At, Matches
  <2>2. CASE ~retry /\ terminal = "unknown_outcome"
    <3>1. pc'[e][a] = "idle" /\ ~Ended(a)'
      BY <1>2, <1>3, <2>2, Zenon DEF AfterTerminal, Ended, Definite
    <3> QED BY <1>3, <1>5, <3>1, Zenon DEF At, Matches
  <2>3. CASE ~retry /\ terminal # "unknown_outcome"
    <3>1. pc'[e][a] = "reduced" /\ entry' = entry
      BY <1>1, <1>2, <2>3 DEF AfterTerminal, Terminate
    <3>2. entry[a] # "none"
      BY DEF IInv, ChainInv, AttemptLive
    <3>3. ASSUME Succ(a) \in Attempts PROVE entry[Succ(a)] = "none"
      <4>1. attempt[a] \notin AttemptTerminal
        BY DEF AttemptLive, AttemptTerminal
      <4>2. Succ(a)[1] = a[1] /\ a[2] < Succ(a)[2]
        BY AttemptFacts
      <4> QED BY <3>3, <4>1, <4>2, FinalBefore
    <3>4. Ended(a)'
      BY <1>3, <2>3, <3>1, <3>2, <3>3 DEF Ended, Last, Definite
    <3> QED BY <3>1, <3>4, Zenon DEF At, Matches
  <2> QED BY <2>1, <2>2, <2>3
<1>7. OwnerWork(e)'
  BY <1>1, <1>2, <1>3, <1>4, <1>5, <1>6, WorkerWork
<1>8. mode[e] = "running"
  BY <1>1, AtWork
<1> QED BY <1>1, <1>2, <1>7, <1>8, Compose DEF Owns

\* Reducing the delivery of a concluded attempt ends its worker.
LEMMA TerminalizeWork ==
  ASSUME IInv, WorkInv, Follows, NEW e \in Epochs, NEW a \in Attempts,
         TerminalizeDelivery(e, a)
  PROVE  WorkInv'
<1>0. TypeOK
  BY DEF IInv
<1>1. /\ Owns(e) /\ pc[e][a] = "reduced" /\ pc' = [pc EXCEPT ![e][a] = "idle"]
      /\ delivery' = [delivery EXCEPT ![a[1]] = DeliveryStateFor(attempt[a])]
      /\ UNCHANGED <<epoch, run, attempt, owner, entry, consumedBy, mode, policy, scanned,
                     now>>
  BY DEF TerminalizeDelivery
<1>2. Moves(e) /\ pc'[e][a] = "idle" /\ \A b \in Attempts : b # a => pc'[e][b] = pc[e][b]
  BY <1>0, <1>1, WorkerMoves, Zenon
<1>3. Ended(a) /\ attempt[a] \in Definite
  BY <1>1, ReducedEnded DEF Ended
<1>4. delivery'[a[1]] \in DeliveryTerminal
  BY <1>0, <1>1, <1>3, DefiniteState, AttemptFacts DEF TypeOK, DeliveryTerminal
<1>5. attempt'[a] \notin AttemptLive \cup {"scheduled", "claimed"}
  BY <1>1, <1>3 DEF Definite, AttemptTerminal, AttemptLive
<1>6. At(e, a)'
  BY <1>2, <1>4, <1>5, Zenon DEF At, Matches
<1>7. OwnerWork(e)'
  BY <1>1, <1>2, <1>5, <1>6, WorkerWork
<1>8. mode[e] = "running"
  BY <1>1, AtWork
<1> QED BY <1>1, <1>2, <1>7, <1>8, Compose DEF Owns

\* A process that stops, or dies, relies on nothing.
LEMMA StopWork ==
  ASSUME TypeOK, WorkInv, NEW e \in Epochs, Stop(e), UNCHANGED journal \/ epoch' = e
  PROVE  WorkInv'
<1>1. Moves(e) /\ mode'[e] = "stopped" /\ now'[e] = 0
  BY DEF TypeOK, Stop, Moves
<1>2. OwnerWork(e)'
  BY <1>1, Zenon DEF OwnerWork, Alive
<1> QED BY <1>1, <1>2, Compose, Zenon

\* Activating the run starts an owner without workers.
LEMMA ActivateRunWork ==
  ASSUME IInv, WorkInv, NEW e \in Epochs, ActivateRun(e)
  PROVE  WorkInv'
<1>1. /\ Owns(e) /\ mode[e] = "continuing" /\ mode' = [mode EXCEPT ![e] = "running"]
      /\ run' = "running"
      /\ UNCHANGED <<epoch, delivery, attempt, owner, entry, consumedBy, policy, scanned,
                     pc, now>>
  BY DEF ActivateRun
<1>2. Moves(e) /\ mode'[e] = "running" /\ epoch' = e
  BY <1>1 DEF IInv, TypeOK, Moves, Owns
<1>3. \A a \in Attempts : Place(e, a)
  BY <1>1 DEF WorkInv, OwnerWork
<1>4. Pending' = Pending /\ \A a \in Attempts : Ended(a)' <=> Ended(a)
  BY <1>1 DEF Pending, Ended, Last
<1>5. \A a \in Attempts : Place(e, a)'
  BY <1>1, <1>3, <1>4, Zenon DEF Place, Matches
<1>6. OwnerWork(e)'
  BY <1>1, <1>2, <1>5 DEF OwnerWork, RunTerminal
<1> QED BY <1>2, <1>6, Compose

\* A batch: the entries due first get a worker and no other is due before them.
LEMMA LoadDueWork ==
  ASSUME IInv, WorkInv, NEW e \in Epochs, LoadDue(e)
  PROVE  WorkInv'
<1>1. PICK first \in Pending :
        /\ \A a \in Pending : NotBefore[first] <= NotBefore[a]
        /\ now' = [now EXCEPT ![e] = NotBefore[first]]
        /\ pc' = [pc EXCEPT ![e] =
                    [a \in Attempts |->
                       IF a \in Pending /\ NotBefore[a] = NotBefore[first]
                         THEN "due" ELSE "idle"]]
  BY Zenon DEF LoadDue
<1>2. mode[e] = "running" /\ Idle(e) /\ UNCHANGED <<journal, mode, policy, scanned>>
  BY DEF LoadDue
<1>3. /\ Moves(e) /\ mode'[e] = "running" /\ now'[e] = NotBefore[first]
      /\ \A a \in Attempts :
           pc'[e][a] = IF a \in Pending /\ NotBefore[a] = NotBefore[first]
                         THEN "due" ELSE "idle"
  BY <1>1, <1>2, Zenon DEF IInv, TypeOK, Moves
<1>4. ASSUME Owns(e)' PROVE OwnerWork(e)'
  <2>1. Owns(e) /\ run = "running" /\ \A a \in Attempts : Place(e, a)
    BY <1>2, <1>4, Zenon DEF WorkInv, OwnerWork, Owns, journal
  <2>2. Pending' = Pending /\ \A a \in Attempts : Ended(a)' <=> Ended(a)
    BY <1>2 DEF Pending, Ended, Last, journal
  <2>3. ASSUME NEW a \in Attempts PROVE Place(e, a)'
    <3>1. Matches("idle", a)
      BY <1>2, <2>1 DEF Idle, Place
    <3>2. pc'[e][a] = "due" => a \in Pending /\ now'[e] = NotBefore[a]
      BY <1>3
    <3>3. pc'[e][a] \in {"idle", "due"}
      BY <1>3
    <3>4. Matches(pc[e][a], a)'
      BY <1>2, <2>2, <3>1, <3>2, <3>3, Zenon DEF Matches, journal
    <3>5. attempt'[a] \in {"scheduled", "claimed"} => owner'[a] = e
      BY <1>2, <2>1, Zenon DEF Place, journal
    <3>6. a \in Pending' => now'[e] <= NotBefore[a]
      BY <1>1, <1>3, <2>2
    <3> QED BY <3>2, <3>3, <3>4, <3>5, <3>6 DEF Place
  <2> QED BY <1>2, <1>3, <2>1, <2>3, Zenon DEF OwnerWork, journal, RunTerminal
<1> QED BY <1>2, <1>3, <1>4, Compose

\* A resume that takes the run over finds it as resumable as its preflight did.
LEMMA TakeOverWork ==
  ASSUME IInv, WorkInv, NEW e \in Epochs, TakeOver(e)
  PROVE  WorkInv'
<1>1. /\ e = epoch + 1 /\ preflight.run = run /\ epoch' = e
      /\ mode' = [mode EXCEPT ![e] = "owner"]
      /\ policy' = [policy EXCEPT ![e] = preflight.policy]
      /\ UNCHANGED <<run, attempt, scanned, pc, now>>
  BY DEF TakeOver
<1>2. run \notin RunTerminal
  BY <1>1 DEF IInv, TypeOK, Resumes, RunTerminal
<1>3. Moves(e) /\ mode'[e] = "owner"
  BY <1>1, Zenon DEF IInv, TypeOK, Moves
<1>4. mode[e] = "none"
  <2>1. e > epoch
    BY <1>1 DEF IInv, TypeOK, Epochs
  <2> QED BY <2>1 DEF IInv, OwnerInv
<1>5. now'[e] = 0
  BY <1>1, <1>4 DEF WorkInv
<1>6. OwnerWork(e)'
  BY <1>1, <1>2, <1>3 DEF OwnerWork
<1> QED BY <1>1, <1>3, <1>5, <1>6, Compose

\* The scan covers every attempt that is not final.
LEMMA ScanWork ==
  ASSUME IInv, WorkInv, NEW e \in Epochs, Scan(e)
  PROVE  WorkInv'
<1>1. /\ Owns(e) /\ mode[e] = "owner" /\ scanned' = [scanned EXCEPT ![e] = attempt]
      /\ mode' = [mode EXCEPT ![e] = "applying"]
      /\ UNCHANGED <<journal, policy, pc, now>>
  BY DEF Scan
<1>2. Moves(e) /\ mode'[e] = "applying" /\ scanned'[e] = attempt
  BY <1>1 DEF IInv, TypeOK, Moves
<1>3. now'[e] = 0
  BY <1>1 DEF WorkInv
<1>4. \A a \in Attempts : Awaits(e, a)'
  BY <1>1, <1>2 DEF Awaits, journal
<1>5. OwnerWork(e)
  BY <1>1 DEF WorkInv
<1>6. OwnerWork(e)'
  BY <1>1, <1>2, <1>4, <1>5 DEF OwnerWork, journal, Alive
<1> QED BY <1>1, <1>2, <1>3, <1>6, Compose

\* A step of an owner that applies its scan.
LEMMA ApplyWork ==
  ASSUME IInv, WorkInv, NEW e \in Epochs, Owns(e), mode[e] = "applying",
         Moves(e), UNCHANGED <<epoch, run, mode, policy, now>>,
         \A a \in Attempts : Awaits(e, a) => Awaits(e, a)'
  PROVE  WorkInv'
<1>1. now'[e] = 0 /\ OwnerWork(e)
  BY Zenon DEF WorkInv
<1>2. OwnerWork(e)'
  BY <1>1, Zenon DEF OwnerWork, Alive
<1> QED BY <1>1, <1>2, Compose, Zenon DEF Owns

\* Binding an attempt to its new owner.
LEMMA RebindWork ==
  ASSUME IInv, WorkInv, NEW e \in Epochs, NEW a \in Attempts, RebindAttempt(e, a)
  PROVE  WorkInv'
<1>1. /\ Owns(e) /\ mode[e] = "applying" /\ attempt[a] \in {"scheduled", "claimed"}
      /\ owner' = [owner EXCEPT ![a] = e] /\ scanned' = [scanned EXCEPT ![e][a] = "none"]
      /\ UNCHANGED <<epoch, run, attempt, mode, policy, pc, now>>
  BY DEF RebindAttempt, ToRebind
<1>2. /\ Moves(e) /\ owner'[a] = e
      /\ \A b \in Attempts : b # a => owner'[b] = owner[b] /\ scanned'[e][b] = scanned[e][b]
  BY <1>1 DEF IInv, TypeOK, Moves
<1>3. \A b \in Attempts : Awaits(e, b) => Awaits(e, b)'
  BY <1>1, <1>2 DEF Awaits
<1> QED BY <1>1, <1>2, <1>3, ApplyWork

\* Classifying an interrupted attempt.
LEMMA TerminateWork ==
  ASSUME IInv, WorkInv, NEW e \in Epochs, NEW a \in Attempts, TerminateAttempt(e, a)
  PROVE  WorkInv'
<1> DEFINE terminal == RecoveredState(a, attempt[a])
<1>1. /\ Owns(e) /\ mode[e] = "applying" /\ attempt[a] \in AttemptLive
      /\ attempt' = [attempt EXCEPT ![a] = terminal]
      /\ scanned' = [scanned EXCEPT ![e][a] = "none"]
      /\ UNCHANGED <<epoch, run, owner, mode, policy, pc, now>>
  BY DEF TerminateAttempt, ToTerminate, Terminate
<1>2. terminal \in AttemptTerminal
  BY <1>1, RecoveredOutcome, Zenon DEF IInv
<1> HIDE DEF terminal
<1>3. /\ Moves(e) /\ attempt'[a] = terminal
      /\ \A b \in Attempts : b # a =>
           attempt'[b] = attempt[b] /\ scanned'[e][b] = scanned[e][b]
  BY <1>1 DEF IInv, TypeOK, Moves
<1>4. \A b \in Attempts : Awaits(e, b) => Awaits(e, b)'
  BY <1>1, <1>2, <1>3 DEF Awaits, AttemptTerminal, AttemptLive
<1> QED BY <1>1, <1>3, <1>4, ApplyWork

\* Reducing deliveries changes nothing the plan is about.
LEMMA ReduceWork ==
  ASSUME IInv, WorkInv, NEW e \in Epochs, NEW a \in Attempts, ReduceDelivery(e, a)
  PROVE  WorkInv'
<1>1. /\ Owns(e) /\ mode[e] = "applying"
      /\ UNCHANGED <<epoch, run, attempt, owner, memory>>
  BY Zenon DEF ReduceDelivery, Applied
<1>2. Moves(e) /\ UNCHANGED <<mode, policy, now, scanned>>
  BY <1>1, Zenon DEF Moves, memory
<1>3. \A b \in Attempts : Awaits(e, b) => Awaits(e, b)'
  BY <1>1, <1>2, Zenon DEF Awaits
<1> QED BY <1>1, <1>2, <1>3, ApplyWork, Zenon

\* Once the plan is applied, no attempt is in flight, what is left to run is bound to
\* the owner, and every delivery with a deciding attempt is reduced.
LEMMA RecoveredPlace ==
  ASSUME IInv, OutcomeInv, NEW e \in Epochs, Recovered(e), NEW a \in Attempts
  PROVE  Place(e, a)
<1>1. /\ Owns(e) /\ mode[e] = "applying" /\ ToRebind(e) = {} /\ ToTerminate(e) = {}
      /\ ~Reducible(a)
  BY DEF Recovered, Applied
<1>2. Awaits(e, a) /\ now[e] = 0
  BY <1>1, Zenon DEF OutcomeInv, WorkInv, OwnerWork
<1>3. pc[e][a] = "idle"
  BY <1>1, Zenon DEF IInv, OwnerInv, Idle
<1>4. scanned[e][a] \notin {"scheduled", "claimed"} \cup AttemptLive
  BY <1>1 DEF ToRebind, ToTerminate
<1>5. /\ attempt[a] \notin AttemptLive
      /\ attempt[a] \in {"scheduled", "claimed"} => owner[a] = e
  BY <1>2, <1>4 DEF Awaits, AttemptLive
<1>6. ASSUME Ended(a) PROVE delivery[a[1]] \in DeliveryTerminal
  <2>1. attempt[a] \in AttemptTerminal \ {"unknown_outcome"} /\ attempt[a] # "none"
    BY <1>6 DEF Ended, Definite, AttemptTerminal
  <2>2. \A b \in Attempts : b[1] = a[1] /\ b[2] > a[2] => attempt[b] = "none"
    <3>1. ASSUME NEW b \in Attempts, b[1] = a[1], b[2] > a[2] PROVE a[2] < b[2]
      BY <3>1, AttemptFacts
    <3> QED BY <1>6, <3>1, NothingAfterLast DEF Ended
  <2>3. \A b \in Pending : b[1] # a[1]
    BY <1>6, EndedRests, PendingOpen
  <2>4. delivery[a[1]] # "active"
    BY <1>1, <2>1, <2>2, <2>3 DEF Reducible
  <2>5. delivery[a[1]] \notin {"pending", "eligible"}
    BY <2>1, Activated DEF OutcomeInv
  <2>6. delivery[a[1]] \in DeliveryStates
    BY AttemptFacts DEF IInv, TypeOK
  <2> QED BY <2>4, <2>5, <2>6 DEF DeliveryStates, DeliveryTerminal
<1>7. Matches("idle", a)
  BY <1>5, <1>6 DEF Matches
<1>8. 0 <= NotBefore[a]
  BY PlanAssumption
<1> QED BY <1>2, <1>3, <1>5, <1>7, <1>8, Zenon DEF Place

\* A continuation starts from a recovered run.
LEMMA ContinueWork ==
  ASSUME IInv, OutcomeInv, NEW e \in Epochs, ContinueUnambiguous(e) \/ OperatorDecision(e)
  PROVE  WorkInv'
<1>1. /\ Recovered(e) /\ Owns(e) /\ mode[e] = "applying"
      /\ mode' = [mode EXCEPT ![e] = "continuing"]
      /\ UNCHANGED <<journal, policy, scanned, pc, now>>
  BY Zenon DEF ContinueUnambiguous, OperatorDecision, Recovered, Applied
<1>2. Moves(e) /\ mode'[e] = "continuing"
  BY <1>1 DEF IInv, TypeOK, Moves
<1>3. WorkInv /\ OwnerWork(e) /\ now'[e] = 0
  BY <1>1, Zenon DEF OutcomeInv, WorkInv
<1>4. Pending' = Pending /\ \A a \in Attempts : Ended(a)' <=> Ended(a)
  BY <1>1 DEF Pending, Ended, Last, journal
<1>5. \A a \in Attempts : Place(e, a)
  BY <1>1, RecoveredPlace
<1>6. \A a \in Attempts : Place(e, a)'
  BY <1>1, <1>4, <1>5, Zenon DEF Place, Matches, journal
<1>7. OwnerWork(e)'
  BY <1>1, <1>2, <1>3, <1>6, Zenon DEF OwnerWork, Alive, journal
<1> QED BY <1>1, <1>2, <1>3, <1>7, Compose

\* A redelivery adds attempts that are bound to the owner.
LEMMA RedeliverWork ==
  ASSUME IInv, OutcomeInv, Follows, NEW e \in Epochs, Redeliver(e)
  PROVE  WorkInv'
<1>1. /\ Recovered(e) /\ Owns(e) /\ mode[e] = "applying"
      /\ mode' = [mode EXCEPT ![e] = "continuing"]
      /\ UNCHANGED <<epoch, run, delivery, consumedBy, policy, scanned, pc, now>>
  BY Zenon DEF Redeliver, Recovered, Applied
<1>2. Moves(e) /\ mode'[e] = "continuing"
  BY <1>1 DEF IInv, TypeOK, Moves
<1>3. WorkInv /\ OwnerWork(e) /\ now'[e] = 0
  BY <1>1 DEF OutcomeInv, WorkInv
<1>4. ASSUME NEW b \in Attempts PROVE Place(e, b)'
  <2>0. pc[e][b] = "idle"
    BY <1>1, Zenon DEF IInv, OwnerInv, Idle
  <2>1. Place(e, b) /\ pc[e][b] = "idle" /\ 0 <= NotBefore[b]
    <3>1. Place(e, b)
      BY <1>1, RecoveredPlace
    <3>2. NotBefore[b] \in Nat
      BY PlanAssumption
    <3> QED BY <2>0, <3>1, <3>2
  <2>2. CASE b \in AuthorizedRedeliveries
    <3>1. attempt'[b] = "scheduled" /\ owner'[b] = e
      BY <2>2, Zenon DEF Redeliver
    <3>2. ~Ended(b)' /\ attempt'[b] \notin AttemptLive
      BY <3>1 DEF Ended, Definite, AttemptTerminal, AttemptLive
    <3>3. pc'[e][b] = "idle"
      BY <1>1, <2>1
    <3>4. Matches(pc[e][b], b)'
      BY <3>2, <3>3, Zenon DEF Matches
    <3> QED BY <1>3, <2>1, <3>1, <3>3, <3>4, Zenon DEF Place
  <2>3. CASE b \notin AuthorizedRedeliveries
    <3>1. attempt'[b] = attempt[b] /\ owner'[b] = owner[b] /\ entry'[b] = entry[b]
      BY <2>3, Zenon DEF Redeliver
    <3>2. b \in Pending <=> b \in Pending'
      BY <1>1, <3>1, Zenon DEF Pending
    <3>3. now'[e] = now[e] /\ pc'[e][b] = pc[e][b] /\ now[e] <= NotBefore[b]
      BY <1>1, <1>3, <2>1, Zenon
    <3> QED BY <2>1, <3>1, <3>2, <3>3, PlaceStays, Zenon
  <2> QED BY <2>2, <2>3
<1>5. OwnerWork(e)'
  BY <1>1, <1>2, <1>3, <1>4, Zenon DEF OwnerWork, Alive
<1> QED BY <1>1, <1>2, <1>3, <1>5, Compose DEF Owns

-----------------------------------------------------------------------------
(* The invariant.                                                          *)

\* A new run satisfies it.
LEMMA OutcomeInit == Init => OutcomeInv
<1> SUFFICES ASSUME Init PROVE OutcomeInv
  OBVIOUS
<1>1. \A a \in Attempts : /\ attempt[a] = "none" /\ ~staged[a].retry
                          /\ entry[a] = IF a[2] = 1 THEN "pending" ELSE "none"
                          /\ delivery[a[1]] = "pending"
  BY AttemptFacts DEF Init, NoStaging
<1>2. \A a \in Attempts : ~Ended(a)
  BY <1>1 DEF Ended, Definite, AttemptTerminal
<1>3. ASSUME NEW d \in Deliveries PROVE \E a \in Attempts : a[1] = d /\ Last(a)
  <2>1. 1 \in 1 .. PlanLength[d]
    BY PlanAssumption
  <2>2. <<d, 1>> \in Attempts /\ Succ(<<d, 1>>) = <<d, 2>>
    BY <2>1 DEF Attempts, Succ
  <2>3. Last(<<d, 1>>)
    BY <1>1, <2>2 DEF Last
  <2> QED BY <2>2, <2>3
<1>4. LifeInv
  <2>1. \A d \in Deliveries : delivery[d] \notin DeliveryTerminal
    BY DEF Init, DeliveryTerminal
  <2>2. run # "completed"
    BY DEF Init
  <2> QED BY <1>1, <1>3, <2>1, <2>2, Zenon DEF LifeInv
<1>5. ASSUME NEW e \in Epochs
      PROVE  (mode[e] # "running" => now[e] = 0) /\ (Owns(e) => OwnerWork(e))
  <2>1. now[e] = 0 /\ (Owns(e) => mode[e] = "continuing") /\ run = "planned"
    BY <1>5 DEF Init, Owns
  <2>2. \A a \in Attempts : pc[e][a] = "idle" /\ 0 <= NotBefore[a]
    BY PlanAssumption DEF Init
  <2>3. \A a \in Attempts : Place(e, a)
    BY <1>1, <1>2, <2>1, <2>2, Zenon DEF Place, Matches, AttemptLive
  <2> QED BY <2>1, <2>3 DEF OwnerWork, RunTerminal
<1> QED BY <1>4, <1>5 DEF OutcomeInv, WorkInv

\* Every step keeps what the owner relies on.
LEMMA WorkNext ==
  ASSUME IInv, OutcomeInv, Follows, Next
  PROVE  WorkInv'
<1>0. LifeInv /\ WorkInv /\ TypeOK
  BY DEF OutcomeInv, IInv
<1>1. ASSUME NEW e \in Epochs, NEW a \in Attempts, Worker(e, a) PROVE WorkInv'
  <2>1. CASE ReturnNotSent(e, a) \/ ReturnUnknown(e, a) \/ CommitOutcome(e, a)
    BY <1>0, <2>1, ConcludeCases, ConcludeWork, Zenon
  <2>2. CASE ActivateDelivery(e, a)
    BY <1>0, <2>2, ActivateWork
  <2>3. CASE Transmit(e, a)
    BY <1>0, <2>3, TransmitWork
  <2>4. CASE TerminalizeDelivery(e, a)
    BY <1>0, <2>4, TerminalizeWork
  <2>5. CASE \/ ClaimSchedule(e, a) \/ ReplayClaim(e, a) \/ CommitPreSend(e, a)
             \/ ConnectionAttemptStarted(e, a) \/ RequestSendStarted(e, a)
             \/ AwaitingResponse(e, a) \/ ResponseObserved(e, a)
    BY <1>0, <2>5, HoldingWork
  <2> QED BY <1>1, <2>1, <2>2, <2>3, <2>4, <2>5 DEF Worker
<1>2. ASSUME NEW e \in Epochs, NEW a \in Attempts, Recovery(e, a) PROVE WorkInv'
  BY <1>0, <1>2, RebindWork, TerminateWork, ReduceWork DEF Recovery
<1>3. ASSUME NEW e \in Epochs, FinishRun(e) PROVE WorkInv'
  BY <1>0, <1>3, StopWork DEF FinishRun, Owns
<1>4. ASSUME NEW e \in Epochs, StopAmbiguous(e) \/ FencedOut(e) \/ Crash(e) PROVE WorkInv'
  BY <1>0, <1>4, StopWork DEF StopAmbiguous, FencedOut, Crash
<1>5. ASSUME NEW e \in Epochs,
             \/ ActivateRun(e) \/ LoadDue(e) \/ Scan(e) \/ TakeOver(e)
             \/ ContinueUnambiguous(e) \/ OperatorDecision(e) \/ Redeliver(e)
      PROVE  WorkInv'
  BY <1>0, <1>5, ActivateRunWork, LoadDueWork, ScanWork, TakeOverWork, ContinueWork,
     RedeliverWork
<1>6. ASSUME PreflightResume PROVE WorkInv'
  <2>1. UNCHANGED <<journal, mode, policy, scanned, pc, now>>
    BY <1>6 DEF PreflightResume, memory
  <2>2. \A e \in Epochs : OwnerWork(e) => OwnerWork(e)'
    BY <2>1, OwnerSame
  <2> QED BY <1>0, <2>1, <2>2 DEF WorkInv, Owns, journal
<1> QED BY <1>1, <1>2, <1>3, <1>4, <1>5, <1>6 DEF Next, Process

\* The invariant is inductive.
LEMMA OutcomeNext == IInv /\ OutcomeInv /\ [Next]_vars => OutcomeInv'
<1>1. ASSUME IInv, OutcomeInv, Next PROVE OutcomeInv'
  <2>1. Follows
    BY <1>1, NextFollows
  <2>2. LifeInv'
    BY <1>1, <2>1, LifeStep DEF OutcomeInv, Follows
  <2>3. WorkInv'
    BY <1>1, <2>1, WorkNext
  <2> QED BY <2>2, <2>3 DEF OutcomeInv
<1>2. ASSUME OutcomeInv, UNCHANGED vars PROVE OutcomeInv'
  <2>1. UNCHANGED <<journal, mode, policy, scanned, pc, now>>
    BY <1>2 DEF vars, memory
  <2>2. LifeInv'
    <3>1. \A a \in Attempts : (Last(a)' <=> Last(a)) /\ (Ended(a)' <=> Ended(a))
      BY <2>1, Zenon DEF Last, Ended, journal
    <3> QED BY <1>2, <2>1, <3>1, Zenon DEF OutcomeInv, LifeInv, journal
  <2>3. WorkInv'
    <3>1. \A e \in Epochs : OwnerWork(e) => OwnerWork(e)'
      BY <2>1, OwnerSame
    <3> QED BY <1>2, <2>1, <3>1 DEF OutcomeInv, WorkInv, Owns, journal
  <2> QED BY <2>2, <2>3 DEF OutcomeInv
<1> QED BY <1>1, <1>2

\* It holds in every run.
LEMMA OutcomeInvariance == Spec => [](IInv /\ OutcomeInv)
<1>1. Init => OutcomeInv
  BY OutcomeInit
<1>2. IInv /\ OutcomeInv /\ [Next]_vars => OutcomeInv'
  BY OutcomeNext
<1>3. Spec => []IInv
  BY Invariance
<1> QED BY <1>1, <1>2, <1>3, PTL DEF Spec

-----------------------------------------------------------------------------
(* What it gives.                                                          *)

\* A delivery without anything to run, whose owner has no worker on it, is settled.
LEMMA DrainedSettled ==
  ASSUME IInv, OutcomeInv, NEW e \in Epochs, Owns(e), Idle(e),
         mode[e] \in {"continuing", "running"}, NEW d \in Deliveries,
         \A a \in Pending : a[1] # d
  PROVE  Settled(d)
<1>1. PICK a \in Attempts : a[1] = d /\ Last(a)
  BY DEF OutcomeInv, LifeInv
<1>2. Place(e, a) /\ pc[e][a] = "idle"
  BY Zenon DEF OutcomeInv, WorkInv, OwnerWork, Idle
<1>3. a \notin Pending /\ entry[a] \in {"none", "pending", "consumed"} /\ entry[a] # "none"
  BY <1>1 DEF IInv, TypeOK, Last
<1>4. entry[a] = "consumed" /\ attempt[a] \notin {"none", "scheduled"}
  BY <1>3 DEF Pending, IInv, ChainInv
<1>5. attempt[a] # "claimed"
  BY <1>2, <1>3, <1>4, Zenon DEF Place, Pending, IInv, OwnerInv, Owns
<1>6. attempt[a] \in AttemptTerminal
  <2>1. attempt[a] \in {"none"} \cup AttemptStates
    BY DEF IInv, TypeOK
  <2>2. attempt[a] \notin AttemptLive
    BY <1>2, Zenon DEF Place, Matches
  <2> QED BY <1>4, <1>5, <2>1, <2>2 DEF AttemptStates
<1>7. CASE attempt[a] = "unknown_outcome"
  <2>1. ~HasSuccessor(a)
    <3>1. Succ(a) \in Attempts => entry[Succ(a)] = "none"
      BY <1>1 DEF Last
    <3> QED BY <3>1, Zenon DEF HasSuccessor, IInv, ChainInv
  <2>2. a \in Ambiguous
    BY <1>7, <2>1 DEF Ambiguous
  <2>3. delivery[d] \notin {"pending", "eligible"} /\ delivery[d] \in DeliveryStates
    BY <1>1, <1>4, Activated, Zenon DEF OutcomeInv, IInv, TypeOK
  <2> QED BY <1>1, <2>2, <2>3, Zenon DEF Settled, DeliveryStates, DeliveryTerminal
<1>8. CASE attempt[a] # "unknown_outcome"
  <2>1. Ended(a)
    BY <1>1, <1>6, <1>8 DEF Ended, Definite
  <2>2. delivery[d] \in DeliveryTerminal
    BY <1>1, <1>2, <2>1, Zenon DEF Place, Matches
  <2> QED BY <2>2, Zenon DEF Settled
<1> QED BY <1>7, <1>8

\* A final delivery is decided by an attempt, and has nothing left to run.
LEMMA FinalDelivery ==
  ASSUME IInv, LifeInv, NEW d \in Deliveries, delivery[d] \in DeliveryTerminal
  PROVE  /\ \E a \in Attempts :
              a[1] = d /\ Ended(a) /\ delivery[d] = DeliveryStateFor(attempt[a])
         /\ \A b \in Attempts : b[1] = d => ~Open(b) /\ b \notin Pending
<1>1. PICK a \in Attempts :
        a[1] = d /\ Ended(a) /\ delivery[d] = DeliveryStateFor(attempt[a])
  BY Zenon DEF LifeInv
<1> QED BY <1>1, EndedRests

\* For every plan and any number of owners, overlapping or not, the checks between a
\* recovery and the first step of the runner never refuse: the two queries of the
\* schedule agree, and every delivery is settled or has exactly one attempt to run.
THEOREM ContinuationsAreReady == Spec => []ContinuationReady
<1>1. ASSUME IInv, OutcomeInv, NEW e \in Epochs, Owns(e), mode[e] = "continuing"
      PROVE  ValidateResume(e)
  <2>0. Idle(e) /\ OwnerWork(e) /\ LifeInv
    BY <1>1, Zenon DEF IInv, OwnerInv, OutcomeInv, WorkInv
  <2>1. ValidateResumeSchedule(e)
    <3>1. \A a \in Attempts : attempt[a] = "claimed" => consumedBy[a] = owner[a]
      BY <1>1, Zenon DEF IInv, OwnerInv
    <3> QED BY <1>1, <3>1, Zenon DEF ValidateResumeSchedule, LoadSchedule, Pending, Owns
  <2>2. \A a \in Pending : a \in Attempts /\ a[1] \in Deliveries /\ Open(a)
    BY PendingOpen, AttemptFacts
  <2>3. RejectTerminalTargets
    BY <1>1, <2>0, <2>2, FinalDelivery, Zenon DEF RejectTerminalTargets
  <2>4. ResumeActivationPreflight
    BY <1>1, <2>0 DEF ResumeActivationPreflight, OwnerWork, Alive, IInv, TypeOK, RunStates,
       RunTerminal
  <2>5. \A a, b \in Pending : a[1] = b[1] => a = b
    <3>1. OneOpenAttempt
      <4>1. ASSUME NEW a \in Attempts, NEW b \in Attempts, a[1] = b[1], Open(a), Open(b),
                   b[2] < a[2]
            PROVE  FALSE
        <5>1. entry[a] # "none"
          BY <1>1, <4>1 DEF Open, IInv, ChainInv, AttemptLive
        <5>2. attempt[b] \in AttemptTerminal
          BY <1>1, <4>1, <5>1, FinalBefore
        <5> QED BY <1>1, <4>1, <5>2, FinalRests
      <4> QED BY <4>1, Ordered DEF OneOpenAttempt
    <3> QED BY <2>2, <3>1, Zenon DEF OneOpenAttempt
  <2>6. ASSUME NEW a \in Pending
        PROVE  /\ delivery[a[1]] \in {"pending", "eligible", "active", "ambiguous"}
               /\ attempt[a] \notin AttemptTerminal
               /\ a[2] > 1 => attempt[Pred(a)] \in AttemptTerminal
    <3>1. delivery[a[1]] \in DeliveryStates \ DeliveryTerminal
      BY <1>1, <2>2, <2>3 DEF RejectTerminalTargets, IInv, TypeOK
    <3>2. attempt[a] \notin AttemptTerminal
      BY <1>1, <2>2, FinalRests
    <3>3. ASSUME a[2] > 1 PROVE attempt[Pred(a)] \in AttemptTerminal
      <4>1. a[2] # 1 /\ entry[a] # "none"
        BY <3>3, <2>2, AttemptFacts DEF Pending
      <4> QED BY <1>1, <2>2, <4>1, PredFacts, FinalBefore, Zenon
    <3> QED BY <3>1, <3>2, <3>3 DEF DeliveryStates, DeliveryTerminal
  <2>7. \A d \in Deliveries : Settled(d) \/ \E a \in Pending : a[1] = d
    BY <1>1, <2>0, DrainedSettled
  <2>8. ResumeExecutionPreflight
    BY <2>5, <2>6, <2>7, Zenon DEF ResumeExecutionPreflight
  <2> QED BY <2>1, <2>3, <2>4, <2>8 DEF ValidateResume
<1>2. IInv /\ OutcomeInv => ContinuationReady
  BY <1>1 DEF ContinuationReady
<1> QED BY <1>2, OutcomeInvariance, PTL

\* For every plan, whatever the running owner finds pending it can claim or replay, and
\* nothing is due before the logical time it has reached.
THEOREM PendingCanBeClaimed == Spec => []PendingIsClaimable
<1>1. ASSUME IInv, OutcomeInv, NEW e \in Epochs, Owns(e), mode[e] = "running",
             NEW a \in Pending
      PROVE  /\ IF entry[a] = "pending" THEN Claimable(e, a) ELSE owner[a] = e
             /\ Idle(e) => now[e] <= NotBefore[a]
  <2>1. a \in Attempts
    BY DEF Pending
  <2>2. Place(e, a)
    BY <1>1, <2>1, Zenon DEF OutcomeInv, WorkInv, OwnerWork
  <2>3. ASSUME entry[a] = "pending" PROVE Claimable(e, a)
    <3>1. attempt[a] \in {"none", "scheduled"}
      BY <1>1, <2>1, <2>3 DEF IInv, ChainInv
    <3>2. ASSUME a[2] > 1 PROVE attempt[Pred(a)] \in RetryPredecessorStates
      <4>1. a[2] # 1 /\ Succ(Pred(a)) = a
        BY <2>1, <3>2, AttemptFacts DEF Succ, Pred
      <4>2. Pred(a) \in Attempts
        BY <2>1, <4>1, PredFacts
      <4>3. ConsentedSuccessor
        BY <1>1 DEF IInv, ChainInv
      <4> QED BY <2>1, <2>3, <4>1, <4>2, <4>3 DEF ConsentedSuccessor, RetryPredecessorStates
    <3> QED BY <2>2, <3>1, <3>2 DEF Claimable, Place
  <2>4. entry[a] # "pending" => owner[a] = e
    BY <2>2, Zenon DEF Pending, Place
  <2>5. now[e] <= NotBefore[a]
    BY <2>2, Zenon DEF Place
  <2> QED BY <2>3, <2>4, <2>5
<1>2. IInv /\ OutcomeInv => PendingIsClaimable
  BY <1>1 DEF PendingIsClaimable
<1> QED BY <1>2, OutcomeInvariance, PTL

\* For every plan, a final delivery has the state its last attempt implies and no work
\* left, a completed run passes the guard of its completion, and a drained schedule
\* leaves every delivery with a verdict.
THEOREM FinalStatesMatchAttempts == Spec => []FinalStatesAgree
<1>1. ASSUME IInv, OutcomeInv PROVE FinalStatesAgree
  <2>1. ASSUME NEW d \in Deliveries, delivery[d] \in DeliveryTerminal
        PROVE  /\ \E a \in Attempts :
                    /\ a[1] = d /\ ~HasSuccessor(a)
                    /\ attempt[a] \in AttemptTerminal
                    /\ delivery[d] = DeliveryStateFor(attempt[a])
               /\ \A a \in Attempts : a[1] = d => ~Open(a)
    <3>1. PICK a \in Attempts :
            a[1] = d /\ Ended(a) /\ delivery[d] = DeliveryStateFor(attempt[a])
      BY <1>1, <2>1, FinalDelivery DEF OutcomeInv
    <3>2. ~HasSuccessor(a) /\ attempt[a] \in AttemptTerminal
      BY <1>1, <3>1 DEF Ended, Last, Definite, HasSuccessor, IInv, ChainInv
    <3> QED BY <1>1, <2>1, <3>1, <3>2, FinalDelivery DEF OutcomeInv
  <2>2. ASSUME run = "completed" PROVE GuardRunCompletion(delivery)
    <3>1. ASSUME NEW d \in Deliveries
          PROVE  delivery[d] \notin {"pending", "eligible", "active", "ambiguous"}
      <4>1. delivery[d] \in DeliveryTerminal
        BY <1>1, <2>2, Zenon DEF OutcomeInv, LifeInv
      <4>2. PICK a \in Attempts : Ended(a) /\ delivery[d] = DeliveryStateFor(attempt[a])
        BY <1>1, <4>1 DEF OutcomeInv, LifeInv
      <4> QED BY <4>2, DefiniteState DEF Ended
    <3>2. DOMAIN delivery = Deliveries
      BY <1>1 DEF IInv, TypeOK
    <3> QED BY <3>1, <3>2 DEF GuardRunCompletion
  <2>3. ASSUME NEW e \in Epochs, Owns(e), mode[e] = "running", Idle(e), Pending = {}
        PROVE  run = "running" /\ \A d \in Deliveries : Settled(d)
    <3>1. run = "running"
      BY <1>1, <2>3, Zenon DEF OutcomeInv, WorkInv, OwnerWork
    <3> QED BY <1>1, <2>3, <3>1, DrainedSettled
  <2> QED BY <2>1, <2>2, <2>3, Zenon DEF FinalStatesAgree
<1>2. IInv /\ OutcomeInv => FinalStatesAgree
  BY <1>1
<1> QED BY <1>2, OutcomeInvariance, PTL

-----------------------------------------------------------------------------
(* A process without an ambiguity policy.                                  *)

\* Only the owner of the run binds attempts, to itself.
LEMMA BindStep ==
  ASSUME IInv, Next, NEW a \in Attempts
  PROVE  \/ owner'[a] = owner[a] /\ (attempt'[a] # "none" => attempt[a] # "none")
         \/ owner'[a] = epoch
<1>0. TypeOK
  BY DEF IInv
<1>1. ASSUME NEW e \in Epochs, NEW b \in Attempts, ClaimSchedule(e, b) \/ RebindAttempt(e, b)
      PROVE  owner'[a] = epoch \/ (owner'[a] = owner[a] /\ attempt'[a] = attempt[a])
  BY <1>0, <1>1 DEF ClaimSchedule, RebindAttempt, Owns, TypeOK
<1>2. ASSUME NEW e \in Epochs, Redeliver(e)
      PROVE  owner'[a] = epoch \/ (owner'[a] = owner[a] /\ attempt'[a] = attempt[a])
  BY <1>2, Zenon DEF Redeliver, Recovered, Owns
<1>3. ASSUME NEW e \in Epochs, NEW b \in Attempts, Worker(e, b), ~ClaimSchedule(e, b)
      PROVE  owner' = owner
  BY <1>3, Zenon DEF Worker, ActivateDelivery, ReplayClaim, CommitPreSend,
     ConnectionAttemptStarted, RequestSendStarted, AwaitingResponse, Phase, Transmit,
     ReturnNotSent, ReturnUnknown, ResponseObserved, CommitOutcome, Conclude,
     TerminalizeDelivery, journal
<1>4. ASSUME NEW e \in Epochs, NEW b \in Attempts, Worker(e, b), ~ClaimSchedule(e, b)
      PROVE  attempt'[a] # "none" => attempt[a] # "none"
  <2>1. CASE ReturnNotSent(e, b) \/ ReturnUnknown(e, b) \/ CommitOutcome(e, b)
    BY <1>0, <2>1 DEF ReturnNotSent, ReturnUnknown, CommitOutcome, Conclude, Terminate, TypeOK
  <2>2. CASE \/ CommitPreSend(e, b) \/ ConnectionAttemptStarted(e, b)
             \/ RequestSendStarted(e, b) \/ AwaitingResponse(e, b) \/ ResponseObserved(e, b)
    BY <1>0, <2>2 DEF CommitPreSend, ConnectionAttemptStarted, RequestSendStarted,
       AwaitingResponse, Phase, ResponseObserved, TypeOK
  <2>3. CASE \/ ActivateDelivery(e, b) \/ ReplayClaim(e, b) \/ Transmit(e, b)
             \/ TerminalizeDelivery(e, b)
    BY <2>3, Zenon DEF ActivateDelivery, ReplayClaim, Transmit, TerminalizeDelivery, journal
  <2> QED BY <1>4, <2>1, <2>2, <2>3, Zenon DEF Worker
<1>5. ASSUME NEW e \in Epochs, NEW b \in Attempts, TerminateAttempt(e, b)
      PROVE  owner' = owner /\ (attempt'[a] # "none" => attempt[a] # "none")
  <2>1. attempt[b] \in AttemptLive /\ owner' = owner
    BY <1>5 DEF TerminateAttempt, ToTerminate
  <2>2. \E terminal : attempt' = [attempt EXCEPT ![b] = terminal]
    BY <1>5 DEF TerminateAttempt, Terminate
  <2> QED BY <1>0, <2>1, <2>2 DEF TypeOK, AttemptLive
<1>6. ASSUME NEW e \in Epochs,
             \/ ActivateRun(e) \/ LoadDue(e) \/ FinishRun(e) \/ Scan(e)
             \/ ContinueUnambiguous(e) \/ StopAmbiguous(e) \/ OperatorDecision(e)
             \/ FencedOut(e) \/ TakeOver(e) \/ Crash(e)
             \/ \E b \in Attempts : ReduceDelivery(e, b)
      PROVE  owner' = owner /\ attempt' = attempt
  BY <1>6, Zenon DEF ActivateRun, LoadDue, FinishRun, Scan, ContinueUnambiguous,
     StopAmbiguous, OperatorDecision, FencedOut, TakeOver, Crash, ReduceDelivery, journal
<1>7. ASSUME PreflightResume PROVE owner' = owner /\ attempt' = attempt
  BY <1>7 DEF PreflightResume, journal
<1> QED BY <1>1, <1>2, <1>3, <1>4, <1>5, <1>6, <1>7, Zenon DEF Next, Process, Recovery

\* A process without a policy that goes on with the run.
Continues(e) == mode[e] \in {"continuing", "running"} /\ policy[e] = "none"

\* It goes on from a recovery that left no attempt ambiguous.
LEMMA ContinueStep ==
  ASSUME IInv, Next, NEW f \in Epochs, Continues(f)'
  PROVE  Continues(f) \/ (Recovered(f) /\ Ambiguous = {} /\ UNCHANGED journal)
<1> USE DEF Continues
<1>0. mode \in [Epochs -> Modes] /\ policy \in [Epochs -> Policies]
  BY DEF IInv, TypeOK
<1>1. ASSUME NEW e \in Epochs, NEW a \in Attempts, Worker(e, a)
      PROVE  mode' = mode /\ policy' = policy
  BY <1>1, Zenon DEF Worker, ActivateDelivery, ClaimSchedule, ReplayClaim, CommitPreSend,
     ConnectionAttemptStarted, RequestSendStarted, AwaitingResponse, Phase, Transmit,
     ReturnNotSent, ReturnUnknown, ResponseObserved, CommitOutcome, Conclude,
     TerminalizeDelivery, memory
<1>2. ASSUME NEW e \in Epochs, NEW a \in Attempts, Recovery(e, a)
      PROVE  mode' = mode /\ policy' = policy
  BY <1>2, Zenon DEF Recovery, RebindAttempt, TerminateAttempt, ReduceDelivery, memory
<1>3. ASSUME NEW e \in Epochs, LoadDue(e) PROVE mode' = mode /\ policy' = policy
  BY <1>3 DEF LoadDue
<1>4. ASSUME NEW e \in Epochs, Stop(e) PROVE Continues(f)
  BY <1>0, <1>4 DEF Stop
<1>5. ASSUME NEW e \in Epochs, TakeOver(e) \/ Scan(e) PROVE Continues(f)
  BY <1>0, <1>5 DEF TakeOver, Scan
<1>6. ASSUME NEW e \in Epochs, ActivateRun(e) PROVE Continues(f)
  BY <1>0, <1>6 DEF ActivateRun
<1>7. ASSUME NEW e \in Epochs, ContinueUnambiguous(e)
      PROVE  Continues(f) \/ (Recovered(f) /\ Ambiguous = {} /\ UNCHANGED journal)
  <2>1. Ambiguous = {}
    BY <1>7 DEF ContinueUnambiguous, BuildPlan
  <2>2. f # e => Continues(f)
    BY <1>0, <1>7 DEF ContinueUnambiguous
  <2>3. Recovered(e) /\ UNCHANGED journal
    BY <1>7, Zenon DEF ContinueUnambiguous
  <2> QED BY <2>1, <2>2, <2>3, Zenon
<1>8. ASSUME NEW e \in Epochs, OperatorDecision(e) \/ Redeliver(e) PROVE Continues(f)
  <2>1. policy[e] # "none" /\ policy' = policy /\ mode' = [mode EXCEPT ![e] = "continuing"]
    BY <1>8 DEF OperatorDecision, Redeliver, BuildPlan
  <2> QED BY <1>0, <2>1
<1>9. ASSUME PreflightResume PROVE mode' = mode /\ policy' = policy
  BY <1>9 DEF PreflightResume, memory
<1>10. ASSUME NEW e \in Epochs,
              FinishRun(e) \/ StopAmbiguous(e) \/ FencedOut(e) \/ Crash(e)
       PROVE  Continues(f)
  BY <1>4, <1>10 DEF FinishRun, StopAmbiguous, FencedOut, Crash
<1> QED BY <1>1, <1>2, <1>3, <1>5, <1>6, <1>7, <1>8, <1>9, <1>10, Zenon DEF Next, Process

\* Every step keeps the attempts of earlier owners settled.
LEMMA SettledNext == IInv /\ OutcomeInv /\ SettledInv /\ [Next]_vars => SettledInv'
<1>1. ASSUME IInv, OutcomeInv, SettledInv, Next, NEW e \in Epochs, NEW a \in Attempts,
             Continues(e)', attempt'[a] # "none", owner'[a] < e
      PROVE  attempt'[a] \in AttemptTerminal /\ a \notin Ambiguous'
  <2>1. AlongTables
    BY <1>1, StepEdges
  <2>2. CASE Continues(e)
    <3>1. e <= epoch
      BY <1>1, <2>2 DEF Continues, IInv, OwnerInv, TypeOK, Epochs
    <3>0. e \in Int /\ epoch \in Int
      BY <1>1 DEF IInv, TypeOK, Epochs
    <3>2. owner'[a] # epoch
      BY <1>1, <3>0, <3>1
    <3>3. owner[a] < e /\ attempt[a] # "none"
      BY <1>1, <3>2, BindStep
    <3>4. attempt[a] \in AttemptTerminal /\ a \notin Ambiguous
      BY <1>1, <2>2, <3>3, Zenon DEF SettledInv, Continues
    <3>5. attempt'[a] = attempt[a]
      BY <2>1, <3>4 DEF AlongTables, AttemptEdges, ValidateProjectionAndEdge, AttemptTerminal
    <3>6. HasSuccessor(a) => HasSuccessor(a)'
      BY <2>1, RowsStay DEF HasSuccessor
    <3> QED BY <3>4, <3>5, <3>6 DEF Ambiguous
  <2>3. CASE Recovered(e) /\ Ambiguous = {} /\ UNCHANGED journal
    <3>1. Ambiguous' = Ambiguous /\ attempt' = attempt /\ owner' = owner
      BY <2>3 DEF Ambiguous, HasSuccessor, journal
    <3>2. Place(e, a) /\ pc[e][a] = "idle"
      BY <1>1, <2>3, RecoveredPlace DEF Recovered, Applied, IInv, OwnerInv, Idle
    <3>3. owner[a] # e
      BY <1>1, <3>1 DEF IInv, TypeOK, Epochs
    <3>4. attempt[a] \notin {"none", "scheduled", "claimed"} \cup AttemptLive
      BY <1>1, <3>1, <3>2, <3>3, Zenon DEF Place, Matches
    <3>5. attempt[a] \in AttemptTerminal
      BY <1>1, <3>4 DEF IInv, TypeOK, AttemptStates, AttemptLive, AttemptTerminal
    <3> QED BY <2>3, <3>1, <3>5
  <2> QED BY <1>1, <2>2, <2>3, ContinueStep
<1>2. ASSUME SettledInv, UNCHANGED vars PROVE SettledInv'
  <2>1. Ambiguous' = Ambiguous
    BY <1>2 DEF vars, journal, Ambiguous, HasSuccessor
  <2> QED BY <1>2, <2>1 DEF SettledInv, vars, journal, memory
<1> QED BY <1>1, <1>2 DEF SettledInv, Continues

\* For every plan and any number of owners, a process without an ambiguity policy goes on
\* only while no send of an earlier owner is unknown, however stale its preflight was.
THEOREM NoPolicyNoContact == Spec => []NoContactWhileUnknown
<1>1. Init => SettledInv
  BY DEF Init, SettledInv
<1>2. IInv /\ SettledInv => NoContactWhileUnknown
  <2> SUFFICES ASSUME IInv, SettledInv, NEW e \in Epochs, Continues(e), NEW a \in Ambiguous
               PROVE  owner[a] >= e
    BY DEF NoContactWhileUnknown, Continues
  <2>1. a \in Attempts /\ attempt[a] # "none"
    BY DEF Ambiguous
  <2>2. ~(owner[a] < e)
    BY <2>1, Zenon DEF SettledInv, Continues
  <2> QED BY <2>1, <2>2 DEF IInv, TypeOK, Epochs
<1> QED BY <1>1, <1>2, OutcomeInvariance, SettledNext, PTL DEF Spec
=============================================================================
