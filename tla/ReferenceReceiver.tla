------------------------- MODULE ReferenceReceiver -------------------------
(***************************************************************************)
(* The reference receivers shipped with the harness: the correct receiver  *)
(* (reference_receivers/correct), which verifies the raw bytes, commits    *)
(* inbox row, order, effect and outbox row in one SQLite transaction and   *)
(* only then acknowledges, and the deliberately flawed ones of             *)
(* reference_receivers/flawed, which subclass it.  One worker serves one   *)
(* connection; workers interleave, and the process may die at any step and *)
(* come back with nothing but its database.                                *)
(*                                                                         *)
(* A request is [route, profile, account, signature, body, event, type,    *)
(* order, digest]: route says where its method and path lead, body what    *)
(* the JSON parser makes of the bytes, and signature is [headers, age,     *)
(* key, over, id].                                                         *)
(***************************************************************************)
EXTENDS Integers, Sequences, FiniteSets

CONSTANTS
  Workers,         \* connections served at the same time
  Orders,          \* order identifiers
  Configured,      \* signature profiles with a configuration
  ActiveKeys,      \* signing keys active now
  ReplayWindow,    \* seconds a signature stays fresh
  MaxCrashes       \* deaths of the receiver process

VARIABLES
  variant,    \* which receiver is under test
  db,         \* the committed database
  txn,        \* the database as the open transaction sees it
  owner,      \* the worker that holds BEGIN IMMEDIATE, or "none"
  handler,    \* what every worker is doing
  mem,        \* volatile state of the flawed receivers
  crashes,    \* deaths so far
  acked       \* keys some sender was told are accepted

receiverVars == <<variant, db, txn, owner, handler, mem, crashes, acked>>

DuplicatingVariants ==
  {"check-then-insert-race", "crash-after-effect-before-ack", "no-idempotency-record",
   "side-effect-before-deduplication"}
Variants ==
  DuplicatingVariants
  \cup {"correct", "acknowledge-before-commit", "order-assuming", "signature-after-parse",
        "stale-signature-accepting"}

Key(r) == <<r.profile, r.account, r.event>>

-----------------------------------------------------------------------------
(* Signatures and bodies. *)

FlawedReplayWindow == 86400
Window == IF variant = "stale-signature-accepting" THEN FlawedReplayWindow ELSE ReplayWindow

Fresh(signature, window) == signature.age <= window /\ -signature.age <= window
MatchesAny(signature, body) == signature.key \in ActiveKeys /\ signature.over = body

\* Each header once, with a canonical number of seconds.
OneHeader(signature) == signature.headers \notin {"missing", "repeated"}
Timestamp(signature) == signature.headers # "bad-timestamp"
\* One digest, or one for each key during a rotation.
HexDigest(signature) == signature.headers = "single"
ParseStripeHeader(signature) == signature.headers \in {"single", "rotated"}
ParseStandardSignatures(signature) == signature.headers \in {"single", "rotated"}

VerifyGeneric(r, body, window) ==
  /\ OneHeader(r.signature) /\ Timestamp(r.signature) /\ HexDigest(r.signature)
  /\ Fresh(r.signature, window)
  /\ MatchesAny(r.signature, body)
VerifyStripe(r, body, window) ==
  /\ OneHeader(r.signature) /\ ParseStripeHeader(r.signature)
  /\ Fresh(r.signature, window)
  /\ MatchesAny(r.signature, body)
VerifyStandard(r, body, window) ==
  /\ OneHeader(r.signature) /\ Timestamp(r.signature) /\ ParseStandardSignatures(r.signature)
  /\ Fresh(r.signature, window)
  /\ MatchesAny(r.signature, body)

VerifyRequestSignature(r, body, window) ==
  CASE r.profile = "generic_hmac_sha256" -> VerifyGeneric(r, body, window)
    [] r.profile = "stripe_v1" -> VerifyStripe(r, body, window)
    [] r.profile = "standard_webhooks" -> VerifyStandard(r, body, window)

\* The Stripe scheme signs no event identifier.
AuthenticatedId(r) == IF r.profile = "stripe_v1" THEN r.event ELSE r.signature.id

ParseEvent(r) == r.body \in {"canonical", "spaced"}

\* Signature over the exact bytes, then the parse, then the two identifiers.
Authenticates(r, bytes) ==
  /\ r.profile \in Configured
  /\ VerifyRequestSignature(r, bytes, Window)
  /\ ParseEvent(r)
  /\ AuthenticatedId(r) = r.event

-----------------------------------------------------------------------------
(* The transaction: pure functions of the database.                        *)

EmptyDatabase ==
  [inbox |-> {}, orders |-> [o \in Orders |-> [state |-> "none", version |-> 0]],
   effects |-> {}, outbox |-> {}, physical |-> <<>>]

Prior(d, r) == {row \in d.inbox : row.key = Key(r)}

OrderIsPaid(d, order) == d.orders[order].state = "paid"

InboxState(d, r) ==
  IF r.type = "payment.refunded" /\ ~OrderIsPaid(d, r.order)
    THEN "pending_dependency" ELSE "processed"

InsertInbox(d, r) ==
  [d EXCEPT !.inbox = @ \cup {[key |-> Key(r), type |-> r.type, order |-> r.order,
                                digest |-> r.digest, state |-> InboxState(d, r)]}]

NextOrder(o, type) ==
  IF type = "payment.succeeded"
    THEN IF o.state = "refunded" THEN o ELSE [state |-> "paid", version |-> o.version + 1]
    ELSE IF o.state = "paid" THEN [state |-> "refunded", version |-> o.version + 1] ELSE o

\* The order moves as its state allows; effect and outbox row always follow.
ApplyEvent(d, key, type, order) ==
  [d EXCEPT !.orders[order] = NextOrder(@, type),
            !.effects = @ \cup {key},
            !.outbox = @ \cup {<<key, type>>}]

PendingRefunds(d, r) ==
  {row \in d.inbox : /\ row.key[1] = r.profile /\ row.key[2] = r.account
                     /\ row.order = r.order /\ row.type = "payment.refunded"
                     /\ row.state = "pending_dependency"}

\* Every pending refund of the same profile, account and order is applied and
\* marked; the first moves the order, the others leave only their effects.
ResolvePendingRefunds(d, r) ==
  LET pending == PendingRefunds(d, r)
  IN  [d EXCEPT
        !.orders[r.order] = IF pending = {} THEN @ ELSE NextOrder(@, "payment.refunded"),
        !.effects = @ \cup {row.key : row \in pending},
        !.outbox = @ \cup {<<row.key, row.type>> : row \in pending},
        !.inbox = (@ \ pending) \cup {[row EXCEPT !.state = "processed"] : row \in pending}]

\* What follows the insertion, for a row that is not waiting.
Process(d, r) ==
  IF \E row \in d.inbox : row.key = Key(r) /\ row.state = "processed"
    THEN LET applied == ApplyEvent(d, Key(r), r.type, r.order)
         IN IF r.type = "payment.succeeded" THEN ResolvePendingRefunds(applied, r) ELSE applied
    ELSE d

\* One request served alone, from an empty table or a table of earlier runs.
Handled(d, r) ==
  IF ~Authenticates(r, r.body) \/ Prior(d, r) # {} THEN d
  ELSE Process(InsertInbox(d, r), r)

-----------------------------------------------------------------------------
(* Workers. *)

NoRequest == [profile |-> "none"]
Idle == [pc |-> "idle", request |-> NoRequest, absent |-> FALSE, outcome |-> "none"]

\* The status line of an outcome; "raised" is an exception out of the handler.
Status(outcome) ==
  CASE outcome \in {"accepted", "duplicate"} -> 204
    [] outcome = "conflict" -> 409
    [] outcome \in {"rejected", "malformed"} -> 400
    [] outcome = "not-found" -> 404
    [] outcome = "unavailable" -> 503
    [] outcome = "raised" -> 500

EmptyMemory == [seen |-> {}, counted |-> <<>>, armed |-> TRUE, defective |-> {}, queue |-> <<>>]

ReceiverInit(kind, database) ==
  /\ variant = kind
  /\ db = database
  /\ txn = EmptyDatabase
  /\ owner = "none"
  /\ handler = [w \in Workers |-> Idle]
  /\ mem = EmptyMemory
  /\ crashes = 0
  /\ acked = {}

Say(w, outcome) == handler' = [handler EXCEPT ![w].pc = "answer", ![w].outcome = outcome]
Move(w, pc) == handler' = [handler EXCEPT ![w].pc = pc]

\* What the application answers itself: a path that is no webhook, and a profile,
\* body or header it cannot make a request of.
Route(r) ==
  CASE r.route = "webhook" -> "none" [] r.route = "other" -> "not-found"
    [] r.route = "malformed" -> "malformed"

\* A complete request reached the server.
Accept(w, r) ==
  /\ handler[w].pc = "idle"
  /\ handler' = [handler EXCEPT ![w] = [pc |-> IF Route(r) = "none" THEN "received" ELSE "answer",
                                        request |-> r, absent |-> FALSE, outcome |-> Route(r)]]
  /\ UNCHANGED <<variant, db, txn, owner, mem, crashes, acked>>

\* The bytes whose signature is checked: the flawed parser tries the received
\* ones first and then its own serialisation of what it parsed.
SignedBytes(r) ==
  IF variant = "signature-after-parse" /\ ParseEvent(r) /\ ~Authenticates(r, r.body)
    THEN "canonical" ELSE r.body

\* The defective handle of each receiver, ahead of the shared one: acknowledge
\* from a queue in memory;
AcknowledgeBeforeCommit(w, r) ==
  /\ mem' = [mem EXCEPT !.queue = Append(@, r)]
  /\ Say(w, "accepted")
\* refuse a refund whose order does not exist yet;
OrderAssuming(w, r) ==
  /\ UNCHANGED mem
  /\ IF r.type = "payment.refunded" /\ db.orders[r.order].state = "none"
       THEN Say(w, "conflict") ELSE Move(w, "authenticated")
\* remember, before the insertion, whether the event was absent;
CheckThenInsertRace(w, r) ==
  /\ UNCHANGED mem
  /\ handler' = [handler EXCEPT ![w].pc = "authenticated",
                                ![w].absent = r.event \notin mem.seen]
\* or produce the effect first, and fail after the first one.
SideEffectFirst(w, r) ==
  IF mem.armed \/ r.event \in mem.defective
    THEN /\ mem' = [mem EXCEPT !.armed = FALSE, !.defective = @ \cup {r.event},
                               !.counted = Append(@, r.event)]
         /\ IF mem.armed THEN Say(w, "raised") ELSE Move(w, "authenticated")
    ELSE Move(w, "authenticated") /\ UNCHANGED mem

\* Authentication, then what the receiver does ahead of its transaction.
Authenticate(w) ==
  LET r == handler[w].request
  IN
  /\ handler[w].pc = "received"
  /\ UNCHANGED <<variant, db, txn, owner, crashes, acked>>
  /\ IF ~Authenticates(r, SignedBytes(r)) THEN Say(w, "rejected") /\ UNCHANGED mem
     ELSE CASE variant = "acknowledge-before-commit" -> AcknowledgeBeforeCommit(w, r)
            [] variant = "order-assuming" -> OrderAssuming(w, r)
            [] variant = "check-then-insert-race" -> CheckThenInsertRace(w, r)
            [] variant = "side-effect-before-deduplication" -> SideEffectFirst(w, r)
            [] OTHER -> Move(w, "authenticated") /\ UNCHANGED mem

\* Mutant of Begin: the inbox row is inserted before BEGIN IMMEDIATE, on a connection
\* that commits every statement outside a transaction.
BeginAfterInsert(w) ==
  LET r == handler[w].request
  IN
  /\ handler[w].pc = "authenticated"
  /\ owner = "none"
  /\ IF Prior(db, r) # {}
       THEN /\ Say(w, IF \E row \in Prior(db, r) :
                            /\ row.type = r.type /\ row.order = r.order /\ row.digest = r.digest
                        THEN "duplicate" ELSE "conflict")
            /\ UNCHANGED <<db, txn, owner>>
       ELSE /\ db' = InsertInbox(db, r)
            /\ txn' = InsertInbox(db, r)
            /\ owner' = w
            /\ Move(w, "inserted")
  /\ UNCHANGED <<variant, mem, crashes, acked>>

\* BEGIN IMMEDIATE, the look-up of a prior row, and the inbox insertion.
Begin(w) ==
  LET r == handler[w].request
  IN
  /\ handler[w].pc = "authenticated"
  /\ owner = "none"
  /\ IF Prior(db, r) # {}
       THEN /\ Say(w, IF \E row \in Prior(db, r) :
                            /\ row.type = r.type /\ row.order = r.order /\ row.digest = r.digest
                        THEN "duplicate" ELSE "conflict")
            /\ UNCHANGED <<txn, owner>>
       ELSE /\ txn' = InsertInbox(db, r)
            /\ owner' = w
            /\ Move(w, "inserted")
  /\ UNCHANGED <<variant, db, mem, crashes, acked>>

ApplyEffects(w) ==
  /\ handler[w].pc = "inserted"
  /\ txn' = Process(txn, handler[w].request)
  /\ Move(w, "applied")
  /\ UNCHANGED <<variant, db, owner, mem, crashes, acked>>

\* _after_commit: the effect is durable and the first acknowledgement is lost.
FailAfterCommit(w, r) ==
  /\ mem' = [mem EXCEPT !.armed = FALSE, !.defective = @ \cup {r.event},
                        !.counted = Append(@, r.event)]
  /\ Say(w, "raised")

Commit(w) ==
  /\ handler[w].pc = "applied"
  /\ db' = txn
  /\ txn' = EmptyDatabase
  /\ owner' = "none"
  /\ IF variant = "crash-after-effect-before-ack" /\ mem.armed
       THEN FailAfterCommit(w, handler[w].request)
       ELSE Say(w, "accepted") /\ UNCHANGED mem
  /\ UNCHANGED <<variant, crashes, acked>>

\* SQLite refuses (locked too long, full disk): rollback and 503.
Unavailable(w) ==
  /\ handler[w].pc \in {"authenticated", "inserted", "applied"}
  /\ Say(w, "unavailable")
  /\ IF owner = w THEN txn' = EmptyDatabase /\ owner' = "none"
                  ELSE UNCHANGED <<txn, owner>>
  /\ UNCHANGED <<variant, db, mem, crashes, acked>>

\* What three of the flawed receivers do once the shared handler has returned:
\* apply the effect that was absent when they looked,
ApplyAbsent(r, outcome, absent) ==
  /\ UNCHANGED db
  /\ mem' = IF absent /\ outcome \in {"accepted", "duplicate"}
              THEN [mem EXCEPT !.seen = @ \cup {r.event}, !.counted = Append(@, r.event)]
              ELSE mem
\* repeat the effect of the event whose acknowledgement was lost,
RepeatAfterCrash(r, outcome) ==
  /\ UNCHANGED db
  /\ mem' = IF outcome = "duplicate" /\ r.event \in mem.defective
              THEN [mem EXCEPT !.counted = Append(@, r.event)] ELSE mem
\* or write a physical effect for every delivery.
RecordPhysicalEffect(r, outcome) ==
  /\ UNCHANGED mem
  /\ db' = IF outcome \in {"accepted", "duplicate"}
             THEN [db EXCEPT !.physical = Append(@, r.event)] ELSE db

Afterwards(r, outcome, absent) ==
  CASE variant = "check-then-insert-race" -> ApplyAbsent(r, outcome, absent)
    [] variant = "crash-after-effect-before-ack" -> RepeatAfterCrash(r, outcome)
    [] variant = "no-idempotency-record" -> RecordPhysicalEffect(r, outcome)
    [] OTHER -> UNCHANGED <<db, mem>>

\* The response leaves for the sender.
Respond(w) ==
  LET h == handler[w]
  IN
  /\ h.pc = "answer"
  /\ variant = "no-idempotency-record" => owner = "none"
  /\ Afterwards(h.request, h.outcome, h.absent)
  /\ handler' = [handler EXCEPT ![w] = Idle]
  /\ acked' = IF Status(h.outcome) = 204 THEN acked \cup {Key(h.request)} ELSE acked
  /\ UNCHANGED <<variant, txn, owner, crashes>>

\* flush: the acknowledged queue becomes durable, late.
Flush ==
  /\ mem.queue # <<>>
  /\ owner = "none"
  /\ db' = Handled(db, Head(mem.queue))
  /\ mem' = [mem EXCEPT !.queue = Tail(@)]
  /\ UNCHANGED <<variant, txn, owner, handler, crashes, acked>>

\* The process dies and is started again.
ReceiverCrash ==
  /\ crashes < MaxCrashes
  /\ \E w \in Workers : handler[w].pc # "idle" \/ mem.queue # <<>>
  /\ crashes' = crashes + 1
  /\ handler' = [w \in Workers |-> Idle]
  /\ txn' = EmptyDatabase
  /\ owner' = "none"
  /\ mem' = [EmptyMemory EXCEPT !.armed = FALSE]
  /\ UNCHANGED <<variant, db, acked>>

-----------------------------------------------------------------------------
(* What the observer endpoint answers. *)

Count(sequence, value) == Cardinality({i \in DOMAIN sequence : sequence[i] = value})

ProcessingCount(event) ==
  Cardinality({row \in db.inbox : row.state = "processed" /\ row.key[3] = event})

DurableEffects(event) == Cardinality({key \in db.effects : key[3] = event})

\* The probes the flawed receivers override: the counter of the race, the counter
\* once it has something to show, and the physical effects.
RaceEffects(event) == Count(mem.counted, event)
RepeatedEffects(event) ==
  IF Count(mem.counted, event) # 0 THEN Count(mem.counted, event) ELSE DurableEffects(event)
EarlyEffects(event) ==
  IF Count(mem.counted, event) # 0 THEN Count(mem.counted, event) ELSE DurableEffects(event)
PhysicalEffects(event) == Count(db.physical, event)

EffectCount(event) ==
  CASE variant = "check-then-insert-race" -> RaceEffects(event)
    [] variant = "crash-after-effect-before-ack" -> RepeatedEffects(event)
    [] variant = "side-effect-before-deduplication" -> EarlyEffects(event)
    [] variant = "no-idempotency-record" -> PhysicalEffects(event)
    [] OTHER -> DurableEffects(event)

OutboxCount(event) == Cardinality({entry \in db.outbox : entry[1][3] = event})
InboxEvidence(event) == {<<row.key, row.state>> : row \in {q \in db.inbox : q.key[3] = event}}

\* All evidence of one read transaction.
ObserveEvidence(event, order) ==
  [processing_count |-> ProcessingCount(event), effect_count |-> EffectCount(event),
   outbox_count |-> OutboxCount(event), inbox_state |-> InboxEvidence(event),
   order_state |-> db.orders[order]]

EvidenceNames ==
  {"processing_count", "effect_count", "outbox_count", "inbox_state", "order_state"}

\* The token, then the capabilities, then exactly the evidence that was asked for.
Probe(p) ==
  IF ~p.token THEN [status |-> 401, evidence |-> {}]
  ELSE IF ~(p.names \subseteq p.capabilities /\ p.capabilities \subseteq EvidenceNames)
    THEN [status |-> 422, evidence |-> {}]
  ELSE [status |-> 200,
        evidence |-> {<<name, ObserveEvidence(p.event, p.order)[name]>> : name \in p.names}]

-----------------------------------------------------------------------------
(* Properties. *)

\* An acknowledged event is in the durable inbox, whatever died since: handle
\* commits before it answers.  Only the receiver that queues in memory loses one.
AcknowledgedIsDurable ==
  variant # "acknowledge-before-commit"
    => \A key \in acked : \E row \in db.inbox : row.key = key

\* Exactly once: one inbox row for a key; effects and outbox rows are exactly
\* those of the processed rows; no order is paid while a refund that its own
\* account has settled waits; and the evidence of a probe shows each effect once,
\* except from the four receivers built to repeat it.
EffectsExactlyOnce ==
  LET processed == {row \in db.inbox : row.state = "processed"}
      Settles(p, row) == p.type = "payment.succeeded" /\ p.order = row.order
                         /\ p.key[1] = row.key[1] /\ p.key[2] = row.key[2]
  IN
  /\ \A p, q \in db.inbox : p.key = q.key => p = q
  /\ db.effects = {row.key : row \in processed}
  /\ db.outbox = {<<row.key, row.type>> : row \in processed}
  /\ \A row \in db.inbox \ processed :
       \A p \in processed : Settles(p, row) => db.orders[row.order].state # "paid"
  /\ \A o \in Orders : db.orders[o].state # "none"
                       <=> \E row \in processed : row.order = o /\ row.type = "payment.succeeded"
  /\ variant \notin DuplicatingVariants
       => \A row \in db.inbox :
            LET count == Cardinality({q \in processed : q.key[3] = row.key[3]})
                names == {"processing_count", "effect_count", "outbox_count"}
            IN  Probe([token |-> TRUE, capabilities |-> EvidenceNames, names |-> names,
                       event |-> row.key[3], order |-> row.order])
                  = [status |-> 200, evidence |-> {<<name, count>> : name \in names}]
=============================================================================
