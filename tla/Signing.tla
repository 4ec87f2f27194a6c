------------------------------ MODULE Signing ------------------------------
(***************************************************************************)
(* The built-in signer adapters (signatures/): which headers a profile     *)
(* owns, what its canonical message covers, the headers it adds and how a  *)
(* receiver verifies them.  A signer is a record [profile, header, keys];  *)
(* HMAC-SHA256 is injective here: a digest is the pair of key and message. *)
(* Signature headers are records [name, value], and a value's fields tell  *)
(* what a strict parser of that header would recover.                      *)
(***************************************************************************)
EXTENDS Integers, Sequences, FiniteSets

CONSTANT
  TicksPerSecond   \* logical ticks in one second of a signature timestamp

ASSUME TicksAssumption == TicksPerSecond \in Nat \ {0}

\* The profiles, and the headers the harness writes itself.
GenericHmac == "generic-hmac-sha256"
StripeV1 == "stripe-v1"
StandardWebhooks == "standard-webhooks-hmac"
HarnessHeaders == {"content-type", "content-length", "host"}
NoSigner == [profile |-> "none", header |-> "none", keys |-> <<>>]

OwnedHeaders(signer) ==
  IF signer.profile = StandardWebhooks
    THEN <<"webhook-id", "webhook-timestamp", signer.header>>
    ELSE <<signer.header>>

SetOf(seq) == {seq[i] : i \in DOMAIN seq}
Distinct(seq) == Cardinality(SetOf(seq)) = Len(seq)
Names(headers) == {headers[i].name : i \in DOMAIN headers}

\* Exclusive, case-folded ownership of signer headers.
OwnershipValid(owned, users) ==
  /\ Distinct(owned)
  /\ SetOf(owned) \cap users = {}
  /\ SetOf(owned) \cap HarnessHeaders = {}

\* Keys of one signer carry distinct fingerprints; the generic profile has one.
KeysValid(signer) ==
  /\ Distinct(signer.keys)
  /\ signer.keys # <<>>
  /\ signer.profile = GenericHmac => Len(signer.keys) = 1

\* A message of the timestamped profiles carries whole seconds.
Seconds(ticks) == ticks \div TicksPerSecond

\* The default generic template covers the exact body and nothing else.
GenericMessage(input) == [time |-> 0, event |-> "none", body |-> input.body]
StripeMessage(time, body) == [time |-> time, event |-> "none", body |-> body]
StandardMessage(event, time, body) == [time |-> time, event |-> event, body |-> body]

Digests(signer, message) ==
  {[key |-> key, message |-> message] : key \in SetOf(signer.keys)}

SignatureValue(time, digests) ==
  [form |-> "signature", time |-> time, digests |-> digests]
\* A text is a sequence: an identifier's kind and key, or one media type.
TextValue(text) == [form |-> "text", text |-> text]
TimeValue(time) == [form |-> "seconds", seconds |-> time]
MalformedValue == [form |-> "malformed"]

GenericSign(signer, input) ==
  <<[name |-> signer.header,
     value |-> SignatureValue(0, Digests(signer, GenericMessage(input)))]>>

StripeSign(signer, input) ==
  LET time == Seconds(input.time)
  IN <<[name |-> signer.header,
        value |-> SignatureValue(
                    time, Digests(signer, StripeMessage(time, input.body)))]>>

StandardSign(signer, input) ==
  LET time == Seconds(input.time)
  IN <<[name |-> "webhook-id", value |-> TextValue(input.event)],
       [name |-> "webhook-timestamp", value |-> TimeValue(time)],
       [name |-> signer.header,
        value |-> SignatureValue(0, Digests(
                    signer, StandardMessage(input.event, time, input.body)))]>>

SignHeaders(signer, input) ==
  CASE signer.profile = GenericHmac -> GenericSign(signer, input)
    [] signer.profile = StripeV1 -> StripeSign(signer, input)
    [] signer.profile = StandardWebhooks -> StandardSign(signer, input)

Matching(headers, name) == SelectSeq(headers, LAMBDA h : h.name = name)

\* One header is missing or present twice: no profile looks further.
PresenceReason(signer, headers) ==
  LET found == [name \in SetOf(OwnedHeaders(signer)) |-> Len(Matching(headers, name))]
  IN CASE \E name \in DOMAIN found : found[name] = 0 -> "missing_header"
       [] \E name \in DOMAIN found : found[name] > 1 -> "duplicate_header"
       [] OTHER -> "present"

TheHeader(headers, name) == Matching(headers, name)[1].value

Compared(signer, supplied, message) ==
  IF supplied \cap Digests(signer, message) # {} THEN "valid" ELSE "signature_mismatch"

GenericVerify(signer, input, headers) ==
  LET value == TheHeader(headers, signer.header)
  IN IF value.form # "signature" THEN "malformed_header"
     ELSE Compared(signer, value.digests, GenericMessage(input))

\* The stripe header carries the timestamp its digests cover.
StripeVerify(signer, input, headers) ==
  LET value == TheHeader(headers, signer.header)
  IN IF value.form # "signature" THEN "malformed_header"
     ELSE Compared(signer, value.digests, StripeMessage(value.time, input.body))

StandardVerify(signer, input, headers) ==
  LET id == TheHeader(headers, "webhook-id")
      time == TheHeader(headers, "webhook-timestamp")
      value == TheHeader(headers, signer.header)
  IN IF time.form # "seconds" \/ value.form # "signature" THEN "malformed_header"
     ELSE Compared(signer, value.digests,
                   StandardMessage(id.text, time.seconds, input.body))

Verify(signer, input, headers) ==
  LET presence == PresenceReason(signer, headers)
  IN CASE presence # "present" -> presence
       [] signer.profile = GenericHmac -> GenericVerify(signer, input, headers)
       [] signer.profile = StripeV1 -> StripeVerify(signer, input, headers)
       [] signer.profile = StandardWebhooks -> StandardVerify(signer, input, headers)

\* The timestamp a receiver of a timestamped profile reads from the request.
StampedSecond(signer, headers) ==
  IF signer.profile = StripeV1
    THEN TheHeader(headers, signer.header).time
    ELSE TheHeader(headers, "webhook-timestamp").seconds
=============================================================================
