----------------------------- MODULE Mutations -----------------------------
(***************************************************************************)
(* The mutation operators and the fixed pipeline that applies them around  *)
(* signing (mutations/).                                                   *)
(*                                                                         *)
(* A JSON document is a function from pointers (sequences of tokens) to    *)
(* nodes <<type, value>>; arrays hold at most one element, so removing one *)
(* renumbers nothing.  A content without a root node is not JSON.  A body  *)
(* is [doc, kept, pad, altered]: the first `kept' bytes of doc's compact   *)
(* serialization, `pad' trailing spaces, and the set of <<offset, bit>>    *)
(* flipped since.  Every node serializes to one byte, so offsets and       *)
(* lengths stay small.  A mutation is a record with its operator id in     *)
(* `type' and its parameters in the other fields.                          *)
(***************************************************************************)
EXTENDS Signing, SequencesExt, FiniteSetsExt

CONSTANT
  MaxBodyBytes   \* the pipeline's body limit

ASSUME BodyLimitAssumption == MaxBodyBytes \in Nat

Size(doc) == Cardinality(DOMAIN doc)
EmptyDoc == [p \in {} |-> <<"none", "none">>]

Serialize(doc) == [doc |-> doc, kept |-> Size(doc), pad |-> 0, altered |-> {}]
Length(body) == body.kept + body.pad

\* Trailing spaces are JSON whitespace; a cut or flipped document is not JSON.
ValidJson(body) ==
  /\ <<>> \in DOMAIN body.doc
  /\ body.kept = Size(body.doc)
  /\ body.altered = {}

IsJsonMedia(media) == media \in {"application/json", "application/problem+json"}

Raised(category) == [error |-> category, body |-> Serialize(EmptyDoc)]
Returned(body) == [error |-> "none", body |-> body]

-----------------------------------------------------------------------------
(* Structural operators: parse, change one pointer, serialize.              *)

Below(doc, pointer) == {q \in DOMAIN doc : IsPrefix(pointer, q)}

\* A pointer resolves through objects and arrays only.
Resolves(doc, pointer) == pointer \in DOMAIN doc

\* Tokens that are no canonical array index are a parameter error where an
\* array is crossed or addressed; anything else that is absent is missing.
PointerError(doc, pointer) ==
  IF \E n \in 0..(Len(pointer) - 1) :
       LET parent == SubSeq(pointer, 1, n)
       IN /\ parent \in DOMAIN doc
          /\ doc[parent][1] = "array"
          /\ pointer[n + 1] \notin {"0", "1"}
    THEN "invalid_parameter"
    ELSE "missing"

WithNode(doc, pointer, node) ==
  [q \in (DOMAIN doc \ Below(doc, pointer)) \cup {pointer} |->
     IF q = pointer THEN node ELSE doc[q]]

WithoutNode(doc, pointer) == [q \in DOMAIN doc \ Below(doc, pointer) |-> doc[q]]

Representative(type) ==
  CASE type = "null" -> <<"null", "null">>
    [] type = "boolean" -> <<"boolean", "false">>
    [] type = "integer" -> <<"integer", "0">>
    [] type = "string" -> <<"string", "">>
    [] type = "array" -> <<"array", "">>
    [] type = "object" -> <<"object", "">>

Unresolved(doc, pointer) ==
  IF PointerError(doc, pointer) = "missing"
    THEN Raised("not_applicable")
    ELSE Raised("invalid_parameter")

RemoveJsonPointer(m, body) ==
  LET doc == body.doc
  IN IF m.pointer = <<>> THEN Raised("invalid_parameter")
     ELSE IF Resolves(doc, m.pointer)
       THEN Returned(Serialize(WithoutNode(doc, m.pointer)))
     ELSE IF m.ifMissing = "ignore" /\ PointerError(doc, m.pointer) = "missing"
       THEN Returned(Serialize(doc))
     ELSE Unresolved(doc, m.pointer)

ReplaceJsonValue(m, body) ==
  IF Resolves(body.doc, m.pointer)
    THEN Returned(Serialize(WithNode(body.doc, m.pointer, m.value)))
    ELSE Unresolved(body.doc, m.pointer)

ReplaceJsonType(m, body) ==
  IF ~Resolves(body.doc, m.pointer) THEN Unresolved(body.doc, m.pointer)
  ELSE IF body.doc[m.pointer][1] = m.targetType THEN Raised("invalid_parameter")
  ELSE Returned(Serialize(WithNode(body.doc, m.pointer, Representative(m.targetType))))

AddJsonField(m, body) ==
  LET doc == body.doc
      member == Append(m.pointer, m.name)
  IN IF ~Resolves(doc, m.pointer) THEN Unresolved(doc, m.pointer)
     ELSE IF doc[m.pointer][1] # "object" THEN Raised("not_applicable")
     ELSE IF member \in DOMAIN doc /\ ~m.overwrite THEN Raised("member_exists")
     ELSE Returned(Serialize(WithNode(doc, member, m.value)))

ChangeEventField(m, body) == ReplaceJsonValue(m, body)

-----------------------------------------------------------------------------
(* Raw operators: bytes, and the content-type header.                       *)

TruncateBytes(m, body) ==
  LET kept == Min({body.kept, m.length})
  IN IF m.length > Length(body)
       THEN Raised("invalid_parameter")
       ELSE Returned([doc |-> IF kept = 0 THEN EmptyDoc ELSE body.doc,
                      kept |-> kept,
                      pad |-> m.length - kept,
                      altered |-> {a \in body.altered : a[1] < m.length}])

\* The catalogue replaces the whole body by a fixed invalid text, one byte here.
InvalidTextBytes == 1
InvalidJson(m, body, media) ==
  IF IsJsonMedia(media)
    THEN Returned(Serialize([p \in {<<m.strategy>>} |-> <<"bytes", m.strategy>>]))
    ELSE Raised("not_applicable")

OversizedBody(m, body) ==
  IF m.targetBytes <= Length(body)
    THEN Raised("not_applicable")
    ELSE Returned([body EXCEPT !.pad = m.targetBytes - body.kept])

AlterAfterSigning(m, body) ==
  IF m.offset > Max({0, Length(body) - 1}) THEN Raised("invalid_parameter")
  ELSE IF Length(body) = 0 THEN Raised("not_applicable")
  ELSE Returned([body EXCEPT !.altered = SymDiff(@, {m.offset} \X m.xor)])

ContentTypeMismatch(m, headers) ==
  Append(SelectSeq(headers, LAMBDA h : h.name # "content-type"),
         [name |-> "content-type", value |-> TextValue(<<m.mediaType>>)])

-----------------------------------------------------------------------------
(* Signature operators: the signing time, the signer, the signed headers.   *)

StaleSigningTime(m, state) ==
  IF state.signer.profile = GenericHmac THEN "not_applicable"
  ELSE IF state.time - m.age < 0 THEN "invalid_parameter"
  ELSE "none"

\* Keys derived from the context: as many as the signer has, all distinct.
\* (A key is a pair <<origin, index>>.)
WrongKeySigner(m, signer) ==
  [signer EXCEPT !.keys = [i \in DOMAIN signer.keys |-> <<m.context, i>>]]

DistinctWrongKeys(original, replacement) ==
  /\ Distinct(replacement.keys)
  /\ SetOf(original.keys) \cap SetOf(replacement.keys) = {}

MissingSignature(signer, headers) ==
  SelectSeq(headers, LAMBDA h : h.name \notin SetOf(OwnedHeaders(signer)))

MalformedSignature(signer, headers) ==
  [i \in DOMAIN headers |->
     IF headers[i].name \in SetOf(OwnedHeaders(signer))
       THEN [headers[i] EXCEPT !.value = MalformedValue]
       ELSE headers[i]]

-----------------------------------------------------------------------------
(* The static registrations: stage and declared effects of every operator.  *)

StructuralTypes ==
  {"remove-json-pointer-v1", "replace-json-value-v1", "replace-json-type-v1",
   "add-json-field-v1", "change-event-id-field-v1", "change-event-type-field-v1"}
RawTypes ==
  {"truncate-bytes-v1", "invalid-json-v1", "content-type-mismatch-v1",
   "alter-after-signing-v1", "oversized-body-v1"}
SignatureTypes ==
  {"stale-signature-timestamp-v1", "wrong-signing-key-v1", "missing-signature-v1",
   "malformed-signature-v1"}

StageRank(type) ==
  CASE type \in StructuralTypes -> 0
    [] type \in {"truncate-bytes-v1", "invalid-json-v1", "oversized-body-v1"} -> 1
    [] type = "content-type-mismatch-v1" -> 2
    [] type \in {"stale-signature-timestamp-v1", "wrong-signing-key-v1"} -> 3
    [] type = "alter-after-signing-v1" -> 4
    [] type \in {"missing-signature-v1", "malformed-signature-v1"} -> 5
SigningRank == 3
PlanningRank == 1

ChangesBody(type) == StageRank(type) \in {0, 1, 4}
WrittenHeaders(type) == IF type = "content-type-mismatch-v1" THEN {"content-type"} ELSE {}
HeaderAction(type) ==
  CASE type = "missing-signature-v1" -> "remove"
    [] type = "malformed-signature-v1" -> "replace"
    [] OTHER -> "none"
NeedsSigner(type) == type \in SignatureTypes

-----------------------------------------------------------------------------
(* Preflight: every rule that can be decided before the first operator.     *)

PreflightStart ==
  [error |-> "none", furthest |-> 0, invalidated |-> FALSE, claims |-> {},
   action |-> FALSE, structural |-> FALSE]

HeaderConflict(type, signer, claims) ==
  \/ HeaderAction(type) = "none" /\ SetOf(OwnedHeaders(signer)) \cap WrittenHeaders(type) # {}
  \/ WrittenHeaders(type) \cap claims # {}

PreflightError(acc, type, registry, media, signer) ==
  IF type \notin registry THEN "unregistered"
  ELSE IF \/ StageRank(type) = 0 /\ acc.invalidated
          \/ StageRank(type) < acc.furthest
    THEN "conflict"
  ELSE IF \/ type \in StructuralTypes /\ ~IsJsonMedia(media)
          \/ NeedsSigner(type) /\ signer = NoSigner
    THEN "not_applicable"
  ELSE IF \/ HeaderConflict(type, signer, acc.claims)
          \/ HeaderAction(type) # "none" /\ acc.action
    THEN "conflict"
  ELSE "none"

PreflightOne(acc, m, registry, media, signer) ==
  IF acc.error # "none" THEN acc
  ELSE [error |-> PreflightError(acc, m.type, registry, media, signer),
        furthest |-> Max({acc.furthest, StageRank(m.type)}),
        invalidated |-> acc.invalidated \/ m.type = "invalid-json-v1",
        claims |-> acc.claims \cup WrittenHeaders(m.type),
        action |-> acc.action \/ HeaderAction(m.type) # "none",
        structural |-> acc.structural \/ m.type \in StructuralTypes]

\* in: [body, headers, event, time, media, signer, mutations, registry]
Preflight(in) ==
  LET folded == FoldLeft(LAMBDA acc, m : PreflightOne(acc, m, in.registry, in.media, in.signer),
                         PreflightStart, in.mutations)
  IN IF Length(in.body) > MaxBodyBytes THEN "resource_limit"
     ELSE IF in.signer # NoSigner /\ ~OwnershipValid(OwnedHeaders(in.signer), Names(in.headers))
       THEN "conflict"
     ELSE IF folded.error # "none" THEN folded.error
     ELSE IF folded.structural /\ ~ValidJson(in.body) THEN "not_applicable"
     ELSE "none"

-----------------------------------------------------------------------------
(* Execution: apply each operator, check its declared effects, sign once    *)
(* before the first operator of a later stage than signing.                 *)

ApplyBody(m, body, media) ==
  CASE m.type = "remove-json-pointer-v1" -> RemoveJsonPointer(m, body)
    [] m.type = "replace-json-value-v1" -> ReplaceJsonValue(m, body)
    [] m.type = "replace-json-type-v1" -> ReplaceJsonType(m, body)
    [] m.type = "add-json-field-v1" -> AddJsonField(m, body)
    [] m.type \in {"change-event-id-field-v1", "change-event-type-field-v1"} ->
         ChangeEventField(m, body)
    [] m.type = "truncate-bytes-v1" -> TruncateBytes(m, body)
    [] m.type = "invalid-json-v1" -> InvalidJson(m, body, media)
    [] m.type = "oversized-body-v1" -> OversizedBody(m, body)
    [] m.type = "alter-after-signing-v1" -> AlterAfterSigning(m, body)

ApplyHeaders(m, state) ==
  CASE m.type = "content-type-mismatch-v1" -> ContentTypeMismatch(m, state.headers)
    [] m.type = "missing-signature-v1" -> MissingSignature(state.signer, state.headers)
    [] m.type = "malformed-signature-v1" -> MalformedSignature(state.signer, state.headers)

\* state: [body, headers, time, signer].  The operator alone, with its own errors.
Applied(m, state, media) ==
  IF ChangesBody(m.type)
    THEN LET result == ApplyBody(m, state.body, media)
         IN [error |-> result.error, state |-> [state EXCEPT !.body = result.body]]
  ELSE IF m.type = "stale-signature-timestamp-v1"
    THEN [error |-> StaleSigningTime(m, state),
          state |-> [state EXCEPT !.time = @ - m.age]]
  ELSE IF m.type = "wrong-signing-key-v1"
    THEN LET wrong == WrongKeySigner(m, state.signer)
         IN [error |-> IF DistinctWrongKeys(state.signer, wrong)
                         THEN "none" ELSE "not_applicable",
             state |-> [state EXCEPT !.signer = wrong]]
  ELSE [error |-> "none", state |-> [state EXCEPT !.headers = ApplyHeaders(m, state)]]

HeadersTouched(before, after) ==
  {h.name : h \in SetOf(after) \ SetOf(before)} \cup (Names(before) \ Names(after))

AllowedHeaders(type, signer) ==
  WrittenHeaders(type)
    \cup (IF HeaderAction(type) = "none" THEN {} ELSE SetOf(OwnedHeaders(signer)))

UndeclaredEffect(type, before, after) ==
  \/ before.body # after.body /\ ~ChangesBody(type)
  \/ before.time # after.time /\ type # "stale-signature-timestamp-v1"
  \/ /\ before.signer # after.signer
     /\ \/ type # "wrong-signing-key-v1"
        \/ OwnedHeaders(before.signer) # OwnedHeaders(after.signer)
  \/ ~(HeadersTouched(before.headers, after.headers) \subseteq AllowedHeaders(type, before.signer))

\* run: [error, phase, state, signed].  The checks after one operator.
CheckApplied(run, m, applied) ==
  LET failed(error) == [run EXCEPT !.error = error, !.phase = "apply"]
  IN IF m.type \in StructuralTypes /\ ~ValidJson(run.state.body)
       THEN failed("not_applicable")
     ELSE IF applied.error # "none" THEN failed(applied.error)
     ELSE IF Length(applied.state.body) > MaxBodyBytes THEN failed("resource_limit")
     ELSE IF UndeclaredEffect(m.type, run.state, applied.state) THEN failed("conflict")
     ELSE IF m.type \in StructuralTypes /\ ~ValidJson(applied.state.body)
       THEN failed("not_applicable")
     ELSE [run EXCEPT !.state = applied.state]

ApplyOne(run, m, media) == CheckApplied(run, m, Applied(m, run.state, media))

\* Signing covers the body, event and time as they are at that moment.
SignOnce(run, in) ==
  LET signer == run.state.signer
      input == [body |-> run.state.body, event |-> in.event, time |-> run.state.time]
  IN IF signer = NoSigner THEN [run EXCEPT !.signed = TRUE]
     ELSE IF ~OwnershipValid(OwnedHeaders(signer), Names(run.state.headers))
       THEN [run EXCEPT !.error = "conflict", !.phase = "sign"]
     ELSE [run EXCEPT !.signed = TRUE,
                      !.state.headers = @ \o SignHeaders(signer, input)]

ExecuteOne(run, m, in) ==
  LET ready == IF ~run.signed /\ StageRank(m.type) > SigningRank
                 THEN SignOnce(run, in) ELSE run
  IN IF run.error # "none" THEN run
     ELSE IF ready.error # "none" THEN ready
     ELSE ApplyOne(ready, m, in.media)

\* A pipeline without stages after signing signs at its end.
SignLast(applied, in) ==
  IF applied.error = "none" /\ ~applied.signed THEN SignOnce(applied, in) ELSE applied

Execute(in) ==
  LET start == [error |-> "none", phase |-> "none", signed |-> FALSE,
                state |-> [body |-> in.body, headers |-> in.headers, time |-> in.time,
                           signer |-> in.signer]]
      preflight == Preflight(in)
  IN IF preflight # "none"
       THEN [start EXCEPT !.error = preflight, !.phase = "preflight"]
     ELSE SignLast(FoldLeft(LAMBDA run, m : ExecuteOne(run, m, in), start, in.mutations), in)
=============================================================================
