--------------------------- MODULE NetworkPolicy ---------------------------
(***************************************************************************)
(* Where a request may go: the destination policy (network/policy.py), the *)
(* address classes (network/addresses.py), the pinned dialer               *)
(* (network/dialer.py, network/transport.py) and the nonce challenge of a  *)
(* public target (network/preflight.py).                                   *)
(*                                                                         *)
(* Texts are records of what their parser finds in them.  An address is    *)
(* [version, tables, rank, scoped]: the network tables it falls into and   *)
(* its place in the order of canonical texts.  A host is [form, name,      *)
(* address]: equal names are spellings with one normal form.  A check      *)
(* returns "ok" or the code of its first failing gate.                     *)
(***************************************************************************)
EXTENDS Gates

LOCAL INSTANCE SequencesExt

CONSTANTS
  MaxResolverRecords,     \* raw records read from the resolver (256 in the code)
  MaxResolvedAddresses,   \* distinct addresses of one destination (64)
  MaxAllowedHosts         \* entries of a host allowlist (64)

ASSUME NetworkBounds ==
  {MaxResolverRecords, MaxResolvedAddresses, MaxAllowedHosts} \subseteq Nat \ {0}

-----------------------------------------------------------------------------
(* Addresses. *)

AddressClasses == {"loopback", "private", "public", "blocked"}

\* The tables of either version; "blocked" stands for the special-purpose list
\* and "allocated" for the global unicast allocations of version 6.
IPv4Tables == {"loopback", "private", "metadata", "blocked"}
IPv6Tables == {"loopback", "private", "metadata", "blocked", "allocated"}

NoAddress == [version |-> 0, tables |-> {}, rank |-> 0, scoped |-> FALSE]

ClassifyIPv4(a) ==
  CASE "loopback" \in a.tables -> "loopback"
    [] "loopback" \notin a.tables /\ "private" \in a.tables -> "private"
    [] a.tables \cap {"loopback", "private"} = {}
       /\ a.tables \cap {"metadata", "blocked"} # {} -> "blocked"
    [] a.tables \cap IPv4Tables = {} -> "public"

\* A metadata endpoint inside the private range is blocked, not private, and
\* whatever no allocation covers is reserved.
ClassifyIPv6(a) ==
  IF "loopback" \in a.tables THEN "loopback"
  ELSE IF "metadata" \in a.tables THEN "blocked"
  ELSE IF "private" \in a.tables THEN "private"
  ELSE IF "blocked" \in a.tables \/ "allocated" \notin a.tables THEN "blocked"
  ELSE "public"

ClassifyAddress(a) ==
  IF a.scoped THEN "blocked"
  ELSE IF a.version = 4 THEN ClassifyIPv4(a)
  ELSE ClassifyIPv6(a)

AcceptedClasses(profile) ==
  CASE profile = "loopback" -> {"loopback"}
    [] profile = "private_allowlist" -> {"private", "loopback"}
    [] profile = "public_authorized" -> {"public"}

EnforceAddressProfile(profile, address) ==
  FirstError(
    <<Gate(ClassifyAddress(address) # "blocked", "address-blocked"),
      Gate(ClassifyAddress(address) \in AcceptedClasses(profile),
           "address-profile-mismatch")>>)

-----------------------------------------------------------------------------
(* Hosts, ports and URLs. *)

ValidateHostText(host) == Gate(host.form # "unclean", "invalid-host")
NormalizeIPv6Literal(host) == Gate(host.form = "ipv6", "invalid-host")
NormalizeDnsHostname(host) ==
  Gate(host.form \notin {"numeric", "denormalized", "invalid-idna", "bad-label"},
       "invalid-host")
ValidateIdnaRoundTrip(host) == Gate(host.form # "ambiguous-idna", "invalid-host")

NormalizeHost(host) ==
  FirstError(
    <<ValidateHostText(host),
      CASE host.form \in {"ipv6", "bad-ipv6"} -> NormalizeIPv6Literal(host)
        [] host.form = "ipv4" -> "ok"
        [] OTHER -> FirstError(<<NormalizeDnsHostname(host), ValidateIdnaRoundTrip(host)>>)>>)

\* A version 6 literal is bracketed, and nothing else is.
SplitAuthority(authority) ==
  Gate(authority.bracketed = (authority.host.form = "ipv6"), "invalid-host")

\* Ports: 0 is absent, a negative number an ambiguous or overflowing text.
DefaultPort(scheme) == CASE scheme = "http" -> 80 [] scheme = "https" -> 443 [] OTHER -> 0
ParsePort(port, default) ==
  IF port = 0 THEN Gate(default # 0, "invalid-port") ELSE Gate(port > 0, "invalid-port")
PortOf(port, default) == IF port = 0 THEN default ELSE port

ValidateUrlText(url) == Gate(url.clean, "invalid-url")

ExtractSchemeAndAuthority(url) ==
  FirstError(
    <<Gate(url.absolute, "invalid-url"),
      Gate(DefaultPort(url.scheme) # 0, "invalid-scheme"),
      Gate(url.authority.present, "invalid-url"),
      Gate(~url.authority.userinfo, "userinfo-forbidden"),
      Gate(~url.authority.percent, "invalid-host")>>)

RequireParserAgreement(url) == Gate(url.agrees, "invalid-url")

ParseDestinationUrl(url) ==
  FirstError(
    <<ValidateUrlText(url),
      Gate(~url.fragment, "fragment-forbidden"),
      ExtractSchemeAndAuthority(url),
      SplitAuthority(url.authority),
      NormalizeHost(url.authority.host),
      ParsePort(url.authority.port, DefaultPort(url.scheme)),
      RequireParserAgreement(url)>>)

Destination(url) ==
  [scheme |-> url.scheme,
   host |-> url.authority.host.name,
   port |-> PortOf(url.authority.port, DefaultPort(url.scheme)),
   literal |-> url.authority.host.address]

-----------------------------------------------------------------------------
(* The policy: every configuration and run-time gate, before any network.  *)

HostNames(hosts) == {hosts[i].name : i \in DOMAIN hosts}

NormalizeAllowedHosts(hosts) ==
  FirstError(
    <<Gate(Len(hosts) <= MaxAllowedHosts, "host-not-allowed")>>
    \o [i \in DOMAIN hosts |-> NormalizeHost(hosts[i])]
    \o <<Gate(Cardinality(HostNames(hosts)) = Len(hosts), "host-not-allowed")>>)

ValidateChallengePath(path) == Gate(path = "origin-form", "preflight-configuration-invalid")

RequireAllowedHost(host, names) == Gate(host \in names, "host-not-allowed")

\* The consent HOST:PORT of the command line; the port is always explicit and
\* any defect is a mismatch.
ParseRuntimeAuthorization(consent) ==
  Gate(/\ consent.clean
       /\ consent.authority.port > 0
       /\ SplitAuthority(consent.authority) = "ok"
       /\ NormalizeHost(consent.authority.host) = "ok",
       "public-authorization-mismatch")

ConsentBinding(consent) == <<consent.authority.host.name, consent.authority.port>>

ValidatePublicGates(destination, names, path, consent) ==
  FirstError(
    <<Gate(destination.scheme = "https", "public-https-required"),
      RequireAllowedHost(destination.host, names),
      ValidateChallengePath(path),
      Gate(consent.present, "public-authorization-required"),
      ParseRuntimeAuthorization(consent),
      Gate(ConsentBinding(consent) = <<destination.host, destination.port>>,
           "public-authorization-mismatch")>>)

ProfileGates(receiver, destination, consent) ==
  CASE receiver.profile = "loopback" -> "ok"
    [] receiver.profile = "private_allowlist" ->
         RequireAllowedHost(destination.host, HostNames(receiver.hosts))
    [] receiver.profile = "public_authorized" ->
         ValidatePublicGates(destination, HostNames(receiver.hosts), receiver.challenge, consent)

\* The gates of a policy, in their order; a literal address is classified last.
ParseDestinationPolicy(receiver, consent) ==
  LET destination == Destination(receiver.url)
  IN  FirstError(
        <<ParseDestinationUrl(receiver.url),
          NormalizeAllowedHosts(receiver.hosts),
          Gate(destination.port \in receiver.ports, "port-not-allowed"),
          ProfileGates(receiver, destination, consent),
          IF destination.literal = NoAddress THEN "ok"
            ELSE EnforceAddressProfile(receiver.profile, destination.literal)>>)

\* The sealed policy: only the constructor above issues one, and every consumer
\* derives the gates again from its fields before it uses them.
Policy(receiver, consent) ==
  [destination |-> Destination(receiver.url),
   profile |-> receiver.profile,
   hosts |-> HostNames(receiver.hosts),
   ports |-> receiver.ports,
   challenge |-> receiver.challenge,
   authorization |-> IF receiver.profile = "public_authorized"
                       THEN ConsentBinding(consent) ELSE <<>>]

PolicyProfileGatesAreValid(policy) ==
  CASE policy.profile = "loopback" -> policy.authorization = <<>>
    [] policy.profile = "private_allowlist" ->
         policy.destination.host \in policy.hosts /\ policy.authorization = <<>>
    [] policy.profile = "public_authorized" ->
         /\ ValidateChallengePath(policy.challenge) = "ok"
         /\ policy.destination.scheme = "https"
         /\ policy.destination.host \in policy.hosts
         /\ policy.authorization = <<policy.destination.host, policy.destination.port>>

ValidatePolicyProvenance(policy) ==
  Gate(/\ DefaultPort(policy.destination.scheme) # 0
       /\ policy.destination.port \in policy.ports
       /\ PolicyProfileGatesAreValid(policy),
       "preflight-configuration-invalid")

-----------------------------------------------------------------------------
(* Resolution and authorization of the complete answer.                    *)

AddressBefore(a, b) ==
  \/ a.version < b.version
  \/ a.version = b.version /\ a.rank < b.rank

\* The first bad record ends the scan: one too many, one that is no TCP record
\* of its family and port, or one address too many.
ResolverScan(records, port) ==
  FirstError(
    [i \in DOMAIN records |->
      LET r == records[i]
          known == {records[j].address : j \in 1 .. i - 1}
      IN FirstError(
           <<Gate(i <= MaxResolverRecords, "resolution-result-limit"),
             Gate(r.tcp /\ r.port = port /\ r.family = r.address.version,
                  "resolution-result-invalid"),
             Gate(r.address \in known \/ Cardinality(known) < MaxResolvedAddresses,
                  "resolution-result-limit")>>)])

ResolvedAddresses(records) == {records[i].address : i \in DOMAIN records}

MaterializeCandidates(candidates) ==
  Gate(Cardinality(candidates) \in 1 .. MaxResolvedAddresses, "address-set-invalid")

\* Every candidate is classified and admitted, or the whole answer is refused.
AuthorizeResolvedAddresses(policy, candidates) ==
  FirstError(
    <<ValidatePolicyProvenance(policy),
      MaterializeCandidates(candidates),
      Gate(\A a \in candidates : ClassifyAddress(a) # "blocked", "address-blocked"),
      Gate(\A a \in candidates : EnforceAddressProfile(policy.profile, a) = "ok",
           "address-profile-mismatch"),
      Gate(policy.destination.literal = NoAddress
             \/ candidates = {policy.destination.literal},
           "address-set-invalid")>>)

AuthorizedOrder(candidates) == SetToSortSeq(candidates, AddressBefore)

AuthorizedAddressSetIsValid(policy, addresses) ==
  /\ Len(addresses) \in 1 .. MaxResolvedAddresses
  /\ \A i \in DOMAIN addresses : EnforceAddressProfile(policy.profile, addresses[i]) = "ok"
  /\ \A i \in 1 .. Len(addresses) - 1 : AddressBefore(addresses[i], addresses[i + 1])
  /\ policy.destination.literal = NoAddress \/ addresses = <<policy.destination.literal>>

-----------------------------------------------------------------------------
(* The pinned dialer.                                                      *)

NoPeer == <<NoAddress, 0>>

DialError(code, phase, retryable) ==
  [code |-> code, phase |-> phase, retryable |-> retryable, pin |-> NoAddress, peer |-> NoPeer,
   allowed |-> {}]

Authorized(policy, candidates) ==
  LET code == AuthorizeResolvedAddresses(policy, candidates)
  IN  IF code = "ok"
        THEN [code |-> "ok", phase |-> "resolution", retryable |-> FALSE,
              pin |-> Head(AuthorizedOrder(candidates)), peer |-> NoPeer, allowed |-> candidates]
        ELSE DialError("policy-rejected", "resolution", FALSE)

\* Resolution with the complete current answer; a literal is never resolved.
ResolveAndAuthorize(policy, answer) ==
  IF ValidatePolicyProvenance(policy) # "ok"
    THEN DialError("policy-rejected", "resolution", FALSE)
  ELSE IF policy.destination.literal # NoAddress
    THEN Authorized(policy, {policy.destination.literal})
  ELSE IF answer.kind = "timeout" THEN DialError("resolution-timeout", "resolution", TRUE)
  ELSE IF answer.kind = "failure" THEN DialError("resolution-failed", "resolution", TRUE)
  ELSE LET scan == ResolverScan(answer.records, policy.destination.port)
       IN  IF scan # "ok" THEN DialError(scan, "resolution", FALSE)
           ELSE Authorized(policy, ResolvedAddresses(answer.records))

ValidateAuthorizedDestination(policy, authorized) ==
  /\ ValidatePolicyProvenance(policy) = "ok"
  /\ AuthorizedAddressSetIsValid(policy, AuthorizedOrder(authorized.allowed))

\* Direct, verified, without proxy or redirect, to an address of the set.
ConnectionPlanIsValid(plan) ==
  /\ plan.pin \in plan.allowed
  /\ plan.port > 0
  /\ plan.tls = (plan.scheme = "https")
  /\ ~plan.proxy

ConnectionPlan(policy, authorized) ==
  [pin |-> authorized.pin, allowed |-> authorized.allowed, port |-> policy.destination.port,
   scheme |-> policy.destination.scheme, tls |-> policy.destination.scheme = "https",
   proxy |-> FALSE]

SnapshotPeer(link) == link.peer # NoAddress

Connected(plan, link) ==
  [code |-> "ok", phase |-> "connection", retryable |-> FALSE, pin |-> plan.pin,
   peer |-> <<link.peer, link.port>>, allowed |-> plan.allowed]

\* Mutant of VerifyPeerAndWrap: any peer of the authorized set is good.
VerifyPeerInSet(plan, link) ==
  IF ~SnapshotPeer(link) THEN DialError("peer-invalid", "peer-verification", FALSE)
  ELSE IF link.peer \notin plan.allowed \/ link.port # plan.port
    THEN DialError("peer-mismatch", "peer-verification", FALSE)
  ELSE IF ~ConnectionPlanIsValid(plan) THEN DialError("peer-invalid", "peer-verification", FALSE)
  ELSE Connected(plan, link)

\* The peer the connection really has is the pin, or the stream is closed.
VerifyPeerAndWrap(plan, link) ==
  IF ~SnapshotPeer(link) THEN DialError("peer-invalid", "peer-verification", FALSE)
  ELSE IF link.peer # plan.pin \/ link.port # plan.port
    THEN DialError("peer-mismatch", "peer-verification", FALSE)
  ELSE IF ~ConnectionPlanIsValid(plan) THEN DialError("peer-invalid", "peer-verification", FALSE)
  ELSE Connected(plan, link)

ConnectAuthorized(policy, authorized, link) ==
  IF ~ValidateAuthorizedDestination(policy, authorized)
    THEN DialError("policy-rejected", "connection", FALSE)
  ELSE IF policy.destination.scheme = "https" /\ link.result = "no-tls-context"
    THEN DialError("tls-configuration-failed", "tls-configuration", FALSE)
  ELSE IF link.result = "timeout" THEN DialError("connect-timeout", "connection", TRUE)
  ELSE IF link.result = "tls-error" THEN DialError("tls-failed", "connection", FALSE)
  ELSE IF link.result # "connected" THEN DialError("connection-failed", "connection", TRUE)
  ELSE VerifyPeerAndWrap(ConnectionPlan(policy, authorized), link)

\* dial: resolve and authorize once, then connect to the one pin.
Dial(policy, answer, link) ==
  LET authorized == ResolveAndAuthorize(policy, answer)
  IN  IF authorized.code # "ok" THEN authorized
      ELSE ConnectAuthorized(policy, authorized, link)

-----------------------------------------------------------------------------
(* The nonce challenge: a reply is [size, framing, status, body].          *)

\* Reading stops at the declared length, at end of stream, or at a defect.
ReadChallengeReply(reply) ==
  FirstError(
    <<Gate(reply.size # "over-limit", "response-too-large"),
      Gate(reply.framing \notin {"no-length", "transfer-encoding", "duplicate-length",
                                 "excess", "bad-head"}, "response-malformed")>>)

\* A stream that ended early has no head or less than its declared length.
ParseChallengeReply(reply) == Gate(reply.framing = "exact", "response-malformed")

ValidateChallengeReply(reply) ==
  FirstError(
    <<Gate(reply.status \notin 300 .. 399, "redirect-rejected"),
      Gate(reply.status = 200, "status-rejected"),
      Gate(reply.body # "empty", "challenge-missing"),
      Gate(reply.body = "nonce", "challenge-mismatch")>>)

\* The phase a preflight error reports decides the category of the command.
PreflightCategory(phase) ==
  CASE phase = "policy" -> "invalid_input"
    [] phase \in {"resolution", "connection", "write", "read"} -> "environment_error"
    [] phase = "validation" -> "receiver_failure"
=============================================================================
