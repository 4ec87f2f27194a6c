------------------------ MODULE MCConformanceCommand ------------------------
(***************************************************************************)
(* ConformanceCommand for TLC.  Every invocation shows one part at work:   *)
(* documents and paths, destinations and their challenge, a server that    *)
(* answers badly, the pool, and the reference receivers under two          *)
(* deliveries that race.                                                   *)
(***************************************************************************)
EXTENDS ConformanceCommand

\* Documents.
MCTree ==
  [home |-> "directory", project |-> "directory", secrets |-> "directory", key |-> "file", out |-> "absent", fixtures |-> "directory",
   event |-> "file", shortcut |-> "link", locked |-> "unreadable"]

MCRootChain == <<"home", "project">>

Ref(parts, want) ==
  [parts |-> parts, want |-> want, optional |-> FALSE, lexical |-> "ok", secret |-> FALSE,
   root |-> FALSE]
SecretRoot == [Ref(<<"secrets">>, "directory") EXCEPT !.root = TRUE]
SecretFile(parts) == [Ref(parts, "file") EXCEPT !.secret = TRUE]

SmallPaths ==
  [secret_roots |-> <<>>, artifacts |-> Ref(<<"out">>, "directory"), test_ca |-> <<>>,
   fixtures |-> <<>>, signers |-> <<>>, observers |-> <<>>, lifecycles |-> <<>>]
FullPaths ==
  [SmallPaths EXCEPT
     !.secret_roots = <<SecretRoot>>, !.fixtures = <<Ref(<<"fixtures", "event">>, "file")>>,
     !.signers = <<SecretFile(<<"secrets", "key">>)>>, !.lifecycles = <<Ref(<<>>, "directory")>>]

Node(depth, value) == [depth |-> depth, value |-> value, event |-> "ok", composed |-> "ok"]
Nodes == <<Node(1, TRUE), Node(2, FALSE), Node(2, TRUE), Node(2, FALSE), Node(2, TRUE)>>

NoOverrides ==
  [mapping |-> TRUE, names |-> {}, typed |-> TRUE, output |-> "none", root |-> "none"]

Doc ==
  [source |-> "regular", encoding |-> "utf-8", version |-> "none", directives |-> FALSE,
   nodes |-> Nodes, syntax |-> TRUE, schema |-> "1", mutations |-> {}, model |-> TRUE,
   overrides |-> NoOverrides, paths |-> SmallPaths, bundled |-> FALSE]

BadDocs ==
  {[Doc EXCEPT !.source = x] : x \in {"remote", "missing", "special", "over-limit"}}
  \cup {[Doc EXCEPT !.schema = x] : x \in {"none", "other", "2"}}
  \cup {[Doc EXCEPT !.encoding = "utf-16"], [Doc EXCEPT !.version = "1.1"],
        [Doc EXCEPT !.directives = TRUE], [Doc EXCEPT !.syntax = FALSE],
        [Doc EXCEPT !.mutations = {"invalid-utf8-v1"}], [Doc EXCEPT !.model = FALSE],
        [Doc EXCEPT !.overrides.mapping = FALSE], [Doc EXCEPT !.overrides.names = {"x"}],
        [Doc EXCEPT !.overrides.typed = FALSE], [Doc EXCEPT !.overrides.root = "malformed"]}
  \cup {[Doc EXCEPT !.overrides.output = x] :
          x \in {"empty", "remote", "unc", "backslash", "drive", "absolute", "traversal"}}
  \cup {[Doc EXCEPT !.nodes[3].event = "CFG_YAML_ALIAS"],
        [Doc EXCEPT !.nodes[3].composed = "CFG_YAML_TAG", !.nodes[4].composed = "CFG_YAML_DUPLICATE_KEY"],
        [Doc EXCEPT !.nodes[5].depth = 9],
        [Doc EXCEPT !.nodes = @ \o <<Node(3, TRUE), Node(3, TRUE)>>]}
  \cup {[Doc EXCEPT !.paths.artifacts = r] :
          r \in {Ref(<<"shortcut">>, "directory"), Ref(<<"locked">>, "directory"),
                 Ref(<<"event">>, "directory"), Ref(<<"key", "out">>, "directory"),
                 Ref(<<"out", "event">>, "directory"),
                 [Ref(<<"out">>, "directory") EXCEPT !.lexical = "CFG_PATH_TRAVERSAL"]}}
  \cup {[Doc EXCEPT !.paths.test_ca = <<Ref(<<>>, "file")>>],
        [Doc EXCEPT !.paths.signers = <<SecretFile(<<"fixtures", "event">>)>>],
        [Doc EXCEPT !.paths.test_ca = <<Ref(<<"secrets">>, "file")>>]}

\* Destinations.
Address(version, tables, rank) ==
  [version |-> version, tables |-> tables, rank |-> rank, scoped |-> FALSE]
Loopback == Address(4, {"loopback"}, 1)
Private == Address(4, {"private"}, 2)
Private6 == Address(6, {"private"}, 1)
Web == Address(4, {}, 3)
Metadata == Address(4, {"metadata"}, 4)

Host(form, name, address) == [form |-> form, name |-> name, address |-> address]
Named == Host("dns", "target", NoAddress)
Authority(host, port) ==
  [present |-> TRUE, host |-> host, bracketed |-> host.form = "ipv6", port |-> port,
   userinfo |-> FALSE, percent |-> FALSE]
Url(scheme, host, port) ==
  [clean |-> TRUE, fragment |-> FALSE, absolute |-> TRUE, scheme |-> scheme,
   authority |-> Authority(host, port), agrees |-> TRUE]
NoConsent == [present |-> FALSE, clean |-> TRUE, authority |-> Authority(Named, 443)]
Consent(port) == [NoConsent EXCEPT !.present = TRUE, !.authority = Authority(Named, port)]

LocalReceiver ==
  [url |-> Url("http", Host("ipv4", "127.0.0.1", Loopback), 0), profile |-> "loopback",
   hosts |-> <<>>, ports |-> {80}, challenge |-> "none"]
PrivateReceiver ==
  [url |-> Url("http", Named, 0), profile |-> "private_allowlist", hosts |-> <<Named>>,
   ports |-> {80}, challenge |-> "none"]
PublicReceiver ==
  [url |-> Url("https", Named, 0), profile |-> "public_authorized", hosts |-> <<Named>>,
   ports |-> {443}, challenge |-> "origin-form"]

BadReceivers ==
  {[LocalReceiver EXCEPT !.url.clean = FALSE], [LocalReceiver EXCEPT !.url.fragment = TRUE],
   [LocalReceiver EXCEPT !.url.absolute = FALSE], [LocalReceiver EXCEPT !.url.scheme = "ftp"],
   [LocalReceiver EXCEPT !.url.authority.present = FALSE],
   [LocalReceiver EXCEPT !.url.authority.userinfo = TRUE],
   [LocalReceiver EXCEPT !.url.authority.percent = TRUE],
   [LocalReceiver EXCEPT !.url.authority.bracketed = TRUE],
   [LocalReceiver EXCEPT !.url.authority.port = -1], [LocalReceiver EXCEPT !.url.agrees = FALSE],
   [LocalReceiver EXCEPT !.ports = {8080}],
   [LocalReceiver EXCEPT !.url = Url("http", Host("ipv4", "10.0.0.1", Private), 0)],
   [PrivateReceiver EXCEPT !.hosts = <<>>], [PrivateReceiver EXCEPT !.hosts = <<Named, Named>>]}
  \cup {[LocalReceiver EXCEPT !.url.authority.host.form = x] :
          x \in {"unclean", "numeric", "ambiguous-idna"}}

Record(address, port) == [tcp |-> TRUE, port |-> port, family |-> address.version, address |-> address]
Answer(addresses, port) ==
  [kind |-> "records", records |-> [i \in DOMAIN addresses |-> Record(addresses[i], port)]]
NoAnswer(kind) == [kind |-> kind, records |-> <<>>]
Link(result, peer, port) == [result |-> result, peer |-> peer, port |-> port]

PrivateAnswers ==
  {Answer(<<Private>>, 80), Answer(<<Private6, Private, Private>>, 80), Answer(<<Private, Web>>, 80),
   Answer(<<Metadata>>, 80), Answer(<<>>, 80), Answer(<<Private>>, 81),
   NoAnswer("timeout"), NoAnswer("failure"),
   Answer(<<Private, Private, Private, Private, Private>>, 80)}
PrivateLinks ==
  {Link("connected", Private, 80), Link("connected", Private6, 80), Link("connected", NoAddress, 80),
   Link("connected", Private, 81),
   Link("timeout", NoAddress, 80), Link("refused", NoAddress, 80)}

\* Servers.
Reply(status, framing, declared, body, tail, end) ==
  [interim |-> "none", head |-> "whole", status |-> status, framing |-> framing,
   declared |-> declared, prefix |-> body, body |-> body, tail |-> tail, end |-> end]
Late(reply) == [reply EXCEPT !.prefix = 0]
BadReplies ==
  {Reply(200, "length", 1, 1, "final", "open"), Reply(503, "length", 0, 0, "final", "open"),
   Reply(200, "length", 2, 1, "final", "open"), Reply(200, "length", 2, 1, "final", "closed"),
   Reply(200, "length", 1, 2, "final", "open"), Reply(200, "length", 3, 3, "final", "open"),
   Reply(204, "length", 1, 1, "final", "open"), Reply(204, "length", 0, 0, "final", "open"),
   Reply(200, "close", 0, 1, "final", "closed"), Reply(200, "close", 0, 2, "final", "closed"),
   Reply(500, "close", 0, 1, "final", "reset"), Reply(200, "conflict", 1, 1, "final", "open"),
   Reply(200, "chunked", 0, 2, "final", "open"), Reply(200, "chunked", 0, 3, "final", "open"),
   Reply(200, "chunked", 0, 1, "in-data", "open"), Reply(200, "chunked", 0, 1, "in-line", "open"),
   Reply(200, "chunked", 0, 1, "malformed", "open"),
   Late(Reply(200, "length", 1, 2, "final", "open")), Late(Reply(503, "length", 1, 1, "final", "closed")),
   Late(Reply(204, "length", 0, 1, "final", "open")), Late(Reply(200, "length", 2, 1, "final", "reset")),
   [Reply(200, "length", 1, 1, "final", "open") EXCEPT !.interim = "switching"],
   [Reply(200, "length", 1, 1, "final", "reset") EXCEPT !.head = "partial"],
   [Reply(200, "length", 1, 1, "final", "open") EXCEPT !.head = "malformed"]}

ChallengeReply(status, body) == [size |-> "small", framing |-> "exact", status |-> status, body |-> body]
Exchange(answer, link, fails, reply) == [answer |-> answer, link |-> link, fails |-> fails, reply |-> reply]
WebAnswer == Answer(<<Web>>, 443)
WebLink == Link("connected", Web, 443)
Nonce == ChallengeReply(200, "nonce")
Challenges ==
  {Exchange(WebAnswer, WebLink, "none", r) :
     r \in {Nonce, ChallengeReply(302, "nonce"), ChallengeReply(404, "nonce"),
            ChallengeReply(200, "empty"), ChallengeReply(200, "other"),
            [Nonce EXCEPT !.size = "over-limit"], [Nonce EXCEPT !.framing = "no-length"],
            [Nonce EXCEPT !.framing = "short"]}}
  \cup {Exchange(WebAnswer, WebLink, x, Nonce) : x \in {"write", "read"}}
  \cup {Exchange(Answer(<<Private>>, 443), WebLink, "none", Nonce),
        Exchange(WebAnswer, Link("no-tls-context", NoAddress, 443), "none", Nonce),
        Exchange(WebAnswer, Link("tls-error", NoAddress, 443), "none", Nonce)}

\* Requests to the reference receivers.
Signature(body, event) ==
  [headers |-> "single", age |-> 0, key |-> "k1", over |-> body, id |-> event]
Request(event, type) ==
  [route |-> "webhook", profile |-> "generic_hmac_sha256", account |-> "acct", signature |-> Signature("canonical", event),
   body |-> "canonical", event |-> event, type |-> type, order |-> "o1", digest |-> event]
Pay == Request("pay", "payment.succeeded")
Refund == Request("refund", "payment.refunded")
WireCommand == [size |-> "small", headers |-> <<[name |-> "content-type", owner |-> "user"]>>,
                target |-> "origin-form"]
To(request) == [wire |-> WireCommand, request |-> request]

Base ==
  [doc |-> Doc, platform |-> "posix", receiver |-> LocalReceiver, consent |-> NoConsent,
   secrets |-> {"env"}, pool |-> 2, requests |-> [a \in {"a1"} |-> To(Pay)], server |-> "reference",
   variant |-> "correct", database |-> EmptyDatabase, answers |-> {NoAnswer("failure")},
   links |-> {Link("connected", Loopback, 80)}, replies |-> {}, challenges |-> {}]
Both(r1, r2) == [a \in {"a1", "a2"} |-> IF a = "a1" THEN To(r1) ELSE To(r2)]

Given(kind, bundled, project) == [kind |-> kind, bundled |-> bundled, project |-> project]

Pair(kind, r1, r2, database) ==
  Given("run", FALSE, [Base EXCEPT !.requests = Both(r1, r2), !.variant = kind, !.database = database])

PrivateBase ==
  [Base EXCEPT !.receiver = PrivateReceiver, !.server = "other", !.answers = PrivateAnswers,
               !.links = PrivateLinks, !.replies = BadReplies]
PublicBase ==
  [Base EXCEPT !.receiver = PublicReceiver, !.consent = Consent(443), !.server = "other",
               !.answers = {WebAnswer, Answer(<<Web, Private>>, 443)}, !.links = {WebLink},
               !.replies = {Reply(200, "length", 1, 1, "final", "open")}, !.challenges = Challenges]

Loads ==
  {Given("validate", FALSE, [Base EXCEPT !.doc = d]) : d \in BadDocs}
  \cup {Given("validate", FALSE, [Base EXCEPT !.doc.paths = FullPaths, !.platform = x]) :
          x \in {"posix", "windows"}}
  \cup {Given("plan", FALSE, [Base EXCEPT !.doc.overrides.output = "relative", !.secrets = x]) :
          x \in {{"env"}, {"env", "unresolvable"}}}

Targets ==
  {Given("run", FALSE, [Base EXCEPT !.receiver = r]) : r \in BadReceivers}
  \cup {Given("run", FALSE, [Base EXCEPT !.consent = Consent(80)]),
        Given("run", FALSE, PrivateBase),
        Given("run", FALSE, PublicBase),
        Given("replay", TRUE, PublicBase),
        Given("resume", TRUE, PublicBase),
        Given("run", TRUE, [PublicBase EXCEPT !.consent = Consent(444)]),
        Given("run", FALSE, [PublicBase EXCEPT !.receiver.challenge = "none"]),
        Given("resume", TRUE, [PublicBase EXCEPT !.receiver.url.scheme = "http",
                                                 !.receiver.ports = {80, 443}]),
        Given("resume", TRUE, [Base EXCEPT !.receiver.ports = {8080}])}
  \cup {Given("run", FALSE, [Base EXCEPT !.requests = [a \in {"a1"} |-> [To(Pay) EXCEPT !.wire = w]]]) :
          w \in {[WireCommand EXCEPT !.size = "over-limit"], [WireCommand EXCEPT !.target = "absolute"],
                 [WireCommand EXCEPT !.headers = @ \o @],
                 [WireCommand EXCEPT !.headers[1].name = "host"],
                 [WireCommand EXCEPT !.headers[1].name = "user-agent"]}}

\* The payment was delivered by an earlier run.
Paid == Process(InsertInbox(EmptyDatabase, Pay), Pay)
Races ==
  {Pair("correct", Pay, Pay, EmptyDatabase),
   Pair("correct", Pay, Refund, EmptyDatabase),
   Pair("correct", Pay, [Pay EXCEPT !.digest = "other"], EmptyDatabase),
   Pair("check-then-insert-race", Pay, Pay, EmptyDatabase),
   Pair("crash-after-effect-before-ack", Pay, Pay, EmptyDatabase),
   Pair("acknowledge-before-commit", Pay, Refund, EmptyDatabase),
   Given("resume", TRUE, [Base EXCEPT !.pool = 1, !.requests = Both(Pay, Pay)])}
  \cup {Given("run", FALSE, [Base EXCEPT !.requests = [a \in {"a1"} |-> To(r)], !.variant = x,
                                         !.database = d]) :
          r \in {Pay, Refund, [Pay EXCEPT !.signature.age = 600], [Pay EXCEPT !.signature.headers = "repeated"],
                 [Pay EXCEPT !.route = "other"], [Pay EXCEPT !.route = "malformed"],
                 [Pay EXCEPT !.profile = "standard_webhooks", !.signature.key = "k0"],
                 [Pay EXCEPT !.body = "spaced"], [Pay EXCEPT !.profile = "stripe_v1", !.signature.headers = "rotated"]},
          x \in {"crash-after-effect-before-ack", "no-idempotency-record",
                 "side-effect-before-deduplication", "order-assuming", "signature-after-parse",
                 "stale-signature-accepting"},
          d \in {EmptyDatabase, Paid}}

\* A server whose answer stops behind its head.
MCBodyTimeout ==
  {Given("run", FALSE, [PrivateBase EXCEPT !.answers = {Answer(<<Private>>, 80)},
                                           !.links = {Link("connected", Private, 80)},
                                           !.replies = {Reply(200, "length", 2, 1, "final", "open")}])}

MCInvocations == Loads \cup Targets \cup Races
MCReportPaths == <<"assertions.jsonl", "result-summary.json">>
=============================================================================
