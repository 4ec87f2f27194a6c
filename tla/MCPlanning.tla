----------------------------- MODULE MCPlanning -----------------------------
(***************************************************************************)
(* Small projects: every mutation list of length two over a pool that has  *)
(* each operator, every dependency graph of three events, every baseline   *)
(* graph of three scenarios, step lists of length three, retries, and two  *)
(* plan commands that share a directory.                                   *)
(***************************************************************************)
EXTENDS Planning

Null == <<"null", "null">>
Doc == (<<>> :> <<"object", "">>) @@ (<<"id">> :> <<"string", "e">>)
         @@ (<<"type">> :> <<"string", "t">>) @@ (<<"a">> :> <<"array", "">>)
         @@ (<<"a", "0">> :> <<"integer", "0">>)

\* Contents with and without the members the pool names, short and long.
Member(name, node) == <<name>> :> node
Root == <<>> :> <<"object", "">>
Id == Member("id", <<"string", "e">>)
Type == Member("type", <<"string", "t">>)
Contents ==
  {Doc, Root, Root @@ Id, Root @@ Type, Root @@ Id @@ Type, Root @@ Member("a", Null),
   Root @@ Id @@ Type @@ Member("a", <<"object", "">>),
   Doc @@ Member("c", Null) @@ Member("d", Null)}

Fixture(media) ==
  [id |-> "f", media |-> media, doc |-> Doc, idPointer |-> <<"id">>,
   typePointer |-> <<"type">>]

Signer(profile, header, count) ==
  [profile |-> profile, header |-> header, keys |-> [i \in 1..count |-> <<"k", i>>]]
Signers ==
  ("generic" :> Signer(GenericHmac, "x-signature", 1))
    @@ ("stripe" :> Signer(StripeV1, "stripe-signature", 2))
    @@ ("standard" :> Signer(StandardWebhooks, "webhook-signature", 1))
    @@ ("reserved" :> Signer(GenericHmac, "content-type", 1))
    @@ ("twice" :> Signer(StandardWebhooks, "webhook-id", 1))

NoRetry == [maxAttempts |-> 1, backoff |-> <<>>, jitter |-> 0, retryOn |-> {}]
Deliver(event, count, signer, group, mutations, retry) ==
  [kind |-> "deliver", event |-> event, count |-> count, signer |-> signer,
   group |-> group, mutations |-> mutations, retry |-> retry]
Wait(ticks) == [kind |-> "wait", ticks |-> ticks]
Event(id, dependsOn) == [id |-> id, fixture |-> "f", dependsOn |-> dependsOn]
Scenario(id, events, steps, baselines) ==
  [id |-> id, description |-> FALSE, events |-> events, steps |-> steps,
   baselines |-> baselines, assertions |-> <<[id |-> "a", kind |-> "attempt", event |-> "e1"]>>]
Project(media, scenarios) ==
  [fixtures |-> <<Fixture(media)>>, signers |-> Signers, observers |-> {"o"},
   lifecycles |-> ("l" :> [enabled |-> TRUE, observer |-> "o"]), maxEvents |-> 9,
   maxAttempts |-> 9, maxRequestBytes |-> 7, userHeaders |-> {}, scenarios |-> scenarios]

Session(configs, validated, fresh, route, answers) ==
  [configs |-> configs, validated |-> validated, fresh |-> fresh, route |-> route,
   answers |-> answers]
Single(project) == Session("p1" :> project, TRUE, project, "run", {"accepted"})
One(steps, media) == Project(media, <<Scenario("s1", <<Event("e1", <<>>)>>, steps, <<>>)>>)

-----------------------------------------------------------------------------
(* Mutation lists.                                                          *)

Structural(type, pointer, accept, more) ==
  [type |-> type, pointer |-> pointer, acceptPrior |-> accept] @@ more
Pool ==
  {Structural("remove-json-pointer-v1", <<"a">>, TRUE, [ifMissing |-> "error"]),
   Structural("remove-json-pointer-v1", <<"a", "0">>, TRUE, [ifMissing |-> "ignore"]),
   Structural("remove-json-pointer-v1", <<"a", "x">>, FALSE, [ifMissing |-> "ignore"]),
   Structural("replace-json-value-v1", <<"a">>, FALSE, [value |-> Null]),
   Structural("replace-json-type-v1", <<"type">>, TRUE, [targetType |-> "null"]),
   Structural("add-json-field-v1", <<>>, TRUE, [name |-> "id", value |-> Null,
                                               overwrite |-> TRUE]),
   Structural("add-json-field-v1", <<>>, TRUE, [name |-> "b", value |-> Null,
                                               overwrite |-> FALSE]),
   Structural("change-event-id-field-v1", <<>>, FALSE, [value |-> <<"string", "z">>]),
   Structural("change-event-type-field-v1", <<>>, TRUE, [value |-> <<"string", "z">>]),
   [type |-> "truncate-bytes-v1", length |-> 3],
   [type |-> "truncate-bytes-v1", length |-> 0],
   [type |-> "invalid-json-v1", strategy |-> "dangling"],
   [type |-> "oversized-body-v1", targetBytes |-> 7],
   [type |-> "oversized-body-v1", targetBytes |-> 3],
   [type |-> "content-type-mismatch-v1", mediaType |-> "text/plain"],
   [type |-> "stale-signature-timestamp-v1", age |-> 1],
   [type |-> "stale-signature-timestamp-v1", age |-> 3],
   [type |-> "wrong-signing-key-v1", context |-> "w"],
   [type |-> "missing-signature-v1"],
   [type |-> "malformed-signature-v1"],
   [type |-> "alter-after-signing-v1", offset |-> 0, xor |-> {1}],
   [type |-> "alter-after-signing-v1", offset |-> 2, xor |-> {1, 2}]}

\* Lists of up to two operators, and pairs around a third of the signing stages.
Lists ==
  {<<>>} \cup {<<m>> : m \in Pool} \cup {<<m, n>> : m, n \in Pool}
    \cup {<<m, n, o>> : m \in {k \in Pool : StageRank(k.type) \in 1..3},
                        n \in {k \in Pool : StageRank(k.type) = 4},
                        o \in {k \in Pool : StageRank(k.type) \in 4..5}}

\* Two fault classes need a baseline scenario each: the first operator of a type.
FirstOfType(ms) == SelectSeq([i \in DOMAIN ms |-> i],
                             LAMBDA i : \A j \in 1..(i - 1) : ms[j].type # ms[i].type)
WithBaselines(signer, ms) ==
  LET firsts == FirstOfType(ms)
      steps(list) == <<Wait(2), Deliver("e1", 1, signer, "none", list, NoRetry)>>
      ids == <<"b1", "b2", "b3">>
      Sc(id, list, refs) == Scenario(id, <<Event("e1", <<>>)>>, steps(list), refs)
  IN IF Len(firsts) < 2 THEN <<Sc("s1", ms, <<>>)>>
     ELSE <<Sc("s1", ms, [k \in DOMAIN firsts |->
                            [fault |-> ms[firsts[k]].type, scenario |-> ids[k]]])>>
          \o [k \in DOMAIN firsts |-> Sc(ids[k], <<ms[firsts[k]]>>, <<>>)]

MutationSessions ==
  {Single(Project("application/json", WithBaselines(signer, ms))) :
     signer \in {"none", "generic", "stripe", "standard"}, ms \in Lists}
  \cup {Single(One(<<Deliver("e1", 1, signer, "none", <<m>>, NoRetry)>>, media)) :
          signer \in {"reserved", "twice", "unknown", "generic"}, m \in Pool,
          media \in {"application/json", "text/plain"}}

-----------------------------------------------------------------------------
(* Graphs, steps and retries.                                               *)

EventNames == <<"e1", "e2", "e3">>
Edges == {SelectSeq(EventNames, LAMBDA n : n \in S) : S \in SUBSET SetOf(EventNames)}
DependencySessions ==
  {Single(Project("application/json",
     <<Scenario("s1", [i \in 1..3 |-> Event(EventNames[i], edges[i])],
                [i \in 1..3 |-> Deliver(EventNames[i], 1, "none", "none", <<>>, NoRetry)],
                <<>>)>>)) :
   edges \in [1..3 -> Edges]}

\* Each scenario has one fault, a repeated delivery, and at most one baseline.
BaselineSessions ==
  {Single(Project("application/json",
     [i \in 1..3 |->
        Scenario(<<"s1", "s2", "s3">>[i], <<Event("e1", <<>>)>>,
                 <<Deliver("e1", 2, "none", "none", <<>>, NoRetry)>>,
                 IF refs[i] = "none" THEN <<>>
                 ELSE <<[fault |-> "delivery_duplicate", scenario |-> refs[i]]>>)])) :
   refs \in [1..3 -> {"none", "s1", "s2", "s3", "s4"}]}

StepPool ==
  {Deliver("e1", 1, "generic", "g", <<>>, NoRetry), Deliver("e1", 2, "none", "g", <<>>, NoRetry),
   Deliver("e1", 1, "stripe", "none", <<>>, NoRetry), Deliver("e2", 1, "none", "none", <<>>, NoRetry),
   [kind |-> "barrier", group |-> "g"], Wait(3),
   [kind |-> "observe", observer |-> "o"], [kind |-> "restart", lifecycle |-> "l"]}
StepSessions ==
  {Single(One(steps, "application/json")) : steps \in [1..3 -> StepPool]}

RetryPolicy(n, jitter) ==
  [maxAttempts |-> n, backoff |-> [k \in 1..(n - 1) |-> 1], jitter |-> jitter,
   retryOn |-> IF n = 1 THEN {} ELSE {"timed_out"}]
Stale == <<[type |-> "stale-signature-timestamp-v1", age |-> 1]>>

\* Retries, a stale signature and a repeated delivery, with their baselines.
RetryScenarios(ms, n, count, jitter) ==
  LET Sc(id, m, k, c, j, refs) ==
        Scenario(id, <<Event("e1", <<>>)>>,
                 <<Wait(2), Deliver("e1", c, "stripe", "none", m, RetryPolicy(k, j))>>, refs)
      parts == (IF ms = <<>> THEN <<>>
                ELSE <<[fault |-> "stale-signature-timestamp-v1", scenario |-> "b1"]>>)
               \o (IF n = 1 THEN <<>> ELSE <<[fault |-> "timed_out", scenario |-> "b2"]>>)
               \o (IF count = 1 THEN <<>>
                   ELSE <<[fault |-> "delivery_duplicate", scenario |-> "b3"]>>)
      base == ("b1" :> Sc("b1", ms, 1, 1, 0, <<>>)) @@ ("b2" :> Sc("b2", <<>>, n, 1, 0, <<>>))
                @@ ("b3" :> Sc("b3", <<>>, 1, 2, 0, <<>>))
  IN IF Len(parts) < 2 THEN <<Sc("s1", ms, n, count, jitter, <<>>)>>
     ELSE <<Sc("s1", ms, n, count, jitter, parts)>>
            \o [k \in DOMAIN parts |-> base[parts[k].scenario]]

RetrySessions ==
  {Session("p1" :> project, TRUE, project, "run", answers) :
   <<project, answers>> \in
     {<<Project("application/json", RetryScenarios(ms, n, count, jitter)),
        IF ms = <<>> /\ count = 1
          THEN {"accepted", "timed_out", "retryable_status", "ambiguous"}
          ELSE {"accepted", "timed_out"}>> :
        ms \in {<<>>, Stale}, n \in 1..3, count \in 1..2, jitter \in 0..1}}

-----------------------------------------------------------------------------
(* Two plan commands and a replay; commands that do not validate.           *)

Variant(signer, ticks) ==
  Scenario("s1", <<Event("e1", <<>>)>>,
           <<Wait(ticks), Deliver("e1", 1, signer, "none",
                                  <<[type |-> "truncate-bytes-v1", length |-> 3]>>, NoRetry)>>,
           <<>>)
Second ==
  Scenario("s2", <<Event("e1", <<>>)>>, <<Deliver("e1", 1, "none", "none", <<>>, NoRetry)>>, <<>>)
Variants ==
  {Project("application/json", scenarios) :
     scenarios \in {<<Variant("generic", 0)>>, <<Variant("standard", 0)>>,
                    <<Variant("generic", 1)>>, <<Variant("generic", 0), Second>>}}

SharedSessions ==
  {Session(("p1" :> a) @@ ("p2" :> b), FALSE, fresh, "replay", {"accepted"}) :
     a, b, fresh \in Variants}

UncheckedSessions ==
  {Session("p1" :> s.fresh, FALSE, s.fresh, "run", {"accepted"}) :
     s \in StepSessions \cup BaselineSessions}

AllSessions ==
  MutationSessions \cup DependencySessions \cup BaselineSessions \cup StepSessions
    \cup RetrySessions \cup {s \in SharedSessions : s.fresh \in {s.configs["p1"], s.configs["p2"]}}
    \cup UncheckedSessions

\* The jitter may exceed the backoff.
JitterSessions ==
  {Session("p1" :> project, TRUE, project, "run", {"timed_out"}) :
   project \in
     {One(<<Wait(2),
            Deliver("e1", 1, "stripe", "none", <<>>,
                    [maxAttempts |-> 2, backoff |-> <<1>>, jitter |-> jitter,
                     retryOn |-> {"timed_out"}])>>, "application/json") :
        jitter \in 0..2}}
=============================================================================
