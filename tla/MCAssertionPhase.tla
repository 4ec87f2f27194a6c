-------------------------- MODULE MCAssertionPhase --------------------------
(* Instances of AssertionPhase: an observer assertion of every kind in one   *)
(* scenario, a transport assertion over several attempts in another.         *)
EXTENDS AssertionPhase

ObserverConfigs ==
  [kind : {"state"}, within : BOOLEAN, skip : {FALSE}]
  \cup [kind : {"composite"}, within : {TRUE}, skip : {FALSE}]
  \cup [kind : {"eventual"}, within : {TRUE}, skip : {TRUE}]

\* A status assertion over an attempt without a response, one with another status
\* and an accepted one; and a deadline assertion over an attempt answered in time.
Retried ==
  [kind |-> "transport", deadline |-> FALSE, replies |-> <<"missing", "unexpected", "expected">>]
Timely == [kind |-> "transport", deadline |-> TRUE, replies |-> <<"expected">>]

Eventual == [kind |-> "eventual", within |-> TRUE, skip |-> FALSE]
Field == [kind |-> "state", within |-> FALSE, skip |-> FALSE]

MCPlans == {<<<<o>>, <<Retried>>>> : o \in ObserverConfigs} \cup {<<<<Eventual>>, <<Timely>>>>}
MCEventualPlan == {<<<<Eventual>>, <<Timely>>>>}
MCFieldPlan == {<<<<Field>>, <<Timely>>>>}

\* Every delivery accepted, one of them ambiguous, or one of them rejected.
MCDeliveries ==
  {<<"pass", "pass">>, <<"ambiguous", "pass">>, <<"pass", "ambiguous">>,
   <<"pass", "receiver_failure">>}
=============================================================================
