---------------------------- MODULE TrafficPolicy ----------------------------
(***************************************************************************)
(* What the rules of a service make of one request: traffic security,      *)
(* mirroring and mocking (traffic/policy/default.rs), and the rate limits  *)
(* that apply with the keys of their counters (traffic/ratelimit/          *)
(* default.rs).  All of it is a function of the request and of the rules,  *)
(* by the matching of TrafficMatch.                                        *)
(*                                                                         *)
(* Besides what TrafficMatch asks for, a request has a .name, the .caller  *)
(* service, the .identity of an authenticated caller, and .credential: is  *)
(* the digest of its header the one a rule asks for?                       *)
(***************************************************************************)
EXTENDS TrafficMatch

CONSTANT Digest  \* Digest[name][salt]: the hash of a request, modulo 100

\* The rules under the orders the index gives.
Matching(req, rules) ==
    LET found == Candidates([o \in DOMAIN rules |-> rules[o].apis], req)
    IN  [n \in DOMAIN found |-> rules[found[n]]]

-----------------------------------------------------------------------------
(* Security                                                                *)

\* security_rule_authenticated; "malformed" is any authentication whose mode
\* is unknown or does not go with what it declares.
Authenticated(req, auth) ==
    \/ auth \in {"absent", "legacy"}
    \/ auth = "managed" /\ req.identity # None
    \/ auth = "header" /\ req.credential

\* managed_caller_matches.
CallerAccepted(req, policy) ==
    req.identity # None /\ (policy.callers = {"any"} \/ req.identity \in policy.callers)

\* evaluate_security for one rule: what it decides, or "pass" to the next.
Decision(req, rule) ==
    LET found == Matching(req, rule.policies)
        hits == SelectSeq(found, LAMBDA p : /\ rule.auth = "managed" => CallerAccepted(req, p)
                                            /\ TrafficMatches(req, p.traffic))
    IN  CASE found = <<>> -> "pass"
          [] found # <<>> /\ ~Authenticated(req, rule.auth) -> "deny"
          [] found # <<>> /\ Authenticated(req, rule.auth) /\ hits # <<>> -> Head(hits).action
          [] OTHER -> IF rule.auth = "managed" THEN "deny" ELSE "pass"

\* evaluate_security: the first rule that decides.
Allowed(req, rules) ==
    LET sorted == ByPriority(Enabled(rules))
        decided == SelectSeq([n \in DOMAIN sorted |-> Decision(req, sorted[n])], LAMBDA d : d # "pass")
    IN  decided = <<>> \/ Head(decided) = "allow"

-----------------------------------------------------------------------------
(* Mirrors and mocks                                                       *)

\* source_service_matches.
SourceMatches(req, source) == source \in {"unset", "*", req.caller}

\* traffic_sample_hit.
Sampled(req, percent, salt) == percent # 0 /\ (percent >= 100 \/ Digest[req.name][salt] < percent)

\* The rules of the callers of a request, in order: evaluate_mirrors and
\* evaluate_mock up to the index.
Offered(req, rules) ==
    LET sorted == ByPriority(Enabled(rules))
    IN  FlattenSeq([n \in DOMAIN sorted |->
            IF SourceMatches(req, sorted[n].caller)
            THEN SelectSeq(sorted[n].rules, LAMBDA r : ~r.disable /\ r.percent # 0)
            ELSE <<>>])

\* Those that hit: with something to do, and in the sample.
Hit(req, rules) ==
    SelectSeq(Matching(req, Offered(req, rules)),
              LAMBDA r : TrafficMatches(req, r.traffic) /\ r.does # None /\ Sampled(req, r.percent, r.does))

\* evaluate_mirrors: all destinations.
Mirrors(req, rules) == LET hit == Hit(req, rules) IN [n \in DOMAIN hit |-> hit[n].does]

\* evaluate_mock: the first response.
Mock(req, rules) == LET hit == Hit(req, rules) IN IF hit = <<>> THEN None ELSE Head(hit).does

-----------------------------------------------------------------------------
(* Rate limits                                                             *)

Limited == {"QPS", "TOKEN", "CONCURRENCY"}

\* matching_quota_triggers: a request of a service has a method of its own,
\* which the index takes; .method is what its labels say.
Triggers(req, rules) ==
    LET sorted == ByPriority(SelectSeq(rules, LAMBDA r : ~r.disable /\ r.type \in {"LOCAL", "GLOBAL"}))
        usable(rule) == SelectSeq(rule.triggers, LAMBDA t : ~t.disable /\ t.resource \in Limited)
    IN  SelectSeq(Matching([req EXCEPT !.method = req.api], FlattenSeq([n \in DOMAIN sorted |-> usable(sorted[n])])),
                  LAMBDA t : \A a \in t.arguments : ArgumentMatches(req, a))

\* reserve: the first of each resource.
Selected(req, rules, resource) ==
    LET found == SelectSeq(Triggers(req, rules), LAMBDA t : t.resource = resource)
    IN  IF found = <<>> THEN None ELSE Head(found).name

Text(value) == IF value = None THEN "" ELSE value

\* remote_quota_labels: the key of a counter of the rate limit server, its
\* arguments sorted; a label that is missing is written as an empty one.  METHOD
\* and CALLER_IP go without their key, and METHOD is always the method of the
\* request, whatever label its key has.
Written(a) == [type |-> a.type, key |-> IF a.type \in {"METHOD", "CALLER_IP"} THEN "" ELSE a.key]
RemoteValue(req, a) == IF a.type = "METHOD" THEN req.api ELSE Text(ActualValue(req, a))
RemoteLabels(req, t) ==
    [api |-> req.api, resource |-> t.resource,
     arguments |-> {[name |-> Written(a), value |-> RemoteValue(req, a)] : a \in {b \in t.arguments : b.match # Unset}}]

\* quota_counter_key, concurrency_counter_key, request_parameter_dimension_suffix.
CounterKey(req, t) ==
    [callee |-> req.callee, api |-> req.api, trigger |-> t.name,
     collected |-> {[key |-> a.key, value |-> req.labels[a.key]] :
                       a \in {b \in t.arguments : b.match # Unset /\ b.match.param = "collects" /\ req.labels[b.key] # None}}]

-----------------------------------------------------------------------------
(* Properties                                                              *)

\* A limit writes each of its arguments under a name of its own.
AsksOnce(t) == \A a, b \in t.arguments : Written(a) = Written(b) => a = b

\* The labels of a request call its method what the request itself calls it.
MethodTold(req, t) ==
    \A a \in t.arguments : a.type = "METHOD" /\ a.match # Unset => ActualValue(req, a) = req.api

\* What the labels leave out does not matter to the choice of a limit: of the
\* requests that one counter of the server counts, the limit is chosen for all
\* or for none.  And a counter of the server is never several of this process.
\* That is where the limit writes no two arguments under one name (as it does
\* with two addresses of the caller), asks for no path, labels are not empty, and
\* the METHOD label, which decides the choice, is the method of the request, which
\* is what the server is told: with another one neither half holds.
LabelsDecide(requests, triggers) ==
    \A t \in triggers, r \in requests, q \in requests :
        LET chosen(x) == Selected(x, <<[priority |-> 0, disable |-> FALSE, type |-> "GLOBAL", triggers |-> <<t>>]>>,
                                  t.resource) = t.name
        IN  AsksOnce(t) /\ MethodTold(r, t) /\ MethodTold(q, t) /\ RemoteLabels(r, t) = RemoteLabels(q, t) =>
                /\ chosen(r) <=> chosen(q)
                /\ r.callee = q.callee => CounterKey(r, t) = CounterKey(q, t)
=============================================================================
