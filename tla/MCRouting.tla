------------------------------ MODULE MCRouting ------------------------------
(* Two callers of the services "s" and "t"; the rules of "s" and of their own *)
(* service "me" change once.                                                 *)
EXTENDS Routing, TLC

CONSTANTS c1, c2

MCCallers == {c1, c2}
Symmetric == Permutations(MCCallers)

-----------------------------------------------------------------------------
(* Values                                                                    *)

Exactly(v) == [all |-> FALSE, kind |-> "EXACT", value |-> {v}, param |-> "text"]
Not(v) == [all |-> FALSE, kind |-> "NOT_EQUALS", value |-> {v}, param |-> "text"]
Star == [all |-> TRUE, kind |-> "EXACT", value |-> {"*"}, param |-> "text"]
Collect == [all |-> FALSE, kind |-> "EXACT", value |-> {""}, param |-> "collects"]
Names(k) == [all |-> FALSE, kind |-> "EXACT", value |-> {k}, param |-> "names", key |-> k]

Arg(k, m) == [key |-> k, match |-> m]
Traffic(arguments) == [percent |-> 100, mode |-> "AND", arguments |-> arguments]
Pair(k, v) == [key |-> k, value |-> v]
Api(method, path) == [method |-> method, path |-> path]

-----------------------------------------------------------------------------
(* Instances                                                                 *)

Instance(service, weight, health, metadata, zone) ==
    [service |-> service, weight |-> weight, health |-> health, isolated |-> FALSE, metadata |-> metadata,
     protocol |-> "",
     location |-> [campus |-> "", zone |-> zone, region |-> "r1"]]

MCInstances ==
    "a" :> Instance("s", 1, TRUE, {Pair("v", "1"), Pair("lane", "gray")}, "z2")
    @@ "b" :> Instance("s", 2, TRUE, {Pair("v", "2")}, "z1")
    @@ "c" :> Instance("s", 1, FALSE, {Pair("v", "1")}, "z1")
    @@ "d" :> Instance("t", 1, TRUE, {}, "z1")
    @@ "e" :> Instance("u", 0, TRUE, {Pair("v", "1")}, "z1")
    @@ "f" :> [Instance("u", 1, TRUE, {Pair("v", "2")}, "z1") EXCEPT !.protocol = "grpc"]
    @@ "g" :> Instance("u", 1, TRUE, {Pair("v", "1")}, "z2")

MCLists == "s" :> <<"c", "a", "b">> @@ "t" :> <<"d">> @@ "u" :> <<"e", "f", "g">>
MCLocation == [campus |-> "", zone |-> "z1", region |-> "r1"]
MCPoints == "a" :> {2, 7} @@ "b" :> {3, 5} @@ "c" :> {4} @@ "d" :> {6} @@ "e" :> {} @@ "f" :> {} @@ "g" :> {}
MCHashOf == "h1" :> 1 @@ "h2" :> 6

-----------------------------------------------------------------------------
(* Rules                                                                     *)

Group(priority, isolate, labels) ==
    [service |-> "s", labels |-> labels, isolate |-> isolate, priority |-> priority]
Route(arguments, destinations) == [arguments |-> arguments, destinations |-> destinations]
RouteRule(priority, enable, rules) == [enable |-> enable, priority |-> priority, rules |-> rules]

LabelIs(k, m) == [key |-> k, match |-> m]

\* Copies go to version 1 of "u".
MCShadows == [shadow |-> [service |-> "u", labels |-> {LabelIs("v", Exactly("1"))}]]

\* Of the callee: group 1 is isolated and group 2 takes the user's version.
ByVersion == Route(Traffic({Arg("v", Collect)}),
                   <<Group(0, TRUE, {LabelIs("v", Exactly("2"))}), Group(1, FALSE, {LabelIs("v", Collect)})>>)
\* Of the caller: everything to what is not version 1.
NotFirst == Route(Unset, <<Group(0, FALSE, {LabelIs("v", Not("1"))})>>)
First == Route(Unset, <<Group(0, FALSE, {LabelIs("v", Exactly("1"))})>>)

Policy(action) == [apis |-> {Api("GET", Exactly("/x"))}, action |-> action, callers |-> {}, traffic |-> Unset]
Security(auth, priority, policies) == [enable |-> TRUE, priority |-> priority, auth |-> auth, policies |-> policies]

Does(what) == [apis |-> {Api("", Exactly("/x"))}, disable |-> FALSE, percent |-> 100, traffic |-> Unset, does |-> what]
Offer(rules) == [enable |-> TRUE, priority |-> 0, caller |-> "*", rules |-> rules]

LaneRule(priority, label, mode, arguments) ==
    [enable |-> TRUE, priority |-> priority, key |-> "", label |-> label, mode |-> mode, traffic |-> Traffic(arguments)]

NoRules == [security |-> <<>>, mirror |-> <<>>, mock |-> <<>>, route |-> <<>>, lane |-> <<>>]

MCRules ==
    <<"s" :> [security |-> <<Security("header", 1, <<Policy("allow")>>)>>,
              mirror |-> <<Offer(<<Does("shadow")>>)>>,
              mock |-> <<>>,
              route |-> <<RouteRule(1, TRUE, <<ByVersion>>), RouteRule(0, FALSE, <<NotFirst>>)>>,
              lane |-> <<<<LaneRule(1, "gray", "strict", {Arg("user", Exactly("u1"))})>>>>]
      @@ "t" :> NoRules
      @@ "me" :> [NoRules EXCEPT !.route = <<RouteRule(0, TRUE, <<NotFirst>>)>>],
      "s" :> [security |-> <<>>,
              mirror |-> <<>>,
              mock |-> <<Offer(<<Does("mocked")>>)>>,
              route |-> <<>>,
              lane |-> <<<<LaneRule(1, "none", "permissive", {Arg("user", Exactly("u1"))})>>>>]
      @@ "t" :> NoRules
      @@ "me" :> [NoRules EXCEPT !.route = <<RouteRule(0, TRUE, <<First>>)>>]>>

MCLoaded == [before |-> {"metadata", "health"}, core |-> {"rule", "lane"}, after |-> {"nearby", "health"}]

Nearby(degrade) == [match |-> "", max |-> "", strict |-> FALSE, degrade |-> degrade, percent |-> 50]
MCConfigs == {[failover |-> f, nearby |-> Nearby(f = "none")] : f \in {"all", "none"}}

-----------------------------------------------------------------------------
(* Requests                                                                  *)

Chain3(before, core, after) == [before |-> before, core |-> core, after |-> after]

Base == [name |-> "q", method |-> "POST", path |-> "/y", labels |-> [v |-> "1", user |-> "u2"],
         caller |-> "me", callee |-> "s", identity |-> None, credential |-> FALSE, api |-> "POST",
         through |-> "get_one", mirror |-> FALSE, chain |-> Chain3(<<>>, <<"rule">>, <<"nearby">>),
         metadata |-> {}, failover |-> "none", balancer |-> "weightedRandom", hash |-> "h2"]

Whole == [Base EXCEPT !.through = "router", !.mirror = TRUE, !.path = "/x", !.method = "GET",
                        !.chain = Chain3(<<>>, <<>>, <<"nearby", "health">>)]

MCRequests ==
    {[Base EXCEPT !.labels = [v |-> "3", user |-> "u1"]],
     [Base EXCEPT !.labels = [v |-> "2", user |-> "u1"], !.chain = Chain3(<<"health">>, <<"rule", "lane">>, <<>>)],
     [Base EXCEPT !.chain = Chain3(<<>>, <<"lane", "unknown">>, <<>>), !.balancer = "ringHash"],
     [Base EXCEPT !.balancer = "ringHash"],
     [Base EXCEPT !.callee = "t", !.chain = Chain3(<<>>, <<>>, <<>>), !.balancer = "ringHash", !.hash = "h1"],
     [Base EXCEPT !.chain = Chain3(<<"metadata">>, <<>>, <<>>), !.balancer = "unknown", !.failover = "nokey"],
     Whole,
     [Whole EXCEPT !.credential = TRUE, !.chain = Chain3(<<"metadata">>, <<"lane", "rule">>, <<"nearby", "health">>),
                   !.metadata = {Pair("v", "1")}]}

MCDigest == [q |-> [shadow |-> 10, mocked |-> 10]]

-----------------------------------------------------------------------------
(* Matching over bounded inputs                                              *)

Apis == {Api(m, p) : m \in {"", "*", "GET"}, p \in {Unset, Exactly("/x"), Not("/x"), Star}}
Entries == {{}} \cup {{a} : a \in Apis} \cup {{Api("GET", Exactly("/x")), a} : a \in Apis}
Calls == {[Base EXCEPT !.method = m, !.path = p] : m \in {"GET", "POST", None}, p \in {"/x", "/y", None}}

\* A request finds by the index of the APIs the rules it would find by trying
\* all of them, in their order and each once (but for paths that are "*").
IndexFinds == IndexIsExact([1 .. 2 -> Entries], Calls)

\* Headers, the address of the caller and the method as the labels have it.
TypeOf == [v |-> "HEADER", user |-> "HEADER", ip |-> "CALLER_IP", m |-> "METHOD"]
Keys == {"v", "user"}
Labels == {[v |-> v, user |-> u, ip |-> i, m |-> m] : v \in {"1", "user", None}, u \in {"1", "user", None},
                                                    i \in {"1", None}, m \in {"GET", "POST"}}
Labelled == {[Base EXCEPT !.labels = l, !.api = m] : l \in Labels, m \in {"GET", "POST"}}
LimitArg(k, m) == [type |-> TypeOf[k], key |-> k, match |-> m]
Arguments ==
    {LimitArg(k, m) : k \in Keys, m \in {Exactly("1"), Not("1"), Collect, Unset} \cup {Names(n) : n \in Keys}}
        \cup {LimitArg("ip", m) : m \in {Exactly("1"), Collect}}
        \cup {LimitArg("m", m) : m \in {Exactly("GET"), Not("GET"), Collect, Unset}}
Limits == {[name |-> "t", resource |-> "QPS", disable |-> FALSE, apis |-> apis, arguments |-> {a, b}] :
               apis \in {{}, {Api("GET", Unset)}}, a \in Arguments, b \in Arguments}

\* Requests that one counter counts are all of those its limit is for or none
\* is, and one counter of the server is never several of this process.
CountersFit == LabelsDecide(Labelled, Limits)

\* The same for a call of the model and the rules in force.
FindsItsRules(c) ==
    \A kind \in {"mirror", "mock"} : calls[c].pc # "idle" =>
        LET req == calls[c].req
            offered == Offered(req, RulesAt[version][req.callee][kind])
        IN  IndexIsExact({[n \in DOMAIN offered |-> offered[n].apis]}, {req})

\* Rules are filed under their APIs and counters under labels, and neither key
\* loses anything the matching of a request depends on.
KeysLoseNothing == \A c \in Callers : IndexFinds /\ CountersFit /\ FindsItsRules(c)
=============================================================================
