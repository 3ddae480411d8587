------------------------------- MODULE Routing -------------------------------
(***************************************************************************)
(* How a consumer's call finds its instance: the traffic policies of the   *)
(* callee (RouterAPI::router), the chain of routers (core/flow.rs,         *)
(* plugins/router) and the load balancer (plugins/loadbalance).  Calls run *)
(* concurrently and load each kind of rule of the resource cache by itself,*)
(* while the rules change once; ring-hash calls share the cache of rings.  *)
(*                                                                         *)
(* A list of instances is a sequence of ids.  A call holds what it read as *)
(* the version of the rules it read, or Unread.                            *)
(***************************************************************************)
EXTENDS TrafficPolicy, FiniteSets

CONSTANTS
    Callers,    \* of calls, one call each
    Requests,   \* the calls made: what TrafficPolicy asks for, and .through,
                \* .mirror, .chain, .metadata, .failover, .balancer and .hash
    InstanceOf, \* id -> .service, .weight, .health, .isolated, .metadata, .location,
                \* .protocol
    Lists,      \* service -> its instances, as the cache lists them
    RulesAt,    \* version -> service -> .security, .mirror, .mock, .route, .lane
    Shadows,    \* mirror destination -> .service, .labels
    Protocol,   \* of the mirror sender: "http", the router's own, or "grpc"
    Loaded,     \* stage of the chain -> the routers the configuration names
    Configs,    \* of the plugins: .failover of rules and .nearby
    Location,   \* the place of this process: .campus, .zone, .region
    Points,     \* id -> the hashes of its replicas on a ring
    HashOf      \* hash key -> its hash

VARIABLES
    version,    \* of the rules the cache holds
    config,     \* one of Configs
    calls,
    rings       \* ring_hash_cache: key -> .revision and .nodes

routingVars == <<version, config, calls, rings>>

Ids == DOMAIN InstanceOf
Versions == DOMAIN RulesAt  \* 1, 2, ...
Unread == 0
Stages == {"before", "core", "after"}

\* What the code relies on of a list of routing rules: priorities are u32.
AreRoutes(rules) ==
    /\ DOMAIN rules \subseteq Nat
    /\ \A n \in DOMAIN rules :
          /\ rules[n].priority \in Nat /\ DOMAIN rules[n].rules \subseteq Nat
          /\ \A k \in DOMAIN rules[n].rules :
                LET dests == rules[n].rules[k].destinations
                IN  DOMAIN dests \subseteq Nat /\ \A m \in DOMAIN dests : dests[m].priority \in Nat

ASSUME RoutingAssumption ==
    /\ Versions \subseteq Nat /\ 1 \in Versions /\ Unread \notin Versions
    /\ \A i \in Ids : InstanceOf[i].weight \in Nat
    /\ {"spawned", "failed"} \cap Ids = {}  \* where a copy can be besides
    /\ \A i \in Ids : Points[i] \subseteq Nat
    /\ \A s \in DOMAIN Lists : Lists[s] \in Seq(Ids)
    /\ \A d \in DOMAIN Shadows : Shadows[d].service \in DOMAIN Lists
    /\ \A req \in Requests :
          /\ req.callee \in DOMAIN Lists /\ HashOf[req.hash] \in Nat
          /\ \A stage \in Stages : req.chain[stage] \in Seq(STRING)
          /\ \A v \in Versions :
                /\ AreRoutes(RulesAt[v][req.callee].route) /\ AreRoutes(RulesAt[v][req.caller].route)
                /\ \A rules \in {<<>>, RulesAt[v][req.callee].mirror} :
                      ToSet(Mirrors(req, rules)) \subseteq DOMAIN Shadows

-----------------------------------------------------------------------------
(* Instances                                                               *)

\* is_available.
Available(i) == InstanceOf[i].weight # 0 /\ InstanceOf[i].health /\ ~InstanceOf[i].isolated

\* The entries of a list at these places, in their order.
Kept(list, places) ==
    LET place(k) == CHOOSE n \in places : Cardinality({m \in places : m < n}) = k - 1
    IN  [k \in 1 .. Cardinality(places) |-> list[place(k)]]

Only(list, S) == Kept(list, {n \in DOMAIN list : list[n] \in S})

AvailableOf(list) == Only(list, {i \in Ids : Available(i)})

\* The sum of the weights, as the number of their units.
Weight(list) == Cardinality(UNION {{n} \X (1 .. InstanceOf[list[n]].weight) : n \in DOMAIN list})

\* ServiceInstances::new, and what every router returns that drops some.
Counted(list) == [list |-> list, total |-> Weight(list)]

Failed == [failed |-> TRUE]

-----------------------------------------------------------------------------
(* Routers that read no rules                                              *)

\* MetadataRouter: those with all pairs of the request, else its failover.
ByMetadata(req, given) ==
    LET found == Only(given.list, {i \in Ids : req.metadata # {} /\ req.metadata \subseteq InstanceOf[i].metadata})
    IN  IF found # <<>> THEN Counted(found)
        ELSE CASE req.failover = "all" -> Counted(given.list)
               [] req.failover = "nokey" -> Counted(Only(given.list, {i \in Ids : InstanceOf[i].metadata = {}}))
               [] OTHER -> Failed

\* HealthRouter: what the breaker says is not used, and an instance that is
\* not available stays while those that stay before it weigh nothing, which is
\* while all before it do.
ByHealth(given) ==
    LET weighs(n) == InstanceOf[given.list[n]].weight # 0
    IN  Counted(Kept(given.list, {n \in DOMAIN given.list :
            Available(given.list[n]) \/ \A m \in 1 .. n - 1 : ~weighs(m)}))

Level == [unknown |-> 0, campus |-> 1, zone |-> 2, region |-> 3, all |-> 4]

\* select_instances.
Near(level, list) ==
    IF level \in {"unknown", "all"} \/ Location[level] = "" THEN list
    ELSE Only(list, {i \in Ids : InstanceOf[i].location[level] = Location[level]})

\* should_degrade.
Degrades(level, list) ==
    LET sick == Cardinality({n \in DOMAIN list : ~InstanceOf[list[n]].health})
    IN  /\ config.nearby.degrade
        /\ level # "all"
        /\ (sick * 100) \div Len(list) >= config.nearby.percent

\* choose_instances_with_location: the narrowest level that has instances and
\* does not degrade; if they all degrade, the widest that has some.
ByLocation(given) ==
    LET min == IF config.nearby.match = "" THEN "zone" ELSE config.nearby.match
        max == IF config.nearby.strict THEN min ELSE IF config.nearby.max = "" THEN "all" ELSE config.nearby.max
        tried == {l \in DOMAIN Level : (l = min \/ Level[l] \in Level[min] .. Level[max]) /\ Near(l, given.list) # <<>>}
        good == {l \in tried : Level[min] > Level[max] \/ ~Degrades(l, Near(l, given.list))}
        least(S) == CHOOSE l \in S : \A k \in S : Level[l] <= Level[k]
        most(S) == CHOOSE l \in S : \A k \in S : Level[l] >= Level[k]
    IN  IF tried = {} THEN Failed
        ELSE Counted(Near(IF good # {} THEN least(good) ELSE most(tried), given.list))

-----------------------------------------------------------------------------
(* Routers that read rules                                                 *)

\* decode_custom_route_rules: the rules of those that are enabled, each with
\* its rank: their priority, and its place.
Decoded(rules) ==
    UNION {{[rank |-> <<rules[n].priority, n, k>>, rule |-> rules[n].rules[k]] : k \in DOMAIN rules[n].rules} :
             n \in {m \in DOMAIN rules : rules[m].enable}}

\* route_traffic_match.
RouteMatches(req, rule) ==
    /\ \A n \in DOMAIN rule.destinations : rule.destinations[n].service \in {"*", req.callee}
    /\ TrafficMatches(req, rule.arguments)

\* match_callee_group for one instance: a label of the destination that
\* collects takes the value of the request's parameter.
InGroup(req, rule, dest, i) ==
    /\ Available(i)
    /\ dest.service \in {"*", InstanceOf[i].service}
    /\ \A l \in dest.labels : \E pair \in InstanceOf[i].metadata :
          /\ pair.key = l.key
          /\ IF l.match.param = "collects" THEN pair \in Parameters(req, rule.arguments)
                                           ELSE LabelMatches(l.match, pair.value)

\* Mutant: isolated groups receive traffic.
OpenGroups_All(dests) == DOMAIN dests

\* filter_available_destinations.
OpenGroups(dests) == {m \in DOMAIN dests : ~dests[m].isolate}

\* The groups of the rules that match, each with its rank: that of its rule,
\* its priority, and its place.
Groups(req, routes) ==
    UNION {{[rank |-> <<r.rank[1], r.rank[2], r.rank[3], r.rule.destinations[m].priority, m>>,
             rule |-> r.rule, dest |-> r.rule.destinations[m]] : m \in OpenGroups(r.rule.destinations)} :
             r \in {q \in routes : RouteMatches(req, q.rule)}}

\* Both sorts are stable: what ranks first comes first.
Before(a, b) == \E n \in DOMAIN a : a[n] < b[n] /\ \A m \in 1 .. n - 1 : a[m] = b[m]
Foremost(S) == CHOOSE x \in S : \A y \in S : ~Before(y.rank, x.rank)

\* match_callee_group.
Members(req, g, list) == Only(list, {i \in Ids : InGroup(req, g.rule, g.dest, i)})

\* filter_instances: the first group with instances, of the first matching
\* rule that has one.
Routed(req, routes, list) ==
    LET served == {g \in Groups(req, routes) : Members(req, g, list) # <<>>}
    IN  IF served = {} THEN <<>> ELSE Members(req, Foremost(served), list)

\* The lane rules a request may take: those of all groups, by priority.
Lanes(req, groups) ==
    LET rules == FlattenSeq([n \in DOMAIN groups |-> Enabled(groups[n])])
    IN  SelectSeq(ByPriority(rules), LAMBDA r : r.traffic # Unset /\ TrafficMatches(req, r.traffic))

\* The label of a lane, by its default key.
LaneLabel(rule) == [key |-> IF rule.key = "" THEN "lane" ELSE rule.key, value |-> rule.label]

InLane(rule, i) == Available(i) /\ LaneLabel(rule) \in InstanceOf[i].metadata

\* filter_instances_by_lane_groups.
ByLane(req, groups, given) ==
    LET lanes == Lanes(req, groups)
        found == Only(given.list, {i \in Ids : InLane(Head(lanes), i)})
    IN  CASE lanes = <<>> -> given
          [] lanes # <<>> /\ found # <<>> -> Counted(found)
          [] OTHER -> IF Head(lanes).mode = "strict" THEN Counted(<<>>) ELSE given

-----------------------------------------------------------------------------
(* A call: policies                                                        *)

Idle == [pc |-> "idle"]

\* What a call ends with: an instance, a mocked response, or why neither.
NoResult == [kind |-> "none", of |-> None]
Because(kind) == [kind |-> kind, of |-> None]
Mocked(mock) == [kind |-> "mocked", of |-> mock]
Found(i) == [kind |-> "instance", of |-> i]

Set(c, call) == calls' = [calls EXCEPT ![c] = call]

\* Ends without an instance.
End(c, result) == Set(c, [calls[c] EXCEPT !.pc = "done", !.result = result, !.given = Counted(<<>>)])

\* The rules of a service of the version a call read.
Read(v, service, kind) == IF v = Unread THEN <<>> ELSE RulesAt[v][service][kind]

Callee(c) == calls[c].req.callee

\* get_one_instance asks for the available instances, and names no request to
\* mirror; an application that calls the router itself gives it the whole list,
\* and the balancer what the router answers.
Begin(c, req) ==
    /\ calls[c] = Idle
    /\ req.through = "get_one" => ~req.mirror
    /\ LET list == IF req.through = "get_one" THEN AvailableOf(Lists[req.callee]) ELSE Lists[req.callee]
       IN  Set(c, [pc |-> "security", req |-> req, given |-> Counted(list), todo |-> <<>>, result |-> NoResult, sent |-> {},
                   seen |-> [k \in {"security", "mirror", "mock", "callee", "caller", "lane"} |-> Unread]])
    /\ UNCHANGED <<version, config, rings>>

NextKind(pc) == CASE pc = "security" -> "mirror" [] pc = "mirror" -> "mock" [] pc = "mock" -> "govern"

\* load_traffic_service_rule, for the three kinds in turn.
LoadPolicy(c) ==
    /\ calls[c].pc \in {"security", "mirror", "mock"}
    /\ Set(c, [calls[c] EXCEPT !.seen[calls[c].pc] = version, !.pc = NextKind(@)])
    /\ UNCHANGED <<version, config, rings>>

\* The cache has no answer in time: without security rules a call fails,
\* without the others it goes on.
LoadPolicyFails(c) ==
    /\ calls[c].pc \in {"security", "mirror", "mock"}
    /\ IF calls[c].pc = "security" THEN End(c, Because("error")) ELSE Set(c, [calls[c] EXCEPT !.pc = NextKind(@)])
    /\ UNCHANGED <<version, config, rings>>

\* RouterFlow::choose_instances: the routers of a chain that are loaded; no
\* router is asked whether it is enabled.
Chain(req) ==
    LET of(stage) == Only(req.chain[stage], Loaded[stage])
    IN  of("before") \o of("core") \o of("after")

Policies(c, kind) == Read(calls[c].seen[kind], Callee(c), kind)

\* dispatch_route_mirrors, dispatch_mirror_requests: a task for each copy.
ToMirror(c) ==
    IF calls[c].req.mirror
    THEN {[to |-> d, at |-> "spawned"] : d \in ToSet(Mirrors(calls[c].req, Policies(c, "mirror")))}
    ELSE {}

\* Mutant: mirrors leave before the decision.
Govern_MirrorsFirst(c) ==
    /\ calls[c].pc = "govern"
    /\ LET req == calls[c].req
           mock == Mock(req, Policies(c, "mock"))
       IN  IF ~Allowed(req, Policies(c, "security"))
           THEN Set(c, [calls[c] EXCEPT !.pc = "done", !.result = Because("denied"), !.sent = ToMirror(c)])
           ELSE IF mock # None
                THEN Set(c, [calls[c] EXCEPT !.pc = "done", !.result = Mocked(mock), !.sent = ToMirror(c), !.given = Counted(<<>>)])
                ELSE Set(c, [calls[c] EXCEPT !.pc = "route", !.sent = ToMirror(c), !.todo = Chain(req)])
    /\ UNCHANGED <<version, config, rings>>

\* The rest of router up to the chain: a denied call ends, a mocked one is
\* answered once its mirrors are sent.
Govern(c) ==
    /\ calls[c].pc = "govern"
    /\ LET req == calls[c].req
           mock == Mock(req, Policies(c, "mock"))
       IN  IF ~Allowed(req, Policies(c, "security"))
           THEN End(c, Because("denied"))
           ELSE IF mock # None
                THEN Set(c, [calls[c] EXCEPT !.pc = "done", !.result = Mocked(mock), !.sent = ToMirror(c), !.given = Counted(<<>>)])
                ELSE Set(c, [calls[c] EXCEPT !.pc = "route", !.sent = ToMirror(c), !.todo = Chain(req)])
    /\ UNCHANGED <<version, config, rings>>

-----------------------------------------------------------------------------
(* The copies of a call                                                    *)

\* mirror_instance_matches.
ShadowFits(dest, i) ==
    /\ Available(i)
    /\ \A l \in dest.labels : \E pair \in InstanceOf[i].metadata :
          pair.key = l.key /\ LabelMatches(l.match, pair.value)

\* resolve_destination_base_url: the first that fits; if it speaks another
\* protocol, there is none.
ShadowOf(dest) ==
    LET fits == Only(Lists[dest.service], {i \in Ids : ShadowFits(dest, i)})
    IN  IF fits # <<>> /\ InstanceOf[Head(fits)].protocol \in {"", Protocol} THEN Head(fits) ELSE "failed"

Copied(c, m, where) == [calls EXCEPT ![c].sent = (@ \ {m}) \cup {[m EXCEPT !.at = where]}]

\* MirrorSender::send: it is sent to the instance, or given up and forgotten;
\* the call neither waits for it nor hears of it.
SendCopy(c) ==
    /\ calls[c] # Idle
    /\ \E m \in calls[c].sent :
          /\ m.at = "spawned"
          /\ calls' = Copied(c, m, ShadowOf(Shadows[m.to]))
    /\ UNCHANGED <<version, config, rings>>

\* No answer of the cache, no connection, an answer of another status, or none
\* in time.
SendCopyFails(c) ==
    /\ calls[c] # Idle
    /\ \E m \in calls[c].sent :
          /\ m.at = "spawned"
          /\ calls' = Copied(c, m, "failed")
    /\ UNCHANGED <<version, config, rings>>

-----------------------------------------------------------------------------
(* A call: its chain                                                       *)

At(c, router) == calls[c].pc = "route" /\ calls[c].todo # <<>> /\ Head(calls[c].todo) = router

\* What a router returns becomes the list of the next.
Goes(c, answer, seen) ==
    /\ IF answer = Failed THEN End(c, Because("error"))
       ELSE Set(c, [calls[c] EXCEPT !.given = answer, !.todo = Tail(@), !.pc = "route", !.seen = seen])
    /\ UNCHANGED <<version, config, rings>>

PlainRouter(c) ==
    LET go(answer) == Goes(c, answer, calls[c].seen)
    IN  \/ At(c, "metadata") /\ go(ByMetadata(calls[c].req, calls[c].given))
        \/ At(c, "health") /\ go(ByHealth(calls[c].given))
        \/ At(c, "nearby") /\ go(ByLocation(calls[c].given))

LaneRouter(c) ==
    /\ At(c, "lane")
    /\ Goes(c, ByLane(calls[c].req, Read(version, Callee(c), "lane"), calls[c].given),
            [calls[c].seen EXCEPT !.lane = version])

RoutesOf(v, service) == IF v = Unread THEN {} ELSE Decoded(Read(v, service, "route"))

\* RuleRouter, its first half: the callee's rules decide if they can.
RuleOfCallee(c) ==
    /\ At(c, "rule")
    /\ LET found == Routed(calls[c].req, RoutesOf(version, Callee(c)), calls[c].given.list)
           seen == [calls[c].seen EXCEPT !.callee = version]
       IN  IF found # <<>> THEN Goes(c, Counted(found), seen)
           ELSE /\ Set(c, [calls[c] EXCEPT !.pc = "caller", !.seen = seen])
                /\ UNCHANGED <<version, config, rings>>

\* Its second half: the caller's do, and if none can, the failover; where
\* there are no rules at all the list stays.
RuleOfCaller(c) ==
    /\ calls[c].pc = "caller"
    /\ LET rules == RoutesOf(version, calls[c].req.caller)
           found == Routed(calls[c].req, rules, calls[c].given.list)
           ruled == rules # {} \/ RoutesOf(calls[c].seen.callee, Callee(c)) # {}
           answer == CASE found # <<>> -> Counted(found)
                       [] found = <<>> /\ ruled /\ config.failover = "none" -> Counted(<<>>)
                       [] OTHER -> calls[c].given
       IN  Goes(c, answer, [calls[c].seen EXCEPT !.caller = version])

\* fetch_rule, fetch_lane_groups: no answer in time.
LoadRuleFails(c) ==
    /\ At(c, "rule") \/ At(c, "lane") \/ calls[c].pc = "caller"
    /\ Goes(c, Failed, calls[c].seen)

-----------------------------------------------------------------------------
(* A call: its balancer                                                    *)

Routes(c) == calls[c].pc = "route" /\ calls[c].todo = <<>>

\* Where a number of the total falls; one that is past all of them takes the
\* place the total gives.
Drawn(given, r) ==
    LET upto(n) == Weight(SubSeq(given.list, 1, n))
        hit == {n \in DOMAIN given.list : upto(n - 1) <= r /\ r < upto(n)}
    IN  given.list[IF hit # {} THEN CHOOSE n \in hit : TRUE ELSE (given.total % Len(given.list)) + 1]

\* weightedRandom.
DrawRandom(c) ==
    /\ Routes(c) /\ calls[c].req.balancer = "weightedRandom"
    /\ LET given == calls[c].given
       IN  IF given.total = 0 THEN End(c, Because("error"))
           ELSE \E r \in 0 .. given.total - 1 :
                   Set(c, [calls[c] EXCEPT !.pc = "done", !.result = Found(Drawn(given, r))])
    /\ UNCHANGED <<version, config, rings>>

\* The service of a payload of the memory cache, which never writes it: all
\* services share one key and one revision.
ServiceOf(list) == [name |-> "", revision |-> ""]

Ring(list) == [revision |-> ServiceOf(list).revision, nodes |-> ToSet(list)]

\* Mutant: the ring is built anew by every call.
PrepareRing_Always(c) ==
    /\ Routes(c) /\ calls[c].req.balancer = "ringHash"
    /\ LET list == calls[c].given.list
       IN  rings' = [k \in DOMAIN rings \cup {ServiceOf(list).name} |-> IF k = ServiceOf(list).name THEN Ring(list) ELSE rings[k]]
    /\ Set(c, [calls[c] EXCEPT !.pc = "ring"])
    /\ UNCHANGED <<version, config>>

\* ringHash under the write lock: a ring is built where there is none for the
\* service, or one of another revision.
PrepareRing(c) ==
    /\ Routes(c) /\ calls[c].req.balancer = "ringHash"
    /\ LET list == calls[c].given.list
           key == ServiceOf(list).name
           cached == key \in DOMAIN rings /\ rings[key].revision = ServiceOf(list).revision
       IN  rings' = [k \in DOMAIN rings \cup {key} |-> IF k = key /\ ~cached THEN Ring(list) ELSE rings[k]]
    /\ Set(c, [calls[c] EXCEPT !.pc = "ring"])
    /\ UNCHANGED <<version, config>>

\* get_node: the last replica that is not past the hash; without one the
\* call panics.
Node(ring, hash) ==
    LET before == {p \in UNION {Points[i] : i \in ring.nodes} : p <= hash}
    IN  IF before = {} THEN Because("panic")
        ELSE Found(CHOOSE i \in ring.nodes : \E p \in Points[i] \cap before : \A q \in before : q <= p)

\* Its rest under the read lock.
ReadRing(c) ==
    /\ calls[c].pc = "ring"
    /\ Set(c, [calls[c] EXCEPT !.pc = "done",
                               !.result = Node(rings[ServiceOf(calls[c].given.list).name], HashOf[calls[c].req.hash])])
    /\ UNCHANGED <<version, config, rings>>

\* lookup_loadbalancer finds no plugin of the name.
NoBalancer(c) ==
    /\ Routes(c) /\ calls[c].req.balancer \notin {"weightedRandom", "ringHash"}
    /\ End(c, Because("error"))
    /\ UNCHANGED <<version, config, rings>>

-----------------------------------------------------------------------------
\* The cache takes the next version of all rules.
Change ==
    /\ version + 1 \in Versions
    /\ version' = version + 1
    /\ UNCHANGED <<config, calls, rings>>

RoutingInit ==
    /\ version = 1
    /\ config \in Configs
    /\ calls = [c \in Callers |-> Idle]
    /\ rings = <<>>

RoutingNext ==
    \/ Change
    \/ \E c \in Callers :
        \/ \E req \in Requests : Begin(c, req)
        \/ LoadPolicy(c) \/ LoadPolicyFails(c) \/ Govern(c)
        \/ SendCopy(c) \/ SendCopyFails(c)
        \/ PlainRouter(c) \/ LaneRouter(c)
        \/ RuleOfCallee(c) \/ RuleOfCaller(c) \/ LoadRuleFails(c)
        \/ DrawRandom(c) \/ PrepareRing(c) \/ ReadRing(c) \/ NoBalancer(c)

RoutingSpec == RoutingInit /\ [][RoutingNext]_routingVars

-----------------------------------------------------------------------------
(* Properties                                                              *)

\* The instances that routing lets a call have: those of an open group of a
\* rule that matches.
Fits(req, routes, i) ==
    \E r \in routes :
        /\ RouteMatches(req, r.rule)
        /\ \E m \in DOMAIN r.rule.destinations :
              LET dest == r.rule.destinations[m] IN ~dest.isolate /\ InGroup(req, r.rule, dest, i)

\* The rules of the callee, or, where they leave nothing, those of the caller.
RulesObeyed(call, i) ==
    LET callee == RoutesOf(call.seen.callee, call.req.callee)
        caller == RoutesOf(call.seen.caller, call.req.caller)
    IN  config.failover = "none" /\ (callee # {} \/ caller # {}) =>
            \/ Fits(call.req, callee, i)
            \/ /\ Fits(call.req, caller, i)
               /\ \A j \in ToSet(call.given.list) : ~Fits(call.req, callee, j)

\* The lane of the first rule that matches, or, where it is permissive and the
\* list has none of it, any.
LaneObeyed(call, i) ==
    LET lanes == Lanes(call.req, Read(call.seen.lane, call.req.callee, "lane"))
    IN  call.seen.lane # Unread /\ lanes # <<>> =>
            \/ InLane(Head(lanes), i)
            \/ /\ Head(lanes).mode # "strict"
               /\ \A j \in ToSet(call.given.list) : ~InLane(Head(lanes), j)

Answered(call, balancer, kinds) ==
    call.pc = "done" /\ call.req.balancer = balancer /\ call.result.kind \in kinds

\* With the failover "none", the instance a call draws is one the rules it read
\* give it, of the callee before the caller, and of the lane it is in:
\* whatever the other routers of the chain do, before and after, and whenever
\* the rules change.
StrictlyRouted ==
    \A c \in Callers :
        Answered(calls[c], "weightedRandom", {"instance"}) =>
            RulesObeyed(calls[c], calls[c].result.of) /\ LaneObeyed(calls[c], calls[c].result.of)

\* Calls of one service with one hash key end at one instance (or all panic),
\* whatever each was routed to and however they interleave with others: what
\* consistent hashing is for.
SameKeySameNode ==
    \A c, d \in Callers :
        /\ Answered(calls[c], "ringHash", {"instance", "panic"})
        /\ Answered(calls[d], "ringHash", {"instance", "panic"})
        /\ calls[c].req.hash = calls[d].req.hash
        /\ calls[c].req.callee = calls[d].req.callee
        => calls[c].result = calls[d].result

\* A call that the security rules it read deny reaches nothing, the services
\* its mirrors go to included; one that is mocked reaches no instance; and no
\* other call is refused: also when the three kinds of rules it read are of
\* different versions.
GovernedFirst ==
    \A c \in Callers :
        calls[c].pc \in {"route", "caller", "ring", "done"} /\ calls[c].seen.security # Unread =>
            LET call == calls[c]
                allowed == Allowed(call.req, Policies(c, "security"))
                mock == Mock(call.req, Policies(c, "mock"))
            IN  /\ ~allowed <=> call.result.kind = "denied"
                /\ ~allowed => call.sent = {}
                /\ allowed /\ mock # None => call.result = Mocked(mock)
                /\ \A m \in call.sent : m.at \in Ids => ShadowFits(Shadows[m.to], m.at)
=============================================================================
