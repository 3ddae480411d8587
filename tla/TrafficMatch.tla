---------------------------- MODULE TrafficMatch -----------------------------
(***************************************************************************)
(* How rules match requests and instances: the helpers that routing, lanes,*)
(* traffic policies and rate limits share (plugins/router/rule/helper.rs,  *)
(* traffic/matcher.rs).                                                    *)
(*                                                                         *)
(* A request is a record with .method and .path, either of which may be    *)
(* None, and .labels, what its traffic_label_provider says of each key (a  *)
(* key stands for a type and a name).  The value of a MatchString is the   *)
(* set of the strings it stands for: the one text, the members of a list,  *)
(* the numbers of a range, what an expression accepts; the empty set if it *)
(* cannot be read.  .all says that its text is "*".                        *)
(***************************************************************************)
EXTENDS Naturals, Sequences, SequencesExt

None == "none"
Unset == [kind |-> "unset"]  \* a MatchString that is not there

-----------------------------------------------------------------------------
(* Values and arguments                                                    *)

\* match_label_value.
LabelMatches(m, v) ==
    \/ m.all
    \/ IF m.kind \in {"NOT_EQUALS", "NOT_IN"} THEN v \notin m.value ELSE v \in m.value

\* What an argument is compared with: the label of its own key, or, for a
\* parameter that names another key, the label of that one (which then has to
\* be the name: the value of the match is the text of the name).
ProviderKey(a) == IF a.match.param = "names" THEN a.match.key ELSE a.key
ActualValue(req, a) == req.labels[ProviderKey(a)]

\* source_match_matches, match_argument_matches: a parameter without a value
\* only asks that the request has the label.
ArgumentMatches(req, a) ==
    /\ a.match # Unset
    /\ ActualValue(req, a) # None
    /\ a.match.param = "collects" \/ LabelMatches(a.match, ActualValue(req, a))

\* traffic_match_rule_match, and no rule at all, which matches.
TrafficMatches(req, rule) ==
    rule # Unset =>
        /\ rule.percent # 0
        /\ \/ rule.arguments = {}
           \/ rule.mode = "OR" /\ \E a \in rule.arguments : ArgumentMatches(req, a)
           \/ rule.mode = "AND" /\ \A a \in rule.arguments : ArgumentMatches(req, a)

\* traffic_match_rule_request_parameters.
Parameters(req, rule) ==
    IF rule = Unset THEN {}
    ELSE {[key |-> a.key, value |-> req.labels[a.key]] :
             a \in {b \in rule.arguments : b.match # Unset /\ b.match.param = "collects" /\ req.labels[b.key] # None}}

\* sort_by of the priority, which is stable.
ByPriority(rules) ==
    LET levels == SetToSortSeq({rules[i].priority : i \in DOMAIN rules}, <)
    IN  FlattenSeq([n \in DOMAIN levels |-> SelectSeq(rules, LAMBDA r : r.priority = levels[n])])

Enabled(rules) == SelectSeq(rules, LAMBDA r : r.enable)

-----------------------------------------------------------------------------
(* APIs and their index                                                    *)

\* api_matches.
ApiMatches(req, api) ==
    /\ api.method \in {"", "*", req.method}
    /\ api.path = Unset \/ (req.path # None /\ LabelMatches(api.path, req.path))

\* Mutant: an API without a method is filed under the empty one.
Bucket_Literal(api) == api.method

\* insert_api: APIs without a method share a bucket with "*".
Bucket(api) == IF api.method \in {"", "*"} THEN "*" ELSE api.method

\* exact_text_path.
PathKind(api) ==
    IF api.path = Unset THEN "any"
    ELSE IF api.path.kind = "EXACT" /\ api.path.param = "text" THEN "exact" ELSE "fallback"

\* ApiMatchIndex::new: an entry is the set of the APIs of a rule, its order is
\* its place; one without APIs is kept apart.
Index(entries) ==
    [all |-> {o \in DOMAIN entries : entries[o] = {}},
     nodes |-> UNION {{[order |-> o, bucket |-> Bucket(a), kind |-> PathKind(a), api |-> a] : a \in entries[o]} :
                        o \in DOMAIN entries}]

\* MethodApiIndex::candidates, PathTrie::exact_candidates.
Reached(req, n) ==
    /\ n.bucket \in {"*", req.method}
    /\ CASE n.kind = "any" -> TRUE
         [] n.kind = "exact" -> n.api.path.value = {req.path}
         [] n.kind = "fallback" -> ApiMatches(req, n.api)

\* ApiMatchIndex::candidates: the orders, each once, in their order.
Candidates(entries, req) ==
    LET index == Index(entries)
    IN  SetToSortSeq(index.all \cup {n.order : n \in {m \in index.nodes : Reached(req, m)}}, <)

-----------------------------------------------------------------------------
(* Properties                                                              *)

\* A path that is the text "*": everything to api_matches, and the path "*"
\* to the index, which files it under its text.
StarPath(api) == PathKind(api) = "exact" /\ api.path.all

\* The index finds the rules that trying every API of every rule would find,
\* in the order of their priority and each once, but for those StarPath is
\* about.
IndexIsExact(inputs, requests) ==
    \A entries \in inputs, req \in requests :
        (\A o \in DOMAIN entries : \A a \in entries[o] : ~StarPath(a)) =>
            Candidates(entries, req) =
                SelectSeq([o \in DOMAIN entries |-> o],
                          LAMBDA o : entries[o] = {} \/ \E a \in entries[o] : ApiMatches(req, a))
=============================================================================
