---------------------------- MODULE ResourceKinds ----------------------------
(***************************************************************************)
(* The kinds of resource of MemoryCache (plugins/cache/memory/memory.rs)   *)
(* next to each other: core/model/cache.rs says how a resource is asked    *)
(* for, named and filed, the connector (plugins/connector/grpc/            *)
(* connector.rs) to which handler an answer belongs, the cache which entry *)
(* it replaces, and the failover (plugins/cache/memory/failover.rs) into   *)
(* which file it goes and from which it is read.  The five tables have to  *)
(* agree for every kind, while several resources share one stream, one     *)
(* channel, one receive task and one directory.                            *)
(*                                                                         *)
(* A resource is [type, of]: an EventType, and the service, group or file  *)
(* it is about; there is one namespace.  An answer is named by the         *)
(* resource and the version it was made from; version 0 is "nothing new".  *)
(* Streams that end, writes that land late and recoveries that overlap     *)
(* events are the subject of ResourceCache, which follows one resource.    *)
(***************************************************************************)
EXTENDS Naturals, Sequences

CONSTANTS
    Pool,        \* the resources the process may use
    Selections,  \* sets of them: those it uses in one execution
    Loaders,     \* concurrent callers of the load functions
    Receiver,    \* the task of run_remote_data_recive
    Persist,     \* LocalCacheConfig.persist_enable
    Emptied,     \* versions in which a config group publishes no file
    MaxVersion,  \* bound of the model: publications of a resource
    MaxQueue     \* bound of the model: events in the channel

NamingTypes ==
    {"Instance", "RouterRule", "CircuitBreakerRule", "RateLimitRule", "Service",
     "FaultDetectRule", "LaneRule", "LosslessRule", "TrafficSecurityRule",
     "TrafficMirrorRule", "TrafficMockRule"}
RuleTypes == NamingTypes \ {"Instance", "Service"}
ConfigTypes == {"ConfigFile", "ConfigGroup"}

ASSUME KindsAssumption ==
    /\ \A r \in Pool : r = [type |-> r.type, of |-> r.of] /\ r.type \in NamingTypes \cup ConfigTypes
    /\ Selections \subseteq SUBSET Pool
    /\ Receiver \notin Loaders
    /\ Persist \in BOOLEAN
    /\ MaxVersion \in Nat \ {0} /\ MaxQueue \in Nat \ {0}
    /\ Emptied \subseteq 1..MaxVersion

VARIABLES
    active,    \* the selection of this execution
    latest,    \* the control plane's version of each resource
    watch,     \* the handler of each: "none", "submitted", "registered"
    revision,  \* ResourceHandlerWrapper.revision
    answers,   \* the answer to each that is under way: a version, or 0
    events,    \* [key, from, version]: RemoteData in the channel
    item,      \* the entry of each resource in the map of its type
    task,      \* where each loader and the receive task are, and with what
    disk,      \* [file, from, version]: the files of persist_dir
    result     \* what the last load of each loader returned

control == <<active, latest>>
connector == <<watch, revision, answers>>
kindsVars == <<control, connector, events, item, task, disk, result>>

NoKey == [type |-> "none", of |-> "none"]

\* The cache items: all kinds keep the same of their resource.
Value == [of : Pool \cup {NoKey}, version : 0..MaxVersion]
Entry == [exists : BOOLEAN, initialized : BOOLEAN, revision : 0..MaxVersion, value : Value]

Tasks == Loaders \cup {Receiver}
Nothing == [of |-> NoKey, version |-> 0]
Event == [key : Pool, from : Pool, version : 1..MaxVersion]
NoEvent == [key |-> NoKey, from |-> NoKey, version |-> 0]
TaskRecord == [at : {"idle", "waiting", "recovering", "saving", "notifying", "reading"},
               load : Pool \cup {NoKey}, event : Event \cup {NoEvent}]
Idle == [at |-> "idle", load |-> NoKey, event |-> NoEvent]

At(p, label) == task[p].at = label
Goto(p, label) == task' = [task EXCEPT ![p].at = label]

-----------------------------------------------------------------------------
(* Names of a kind                                                         *)

\* to_discover_request, to_config_request: what a resource is asked for as.
RequestType(t) ==
    CASE t = "RouterRule" -> "CustomRouteRule"
      [] t = "CircuitBreakerRule" -> "CircuitBreaker"
      [] t = "RateLimitRule" -> "RateLimit"
      [] t = "Service" -> "Services"
      [] t = "FaultDetectRule" -> "FaultDetector"
      [] t = "LaneRule" -> "Lane"
      [] t = "LosslessRule" -> "Lossless"
      [] t = "ConfigGroup" -> "ConfigFileNames"
      [] OTHER -> t

\* to_persist_file: the file a kind is read from.
PersistFile(t) ==
    CASE t = "Instance" -> "instance.data"
      [] t = "RouterRule" -> "router_rule.data"
      [] t = "CircuitBreakerRule" -> "circuit_breaker_rule.data"
      [] t = "RateLimitRule" -> "rate_limit_rule.data"
      [] t = "FaultDetectRule" -> "fault_detect_rule.data"
      [] t = "LaneRule" -> "lane_rule.data"
      [] t = "LosslessRule" -> "lossless_rule.data"
      [] t = "TrafficSecurityRule" -> "traffic_security_rule.data"
      [] t = "TrafficMirrorRule" -> "traffic_mirror_rule.data"
      [] t = "TrafficMockRule" -> "traffic_mock_rule.data"
      [] OTHER -> "unknown"

\* Mutant: all rules of a service go into one file.
NamingSpecFile_One(a) == "router_rule.data"

\* naming_spec_to_persist_file: the file an answer is saved to.
NamingSpecFile(a) ==
    CASE a = "Instance" -> "instance.data"
      [] a = "CustomRouteRule" -> "router_rule.data"
      [] a = "CircuitBreaker" -> "circuit_breaker_rule.data"
      [] a = "RateLimit" -> "rate_limit_rule.data"
      [] a = "FaultDetector" -> "fault_detect_rule.data"
      [] a = "Lane" -> "lane_rule.data"
      [] a = "Lossless" -> "lossless_rule.data"
      [] a = "TrafficSecurityRule" -> "traffic_security_rule.data"
      [] a = "TrafficMirrorRule" -> "traffic_mirror_rule.data"
      [] a = "TrafficMockRule" -> "traffic_mock_rule.data"
      [] OTHER -> "unknown"

\* What the control plane sends for a resource: the type and the name the
\* answer carries, and the name of the group if it lists any file.
AnswerType(r) == RequestType(r.type)
NamesGroup(r, v) == v \notin Emptied

\* Mutant: the handlers go by the names of the answers.
WatchType_Same(a) == a

\* discover_response_watch_key: the type of the handler of an answer.
WatchType(a) ==
    CASE a = "CustomRouteRule" -> "RouterRule"
      [] a = "RateLimit" -> "RateLimitRule"
      [] a = "CircuitBreaker" -> "CircuitBreakerRule"
      [] a = "FaultDetector" -> "FaultDetectRule"
      [] a = "Lane" -> "LaneRule"
      [] a = "Lossless" -> "LosslessRule"
      [] OTHER -> a

\* discover_response_watch_key, config_response_watch_key: whose answer it is.
\* That of a service list is the bare namespace, that of a group is read from
\* its first file.
WatchKey(r, v) ==
    LET a == AnswerType(r)
    IN  CASE a = "Services" -> [type |-> "none", of |-> "namespace"]
          [] a = "ConfigFileNames" ->
               IF NamesGroup(r, v) THEN [type |-> "ConfigGroup", of |-> r.of] ELSE NoKey
          [] OTHER -> [type |-> WatchType(a), of |-> r.of]

\* save_naming_failover, save_config_failover: the file of an answer.
SaveFile(r) ==
    LET a == AnswerType(r)
    IN  CASE a = "Services" -> [of |-> "namespace", file |-> "services.data"]
          [] a = "ConfigFile" -> [of |-> r.of, file |-> "config_file.data"]
          [] a = "ConfigFileNames" -> [of |-> r.of, file |-> "config_group.data"]
          [] OTHER -> [of |-> r.of, file |-> NamingSpecFile(a)]

\* failover_naming_load: the file of a resource.
LoadFile(r) == [of |-> r.of, file |-> PersistFile(r.type)]

\* The files there can be: each holds the answer it was saved for.
Saved == {[file |-> SaveFile(r), from |-> r, version |-> v] : r \in Pool, v \in 1..MaxVersion}

-----------------------------------------------------------------------------
(* on_spec_event                                                           *)

\* The entry an event replaces: of the type of its handler; for a service by
\* the name in the answer, for the configuration by the name of the handler.
Slot(e) ==
    IF e.key.type \in NamingTypes THEN [type |-> e.key.type, of |-> e.from.of] ELSE e.key

\* What the entry takes: the field of its type, which is empty in an answer of
\* another type.
Taken(e) ==
    IF AnswerType(e.from) = RequestType(e.key.type)
    THEN [of |-> e.from, version |-> e.version]
    ELSE [of |-> NoKey, version |-> e.version]

\* A new entry in the place of the old one, finish_initialize called.
Filled(e) == [exists |-> TRUE, initialized |-> TRUE, value |-> Taken(e), revision |-> e.version]

\* The entry is replaced; without one, and for a service list, which has no
\* branch, nothing is.
Known(e) == item[Slot(e)].exists
Replaced(e) ==
    IF e.key.type = "Service" THEN item
    ELSE [item EXCEPT ![Slot(e)] = Filled(e)]

\* Without an entry the event ends here, unless it is about a service list.
Handle(p, e, back) ==
    IF e.key.type = "Service" \/ Known(e)
    THEN /\ item' = Replaced(e)
         /\ task' = [task EXCEPT ![p].at = "saving", ![p].event = e]
    ELSE /\ UNCHANGED item
         /\ Goto(p, back)

Receive ==
    /\ At(Receiver, "idle") /\ events # <<>>
    /\ events' = Tail(events)
    /\ Handle(Receiver, Head(events), "idle")
    /\ UNCHANGED <<control, connector, disk, result>>

Save(p) ==
    /\ At(p, "saving")
    /\ LET e == task[p].event
           saved == [file |-> SaveFile(e.from), from |-> e.from, version |-> e.version]
       IN  disk' = IF Persist THEN {d \in disk : d.file # saved.file} \cup {saved} ELSE disk
    /\ Goto(p, "notifying")
    /\ UNCHANGED <<control, connector, events, item, result>>

\* The listeners of the type are told (ConfigCenter adds what they do).
Notify(p) ==
    /\ At(p, "notifying")
    /\ task' = [task EXCEPT ![p].at = IF p = Receiver THEN "idle" ELSE "reading", ![p].event = NoEvent]
    /\ UNCHANGED <<control, connector, events, item, disk, result>>

-----------------------------------------------------------------------------
(* Loading                                                                 *)

NewItem == [exists |-> FALSE, initialized |-> FALSE, value |-> Nothing, revision |-> 0]

\* is_initialized, and what a load makes of the entry: the rules, instances,
\* file or list of files it holds, or the timeout error.
Initialized(r) == item[r].initialized
Returned(r) == [of |-> r, value |-> IF Initialized(r) THEN item[r].value ELSE Nothing]

\* The entry is made, and its watch submitted, by the first load.
Begin(c, r) ==
    /\ At(c, "idle") /\ r \in active
    /\ item' = [item EXCEPT ![r].exists = TRUE]
    /\ watch' = IF item[r].exists THEN watch ELSE [watch EXCEPT ![r] = "submitted"]
    /\ task' = [task EXCEPT ![c].at = "waiting", ![c].load = r]
    /\ UNCHANGED <<control, revision, answers, events, disk, result>>

LoadServiceRule(c, r) == r.type \in RuleTypes /\ Begin(c, r)
LoadServices(c, r) == r.type = "Service" /\ Begin(c, r)
LoadServiceInstances(c, r) == r.type = "Instance" /\ Begin(c, r)
LoadConfigFile(c, r) == r.type = "ConfigFile" /\ Begin(c, r)
LoadConfigGroupFiles(c, r) == r.type = "ConfigGroup" /\ Begin(c, r)

\* Only the loads of rules have a file to fall back on.
EndWait(c) ==
    /\ At(c, "waiting")
    /\ LET r == task[c].load
       IN  Goto(c, IF ~Initialized(r) /\ r.type \in RuleTypes THEN "recovering" ELSE "reading")
    /\ UNCHANGED <<control, connector, events, item, disk, result>>

\* recover_service_rule_from_failover: what is in the file is an event of the
\* resource that was to be loaded.
Recover(c) ==
    /\ At(c, "recovering")
    /\ LET r == task[c].load
           found == {d \in disk : d.file = LoadFile(r)}
       IN  IF found = {} \/ ~Persist THEN Goto(c, "reading") /\ UNCHANGED item
           ELSE \E d \in found : Handle(c, [key |-> r, from |-> d.from, version |-> d.version], "reading")
    /\ UNCHANGED <<control, connector, events, disk, result>>

Return(c) ==
    /\ At(c, "reading")
    /\ result' = [result EXCEPT ![c] = Returned(task[c].load)]
    /\ task' = [task EXCEPT ![c] = Idle]
    /\ UNCHANGED <<control, connector, events, item, disk>>

-----------------------------------------------------------------------------
(* GrpcConnector                                                           *)

\* register_resource_handler, on a task of its own.
Register(r) ==
    /\ watch[r] = "submitted"
    /\ watch' = [watch EXCEPT ![r] = "registered"]
    /\ UNCHANGED <<control, revision, answers, events, item, task, disk, result>>

\* The connector asks for a resource, when its handler is registered and
\* every two seconds, and the control plane answers what has changed.
Respond(r) ==
    /\ watch[r] = "registered" /\ answers[r] = 0
    /\ revision[r] # latest[r]
    /\ answers' = [answers EXCEPT ![r] = latest[r]]
    /\ UNCHANGED <<control, watch, revision, events, item, task, disk, result>>

\* receive_discover_response, receive_config_response: an answer without a
\* handler is dropped.
Dispatch(r) ==
    /\ answers[r] # 0 /\ Len(events) < MaxQueue
    /\ answers' = [answers EXCEPT ![r] = 0]
    /\ LET k == WatchKey(r, answers[r])
       IN  IF k \in Pool /\ watch[k] = "registered"
           THEN /\ revision' = [revision EXCEPT ![k] = answers[r]]
                /\ events' = Append(events, [key |-> k, from |-> r, version |-> answers[r]])
           ELSE UNCHANGED <<revision, events>>
    /\ UNCHANGED <<control, watch, item, task, disk, result>>

NewVersion(r) ==
    /\ r \in active /\ latest[r] < MaxVersion
    /\ latest' = [latest EXCEPT ![r] = @ + 1]
    /\ UNCHANGED <<active, connector, events, item, task, disk, result>>

\* An earlier process may have left files of these resources; what has been
\* released of a configuration may be nothing yet.
KindsInit ==
    /\ active \in Selections
    /\ latest = [r \in Pool |-> IF r \in active /\ r.type # "ConfigFile" THEN 1 ELSE 0]
    /\ watch = [r \in Pool |-> "none"]
    /\ revision = [r \in Pool |-> 0]
    /\ answers = [r \in Pool |-> 0] /\ events = <<>>
    /\ item = [r \in Pool |-> NewItem]
    /\ task = [p \in Tasks |-> Idle]
    /\ disk \in {{}, IF Persist THEN {[file |-> SaveFile(r), from |-> r, version |-> 1] :
                                        r \in {q \in active : q.type \in RuleTypes}} ELSE {}}
    /\ result = [c \in Loaders |-> [of |-> NoKey, value |-> Nothing]]

Loading(c) == EndWait(c) \/ Recover(c) \/ Save(c) \/ Return(c)
Receiving == Receive \/ Save(Receiver)
Serving(r) == Register(r) \/ Respond(r) \/ Dispatch(r)

\* Everything but the publications and the listeners.
KindsStep ==
    \/ \E c \in Loaders, r \in Pool :
         \/ LoadServiceRule(c, r) \/ LoadServices(c, r) \/ LoadServiceInstances(c, r)
         \/ LoadConfigFile(c, r) \/ LoadConfigGroupFiles(c, r)
    \/ \E c \in Loaders : Loading(c)
    \/ \E r \in Pool : Serving(r)
    \/ Receiving

-----------------------------------------------------------------------------
(* Properties                                                              *)

\* Every piece of the state has its type.
KindsTypeOK ==
    /\ active \in Selections
    /\ latest \in [Pool -> 0..MaxVersion] /\ revision \in [Pool -> 0..MaxVersion]
    /\ watch \in [Pool -> {"none", "submitted", "registered"}]
    /\ answers \in [Pool -> 0..MaxVersion]
    /\ events \in Seq(Event) /\ disk \subseteq Saved
    /\ item \in [Pool -> Entry]
    /\ task \in [Tasks -> TaskRecord]
    /\ result \in [Loaders -> [of : Pool \cup {NoKey}, value : Value]]

\* Whatever an entry holds, and whatever a load returned, was published for
\* that very resource, and is what its revision says: no table sends an answer,
\* or a file, of one kind or service to the entry of another.
ValuesAreOwn ==
    /\ \A r \in Pool : item[r].initialized => item[r].value = [of |-> r, version |-> item[r].revision]
    /\ \A c \in Loaders : result[c].value.of \in {NoKey, result[c].of}

\* What the control plane can never say through this connector: a list of
\* services, and a group that has no file.
Unheard(r) ==
    \/ r.type = "Service"
    \/ r.type = "ConfigGroup" /\ latest[r] \in Emptied
    \/ latest[r] = 0

\* Every resource that was asked for is initialized in the end, each kind
\* through its own request, answer and branch; but for lists of services.
EveryKindLoads ==
    []<>(\A r \in Pool : item[r].exists => item[r].initialized \/ Unheard(r))
=============================================================================
