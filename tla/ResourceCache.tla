---------------------------- MODULE ResourceCache ----------------------------
(***************************************************************************)
(* One governance resource in MemoryCache (plugins/cache/memory/memory.rs) *)
(* with the watch GrpcConnector keeps for it                               *)
(* (plugins/connector/grpc/connector.rs) and its file in DiskCacheFailover *)
(* (plugins/cache/memory/failover.rs).                                     *)
(*                                                                         *)
(* The first load inserts an empty item and submits a watch; the connector *)
(* asks the control plane for the resource at once and every two seconds,  *)
(* with the revision it was last sent; answers travel through its dispatch *)
(* loop and an unbounded channel to the receive task, which replaces the   *)
(* item, saves it to disk and tells the listeners.  A load that waited in  *)
(* vain reads the file and does the same on its own task.                  *)
(*                                                                         *)
(* A value is its version: the control plane publishes 1, 2, ...; 0 is the *)
(* empty revision, the file that is missing, empty (it decodes to an       *)
(* answer without a service, which is ignored) or cannot be decoded, and   *)
(* the answer that brings nothing.                                         *)
(***************************************************************************)
EXTENDS Naturals, Sequences, FiniteSets

CONSTANTS
    Loaders,      \* the concurrent callers of load_service_rule
    Receiver,     \* the task of run_remote_data_recive
    Persist,      \* LocalCacheConfig.persist_enable
    StreamsEnd,   \* may a gRPC stream end?
    MaxVersion,   \* bound of the model: publications
    MaxQueue      \* bound of the model: requests or answers under way

ASSUME CacheAssumption ==
    /\ Receiver \notin Loaders
    /\ Persist \in BOOLEAN /\ StreamsEnd \in BOOLEAN
    /\ MaxVersion \in Nat \ {0} /\ MaxQueue \in Nat \ {0}

VARIABLES
    latest,     \* the control plane's version
    discover,   \* is the naming stream open?
    config,     \* is the configuration stream open?
    dispatch,   \* does the connector's dispatch loop run?
    watch,      \* "none", "submitted", "registered": the handler of the resource
    revision,   \* ResourceHandlerWrapper.revision
    requests,   \* revisions asked for, in the order of the stream
    answers,    \* what the control plane sent back, in the order of the stream
    events,     \* RemoteData in the channel to the receive task
    item,       \* [exists, initialized, version]: the entry in the map of its type
    task,       \* where each loader and the receive task are, and with what version
    disk,       \* the version in the file
    writes,     \* versions handed to the file system and not yet written
    heard,      \* what the listeners were last told
    raced       \* history: a recovery and an event of the stream overlapped

connection == <<discover, config, dispatch>>
watching == <<watch, revision, requests, answers>>
file == <<disk, writes>>
vars == <<latest, connection, watching, events, item, task, file, heard, raced>>

Tasks == Loaders \cup {Receiver}
Version == 0..MaxVersion
Idle == [at |-> "idle", version |-> 0]

At(p, label) == task[p].at = label
Goto(p, label) == task' = [task EXCEPT ![p].at = label]
Become(p, label, v) == task' = [task EXCEPT ![p] = [at |-> label, version |-> v]]

Init ==
    /\ latest \in 1..MaxVersion
    /\ discover = TRUE /\ config = TRUE /\ dispatch = TRUE
    /\ watch = "none" /\ revision = 0
    /\ requests = <<>> /\ answers = <<>> /\ events = <<>>
    /\ item = [exists |-> FALSE, initialized |-> FALSE, version |-> 0]
    /\ task = [p \in Tasks |-> Idle]
    /\ disk \in IF Persist THEN 0..latest ELSE {0}
    /\ writes = {}
    /\ heard = 0
    /\ raced = FALSE

-----------------------------------------------------------------------------
(* load_service_rule                                                       *)

\* Mutant: every load makes the entry anew.
BeginLoad_Anew(c) ==
    /\ At(c, "idle")
    /\ item' = [exists |-> TRUE, initialized |-> FALSE, version |-> 0]
    /\ watch' = IF item.exists THEN watch ELSE "submitted"
    /\ Goto(c, "waiting")
    /\ UNCHANGED <<latest, connection, revision, requests, answers, events, file, heard, raced>>

\* The entry is made, and its watch submitted, by the first load.
BeginLoad(c) ==
    /\ At(c, "idle")
    /\ item' = [item EXCEPT !.exists = TRUE]
    /\ watch' = IF item.exists THEN watch ELSE "submitted"
    /\ Goto(c, "waiting")
    /\ UNCHANGED <<latest, connection, revision, requests, answers, events, file, heard, raced>>

\* The waiter polls until the item is initialized or the timeout has passed.
EndWait(c) ==
    /\ At(c, "waiting")
    /\ Goto(c, IF item.initialized THEN "reading" ELSE "recovering")
    /\ UNCHANGED <<latest, connection, watching, events, item, file, heard, raced>>

\* recover_service_rule_from_failover reads the file.
ReadFile(c) ==
    /\ At(c, "recovering")
    /\ IF disk = 0 THEN Goto(c, "reading") ELSE Become(c, "recovered", disk)
    /\ UNCHANGED <<latest, connection, watching, events, item, file, heard, raced>>

\* The load returns the item, or the timeout error if it is still empty.
Return(c) ==
    /\ At(c, "reading")
    /\ Become(c, "idle", 0)
    /\ UNCHANGED <<latest, connection, watching, events, item, file, heard, raced>>

-----------------------------------------------------------------------------
(* on_spec_event                                                           *)

\* Who is between the item and the listeners.
Handling(p) == At(p, "saving") \/ At(p, "notifying")

\* Mutant: only the first event replaces the item.
Replace_FirstOnly(v) ==
    item' = [item EXCEPT !.initialized = TRUE, !.version = IF item.initialized THEN @ ELSE v]

Replace(v) == item' = [item EXCEPT !.initialized = TRUE, !.version = v]

\* The receive task takes the next event.
Receive ==
    /\ At(Receiver, "idle") /\ events # <<>>
    /\ events' = Tail(events)
    /\ Replace(Head(events))
    /\ Become(Receiver, "saving", Head(events))
    /\ raced' = (raced \/ \E c \in Loaders : Handling(c))
    /\ UNCHANGED <<latest, connection, watching, file, heard>>

\* A load applies what it read from the file, whatever came in meanwhile.
Recover(c) ==
    /\ At(c, "recovered")
    /\ Replace(task[c].version)
    /\ Goto(c, "saving")
    /\ raced' = (raced \/ Handling(Receiver) \/ item.version > task[c].version)
    /\ UNCHANGED <<latest, connection, watching, events, file, heard>>

\* The file is created, which empties it; tokio writes it in the background.
Save(p) ==
    /\ At(p, "saving")
    /\ \/ Persist /\ disk' = 0 /\ writes' = writes \cup {task[p].version}
       \/ UNCHANGED file
    /\ Goto(p, "notifying")
    /\ UNCHANGED <<latest, connection, watching, events, item, heard, raced>>

\* Writers that overlap may leave a mixture, which cannot be decoded.
Land(v) ==
    /\ v \in writes
    /\ writes' = writes \ {v}
    /\ disk' = v \/ (writes # {v} /\ disk' = 0)
    /\ UNCHANGED <<latest, connection, watching, events, item, task, heard, raced>>

Notify(p) ==
    /\ At(p, "notifying")
    /\ heard' = task[p].version
    /\ Become(p, IF p = Receiver THEN "idle" ELSE "reading", 0)
    /\ UNCHANGED <<latest, connection, watching, events, item, file, raced>>

-----------------------------------------------------------------------------
(* GrpcConnector                                                           *)

Ask(r) == requests' = IF discover THEN Append(requests, r) ELSE requests

\* register_resource_handler, on a task of its own.
Register ==
    /\ watch = "submitted"
    /\ watch' = "registered"
    /\ Ask(0)
    /\ UNCHANGED <<latest, connection, revision, answers, events, item, task, file, heard, raced>>

\* Every two seconds.
Poll ==
    /\ watch = "registered" /\ Len(requests) < MaxQueue
    /\ Ask(revision)
    /\ UNCHANGED <<latest, connection, watch, revision, answers, events, item, task, file, heard, raced>>

\* The control plane answers a request: nothing new, or its version.
Serve ==
    /\ discover /\ requests # <<>> /\ Len(answers) < MaxQueue
    /\ answers' = Append(answers, IF Head(requests) = latest THEN 0 ELSE latest)
    /\ requests' = Tail(requests)
    /\ UNCHANGED <<latest, connection, watch, revision, events, item, task, file, heard, raced>>

\* Mutant: the answer's revision is kept, the answer is not passed on.
Dispatch_Revision(v) ==
    /\ revision' = v
    /\ events' = IF revision = 0 THEN Append(events, v) ELSE events

\* receive_discover_response passes an answer on and keeps its revision.
Dispatch(v) ==
    /\ revision' = IF v = 0 THEN revision ELSE v
    /\ events' = IF v = 0 THEN events ELSE Append(events, v)

DispatchAnswer ==
    /\ dispatch /\ answers # <<>> /\ Len(events) < MaxQueue
    /\ Dispatch(Head(answers))
    /\ answers' = Tail(answers)
    /\ UNCHANGED <<latest, connection, watch, requests, item, task, file, heard, raced>>

\* A stream ends, or could not be opened: it is never opened again.
DiscoverEnds ==
    /\ StreamsEnd /\ discover
    /\ discover' = FALSE
    /\ UNCHANGED <<latest, config, dispatch, watching, events, item, task, file, heard, raced>>

ConfigEnds ==
    /\ StreamsEnd /\ config
    /\ config' = FALSE
    /\ UNCHANGED <<latest, discover, dispatch, watching, events, item, task, file, heard, raced>>

\* One loop dispatches both streams and returns when either has ended.
DispatchStops ==
    /\ dispatch
    /\ ~config \/ (~discover /\ answers = <<>>)
    /\ dispatch' = FALSE
    /\ UNCHANGED <<latest, discover, config, watching, events, item, task, file, heard, raced>>

Publish ==
    /\ latest < MaxVersion
    /\ latest' = latest + 1
    /\ UNCHANGED <<connection, watching, events, item, task, file, heard, raced>>

-----------------------------------------------------------------------------
Loading(c) == EndWait(c) \/ ReadFile(c) \/ Recover(c) \/ Save(c) \/ Notify(c) \/ Return(c)
Receiving == Receive \/ Save(Receiver) \/ Notify(Receiver)
Connector == Register \/ DispatchAnswer \/ DispatchStops

Next ==
    \/ \E c \in Loaders : BeginLoad(c) \/ Loading(c)
    \/ \E v \in writes : Land(v)
    \/ Receiving \/ Connector \/ Poll \/ Serve
    \/ DiscoverEnds \/ ConfigEnds \/ Publish

Spec == Init /\ [][Next]_vars

\* The tasks run, the timer of the poll fires, and an open control plane answers.
Fairness ==
    /\ \A c \in Loaders : WF_vars(Loading(c))
    /\ WF_vars(Receiving) /\ WF_vars(Connector)
    /\ WF_vars(Poll) /\ WF_vars(Serve)

FairSpec == Spec /\ Fairness

-----------------------------------------------------------------------------
(* Properties                                                              *)

\* Every piece of the state has its type.
TypeOK ==
    /\ latest \in 1..MaxVersion
    /\ discover \in BOOLEAN /\ config \in BOOLEAN /\ dispatch \in BOOLEAN
    /\ watch \in {"none", "submitted", "registered"}
    /\ revision \in Version
    /\ requests \in Seq(Version) /\ answers \in Seq(Version) /\ events \in Seq(Version \ {0})
    /\ item \in [exists : BOOLEAN, initialized : BOOLEAN, version : Version]
    /\ task \in [Tasks ->
          [at : {"idle", "waiting", "recovering", "recovered", "saving", "notifying", "reading"},
           version : Version]]
    /\ disk \in Version /\ writes \subseteq Version
    /\ heard \in Version
    /\ raced \in BOOLEAN

\* The revision the connector asks with is the one the cache holds or has on
\* its way, so that "nothing new" is never said of something it lacks, unless
\* a recovery from the file overlapped an event of the stream.
RevisionIsCached ==
    (~raced /\ revision # 0) =>
        revision = IF events # <<>> THEN events[Len(events)] ELSE item.version

\* Unless they overlapped, no version, of the stream or of the file, is
\* replaced by an older one.
NeverGoesBack == [][~raced' => item.version <= item'.version]_vars

\* When nobody is between the item and the listeners, the listeners were last
\* told of what the item holds, unless a recovery and an event overlapped.
ListenersInStep ==
    (~raced /\ \A p \in Tasks : ~Handling(p)) => heard = item.version

\* Connector, cache and listeners follow each other: what one of them takes for
\* the last version is what the next one has or is being told.
InStep == RevisionIsCached /\ ListenersInStep

\* Every load returns, whatever became of the streams.
LoadReturns == \A c \in Loaders : []<>At(c, "idle")

Connected == discover /\ config

\* Once somebody has loaded the resource, the cache and the listeners catch up
\* with the control plane while both streams are open, unless a recovery from
\* the file overlapped an event of the stream.
CatchesUp ==
    []<>(item.exists => (item.version = latest /\ heard = latest) \/ ~Connected \/ raced)

\* A load always comes to an end, and what it waits for comes to the cache.
Serves == LoadReturns /\ CatchesUp

\* "规则发布和变更通过现有资源缓存、监听器与 API 请求时刷新链路生效": while
\* both streams are open, a publication reaches the cache.
ChangesTakeEffect == item.exists ~> (item.version = latest \/ ~Connected)
=============================================================================
