---------------------------- MODULE ConfigCenter ----------------------------
(***************************************************************************)
(* What the APIs keep on top of the resource cache of ResourceKinds:       *)
(* watchers of configuration files and groups (config/default.rs) and of   *)
(* instances (discovery/default.rs), each API with one listener of the     *)
(* cache that calls them, and publishers, which write a file and release   *)
(* it through the unary calls of the connector (config/req.rs,             *)
(* plugins/connector/grpc/connector.rs).  A release is the publication     *)
(* the cache then hears of.                                                *)
(***************************************************************************)
EXTENDS ResourceKinds

CONSTANTS
    Watchers,    \* calls of watch_config_file, watch_publish_config_files, watch_instance
    Publishers,  \* calls of upsert_publish_config_file
    Watched      \* bound of the model: the selections that are watched

ASSUME ConfigAssumption ==
    /\ Loaders \cap (Watchers \cup Publishers) = {} /\ Watched \subseteq Selections
    /\ "absent" \notin Publishers

VARIABLES
    claimed,    \* register_resource_watcher: the types whose API has set it
    listening,  \* the types whose API has its listener in the cache
    watcher,    \* [at, on, heard, since] of each watcher
    stored,     \* the files the server has, and whose content they hold
    publisher   \* [at, file] of each publisher

watching == <<claimed, listening, watcher>>
publishing == <<stored, publisher>>
configVars == <<kindsVars, watching, publishing>>

Watchable == {r \in Pool : r.type \in {"ConfigFile", "ConfigGroup", "Instance"}}
Files == {r \in Watchable : r.type = "ConfigFile"}

\* watch_key of the three listeners: that of groups asks for events of files.
Hears(type) == IF type = "ConfigGroup" THEN "ConfigFile" ELSE type

-----------------------------------------------------------------------------
(* Watchers                                                                *)

Step(w, label) == watcher' = [watcher EXCEPT ![w].at = label]

\* The first watcher of an API registers its listener.
BeginWatch(w, r) ==
    /\ watcher[w].at = "idle" /\ active \in Watched /\ r \in Watchable \cap active
    /\ claimed' = claimed \cup {r.type}
    /\ watcher' = [watcher EXCEPT ![w].at = IF r.type \in claimed THEN "adding" ELSE "registering",
                                  ![w].on = r]
    /\ UNCHANGED <<kindsVars, listening, publishing>>

\* A change counts for those who watch from when the listener is in place.
RegisterListener(w) ==
    /\ watcher[w].at = "registering"
    /\ LET type == watcher[w].on.type
       IN  /\ listening' = listening \cup {type}
           /\ watcher' = [v \in Watchers |->
                 IF v = w THEN [watcher[v] EXCEPT !.at = "adding"]
                 ELSE IF watcher[v].at = "watching" /\ watcher[v].on.type = type
                      THEN [watcher[v] EXCEPT !.since = latest[watcher[v].on]]
                 ELSE watcher[v]]
    /\ UNCHANGED <<kindsVars, claimed, publishing>>

AddWatcher(w) ==
    /\ watcher[w].at = "adding"
    /\ watcher' = [watcher EXCEPT ![w].at = "watching", ![w].since = latest[watcher[w].on]]
    /\ UNCHANGED <<kindsVars, claimed, listening, publishing>>

CancelWatch(w) ==
    /\ watcher[w].at = "watching"
    /\ Step(w, "cancelled")
    /\ UNCHANGED <<kindsVars, claimed, listening, publishing>>

\* Mutant: one watcher of a resource is called.
Called_One(e) ==
    LET all == {w \in Watchers : /\ watcher[w].at = "watching" /\ watcher[w].on = e.key
                                 /\ e.key.type \in listening /\ Hears(e.key.type) = e.key.type}
    IN  IF all = {} THEN {} ELSE {CHOOSE w \in all : TRUE}

\* on_event: who watches the resource of the event, if the listener hears of it.
Called(e) == {w \in Watchers : /\ watcher[w].at = "watching" /\ watcher[w].on = e.key
                               /\ e.key.type \in listening /\ Hears(e.key.type) = e.key.type}

\* The handler of an event tells the listeners, which call the watchers.
Tell(p) ==
    /\ Notify(p)
    /\ LET e == task[p].event
       IN  watcher' = [w \in Watchers |->
              IF w \in Called(e) THEN [watcher[w] EXCEPT !.heard = e.version] ELSE watcher[w]]
    /\ UNCHANGED <<claimed, listening, publishing>>

-----------------------------------------------------------------------------
(* Publishers: ensure_config_file_written, then the release                *)

Become(q, label) == publisher' = [publisher EXCEPT ![q].at = label]
Has(r) == stored[r] # "absent"

BeginPublish(q, r) ==
    /\ publisher[q].at = "idle" /\ r \in Files \cap active
    /\ publisher' = [publisher EXCEPT ![q].at = "update", ![q].file = r]
    /\ UNCHANGED <<kindsVars, watching, stored>>

\* The first try of the update: a file that is not there is created.
UpdateFile(q) ==
    /\ publisher[q].at = "update"
    /\ LET r == publisher[q].file
       IN  /\ stored' = IF Has(r) THEN [stored EXCEPT ![r] = q] ELSE stored
           /\ Become(q, IF Has(r) THEN "release" ELSE "create")
    /\ UNCHANGED <<kindsVars, watching>>

\* Mutant: a file somebody else has created meanwhile fails the call.
CreateFile_NoRetry(q) ==
    /\ publisher[q].at = "create"
    /\ LET r == publisher[q].file
       IN  /\ stored' = IF Has(r) THEN stored ELSE [stored EXCEPT ![r] = q]
           /\ Become(q, IF Has(r) THEN "failed" ELSE "release")
    /\ UNCHANGED <<kindsVars, watching>>

\* A file that somebody else has created meanwhile is updated once more.
CreateFile(q) ==
    /\ publisher[q].at = "create"
    /\ LET r == publisher[q].file
       IN  /\ stored' = IF Has(r) THEN stored ELSE [stored EXCEPT ![r] = q]
           /\ Become(q, IF Has(r) THEN "retry" ELSE "release")
    /\ UNCHANGED <<kindsVars, watching>>

RetryUpdate(q) ==
    /\ publisher[q].at = "retry"
    /\ LET r == publisher[q].file
       IN  /\ stored' = IF Has(r) THEN [stored EXCEPT ![r] = q] ELSE stored
           /\ Become(q, IF Has(r) THEN "release" ELSE "failed")
    /\ UNCHANGED <<kindsVars, watching>>

\* The server releases what it has stored.
ReleaseFile(q) ==
    /\ publisher[q].at = "release"
    /\ NewVersion(publisher[q].file)
    /\ Become(q, "published")
    /\ UNCHANGED <<watching, stored>>

\* Any call may fail on its way.
CallFails(q) ==
    /\ publisher[q].at \in {"update", "create", "retry", "release"}
    /\ Become(q, "lost")
    /\ UNCHANGED <<kindsVars, watching, stored>>

Publishing(q) == UpdateFile(q) \/ CreateFile(q) \/ RetryUpdate(q) \/ ReleaseFile(q) \/ CallFails(q)

-----------------------------------------------------------------------------
ConfigInit ==
    /\ KindsInit
    /\ claimed = {} /\ listening = {}
    /\ watcher = [w \in Watchers |-> [at |-> "idle", on |-> NoKey, heard |-> 0, since |-> 0]]
    /\ stored = [r \in Files |-> "absent"]
    /\ publisher = [q \in Publishers |-> [at |-> "idle", file |-> NoKey]]

ConfigNext ==
    \/ KindsStep /\ UNCHANGED <<watching, publishing>>
    \/ \E r \in Pool \ Files : NewVersion(r) /\ UNCHANGED <<watching, publishing>>
    \/ \E p \in Tasks : Tell(p)
    \/ \E w \in Watchers :
         \/ \E r \in Watchable : BeginWatch(w, r)
         \/ RegisterListener(w) \/ AddWatcher(w) \/ CancelWatch(w)
    \/ \E q \in Publishers :
         \/ \E r \in Files : BeginPublish(q, r)
         \/ Publishing(q)

ConfigSpec == ConfigInit /\ [][ConfigNext]_configVars

\* The tasks run, the timer of the connector fires, and the server answers.
Fairness ==
    /\ \A c \in Loaders : WF_configVars((Loading(c) /\ UNCHANGED <<watching, publishing>>) \/ Tell(c))
    /\ WF_configVars((Receiving /\ UNCHANGED <<watching, publishing>>) \/ Tell(Receiver))
    /\ \A r \in Pool : WF_configVars(Serving(r) /\ UNCHANGED <<watching, publishing>>)
    /\ \A w \in Watchers : WF_configVars(RegisterListener(w) \/ AddWatcher(w))

ConfigFairSpec == ConfigSpec /\ Fairness

-----------------------------------------------------------------------------
(* Properties                                                              *)

\* Every piece of the state has its type.
ConfigTypeOK ==
    /\ KindsTypeOK
    /\ claimed \subseteq {r.type : r \in Watchable} /\ listening \subseteq claimed
    /\ watcher \in [Watchers ->
          [at : {"idle", "registering", "adding", "watching", "cancelled"},
           on : Watchable \cup {NoKey}, heard : 0..MaxVersion, since : 0..MaxVersion]]
    /\ stored \in [Files -> Publishers \cup {"absent"}]
    /\ publisher \in [Publishers ->
          [at : {"idle", "update", "create", "retry", "release", "published", "failed", "lost"},
           file : Files \cup {NoKey}]]

\* A watcher of a file or of instances hears of the version in force, unless it
\* was already in force when the watcher was added, or the listener it relies on
\* was; and as long as somebody has loaded it, for a watch alone does not.
WatchersCatchUp ==
    []<>(\A w \in Watchers :
            LET r == watcher[w].on
            IN  (/\ watcher[w].at = "watching" /\ r.type \in listening /\ Hears(r.type) = r.type
                 /\ item[r].exists /\ latest[r] > watcher[w].since)
                    => watcher[w].heard = latest[r])

\* upsert_publish_config_file of a file that does not exist yet succeeds for
\* everybody who calls it at the same time, if no call is lost.
RacingUpsertsSucceed == \A q \in Publishers : publisher[q].at # "failed"
=============================================================================
