------------------------------ MODULE Provider -------------------------------
(***************************************************************************)
(* The provider side (discovery/default.rs): DefaultProviderAPI registers  *)
(* an instance, keeps a task that sends its heartbeats and removes both;   *)
(* DefaultLosslessAPI delays the registration, serves /readiness and       *)
(* /offline, and calls the LosslessActionProvider of the instance if the   *)
(* application has set one, which is taken to start the calls of the       *)
(* provider and not to wait for them.                                      *)
(*                                                                         *)
(* External: the server, which has an instance or not, and finds one that  *)
(* sends no heartbeats unhealthy.  A heartbeat of an instance it does not  *)
(* have changes nothing there, and the client is not told                  *)
(* (heartbeat_instance does not read the answer).                          *)
(* The two flags of an endpoint are set and read in one step.              *)
(***************************************************************************)
EXTENDS Naturals, FiniteSets

CONSTANTS
    Instances,   \* instances of this process
    Calls,       \* concurrent calls of register and deregister
    Jobs,        \* concurrent tasks and calls of the lossless API
    Rules,       \* lossless rules: [delay, readiness, offline]
    MaxLoops     \* bound of the model: heartbeat tasks there are at a time

ASSUME ProviderAssumption ==
    /\ MaxLoops \in Nat \ {0} /\ "none" \notin Instances
    /\ \A r \in Rules : r.delay \in {"off", "time", "health"} /\ r.readiness \in BOOLEAN /\ r.offline \in BOOLEAN

VARIABLES
    server,      \* what the server has of each instance
    beat_tasks,  \* the heartbeat task of each, or 0
    loops,       \* [id, of]: the heartbeat tasks that run
    call,        \* [at, of, loop] of each call
    endpoint,    \* endpoint_state: one for all instances
    job,         \* [at, of] of each job
    acting,      \* action_providers: the instances that have one
    acted,       \* history: what lossless_register or lossless_deregister did last for each
    told,        \* history: what the action provider of each was told last
    orderly,     \* history: of no instance were calls under way together, and
                 \* none was registered that had a task
    crossed      \* history: a job acted while another was about to mark the endpoint

vars == <<server, beat_tasks, loops, call, endpoint, job, acting, acted, told, orderly, crossed>>
provider == <<server, beat_tasks, loops, call>>
lossless == <<endpoint, job, acting, acted, told, crossed>>
actions == <<acting, acted, told, crossed>>

NoCall == [at |-> "idle", of |-> "none", loop |-> 0]
NoJob == [at |-> "idle", of |-> "none"]
Beating(i) == {l \in loops : l.of = i}

-----------------------------------------------------------------------------
(* register                                                                *)

CallOf(c, label, i) == call' = [call EXCEPT ![c] = [NoCall EXCEPT !.at = label, !.of = i]]
Return(c) == call' = [call EXCEPT ![c] = NoCall]
Alone(i) == \A c \in Calls : call[c].of # i

\* Whether the caller waits until it has no other call for the instance.
Register(c, i) ==
    /\ call[c].at = "idle"
    /\ CallOf(c, "registering", i)
    /\ orderly' = (orderly /\ Alone(i) /\ beat_tasks[i] = 0)
    /\ UNCHANGED <<server, beat_tasks, loops>>

\* An instance that exists is a success too; then the heartbeats start.
Registered(c) ==
    /\ call[c].at = "registering"
    /\ server' = [server EXCEPT ![call[c].of] = IF @ = "absent" THEN "healthy" ELSE @]
    /\ \E n \in 1..MaxLoops :
         /\ \A l \in loops : l.id # n
         /\ \A m \in 1..(n - 1) : \E l \in loops : l.id = m
         /\ loops' = loops \cup {[id |-> n, of |-> call[c].of]}
         /\ call' = [call EXCEPT ![c].at = "inserting", ![c].loop = n]
    /\ UNCHANGED <<beat_tasks, lossless, orderly>>

\* The request, or its answer, is lost, or refused.
RegisterFails(c) ==
    /\ call[c].at = "registering"
    /\ \E reached \in BOOLEAN :
          server' = [server EXCEPT ![call[c].of] = IF reached /\ @ = "absent" THEN "healthy" ELSE @]
    /\ Return(c)
    /\ UNCHANGED <<beat_tasks, loops, lossless, orderly>>

\* The handle of a task that is replaced is dropped; its task goes on.
InsertTask(c) ==
    /\ call[c].at = "inserting"
    /\ beat_tasks' = [beat_tasks EXCEPT ![call[c].of] = call[c].loop]
    /\ Return(c)
    /\ UNCHANGED <<server, loops, lossless, orderly>>

-----------------------------------------------------------------------------
(* deregister                                                              *)

\* Mutant: the handle is removed, and its task not aborted.
Deregister_NoAbort(c, i) ==
    /\ call[c].at = "idle"
    /\ beat_tasks' = [beat_tasks EXCEPT ![i] = 0]
    /\ CallOf(c, "deregistering", i)
    /\ orderly' = (orderly /\ Alone(i))
    /\ UNCHANGED <<server, loops>>

\* First the task is aborted, then the server is told.
Deregister(c, i) ==
    /\ call[c].at = "idle"
    /\ loops' = {l \in loops : l.id # beat_tasks[i]}
    /\ beat_tasks' = [beat_tasks EXCEPT ![i] = 0]
    /\ CallOf(c, "deregistering", i)
    /\ orderly' = (orderly /\ Alone(i))
    /\ UNCHANGED server

Deregistered(c) ==
    /\ call[c].at = "deregistering"
    /\ \E reached \in BOOLEAN :
          server' = [server EXCEPT ![call[c].of] = IF reached THEN "absent" ELSE @]
    /\ Return(c)
    /\ UNCHANGED <<beat_tasks, loops, lossless, orderly>>

-----------------------------------------------------------------------------
(* Heartbeats                                                              *)

Beat(n) ==
    /\ \E l \in loops :
         /\ l.id = n
         /\ server' = [server EXCEPT ![l.of] = IF @ = "unhealthy" THEN "healthy" ELSE @]
    /\ UNCHANGED <<beat_tasks, loops, call, lossless, orderly>>

\* Mutant: a heartbeat that fails ends the task.
BeatFails_Ends(n) ==
    /\ \E l \in loops : l.id = n
    /\ loops' = {l \in loops : l.id # n}
    /\ UNCHANGED <<server, beat_tasks, call, lossless, orderly>>

\* A heartbeat that fails is logged.
BeatFails(n) ==
    /\ \E l \in loops : l.id = n
    /\ UNCHANGED vars

Expire(i) ==
    /\ server[i] = "healthy"
    /\ server' = [server EXCEPT ![i] = "unhealthy"]
    /\ UNCHANGED <<beat_tasks, loops, call, lossless, orderly>>

-----------------------------------------------------------------------------
(* Lossless online and offline                                             *)

\* LosslessExecutionPlan::from_rule, LosslessEndpointState::from_plan.
NewEndpoint(rule) ==
    [readiness |-> rule.readiness, offlineOn |-> rule.offline, registered |-> ~rule.readiness, offline |-> FALSE]

\* readiness_response.
Ready == endpoint.readiness /\ endpoint.registered /\ ~endpoint.offline

MarkedRegistered == [endpoint EXCEPT !.registered = TRUE, !.offline = FALSE]
MarkedOffline == [endpoint EXCEPT !.registered = FALSE, !.offline = TRUE]

JobOf(j, label, i) == job' = [job EXCEPT ![j] = [at |-> label, of |-> i]]
Continue(j, label) == job' = [job EXCEPT ![j].at = label]

\* Jobs that have acted and not marked the endpoint yet.
Marking == {"registered", "deregistered"}
Crosses(j) == crossed' = (crossed \/ \E k \in Jobs \ {j} : job[k].at \in Marking)

SetActionProvider(i) ==
    /\ i \notin acting
    /\ acting' = acting \cup {i}
    /\ UNCHANGED <<provider, endpoint, job, acted, told, orderly, crossed>>

\* schedule_register: the endpoint starts afresh, for whichever instance.
ScheduleRegister(j, i, rule) ==
    /\ job[j].at = "idle"
    /\ endpoint' = NewEndpoint(rule)
    /\ JobOf(j, IF rule.delay = "off" THEN "register" ELSE rule.delay, i)
    /\ UNCHANGED <<provider, actions, orderly>>

DelayOver(j) ==
    /\ job[j].at = "time"
    /\ Continue(j, "register")
    /\ UNCHANGED <<provider, endpoint, actions, orderly>>

\* lossless_healthcheck_ready: an instance without an action provider is; one that
\* is not is asked again after an interval.
HealthCheck(j) ==
    /\ job[j].at = "health"
    /\ \E ready \in {TRUE, job[j].of \notin acting} : Continue(j, IF ready THEN "register" ELSE "health")
    /\ UNCHANGED <<provider, endpoint, actions, orderly>>

LosslessRegister(j, i) ==
    /\ job[j].at = "idle"
    /\ JobOf(j, "register", i)
    /\ UNCHANGED <<provider, endpoint, actions, orderly>>

LosslessDeregister(j, i) ==
    /\ job[j].at = "idle"
    /\ JobOf(j, "deregister", i)
    /\ UNCHANGED <<provider, endpoint, actions, orderly>>

\* What a job does to its instance, by the action provider: without one nothing.
Acts(j, what, Begin(_, _)) ==
    /\ IF job[j].of \in acting
       THEN /\ \E c \in Calls : Begin(c, job[j].of)
            /\ told' = [told EXCEPT ![job[j].of] = what]
       ELSE UNCHANGED <<provider, told, orderly>>
    /\ acted' = [acted EXCEPT ![job[j].of] = what]
    /\ Crosses(j)
    /\ UNCHANGED <<endpoint, acting>>

DoRegister(j) ==
    /\ job[j].at = "register"
    /\ Acts(j, "register", Register)
    /\ Continue(j, "registered")

\* mark_registered, whether anybody was told or not.
MarkRegistered(j) ==
    /\ job[j].at = "registered"
    /\ endpoint' = MarkedRegistered
    /\ job' = [job EXCEPT ![j] = NoJob]
    /\ UNCHANGED <<provider, actions, orderly>>

\* handle_endpoint_path of /offline.
OfflineRequest(j, i) ==
    /\ job[j].at = "idle" /\ endpoint.offlineOn
    /\ endpoint' = MarkedOffline
    /\ JobOf(j, "deregister", i)
    /\ UNCHANGED <<provider, actions, orderly>>

DoDeregister(j) ==
    /\ job[j].at = "deregister"
    /\ Acts(j, "deregister", Deregister)
    /\ Continue(j, "deregistered")

\* Mutant: only a request of the endpoint marks it.
MarkOffline_Skipped(j) ==
    /\ job[j].at = "deregistered"
    /\ job' = [job EXCEPT ![j] = NoJob]
    /\ UNCHANGED <<provider, endpoint, actions, orderly>>

MarkOffline(j) ==
    /\ job[j].at = "deregistered"
    /\ endpoint' = MarkedOffline
    /\ job' = [job EXCEPT ![j] = NoJob]
    /\ UNCHANGED <<provider, actions, orderly>>

-----------------------------------------------------------------------------
Init ==
    /\ server = [i \in Instances |-> "absent"]
    /\ beat_tasks = [i \in Instances |-> 0]
    /\ loops = {}
    /\ call = [c \in Calls |-> NoCall]
    /\ endpoint = NewEndpoint([delay |-> "off", readiness |-> FALSE, offline |-> FALSE])
    /\ job = [j \in Jobs |-> NoJob]
    /\ acting = {}
    /\ acted = [i \in Instances |-> "none"]
    /\ told = [i \in Instances |-> "none"]
    /\ orderly = TRUE /\ crossed = FALSE

Calling(c) == Registered(c) \/ RegisterFails(c) \/ InsertTask(c) \/ Deregistered(c)
Working(j) == DelayOver(j) \/ HealthCheck(j) \/ DoRegister(j) \/ MarkRegistered(j) \/ DoDeregister(j) \/ MarkOffline(j)

Next ==
    \/ \E c \in Calls :
         \/ \E i \in Instances : (Register(c, i) \/ Deregister(c, i)) /\ UNCHANGED lossless
         \/ Calling(c)
    \/ \E n \in 1..MaxLoops : Beat(n) \/ BeatFails(n)
    \/ \E i \in Instances : Expire(i) \/ SetActionProvider(i)
    \/ \E j \in Jobs :
         \/ \E i \in Instances :
              \/ \E rule \in Rules : ScheduleRegister(j, i, rule)
              \/ LosslessRegister(j, i) \/ LosslessDeregister(j, i) \/ OfflineRequest(j, i)
         \/ Working(j)

Spec == Init /\ [][Next]_vars

\* Heartbeat tasks run, and not all of their heartbeats are lost.
FairSpec == Spec /\ \A n \in 1..MaxLoops : WF_vars(Beat(n))

-----------------------------------------------------------------------------
(* Properties                                                              *)

\* As long as the calls for an instance take turns, and nobody registers what
\* is registered, no task beats for an instance but the one deregister will
\* abort: nothing beats for an instance that was deregistered.
NoStrayBeats ==
    orderly => \A i \in Instances : Alone(i) =>
        {l.id : l \in Beating(i)} = {beat_tasks[i]} \ {0}

\* The endpoint says ready, under a rule with readiness, only after a registration
\* was carried out.  And as long as no job acts while another is between its action
\* and its mark, what the endpoint says is what was carried out last for some
\* instance, however registrations are delayed and requests to go offline come in
\* between; and nobody was told otherwise.  Whether anybody was told at all, and the
\* instance is registered, the endpoint does not know: without an action provider
\* it is ready all the same.
ReadyIsRegistered == Ready =>
    /\ \E i \in Instances : acted[i] # "none"
    /\ (~crossed /\ \A j \in Jobs : job[j].at \notin Marking) =>
          \E i \in Instances : acted[i] = "register" /\ told[i] # "deregister"

\* An instance that has a heartbeat task does not stay unhealthy, whatever
\* heartbeats fail.
KeepsHealthy == \A i \in Instances : []<>(beat_tasks[i] = 0 \/ server[i] # "unhealthy")
=============================================================================
