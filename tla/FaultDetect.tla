----------------------------- MODULE FaultDetect -----------------------------
(***************************************************************************)
(* Active fault detection (traffic/faultdetect/default.rs).  Rules and     *)
(* instances of a service reach the detector on two ways: as events of the *)
(* resource cache, which its receive task hands to the two listeners, and  *)
(* as what an access of the engine loads (load_service_instances_for_      *)
(* access, watch_service).  Both put what they have into two maps that are *)
(* shared and then reload: stop every probe loop, start those of the       *)
(* targets that a copy of the maps gives.  The maps and the list of        *)
(* handles have a lock each, a reload takes one after the other, and       *)
(* several may be under way.                                               *)
(*                                                                         *)
(* The resource cache is external here: what it holds of a service is a    *)
(* version of its rules and one of its instances, several of which may     *)
(* have one host.  A turn of a loop, a probe and its report to the circuit *)
(* breaker, changes nothing of this state; what it reports is Report.      *)
(***************************************************************************)
EXTENDS Naturals, Sequences

CONSTANTS
    Services,     \* the services that are accessed
    Accessors,    \* concurrent calls of the engine
    Receiver,     \* the task that hands events to the listeners
    RulesAt,      \* RulesAt[s]: the versions of the rules of s
    InstancesAt,  \* InstancesAt[s]: those of its instances, [id, host, available]
    Naming,       \* Naming[s]: whose instances the cached payload says they are
    Boxings,      \* may a cache box all rules of a service as one?
    ByHand        \* targets given to start_fault_detect_targets

Protocols == {"http", "tcp", "udp"}
ASSUME FaultAssumption ==
    /\ Receiver \notin Accessors /\ "user" \notin Accessors \cup {Receiver}
    /\ Boxings \subseteq BOOLEAN
    /\ \A s \in Services :
         /\ RulesAt[s] \in Seq({RulesAt[s][v] : v \in DOMAIN RulesAt[s]})
         /\ InstancesAt[s] \in Seq({InstancesAt[s][v] : v \in DOMAIN InstancesAt[s]})
         /\ \A v \in DOMAIN RulesAt[s] : \A r \in RulesAt[s][v] : r.protocol \in Protocols \cup {"unknown"}
         /\ \A v \in DOMAIN InstancesAt[s] : \A i \in InstancesAt[s][v] : i.available \in BOOLEAN

VARIABLES
    oneBox,     \* does the cache of this process box them as one?
    cached,     \* the versions the cache holds: [rules, instances], 0 is none
    plans,      \* FaultDetectResourceListenerState.plans
    instances,  \* FaultDetectResourceListenerState.instances
    running,    \* the probe loops whose handles the owner has
    worker,     \* where each call and the receive task are, and with what
    past,       \* history: what the maps were since the last reloads began
    lone,       \* history: was the last reload one that no other overlapped?
    stopped     \* history: has the application stopped the loops since?

vars == <<oneBox, cached, plans, instances, running, worker, past, lone, stopped>>
maps == <<plans, instances>>
history == <<past, lone, stopped>>

Workers == Accessors \cup {Receiver}
\* An entry of the maps: a service without plans or instances is as one without
\* an entry.
Absent == [service |-> "none", plans |-> {}, list |-> {}]
NoMap == [s \in Services |-> Absent]
Idle == [at |-> "idle", of |-> "none", strict |-> FALSE, rules |-> 0, list |-> Absent,
         plans |-> NoMap, targets |-> {}]

At(p, label) == worker[p].at = label
Goto(p, label) == worker' = [worker EXCEPT ![p].at = label]
Forget(p, label) == worker' = [worker EXCEPT ![p] = [Idle EXCEPT !.at = label]]
Finish(p) == worker' = [worker EXCEPT ![p] = Idle]

MapsAre == [plans |-> {plans}, instances |-> {instances}]
MapsChange ==
    /\ past' = [plans |-> past.plans \cup {plans'}, instances |-> past.instances \cup {instances'}]
    /\ UNCHANGED <<lone, stopped>>

Reloading(p) == worker[p].at \in {"pairing", "stopping", "starting"}

-----------------------------------------------------------------------------
(* Plans and targets                                                       *)

\* build_fault_detect_plans: a rule without a target, a sub-rule that is
\* switched off or of an unknown protocol gives no plan.
BuildPlans(rules) ==
    {[rule |-> r.id, service |-> r.target, protocol |-> r.protocol, expects |-> r.expects, word |-> r.word] :
        r \in {q \in rules : q.target # "none" /\ ~q.disable /\ q.protocol # "unknown"}}

PlansOf(s, v) == [Absent EXCEPT !.plans = IF v = 0 THEN {} ELSE BuildPlans(RulesAt[s][v])]

\* ServiceInstances::new: the service the payload names, and the instances.
ListOf(s, v) ==
    IF v = 0 THEN Absent
    ELSE [Absent EXCEPT !.service = Naming[s], !.list = {j \in InstancesAt[s][v] : j.available}]

Targets(s, ps, is) == {[of |-> s, plan |-> p, instance |-> i] : p \in ps, i \in is}

\* Mutant: the plans are paired with the instances by the service they name.
TargetsOf_Flat(ps, is) ==
    UNION {{t \in Targets(s, UNION {ps[r].plans : r \in Services}, is[s].list) : t.plan.service = is[s].service} :
             s \in Services}

\* build_fault_detect_targets, for each service of the instances: the plans
\* under the same key, if they are for the service the instances name, with
\* each of the instances.
TargetsOf(ps, is) ==
    UNION {{t \in Targets(s, ps[s].plans, is[s].list) : t.plan.service = is[s].service} : s \in Services}

-----------------------------------------------------------------------------
(* Accesses                                                                *)

\* load_service_instances_for_access (strict: watch_service): both loads are
\* joined; without instances the call fails.  The rules are a copy, the
\* instances are the list of the cache itself.
Access(c, s, strict) ==
    /\ At(c, "idle")
    /\ LET rules == cached[s].rules
       IN  /\ cached[s].instances # 0
           /\ strict => rules # 0
           /\ worker' = [worker EXCEPT ![c] = [Idle EXCEPT
                            !.at = IF rules = 0 THEN "listing" ELSE "plans", !.of = s, !.strict = strict, !.rules = rules]]
    /\ UNCHANGED <<oneBox, cached, maps, running, history>>

List(c, s) == worker' = [worker EXCEPT ![c] = [Idle EXCEPT !.at = "listing", !.of = s]]

\* apply_initial_snapshot: rules in one box are not of the type it expects,
\* which watch_service returns as an error and an access passes over.
InsertPlans(c) ==
    /\ At(c, "plans")
    /\ LET s == worker[c].of
       IN  IF oneBox
           THEN /\ IF worker[c].strict THEN Finish(c) ELSE List(c, s)
                /\ UNCHANGED plans
           ELSE /\ plans' = [plans EXCEPT ![s] = PlansOf(s, worker[c].rules)]
                /\ List(c, s)
    /\ UNCHANGED <<oneBox, cached, instances, running>>
    /\ MapsChange

\* apply_instance_snapshot, apply_event: the list is read, and then entered.
ListInstances(p) ==
    /\ At(p, "listing")
    /\ LET s == worker[p].of
       IN  worker' = [worker EXCEPT ![p].at = "inserting", ![p].list = ListOf(s, cached[s].instances)]
    /\ UNCHANGED <<oneBox, cached, maps, running, history>>

InsertInstances(p) ==
    /\ At(p, "inserting")
    /\ instances' = [instances EXCEPT ![worker[p].of] = worker[p].list]
    /\ Forget(p, "copying")
    /\ UNCHANGED <<oneBox, cached, plans, running>>
    /\ MapsChange

-----------------------------------------------------------------------------
(* Events: the cache takes a change, and its listeners are told            *)

Last(s, kind) == IF kind = "rules" THEN Len(RulesAt[s]) ELSE Len(InstancesAt[s])

Event(s, kind) ==
    /\ At(Receiver, "idle")
    /\ cached[s][kind] < Last(s, kind)
    /\ cached' = [cached EXCEPT ![s][kind] = @ + 1]
    /\ worker' = [worker EXCEPT ![Receiver] = [Idle EXCEPT
                     !.at = IF kind = "rules" THEN "told" ELSE "listing", !.of = s,
                     !.rules = IF kind = "rules" THEN cached'[s].rules ELSE 0]]
    /\ UNCHANGED <<oneBox, maps, running, history>>

\* apply_event of rules.
TakeRules ==
    /\ At(Receiver, "told")
    /\ LET s == worker[Receiver].of IN plans' = [plans EXCEPT ![s] = PlansOf(s, worker[Receiver].rules)]
    /\ Forget(Receiver, "copying")
    /\ UNCHANGED <<oneBox, cached, instances, running>>
    /\ MapsChange

\* apply_event of a removal.
Removal(s, kind) ==
    /\ At(Receiver, "idle")
    /\ cached[s][kind] = Last(s, kind)
    /\ cached' = [cached EXCEPT ![s][kind] = 0]
    /\ IF kind = "rules"
       THEN plans' = [plans EXCEPT ![s] = Absent] /\ UNCHANGED instances
       ELSE instances' = [instances EXCEPT ![s] = Absent] /\ UNCHANGED plans
    /\ Forget(Receiver, "copying")
    /\ UNCHANGED <<oneBox, running>>
    /\ MapsChange

-----------------------------------------------------------------------------
(* reload_targets                                                          *)

CopyPlans(p) ==
    /\ At(p, "copying")
    /\ worker' = [worker EXCEPT ![p].at = "pairing", ![p].plans = plans]
    /\ IF \E q \in Workers \ {p} : Reloading(q)
       THEN lone' = FALSE /\ UNCHANGED <<past, stopped>>
       ELSE lone' = TRUE /\ past' = MapsAre /\ stopped' = FALSE
    /\ UNCHANGED <<oneBox, cached, maps, running>>

CopyInstances(p) ==
    /\ At(p, "pairing")
    /\ worker' = [worker EXCEPT ![p] =
                    [Idle EXCEPT !.at = "stopping", !.targets = TargetsOf(worker[p].plans, instances)]]
    /\ UNCHANGED <<oneBox, cached, maps, running, history>>

\* Mutant: the loops of a reload are added to those that run.
StopOld_Kept(p) ==
    /\ At(p, "stopping")
    /\ Goto(p, "starting")
    /\ UNCHANGED <<oneBox, cached, maps, running, history>>

\* FaultDetectLifecycleOwner::stop.
StopOld(p) ==
    /\ At(p, "stopping")
    /\ running' = {}
    /\ Goto(p, "starting")
    /\ UNCHANGED <<oneBox, cached, maps, history>>

Loops(by, targets) == {[by |-> by, target |-> t] : t \in targets}

\* FaultDetectLifecycleOwner::start_targets.
StartNew(p) ==
    /\ At(p, "starting")
    /\ running' = running \cup Loops(p, worker[p].targets)
    /\ Finish(p)
    /\ UNCHANGED <<oneBox, cached, maps, history>>

\* The owner is given away: the application may stop all loops, and start
\* loops of its own.
StopByHand ==
    /\ running # {}
    /\ running' = {} /\ stopped' = TRUE
    /\ UNCHANGED <<oneBox, cached, maps, worker, past, lone>>

StartByHand ==
    /\ ByHand # {} /\ ~(Loops("user", ByHand) \subseteq running)
    /\ running' = running \cup Loops("user", ByHand)
    /\ UNCHANGED <<oneBox, cached, maps, worker, history>>

-----------------------------------------------------------------------------
(* Probes                                                                  *)

\* What a probe meets: nothing in time, a broken connection, an answer that
\* is, or is not, what the plan asks for.
Meets == {"late", "broken", "good", "bad"}

\* execute_{http,tcp,udp}_fault_detect: without anything to expect the TCP and
\* the UDP probe do not read, and no answer is bad.
Success(plan, met) ==
    \/ met = "good"
    \/ met = "bad" /\ plan.protocol # "http" /\ ~plan.expects

\* The message of a failure says "timeout" if the time was up; that of HTTP
\* quotes the url, and that of an unexpected answer what was expected.
SaysTimeout(plan, met) ==
    \/ met = "late"
    \/ plan.word /\ (plan.protocol = "http" \/ met = "bad")

\* fault_detect_result_to_resource_stat.
StatOf(plan, met) ==
    IF Success(plan, met) THEN "RetSuccess"
    ELSE IF SaysTimeout(plan, met) THEN "RetTimeout" ELSE "RetFail"

\* What the breaker is told is of the service of the plan.
Report(plan, met) == [service |-> plan.service, status |-> StatOf(plan, met)]

-----------------------------------------------------------------------------
Init ==
    /\ oneBox \in Boxings
    /\ cached = [s \in Services |-> [rules |-> 0, instances |-> 0]]
    /\ plans = [s \in Services |-> Absent] /\ instances = [s \in Services |-> Absent]
    /\ running = {}
    /\ worker = [p \in Workers |-> Idle]
    /\ past = MapsAre /\ lone = TRUE /\ stopped = FALSE

Reload(p) == CopyPlans(p) \/ CopyInstances(p) \/ StopOld(p) \/ StartNew(p)

Next ==
    \/ \E c \in Accessors :
         \/ \E s \in Services, strict \in BOOLEAN : Access(c, s, strict)
         \/ InsertPlans(c)
    \/ \E s \in Services, kind \in {"rules", "instances"} : Event(s, kind) \/ Removal(s, kind)
    \/ TakeRules
    \/ \E p \in Workers : ListInstances(p) \/ InsertInstances(p) \/ Reload(p)
    \/ StopByHand \/ StartByHand

Spec == Init /\ [][Next]_vars

-----------------------------------------------------------------------------
(* Properties                                                              *)

\* The loops that reloads have started.
Reloaded == {l \in running : l.by # "user"}
Probed == {l.target : l \in Reloaded}

\* What could be probed by what the maps were since the last reloads began.
Recent == UNION {TargetsOf(ps, is) : ps \in past.plans, is \in past.instances}

\* While no reload is under way, every loop is of rules and of instances that the
\* maps had since the last reloads began, however many of them overlapped: what is
\* older is gone.  If the maps have been the same since, the loops are those of all
\* plans and instances in them, unless the application stopped them; and one for
\* each plan and instance if no reload overlapped another.
OnlyRecentLoops ==
    (\A p \in Workers : ~Reloading(p)) =>
        /\ Probed \subseteq Recent
        /\ past = MapsAre /\ ~stopped => Probed = TargetsOf(plans, instances)
        /\ lone => \A l, m \in Reloaded : l.target = m.target => l = m

\* What the comment in reload_targets says of it: no loop of old rules or of old
\* instances is left.
NoOldLoops ==
    (\A p \in Workers : At(p, "idle")) => Probed \subseteq TargetsOf(plans, instances)

\* What the breaker hears of a service: it comes from an available instance of a
\* list that says it is of that service, by a rule that came under the same name as
\* the list, although all services share the maps, one reload starts the loops of
\* all of them and several overlap.  It says that all went well only if the callee
\* answered as asked or nothing was asked of it, and that the time was up when it
\* was.
ReportsAreTrue ==
    \A l \in Reloaded, met \in Meets :
        LET report == Report(l.target.plan, met)
        IN  /\ \E s \in Services :
                 /\ \E v \in DOMAIN RulesAt[s] : l.target.plan \in BuildPlans(RulesAt[s][v])
                 /\ \E v \in DOMAIN InstancesAt[s] :
                       l.target.instance \in InstancesAt[s][v] /\ l.target.instance.available
                 /\ report.service = Naming[s]
            /\ report.status = "RetSuccess" =>
                   met = "good" \/ (met = "bad" /\ l.target.plan.protocol # "http" /\ ~l.target.plan.expects)
            /\ met = "late" => report.status = "RetTimeout"
=============================================================================
