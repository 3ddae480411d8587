---------------------------- MODULE CircuitBreaker ----------------------------
(***************************************************************************)
(* CompositeCircuitBreaker (plugins/circuitbreaker/composite) under the    *)
(* calls of DefaultCircuitBreakerAPI and InvokeHandler                     *)
(* (traffic/circuitbreaker), of report_service_call and of the fault       *)
(* detector.                                                               *)
(*                                                                         *)
(* The plugin keeps one rule list for the whole client under one mutex and *)
(* the state machines of every resource under another.  A call of the API  *)
(* first loads the rules of its callee from the resource cache, replaces   *)
(* the list by them, clears the state machines if the list changed, and    *)
(* only then checks or reports.  Callers run concurrently: each lock is    *)
(* taken by a step of its own.                                             *)
(***************************************************************************)
EXTENDS Naturals, Sequences, FiniteSets

CONSTANTS
    Callers,      \* the concurrent users of the client
    Keys,         \* resource_key of the resources they use
    Services,     \* the callee services
    ServiceOf,    \* [Keys -> Services]
    RuleLists,    \* [Services -> SUBSET Seq(Rule)]: what may be published
    Jobs,         \* the calls they make, see Job
    U32Max,       \* largest value of a u32 counter
    MaxReports,   \* bound of the model: reports on a resource between two clears
    MaxTime       \* bound of the model: seconds

VARIABLES
    published,  \* the rules the resource cache holds for each service
    rules,      \* CompositeCircuitBreaker.rules
    states,     \* CompositeCircuitBreaker.states, by resource
    call,       \* what each caller is doing, see Idle
    now,
    trail,      \* history: what was reported on a resource since the last clear
    installed,  \* history: the last list put in force on behalf of a service
    raced       \* history: the rules changed between a snapshot and its report

vars == <<published, rules, states, call, now, trail, installed, raced>>

\* A rule: its matcher as the keys it applies to, its ConsecutiveError
\* triggers, and the first recover condition of its policies, if any.
NoRecovery == [present |-> FALSE, sleep |-> 0, successes |-> 0]
IsRule(r) ==
    /\ r.enable \in BOOLEAN
    /\ r.matches \subseteq Keys
    /\ r.priority \in Nat
    /\ r.triggers \subseteq [errors : 0..U32Max, minimum : 0..U32Max]
    /\ r.recover \in [present : BOOLEAN, sleep : Nat, successes : 0..U32Max]
IsRuleList(l) == l \in Seq({l[i] : i \in DOMAIN l}) /\ \A i \in DOMAIN l : IsRule(l[i])

\* refresh: "required" for the API and the reports of InvokeHandler, "tried"
\* for acquire_permission, "none" for report_service_call and the fault
\* detector.  InvokeHandler reports on the service and then on the method.
Job == [kind : {"check", "report"}, refresh : {"required", "tried", "none"},
        keys : Seq(Keys)]

\* A caller that is in no call.  failed: is_error_status of what it reports;
\* list: the rules it has loaded, or its snapshot of the applicable ones.
Idle == [at |-> "idle", kind |-> "check", refresh |-> "none", keys |-> <<>>,
         failed |-> FALSE, list |-> <<>>]

ASSUME BreakerAssumption ==
    /\ ServiceOf \in [Keys -> Services]
    /\ DOMAIN RuleLists = Services
    /\ \A s \in Services : \A l \in RuleLists[s] : IsRuleList(l)
    /\ \A j \in Jobs : j \in Job /\ j.keys # <<>>
    /\ U32Max \in Nat /\ MaxReports \in Nat
    /\ MaxTime \in Nat

-----------------------------------------------------------------------------
(* applicable_rules: enabled, matching, by priority and then as published. *)

Applies(r, k) == r.enable /\ k \in r.matches

\* Position i is before position j of list l.
Before(l, i, j) ==
    l[i].priority < l[j].priority \/ (l[i].priority = l[j].priority /\ i < j)

Applicable(l, k) ==
    LET chosen == {i \in DOMAIN l : Applies(l[i], k)}
        rank(i) == Cardinality({j \in chosen : Before(l, j, i)}) + 1
    IN  [n \in 1..Cardinality(chosen) |-> l[CHOOSE i \in chosen : rank(i) = n]]

-----------------------------------------------------------------------------
(* CircuitBreakerRuleState                                                 *)

\* opened_at is 0 for None.
State(rule, status, opened_at, errors, successes, requests) ==
    [rule |-> rule, status |-> status, opened_at |-> opened_at,
     errors |-> errors, successes |-> successes, requests |-> requests]

NewState(rule) == State(rule, "Close", 0, 0, 0, 0)
Opened(x) == State(x.rule, "Open", now, x.errors, 0, x.requests)
Closed(x) == State(x.rule, "Close", 0, 0, 0, 0)
HalfOpened(x) == State(x.rule, "HalfOpen", x.opened_at, x.errors, 0, x.requests)

\* A u32 counter wraps.
Increment(n) == (n + 1) % (U32Max + 1)
AtLeastOne(n) == IF n > 0 THEN n ELSE 1

\* Open becomes HalfOpen when somebody looks after the sleep window.
Cooled(x) ==
    /\ x.status = "Open"
    /\ x.rule.recover.present
    /\ now - x.opened_at >= x.rule.recover.sleep

Refreshed(x) == IF Cooled(x) THEN HalfOpened(x) ELSE x

\* A success is counted by a half-open state, enough of them close it.
Recover(x) == IF x.rule.recover.present THEN AtLeastOne(x.rule.recover.successes) ELSE 1
\* Mutant: the first success closes.
Tried_OneIsEnough(x) == Closed(x)

Tried(x) ==
    LET y == State(x.rule, x.status, x.opened_at, x.errors, x.successes + 1, x.requests)
    IN  IF y.successes >= Recover(x) THEN Closed(y) ELSE y

Trips(t, requests, errors) ==
    requests >= t.minimum /\ t.errors > 0 /\ errors >= t.errors

ShouldOpen(x) ==
    /\ x.rule.enable
    /\ \E t \in x.rule.triggers : Trips(t, x.requests, x.errors)

\* Mutant: a success does not end the failures in a row.
Counted_KeepsErrors(x, failure) ==
    LET y == State(x.rule, x.status, x.opened_at,
                   IF failure THEN Increment(x.errors) ELSE x.errors,
                   x.successes, Increment(x.requests))
    IN  IF ShouldOpen(y) THEN Opened(y) ELSE y

\* A closed state counts every report, and the failures in a row.
Counted(x, failure) ==
    LET y == State(x.rule, x.status, x.opened_at,
                   IF failure THEN Increment(x.errors) ELSE 0,
                   x.successes, Increment(x.requests))
    IN  IF ShouldOpen(y) THEN Opened(y) ELSE y

\* report_status
Reported(x, failure) ==
    LET y == Refreshed(x) IN
    CASE y.status = "Open"     -> y
      [] y.status = "HalfOpen" -> IF failure THEN Opened(y) ELSE Tried(y)
      [] y.status = "Close"    -> Counted(y, failure)

\* check_resource stops looking at the first open state.
Checked(s) ==
    [i \in DOMAIN s |->
        IF \A j \in 1..i - 1 : Refreshed(s[j]).status # "Open" THEN Refreshed(s[i]) ELSE s[i]]

-----------------------------------------------------------------------------
Init ==
    /\ \E p \in [Services -> UNION {RuleLists[s] : s \in Services}] :
          (\A s \in Services : p[s] \in RuleLists[s]) /\ published = p
    /\ rules = <<>>
    /\ states = [k \in {} |-> <<>>]
    /\ call = [c \in Callers |-> Idle]
    /\ now = 0
    /\ trail = [k \in Keys |-> <<>>]
    /\ installed = [s \in Services |-> <<>>]
    /\ raced = FALSE

At(c, label) == call[c].at = label
Goto(c, label) == call' = [call EXCEPT ![c].at = label]
Return(c) == call' = [call EXCEPT ![c] = Idle]
Key(c) == Head(call[c].keys)
Callee(c) == ServiceOf[Key(c)]

plugin == <<rules, states, trail, installed, raced>>

\* A call begins; without a refresh it goes straight to the plugin.
Begin(c, j, failed) ==
    /\ At(c, "idle")
    /\ j.kind = "check" => ~failed
    /\ call' = [call EXCEPT ![c] =
          [at |-> IF j.refresh = "none" THEN "ready" ELSE "loading", kind |-> j.kind,
           refresh |-> j.refresh, keys |-> j.keys, failed |-> failed, list |-> <<>>]]
    /\ UNCHANGED <<published, plugin, now>>

\* get_service_rule answers with what the cache holds for the callee.
Load(c) ==
    /\ At(c, "loading")
    /\ call' = [call EXCEPT ![c] = [@ EXCEPT !.at = "loaded", !.list = published[Callee(c)]]]
    /\ UNCHANGED <<published, plugin, now>>

\* It fails: only acquire_permission goes on all the same.
LoadFails(c) ==
    /\ At(c, "loading")
    /\ IF call[c].refresh = "tried" THEN Goto(c, "ready") ELSE Return(c)
    /\ UNCHANGED <<published, plugin, now>>

\* update_rules_inner, with the rules locked.
Install(c) ==
    /\ At(c, "loaded")
    /\ rules' = call[c].list
    /\ installed' = [installed EXCEPT ![Callee(c)] = call[c].list]
    /\ raced' = (raced \/ (rules # call[c].list /\ \E d \in Callers : At(d, "recording")))
    /\ Goto(c, IF rules = call[c].list THEN "ready" ELSE "clearing")
    /\ UNCHANGED <<published, states, trail, now>>

\* Mutant: the machines of the replaced rules are kept.
Clear_Nothing(c) ==
    /\ At(c, "clearing")
    /\ Goto(c, "ready")
    /\ UNCHANGED <<published, plugin, now>>

\* update_rules_inner, with the states locked.
Clear(c) ==
    /\ At(c, "clearing")
    /\ states' = [k \in {} |-> <<>>]
    /\ trail' = [k \in Keys |-> <<>>]
    /\ Goto(c, "ready")
    /\ UNCHANGED <<published, rules, installed, now, raced>>

\* check_resource, with the states locked.
Check(c) ==
    /\ At(c, "ready") /\ call[c].kind = "check"
    /\ states' = [k \in DOMAIN states |-> IF k = Key(c) THEN Checked(states[k]) ELSE states[k]]
    /\ Return(c)
    /\ UNCHANGED <<published, rules, trail, installed, now, raced>>

\* report_stat takes its snapshot of the rules ...
Snapshot(c) ==
    /\ At(c, "ready") /\ call[c].kind = "report"
    /\ call' = [call EXCEPT ![c] = [@ EXCEPT !.at = "recording", !.list = Applicable(rules, Key(c))]]
    /\ UNCHANGED <<published, plugin, now>>

\* The states of a resource are made on its first report.
StatesFor(c) ==
    IF Key(c) \in DOMAIN states THEN states[Key(c)]
    ELSE [i \in DOMAIN call[c].list |-> NewState(call[c].list[i])]

\* ... and then locks the states.
Record(c) ==
    /\ At(c, "recording")
    /\ Len(trail[Key(c)]) < MaxReports
    /\ LET s == StatesFor(c) IN
       states' = [k \in DOMAIN states \cup {Key(c)} |->
           IF k = Key(c) THEN [i \in DOMAIN s |-> Reported(s[i], call[c].failed)] ELSE states[k]]
    /\ trail' = [trail EXCEPT ![Key(c)] = Append(@, call[c].failed)]
    /\ IF Len(call[c].keys) = 1 THEN Return(c)
       ELSE call' = [call EXCEPT ![c] =
                [@ EXCEPT !.at = "ready", !.keys = Tail(call[c].keys), !.list = <<>>]]
    /\ UNCHANGED <<published, rules, installed, now, raced>>

\* The control plane publishes another list for a service.
Publish(s, l) ==
    /\ published' = [published EXCEPT ![s] = l]
    /\ UNCHANGED <<plugin, call, now>>

Tick ==
    /\ now < MaxTime
    /\ now' = now + 1
    /\ UNCHANGED <<published, plugin, call>>

Step(c) ==
    \/ \E j \in Jobs, failed \in BOOLEAN : Begin(c, j, failed)
    \/ Load(c) \/ LoadFails(c) \/ Install(c) \/ Clear(c)
    \/ Check(c) \/ Snapshot(c) \/ Record(c)

Next ==
    \/ \E c \in Callers : Step(c)
    \/ \E s \in Services : \E l \in RuleLists[s] : Publish(s, l)
    \/ Tick

Spec == Init /\ [][Next]_vars

-----------------------------------------------------------------------------
(* Properties                                                              *)

IsState(x) ==
    /\ x = State(x.rule, x.status, x.opened_at, x.errors, x.successes, x.requests)
    /\ IsRule(x.rule)
    /\ x.status \in {"Close", "HalfOpen", "Open"}
    /\ x.opened_at \in 0..MaxTime
    /\ x.errors \in 0..U32Max /\ x.requests \in 0..U32Max /\ x.successes \in Nat

\* Every piece of the plugin's and the callers' state has its type.
TypeOK ==
    /\ \A s \in Services : published[s] \in RuleLists[s] /\ IsRuleList(installed[s])
    /\ IsRuleList(rules)
    /\ DOMAIN states \subseteq Keys
    /\ \A k \in DOMAIN states : \A i \in DOMAIN states[k] : IsState(states[k][i])
    /\ \A c \in Callers :
          /\ call[c].at \in {"idle", "loading", "loaded", "clearing", "ready", "recording"}
          /\ call[c].keys = <<>> <=> At(c, "idle")
          /\ IsRuleList(call[c].list)
    /\ now \in 0..MaxTime
    /\ trail \in [Keys -> Seq(BOOLEAN)]
    /\ raced \in BOOLEAN

\* The last n reports on k were all failures, or all successes.
LastAre(k, n, failures) ==
    /\ n <= Len(trail[k])
    /\ \A i \in Len(trail[k]) - n + 1..Len(trail[k]) : trail[k][i] = failures

\* The counters of a state machine tell the truth about what was reported on
\* its resource: a closed one has counted exactly the failures at the end of
\* the trail and has reached none of its thresholds, a half-open one has
\* counted successes at its end, too few to close, and one that was opened and
\* not tried since counts the failures that opened it, whichever callers
\* reported and however checks, refreshes and the clock came in between.
CountersMatchTrail ==
    \A k \in DOMAIN states : \A i \in DOMAIN states[k] :
        LET x == states[k][i] IN
        /\ x.requests <= Len(trail[k])
        /\ x.status = "Close" =>
              LastAre(k, x.errors, TRUE) /\ ~LastAre(k, x.errors + 1, TRUE) /\ ~ShouldOpen(x)
        /\ x.status = "HalfOpen" => LastAre(k, x.successes, FALSE) /\ x.successes < Recover(x)
        /\ x.status = "Open" => x.successes = 0

\* What the i-th machine of k may do in a step.
TransitionEarned(k, i) ==
    LET x == states[k][i]
        Moves(from, to) == x.status = from /\ states'[k][i].status = to
        slept == x.rule.recover.present /\ now - x.opened_at >= x.rule.recover.sleep
    IN  /\ Moves("Close", "Open") =>
              \E t \in x.rule.triggers :
                  t.errors > 0 /\ LastAre(k, t.errors, TRUE)' /\ Len(trail'[k]) >= t.minimum
        /\ Moves("HalfOpen", "Open") => LastAre(k, 1, TRUE)'
        /\ Moves("HalfOpen", "Close") => LastAre(k, Recover(x), FALSE)'
        /\ Moves("Open", "HalfOpen") => slept
        /\ Moves("Open", "Close") => slept /\ LastAre(k, 1, FALSE)'
        /\ ~Moves("Close", "HalfOpen")

\* A state machine opens after enough failures in a row, or on a failure while
\* it tries; it tries again only after its sleep window, and only enough
\* successes close it.  Nothing else moves it: not a check, not a refresh that
\* changes no rule, not a report on another resource.
TransitionsAreEarned == [][
    \A k \in DOMAIN states \cap DOMAIN states' : \A i \in DOMAIN states[k] : TransitionEarned(k, i)]_vars

\* "只有规则内容真实变化时才清空运行态，周期性刷新相同快照不能丢失统计": a
\* refresh clears the statistics only if the rules of the service it was made
\* for are not the ones its last refresh put in force.
StatisticsSurviveRefresh == [][
    \A c \in Callers :
        At(c, "loaded") /\ At(c, "clearing")' => call[c].list # installed[Callee(c)]]_vars

\* "基于当前规则快照创建独立状态机集合": when no call is under way, the state
\* machines of a resource are those of the rules in force, unless the rules
\* changed between the snapshot of a report and its record.
StatesFollowRules ==
    (~raced /\ \A c \in Callers : At(c, "idle")) =>
        \A k \in DOMAIN states :
            [i \in DOMAIN states[k] |-> states[k][i].rule] = Applicable(rules, k)
=============================================================================
