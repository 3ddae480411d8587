-------------------------- MODULE MCCircuitBreaker --------------------------
(***************************************************************************)
(* Small instances of CircuitBreaker.                                      *)
(***************************************************************************)
EXTENDS CircuitBreaker, TLC

CONSTANTS c1, c2, orders, payments, service, method, other

Rule(matches, priority, errors, minimum, recover) ==
    [enable |-> TRUE, matches |-> matches, priority |-> priority,
     triggers |-> {[errors |-> errors, minimum |-> minimum]}, recover |-> recover]

AfterOne(successes) == [present |-> TRUE, sleep |-> 1, successes |-> successes]

\* The callers are interchangeable; no property of these instances is temporal.
Interchangeable == Permutations({c1, c2})

\* A resource and a method of one service, and a resource of another.
AllServices == {orders, payments}
ServiceOfKey == [k \in {service, method, other} |-> IF k = other THEN payments ELSE orders]
OneService == {orders}
ServiceOfOrders == [k \in {service, method} |-> orders]

\* Two rules of which the second applies to the service alone and comes first;
\* the third one never recovers.
Strict == Rule({service, method}, 2, 2, 2, AfterOne(0))
Loose == Rule({service}, 1, 1, 1, AfterOne(2))
Final == Rule({service}, 0, 1, 2, NoRecovery)
OrderRules == {<<Strict, Loose>>, <<Final>>}
OneServiceRules == [s \in OneService |-> OrderRules]

Reporting == {[kind |-> "report", refresh |-> "required", keys |-> <<service, method>>],
              [kind |-> "check", refresh |-> "tried", keys |-> <<service>>],
              [kind |-> "check", refresh |-> "none", keys |-> <<method>>]}

\* Two services whose published rules never change.
Fixed == [s \in AllServices |->
    IF s = orders THEN {<<Rule({service, method}, 0, 2, 2, AfterOne(1))>>}
    ELSE {<<Rule({other}, 0, 2, 2, AfterOne(1))>>}]
OfAll(kind) == {[kind |-> kind, refresh |-> "required", keys |-> <<k>>] : k \in {service, other}}
EveryJob == OfAll("check") \cup OfAll("report")
=============================================================================
