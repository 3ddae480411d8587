----------------------------- MODULE QuotaBucket -----------------------------
(***************************************************************************)
(* What one quota counter promises, without counters, clocks, generations  *)
(* or sequence numbers: a bucket of Max units from which leases hold units *)
(* and spend some of those they held.  LocalQuotaCounter implements one    *)
(* bucket for every limit of every trigger (see LocalQuotaCounter).        *)
(***************************************************************************)
EXTENDS Naturals, FiniteSets

CONSTANTS LeaseIds, Max

VARIABLES held,     \* [LeaseIds -> Nat]: reserved and not yet returned
          spent     \* [LeaseIds -> Nat]: charged in the current period

vars == <<held, spent>>

\* The units a function on leases counts; all of it is at most Max.
UnitsOf(f) == {u \in LeaseIds \X (1..Max) : u[2] <= f[u[1]]}

Granted == Cardinality(UnitsOf(held)) + Cardinality(UnitsOf(spent))

Keep(x)   == held'[x] = held[x] /\ spent'[x] = spent[x]
Return(x) == held[x] > 0 /\ held'[x] = 0 /\ spent'[x] \in 0..held[x]
Forget(x) == held'[x] = 0 /\ spent'[x] = 0

\* Leases return what they did not use, each keeping at most what it held.
Settle == \A x \in LeaseIds : Keep(x) \/ Return(x)

\* A new period: nothing of the old one counts.
Restart == \A x \in LeaseIds : Forget(x)

\* A lease that counts for nothing takes some units, if they are there once
\* others have settled or the period has restarted.
Grant ==
    \E l \in LeaseIds :
        /\ held[l] = 0 /\ spent[l] = 0
        /\ held'[l] \in 1..Max /\ spent'[l] = 0
        /\ \/ \A x \in LeaseIds \ {l} : Keep(x) \/ Return(x)
           \/ \A x \in LeaseIds \ {l} : Forget(x)
        /\ Granted' <= Max

Init ==
    /\ held = [l \in LeaseIds |-> 0]
    /\ spent = [l \in LeaseIds |-> 0]

Next == Settle \/ Restart \/ Grant

Spec == Init /\ [][Next]_vars
=============================================================================
