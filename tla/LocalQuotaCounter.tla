-------------------------- MODULE LocalQuotaCounter --------------------------
(***************************************************************************)
(* The in-process quota counter of the rate limiter                        *)
(* (traffic/ratelimit/default.rs, struct LocalQuotaCounter).               *)
(*                                                                         *)
(* One mutex guards four hash maps: the windows that count what a rule     *)
(* trigger granted per period, the occupancy counts of concurrency         *)
(* triggers, the leases that hold a reservation, and the recently          *)
(* completed leases that make a repeated finish harmless.  Each public     *)
(* operation takes the mutex once, sweeps the expired leases and then      *)
(* does its work, so each is one action here, sweep included.              *)
(*                                                                         *)
(* A hash map is a function whose DOMAIN is the set of keys present.       *)
(***************************************************************************)
EXTENDS Integers, FiniteSets, Sequences

CONSTANTS
    LeaseIds,       \* lease ids (UUIDs: never used twice)
    Triggers,       \* the rule triggers a request can match
    Keys,           \* counter keys: rule, trigger, request dimensions, period
    Resource,       \* [Triggers -> Resources]
    Amounts,        \* [Triggers -> Seq([key : Keys, max : Nat])]
    Duration,       \* [Keys -> Nat \ {0}]: amount_duration is at least a second
    Requests,       \* the amounts a caller asks for
    Ttls,           \* the lease lifetimes a caller asks for
    Retention,      \* how long a completed lease is remembered (60 s)
    U32Max,         \* largest value of the u32 counters
    MaxSequence,    \* bound of the model: operations per lease
    MaxTime         \* bound of the model: clock ticks

VARIABLES windows, concurrency, leases, completed, now,
          settled   \* history: a lease as it was when its quota was returned

vars == <<windows, concurrency, leases, completed, now, settled>>

Resources == {"Qps", "Token", "Concurrency"}
Amount    == [key : Keys, max : 0..U32Max]

\* QuotaRequest::check_valid refuses a zero amount and a zero ttl.
ASSUME CounterAssumption ==
    /\ IsFiniteSet(LeaseIds)
    /\ Resource \in [Triggers -> Resources]
    /\ Amounts \in [Triggers -> Seq(Amount)]
    /\ \A t \in Triggers : Resource[t] = "Concurrency" => Len(Amounts[t]) <= 1
    /\ Duration \in [Keys -> Nat \ {0}]
    /\ U32Max \in Nat \ {0}
    /\ Requests \subseteq 1..U32Max
    /\ Ttls \subseteq Nat \ {0}
    /\ Retention \in Nat \ {0}
    /\ MaxSequence \in Nat
    /\ MaxTime \in Nat

-----------------------------------------------------------------------------
\* u32 arithmetic: saturating_add, saturating_sub and +=.
SaturatingAdd(x, y) == IF x + y > U32Max THEN U32Max ELSE x + y
SaturatingSub(x, y) == IF x > y THEN x - y ELSE 0
WrappingAdd(x, y)   == (x + y) % (U32Max + 1)

\* Amounts with max_amount = 0 are not limits.
Limits(t)    == {i \in DOMAIN Amounts[t] : Amounts[t][i].max > 0}
KeyOf(t, i)  == Amounts[t][i].key
KeysOf(t, I) == {KeyOf(t, i) : i \in I}
Consumable(t) == Resource[t] \in {"Qps", "Token"}
WindowLimits(t) == IF Consumable(t) THEN Limits(t) ELSE {}

Window == [started_at : Nat, generation : Nat, committed : Nat, reserved : Nat]

\* windows: the generation reserved in, per limit of a consumable trigger;
\* concurrency_keys: the one key of an occupancy trigger.
IsLease(x) ==
    /\ x = [trigger |-> x.trigger, reserved_amount |-> x.reserved_amount,
            consumed_total |-> x.consumed_total, sequence |-> x.sequence,
            expires_at |-> x.expires_at, windows |-> x.windows,
            concurrency_keys |-> x.concurrency_keys]
    /\ x.trigger \in Triggers
    /\ x.reserved_amount \in Requests
    /\ x.consumed_total \in Nat
    /\ x.sequence \in Nat
    /\ x.expires_at \in Nat
    /\ x.windows \in [WindowLimits(x.trigger) -> Nat]
    /\ x.concurrency_keys =
          IF Consumable(x.trigger) THEN {} ELSE KeysOf(x.trigger, Limits(x.trigger))

CompletedLease == [consumed_total : Nat, sequence : Nat, expires_at : Nat]

Live == DOMAIN leases
Without(f, S) == [x \in DOMAIN f \ S |-> f[x]]
With(f, x, v) == [y \in DOMAIN f \cup {x} |-> IF y = x THEN v ELSE f[y]]

-----------------------------------------------------------------------------
(***************************************************************************)
(* Settling a set S of leases of the table ls.  The code settles them one  *)
(* by one with saturating arithmetic; the saturating sums do not depend on *)
(* the order, so they are taken at once.  A quantity is counted as the     *)
(* cardinality of its set of units.                                        *)
(***************************************************************************)
Units == 1..U32Max
Positions == UNION {DOMAIN Amounts[t] : t \in Triggers}

\* The rules list finitely many amounts.
ASSUME PositionsAssumption == IsFiniteSet(Positions)

\* Does this lease hold limit i on key k, reserved in generation g?
Counts(lease, i, k, g) ==
    /\ i \in DOMAIN lease.windows
    /\ KeyOf(lease.trigger, i) = k
    /\ lease.windows[i] = g

Claims(ls, S, k, g) == {c \in S \X Positions : Counts(ls[c[1]], c[2], k, g)}

ReservedUnits(ls, S, k, g) ==
    {u \in Claims(ls, S, k, g) \X Units : u[2] <= ls[u[1][1]].reserved_amount}

ConsumedUnits(ls, S, k, g) ==
    {u \in Claims(ls, S, k, g) \X Units : u[2] <= ls[u[1][1]].consumed_total}

OccupiedUnits(ls, S, k) ==
    {u \in S \X Units :
        k \in ls[u[1]].concurrency_keys /\ u[2] <= ls[u[1]].reserved_amount}

\* Mutant: a settled lease is charged what it reserved.
SettledWindow_ChargesReserved(ls, S, k) ==
    LET w == windows[k]
        n == Cardinality(ReservedUnits(ls, S, k, w.generation)) IN
    [w EXCEPT !.committed = SaturatingAdd(@, n), !.reserved = SaturatingSub(@, n)]

\* Only the reservations of the current generation of the window count.
SettledWindow(ls, S, k) ==
    LET w == windows[k] IN
    [started_at |-> w.started_at,
     generation |-> w.generation,
     committed  |-> SaturatingAdd(w.committed,
                      Cardinality(ConsumedUnits(ls, S, k, w.generation))),
     reserved   |-> SaturatingSub(w.reserved,
                      Cardinality(ReservedUnits(ls, S, k, w.generation)))]

SettledWindows(ls, S) == [k \in DOMAIN windows |-> SettledWindow(ls, S, k)]

\* Absent and zero are the same: an entry is removed when it reaches zero.
SettledConcurrency(ls, S) ==
    [k \in Keys |-> SaturatingSub(concurrency[k],
                                  Cardinality(OccupiedUnits(ls, S, k)))]

Expired == {l \in Live : leases[l].expires_at <= now}
Remembered == {l \in DOMAIN completed : completed[l].expires_at > now}

\* Mutants: the sweep leaves the lease it settled in the table; it does not
\* give back occupancy.
SweptLeases_Kept == leases
SweptConcurrency_Kept == concurrency

\* cleanup_expired_local_leases, for the operations that remove nothing else.
SweptWindows     == SettledWindows(leases, Expired)
SweptConcurrency == SettledConcurrency(leases, Expired)
SweptLeases      == Without(leases, Expired)
SweptCompleted   == [l \in Remembered |-> completed[l]]

Record(ls, S) ==
    settled' = [l \in DOMAIN settled \cup S |->
                    IF l \in S THEN ls[l] ELSE settled[l]]

\* An operation that changes nothing beyond the sweep.
SweepOnly ==
    /\ windows' = SweptWindows
    /\ concurrency' = SweptConcurrency
    /\ leases' = SweptLeases
    /\ completed' = SweptCompleted
    /\ Record(leases, Expired)
    /\ UNCHANGED now

-----------------------------------------------------------------------------
\* reserve

\* Mutant: a window restarts without a new generation.
CurrentWindow_SameGeneration(k) ==
    IF k \notin DOMAIN windows
    THEN [started_at |-> now, generation |-> 0, committed |-> 0, reserved |-> 0]
    ELSE LET w == SweptWindows[k] IN
         IF now - w.started_at >= Duration[k]
         THEN [w EXCEPT !.started_at = now, !.committed = 0, !.reserved = 0]
         ELSE w

\* The window of key k as reserve finds it: created on first use, restarted
\* with a new generation once its period is over.
CurrentWindow(k) ==
    IF k \notin DOMAIN windows
    THEN [started_at |-> now, generation |-> 0, committed |-> 0, reserved |-> 0]
    ELSE LET w == SweptWindows[k] IN
         IF now - w.started_at >= Duration[k]
         THEN [started_at |-> now, generation |-> w.generation + 1,
               committed |-> 0, reserved |-> 0]
         ELSE w

\* Mutants: what is committed is not counted; any unit left admits n units.
Fits_ReservedOnly(t, i, n) ==
    SaturatingAdd(CurrentWindow(KeyOf(t, i)).reserved, n) <= Amounts[t][i].max
Fits_AnyLeft(t, i, n) ==
    LET w == CurrentWindow(KeyOf(t, i)) IN
    SaturatingAdd(w.committed, w.reserved) < Amounts[t][i].max

Fits(t, i, n) ==
    LET w == CurrentWindow(KeyOf(t, i)) IN
    SaturatingAdd(SaturatingAdd(w.committed, w.reserved), n) <= Amounts[t][i].max

\* The loop over the limits stops at the first one without room; the windows
\* it looked at have been created or restarted all the same.
Visited(t, n) ==
    {i \in Limits(t) : \A j \in Limits(t) : j < i => Fits(t, j, n)}

VisitedWindows(t, I) ==
    [k \in DOMAIN windows \cup KeysOf(t, I) |->
        IF k \in KeysOf(t, I) THEN CurrentWindow(k) ELSE SweptWindows[k]]

InitialConsumed(t) == IF Resource[t] = "Qps" THEN 1 ELSE 0

NewLease(t, n, ttl) ==
    [trigger |-> t, reserved_amount |-> n, consumed_total |-> InitialConsumed(t),
     sequence |-> 0, expires_at |-> now + ttl,
     windows |-> [i \in WindowLimits(t) |-> CurrentWindow(KeyOf(t, i)).generation],
     concurrency_keys |-> IF Consumable(t) THEN {} ELSE KeysOf(t, Limits(t))]

\* A key that two limits of the trigger share is charged twice.
Occurrences(t, k) == Cardinality({i \in Limits(t) : KeyOf(t, i) = k})

ReserveConsumable(l, t, n, ttl) ==
    /\ Consumable(t)
    /\ l \notin Live \cup DOMAIN settled
    /\ Limits(t) # {}
    /\ \A i \in Limits(t) : Fits(t, i, n)
    /\ windows' = [k \in DOMAIN windows \cup KeysOf(t, Limits(t)) |->
                     IF k \in KeysOf(t, Limits(t))
                     THEN [CurrentWindow(k) EXCEPT
                             !.reserved = WrappingAdd(@, Occurrences(t, k) * n)]
                     ELSE SweptWindows[k]]
    /\ leases' = With(SweptLeases, l, NewLease(t, n, ttl))
    /\ concurrency' = SweptConcurrency
    /\ completed' = SweptCompleted
    /\ Record(leases, Expired)
    /\ UNCHANGED now

RejectConsumable(t, n) ==
    /\ Consumable(t)
    /\ \E i \in Limits(t) : ~Fits(t, i, n)
    /\ windows' = VisitedWindows(t, Visited(t, n))
    /\ leases' = SweptLeases
    /\ concurrency' = SweptConcurrency
    /\ completed' = SweptCompleted
    /\ Record(leases, Expired)
    /\ UNCHANGED now

HasRoom(t, i, n) ==
    SaturatingAdd(SweptConcurrency[KeyOf(t, i)], n) <= Amounts[t][i].max

ReserveOccupancy(l, t, n, ttl) ==
    /\ Resource[t] = "Concurrency"
    /\ l \notin Live \cup DOMAIN settled
    /\ Limits(t) # {}
    /\ \A i \in Limits(t) : HasRoom(t, i, n)
    /\ concurrency' = [k \in Keys |->
                         IF k \in KeysOf(t, Limits(t))
                         THEN WrappingAdd(SweptConcurrency[k], n)
                         ELSE SweptConcurrency[k]]
    /\ leases' = With(SweptLeases, l, NewLease(t, n, ttl))
    /\ windows' = SweptWindows
    /\ completed' = SweptCompleted
    /\ Record(leases, Expired)
    /\ UNCHANGED now

\* No limit configured, or a full occupancy counter.
RefuseReserve(t, n) ==
    /\ \/ Limits(t) = {}
       \/ Resource[t] = "Concurrency" /\ \E i \in Limits(t) : ~HasRoom(t, i, n)
    /\ SweepOnly

-----------------------------------------------------------------------------

\* validate_local_operation
ValidOperation(lease, total, seq) ==
    /\ seq = lease.sequence + 1
    /\ total >= lease.consumed_total
    /\ total <= lease.reserved_amount

UpdateLease(l, total, seq) ==
    /\ l \in DOMAIN SweptLeases
    /\ ValidOperation(leases[l], total, seq)
    /\ leases' = [SweptLeases EXCEPT ![l].consumed_total = total,
                                     ![l].sequence = seq]
    /\ windows' = SweptWindows
    /\ concurrency' = SweptConcurrency
    /\ completed' = SweptCompleted
    /\ Record(leases, Expired)
    /\ UNCHANGED now

IsReplay(l, total, seq) ==
    /\ l \in Remembered
    /\ completed[l].sequence = seq
    /\ completed[l].consumed_total = total

\* finish_lease: the lease is swept together with the expired ones, with its
\* final total, and remembered for the retention period.
FinishLease(l, total, seq) ==
    LET ls   == [leases EXCEPT ![l].consumed_total = total]
        gone == Expired \cup {l}
    IN
    /\ ~IsReplay(l, total, seq)
    /\ l \in DOMAIN SweptLeases
    /\ ValidOperation(leases[l], total, seq)
    /\ windows' = SettledWindows(ls, gone)
    /\ concurrency' = SettledConcurrency(ls, gone)
    /\ leases' = Without(leases, gone)
    /\ completed' = With(SweptCompleted, l,
                         [consumed_total |-> total, sequence |-> seq,
                          expires_at |-> now + Retention])
    /\ Record(ls, gone)
    /\ UNCHANGED now

\* An update or a finish that is refused, or that repeats what was done.
RefuseOperation ==
    /\ Live \cup DOMAIN settled # {}
    /\ SweepOnly

Tick ==
    /\ now < MaxTime
    /\ now' = now + 1
    /\ UNCHANGED <<windows, concurrency, leases, completed, settled>>

-----------------------------------------------------------------------------
Init ==
    /\ windows = <<>>
    /\ concurrency = [k \in Keys |-> 0]
    /\ leases = <<>>
    /\ completed = <<>>
    /\ settled = <<>>
    /\ now = 0

Next ==
    \/ \E t \in Triggers, n \in Requests :
          \/ \E l \in LeaseIds, ttl \in Ttls :
                \/ ReserveConsumable(l, t, n, ttl)
                \/ ReserveOccupancy(l, t, n, ttl)
          \/ RejectConsumable(t, n)
          \/ RefuseReserve(t, n)
    \/ \E l \in LeaseIds, total \in 0..U32Max, seq \in 0..MaxSequence :
          \/ UpdateLease(l, total, seq)
          \/ FinishLease(l, total, seq)
    \/ RefuseOperation
    \/ Tick

Spec == Init /\ [][Next]_vars

-----------------------------------------------------------------------------
(***************************************************************************)
(* Properties.                                                             *)
(***************************************************************************)

\* Every map holds values of its type, and a lease id is in one place only.
TypeOK ==
    /\ now \in Nat
    /\ DOMAIN windows \subseteq Keys
    /\ \A k \in DOMAIN windows : windows[k] \in Window
    /\ concurrency \in [Keys -> Nat]
    /\ Live \subseteq LeaseIds
    /\ \A l \in Live : IsLease(leases[l])
    /\ DOMAIN completed \subseteq LeaseIds
    /\ \A l \in DOMAIN completed : completed[l] \in CompletedLease
    /\ DOMAIN settled \subseteq LeaseIds
    /\ \A l \in DOMAIN settled : IsLease(settled[l])

LimitsOf(k, kind) ==
    {x \in Triggers \X Positions :
        x[1] \in kind /\ x[2] \in Limits(x[1]) /\ KeyOf(x[1], x[2]) = k}

ConsumableTriggers == {t \in Triggers : Consumable(t)}
OccupancyTriggers  == Triggers \ ConsumableTriggers

\* Limit i of trigger t is the only one of its kind that counts on its key,
\* and it leaves the u32 counter room above it.
Owns(t, i, k, kind) ==
    /\ LimitsOf(k, kind) = {<<t, i>>}
    /\ Amounts[t][i].max < U32Max

\* The reserved counter of a window is exactly what the leases still open in
\* its current period have reserved: no path through update, finish, abandon,
\* expiry or restart of the window loses or repeats a return.
ReservedIsLive ==
    \A k \in DOMAIN windows :
        (\E t \in Triggers, i \in Positions : Owns(t, i, k, ConsumableTriggers))
        => windows[k].reserved =
              Cardinality(ReservedUnits(leases, Live, k, windows[k].generation))

\* The committed counter is exactly what the leases settled in the current
\* period have consumed: every lease is charged once, with its last confirmed
\* total, however often it was updated, finished again or found expired.
CommittedIsSettled ==
    \A k \in DOMAIN windows :
        (\E t \in Triggers, i \in Positions : Owns(t, i, k, ConsumableTriggers))
        => windows[k].committed =
              Cardinality(ConsumedUnits(settled, DOMAIN settled, k,
                                        windows[k].generation))

\* What the leases of the current period hold and have consumed together
\* never exceeds the limit of the rule.
QuotaNeverExceeded ==
    \A t \in Triggers, i \in Positions : \A k \in DOMAIN windows :
        Owns(t, i, k, ConsumableTriggers)
        => LET g == windows[k].generation IN
           Cardinality(ReservedUnits(leases, Live, k, g))
             + Cardinality(ConsumedUnits(settled, DOMAIN settled, k, g))
           <= Amounts[t][i].max

\* The occupancy count of a concurrency trigger is what its open leases
\* occupy, and stays within the limit.
OccupancyIsLive ==
    \A t \in Triggers : \A i \in Limits(t) :
        Owns(t, i, KeyOf(t, i), OccupancyTriggers)
        => /\ concurrency[KeyOf(t, i)] =
                 Cardinality(OccupiedUnits(leases, Live, KeyOf(t, i)))
           /\ concurrency[KeyOf(t, i)] <= Amounts[t][i].max

\* A lease is never charged more than it reserved, nor less than its initial
\* consumption.
ConsumedWithinReservation ==
    /\ \A l \in Live : /\ leases[l].consumed_total <= leases[l].reserved_amount
                       /\ leases[l].consumed_total >= InitialConsumed(leases[l].trigger)
    /\ \A l \in DOMAIN settled :
          /\ settled[l].consumed_total <= settled[l].reserved_amount
          /\ settled[l].consumed_total >= InitialConsumed(settled[l].trigger)

\* No operation runs with, or leaves behind, a lease past its lifetime, so that
\* an expired one never takes quota from a later request; and the end of a
\* lease is final: nothing brings it back, and what it was charged never
\* changes, whether it was finished, finished again or found expired.
EndsAreFinal ==
    [][/\ now' = now => \A l \in DOMAIN leases' : leases'[l].expires_at > now
       /\ \A l \in DOMAIN settled :
             l \in DOMAIN settled' \ DOMAIN leases' /\ settled'[l] = settled[l]]_vars

-----------------------------------------------------------------------------
(***************************************************************************)
(* Refinement: limit i of trigger t is a bucket of its max_amount units.   *)
(***************************************************************************)
CountsFor(lease, t, i) ==
    /\ lease.trigger = t
    /\ Consumable(t) => /\ KeyOf(t, i) \in DOMAIN windows
                        /\ Counts(lease, i, KeyOf(t, i),
                                  windows[KeyOf(t, i)].generation)

HeldOf(t, i) ==
    [l \in LeaseIds |-> IF l \in Live /\ CountsFor(leases[l], t, i)
                       THEN leases[l].reserved_amount ELSE 0]

SpentOf(t, i) ==
    [l \in LeaseIds |->
        IF Consumable(t) /\ l \in DOMAIN settled /\ CountsFor(settled[l], t, i)
        THEN settled[l].consumed_total ELSE 0]

Bucket(t, i) == INSTANCE QuotaBucket
                WITH Max <- Amounts[t][i].max, held <- HeldOf(t, i), spent <- SpentOf(t, i)

OwnedLimits ==
    {x \in Triggers \X Positions :
        /\ x[2] \in Limits(x[1])
        /\ \E kind \in {ConsumableTriggers, OccupancyTriggers} :
              x[1] \in kind /\ Owns(x[1], x[2], KeyOf(x[1], x[2]), kind)}

BucketInit(x) == Bucket(x[1], x[2])!Init

BucketStep(x) ==
    \/ Bucket(x[1], x[2])!Next
    \/ UNCHANGED <<HeldOf(x[1], x[2]), SpentOf(x[1], x[2])>>

\* Every limit that shares its key with no other behaves as a QuotaBucket.
ImplementsBuckets ==
    /\ \A x \in OwnedLimits : BucketInit(x)
    /\ [][\A x \in OwnedLimits : BucketStep(x)]_vars
=============================================================================
