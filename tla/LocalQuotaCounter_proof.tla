----------------------- MODULE LocalQuotaCounter_proof -----------------------
(***************************************************************************)
(* Machine-checked proofs about LocalQuotaCounter, for every value of its  *)
(* constants that satisfies CounterAssumption and PositionsAssumption: its *)
(* types, that its counters account for its leases so that no limit is     *)
(* ever exceeded, and that the end of a lease is final.                    *)
(*                                                                         *)
(* The inductive invariant of the sums adds to the properties what a       *)
(* window must know of old leases: a lease holds only windows that exist,  *)
(* in a generation no later than theirs, so a restarted window starts free *)
(* of claims.                                                              *)
(***************************************************************************)
EXTENDS LocalQuotaCounter, FiniteSetTheorems, TLAPS

-----------------------------------------------------------------------------
(***************************************************************************)
(* Facts about the operators.                                              *)
(***************************************************************************)

\* There are finitely many u32 values.
LEMMA UnitsFinite == IsFiniteSet(Units)
  BY CounterAssumption, FS_Interval DEF Units

\* The units a set of leases claims on a key form a finite set.
LEMMA ClaimedUnitsFinite ==
  ASSUME NEW ls, NEW S \in SUBSET LeaseIds, NEW k, NEW g
  PROVE  /\ IsFiniteSet(Claims(ls, S, k, g) \X Units)
         /\ IsFiniteSet(ReservedUnits(ls, S, k, g))
         /\ IsFiniteSet(ConsumedUnits(ls, S, k, g))
         /\ Cardinality(ReservedUnits(ls, S, k, g)) \in Nat
         /\ Cardinality(ConsumedUnits(ls, S, k, g)) \in Nat
<1>1. IsFiniteSet(S)
  BY CounterAssumption, FS_Subset
<1>2. IsFiniteSet(S \X Positions)
  BY <1>1, PositionsAssumption, FS_Product
<1>3. Claims(ls, S, k, g) \in SUBSET (S \X Positions)
  BY DEF Claims
<1>4. IsFiniteSet(Claims(ls, S, k, g))
  BY <1>2, <1>3, FS_Subset
<1>5. IsFiniteSet(Claims(ls, S, k, g) \X Units)
  BY <1>4, UnitsFinite, FS_Product
<1>6. /\ ReservedUnits(ls, S, k, g) \in SUBSET (Claims(ls, S, k, g) \X Units)
      /\ ConsumedUnits(ls, S, k, g) \in SUBSET (Claims(ls, S, k, g) \X Units)
  BY DEF ReservedUnits, ConsumedUnits
<1>7. IsFiniteSet(ReservedUnits(ls, S, k, g)) /\ IsFiniteSet(ConsumedUnits(ls, S, k, g))
  BY <1>5, <1>6, FS_Subset
<1>. QED  BY <1>5, <1>7, FS_CardinalityType

\* Finitely many leases occupy finitely many units.
LEMMA OccupiedUnitsFinite ==
  ASSUME NEW ls, NEW S \in SUBSET LeaseIds, NEW k
  PROVE  /\ IsFiniteSet(OccupiedUnits(ls, S, k))
         /\ Cardinality(OccupiedUnits(ls, S, k)) \in Nat
<1>1. IsFiniteSet(S)
  BY CounterAssumption, FS_Subset
<1>2. IsFiniteSet(S \X Units)
  BY <1>1, UnitsFinite, FS_Product
<1>3. OccupiedUnits(ls, S, k) \in SUBSET (S \X Units)
  BY DEF OccupiedUnits
<1>. QED  BY <1>2, <1>3, FS_Subset, FS_CardinalityType

\* u32 arithmetic stays in the naturals, and is exact where there is room.
LEMMA Arithmetic ==
  ASSUME NEW x \in Nat, NEW y \in Nat
  PROVE  /\ SaturatingAdd(x, y) \in Nat
         /\ SaturatingSub(x, y) \in Nat
         /\ WrappingAdd(x, y) \in Nat
         /\ x + y <= U32Max => WrappingAdd(x, y) = x + y
<1>1. U32Max \in Nat
  BY CounterAssumption
<1>2. \A a, b \in Nat : b > 0 => a % b \in Nat
  OBVIOUS
<1>3. \A a, b \in Nat : a < b => a % b = a
  OBVIOUS
<1>4. SaturatingAdd(x, y) \in Nat /\ SaturatingSub(x, y) \in Nat
  BY <1>1 DEF SaturatingAdd, SaturatingSub
<1>5. x + y \in Nat /\ U32Max + 1 \in Nat /\ U32Max + 1 > 0
  BY <1>1
<1>6. WrappingAdd(x, y) \in Nat
  BY <1>2, <1>5 DEF WrappingAdd
<1>7. ASSUME x + y <= U32Max PROVE WrappingAdd(x, y) = x + y
  <2>1. x + y < U32Max + 1
    BY <1>1, <1>7
  <2>. QED  BY <1>3, <1>5, <2>1 DEF WrappingAdd
<1>. QED  BY <1>4, <1>6, <1>7

\* Settling leases keeps a window a window, in the same period and generation.
LEMMA SettledWindowType ==
  ASSUME TypeOK, NEW ls, NEW S \in SUBSET LeaseIds, NEW k \in DOMAIN windows
  PROVE  LET w == SettledWindow(ls, S, k)
             g == windows[k].generation
         IN  /\ w \in Window
             /\ w.started_at = windows[k].started_at
             /\ w.generation = g
             /\ w.reserved = SaturatingSub(windows[k].reserved,
                                Cardinality(ReservedUnits(ls, S, k, g)))
             /\ w.committed = SaturatingAdd(windows[k].committed,
                                Cardinality(ConsumedUnits(ls, S, k, g)))
<1>. DEFINE g == windows[k].generation
            r == SaturatingSub(windows[k].reserved, Cardinality(ReservedUnits(ls, S, k, g)))
            c == SaturatingAdd(windows[k].committed, Cardinality(ConsumedUnits(ls, S, k, g)))
<1>1. windows[k] \in Window
  BY DEF TypeOK
<1>2. /\ Cardinality(ReservedUnits(ls, S, k, g)) \in Nat
      /\ Cardinality(ConsumedUnits(ls, S, k, g)) \in Nat
  BY ClaimedUnitsFinite
<1>3. r \in Nat /\ c \in Nat
  BY <1>1, <1>2, Arithmetic DEF Window
<1>4. SettledWindow(ls, S, k) =
        [started_at |-> windows[k].started_at, generation |-> g,
         committed |-> c, reserved |-> r]
  BY DEF SettledWindow
<1>. HIDE DEF r, c
<1>. QED  BY <1>1, <1>3, <1>4 DEF r, c, Window

\* Settling leases keeps the occupancy counts natural numbers.
LEMMA SettledConcurrencyType ==
  ASSUME TypeOK, NEW ls, NEW S \in SUBSET LeaseIds
  PROVE  SettledConcurrency(ls, S) \in [Keys -> Nat]
<1>1. ASSUME NEW k \in Keys
      PROVE  SaturatingSub(concurrency[k], Cardinality(OccupiedUnits(ls, S, k))) \in Nat
  BY OccupiedUnitsFinite, Arithmetic DEF TypeOK
<1>. QED  BY <1>1 DEF SettledConcurrency

\* The expired leases are open leases.
LEMMA ExpiredLeases ==
  ASSUME TypeOK
  PROVE  Expired \in SUBSET LeaseIds /\ Expired \subseteq Live
  BY DEF TypeOK, Expired

\* reserve works on a well-typed window, created, restarted or found.
LEMMA CurrentWindowType ==
  ASSUME TypeOK, NEW k
  PROVE  CurrentWindow(k) \in Window
<1>1. CASE k \notin DOMAIN windows
  BY <1>1 DEF CurrentWindow, Window, TypeOK
<1>2. CASE k \in DOMAIN windows
  <2>1. SweptWindows[k] \in Window
    BY <1>2, SettledWindowType, ExpiredLeases DEF SweptWindows, SettledWindows
  <2>. QED  BY <1>2, <2>1 DEF CurrentWindow, Window, TypeOK
<1>. QED  BY <1>1, <1>2

\* The lease reserve adds is well typed.
LEMMA NewLeaseType ==
  ASSUME TypeOK, NEW t \in Triggers, NEW n \in Requests, NEW ttl \in Ttls
  PROVE  IsLease(NewLease(t, n, ttl))
<1>1. [i \in WindowLimits(t) |-> CurrentWindow(KeyOf(t, i)).generation]
        \in [WindowLimits(t) -> Nat]
  BY CurrentWindowType DEF Window
<1>2. InitialConsumed(t) \in Nat
  BY DEF InitialConsumed
<1>3. now + ttl \in Nat
  BY CounterAssumption DEF TypeOK
<1>. QED  BY <1>1, <1>2, <1>3 DEF NewLease, IsLease

\* What every operation does to the leases it removes, S, keeps the types.
LEMMA RecordType ==
  ASSUME TypeOK, NEW ls, NEW S \in SUBSET LeaseIds, \A l \in S : IsLease(ls[l]),
         Record(ls, S)
  PROVE  /\ DOMAIN settled' = DOMAIN settled \cup S
         /\ DOMAIN settled' \subseteq LeaseIds
         /\ \A l \in DOMAIN settled' : IsLease(settled'[l])
  BY DEF Record, TypeOK

\* What the sweep leaves is well typed.
LEMMA SweptTypes ==
  ASSUME TypeOK
  PROVE  /\ DOMAIN SweptWindows = DOMAIN windows
         /\ \A k \in DOMAIN windows : SweptWindows[k] \in Window
         /\ SweptConcurrency \in [Keys -> Nat]
         /\ DOMAIN SweptLeases = Live \ Expired
         /\ \A l \in DOMAIN SweptLeases : SweptLeases[l] = leases[l]
         /\ DOMAIN SweptCompleted \subseteq LeaseIds
         /\ \A l \in DOMAIN SweptCompleted : SweptCompleted[l] \in CompletedLease
<1>1. Expired \in SUBSET LeaseIds
  BY ExpiredLeases
<1>2. \A k \in DOMAIN windows : SettledWindow(leases, Expired, k) \in Window
  BY <1>1, SettledWindowType
<1>3. SweptConcurrency \in [Keys -> Nat]
  BY <1>1, SettledConcurrencyType DEF SweptConcurrency
<1>. QED  BY <1>2, <1>3 DEF SweptWindows, SettledWindows, SweptLeases, Without,
                            SweptCompleted, Remembered, Live, TypeOK

\* The windows reserve looked at are well typed.
LEMMA VisitedWindowsType ==
  ASSUME TypeOK, NEW t \in Triggers, NEW I \in SUBSET Limits(t)
  PROVE  /\ DOMAIN VisitedWindows(t, I) = DOMAIN windows \cup KeysOf(t, I)
         /\ DOMAIN windows \cup KeysOf(t, I) \subseteq Keys
         /\ \A k \in DOMAIN windows \cup KeysOf(t, I) :
               VisitedWindows(t, I)[k] \in Window
<1>1. ASSUME NEW i \in DOMAIN Amounts[t] PROVE KeyOf(t, i) \in Keys
  <2>1. Amounts[t] \in Seq(Amount)
    BY CounterAssumption
  <2>2. Amounts[t][i] \in Amount
    BY <1>1, <2>1
  <2>. QED  BY <2>2 DEF KeyOf, Amount
<1>2. KeysOf(t, I) \subseteq Keys
  BY <1>1 DEF KeysOf, Limits
<1>. QED  BY <1>2, CurrentWindowType, SweptTypes DEF VisitedWindows, TypeOK

\* The sweep alone keeps the types.
LEMMA SweepOnlyType == TypeOK /\ SweepOnly => TypeOK'
<1>. SUFFICES ASSUME TypeOK, SweepOnly PROVE TypeOK'
  OBVIOUS
<1>1. Expired \in SUBSET LeaseIds /\ \A l \in Expired : IsLease(leases[l])
  BY ExpiredLeases DEF TypeOK
<1>2. /\ DOMAIN settled' \subseteq LeaseIds
      /\ \A l \in DOMAIN settled' : IsLease(settled'[l])
  BY <1>1, RecordType DEF SweepOnly
<1>3. Live' = Live \ Expired /\ \A l \in Live' : leases'[l] = leases[l]
  BY SweptTypes DEF SweepOnly, Live
<1>. QED  BY <1>2, <1>3, SweptTypes DEF SweepOnly, TypeOK

\* A lease with a new total is well typed.
LEMMA TotalledLeaseType ==
  ASSUME NEW x, IsLease(x), NEW total \in Nat
  PROVE  IsLease([x EXCEPT !.consumed_total = total])
<1>. DEFINE y == [trigger |-> x.trigger, reserved_amount |-> x.reserved_amount,
                  consumed_total |-> total, sequence |-> x.sequence,
                  expires_at |-> x.expires_at, windows |-> x.windows,
                  concurrency_keys |-> x.concurrency_keys]
<1>1. [x EXCEPT !.consumed_total = total] = y
  BY DEF IsLease
<1>. QED  BY <1>1 DEF IsLease

\* A lease with a new sequence is well typed.
LEMMA SequencedLeaseType ==
  ASSUME NEW x, IsLease(x), NEW seq \in Nat
  PROVE  IsLease([x EXCEPT !.sequence = seq])
<1>. DEFINE y == [trigger |-> x.trigger, reserved_amount |-> x.reserved_amount,
                  consumed_total |-> x.consumed_total, sequence |-> seq,
                  expires_at |-> x.expires_at, windows |-> x.windows,
                  concurrency_keys |-> x.concurrency_keys]
<1>1. [x EXCEPT !.sequence = seq] = y
  BY DEF IsLease
<1>. QED  BY <1>1 DEF IsLease

\* So is one that an update gave both.
LEMMA UpdatedLeaseType ==
  ASSUME NEW x, IsLease(x), NEW total \in Nat, NEW seq \in Nat
  PROVE  IsLease([x EXCEPT !.consumed_total = total, !.sequence = seq])
<1>. DEFINE y == [x EXCEPT !.consumed_total = total]
<1>1. IsLease(y)
  BY TotalledLeaseType
<1>. HIDE DEF y
<1>2. IsLease([y EXCEPT !.sequence = seq])
  BY <1>1, SequencedLeaseType
<1>. QED  BY <1>2 DEF y

\* The part of a step that all reservations share: sweep, then one new lease.
LEMMA ReserveLeasesType ==
  ASSUME TypeOK, NEW l \in LeaseIds, NEW t \in Triggers, NEW n \in Requests,
         NEW ttl \in Ttls,
         leases' = With(SweptLeases, l, NewLease(t, n, ttl)),
         completed' = SweptCompleted,
         Record(leases, Expired),
         now' = now
  PROVE  /\ now' \in Nat
         /\ Live' \subseteq LeaseIds
         /\ \A x \in Live' : IsLease(leases'[x])
         /\ DOMAIN completed' \subseteq LeaseIds
         /\ \A x \in DOMAIN completed' : completed'[x] \in CompletedLease
         /\ DOMAIN settled' \subseteq LeaseIds
         /\ \A x \in DOMAIN settled' : IsLease(settled'[x])
<1>1. Expired \in SUBSET LeaseIds /\ \A x \in Expired : IsLease(leases[x])
  BY ExpiredLeases DEF TypeOK
<1>2. /\ DOMAIN settled' \subseteq LeaseIds
      /\ \A x \in DOMAIN settled' : IsLease(settled'[x])
  BY <1>1, RecordType
<1>3. Live' = (Live \ Expired) \cup {l}
  BY SweptTypes DEF Live, With
<1>4. \A x \in Live' : leases'[x] = IF x = l THEN NewLease(t, n, ttl) ELSE leases[x]
  BY <1>3, SweptTypes DEF Live, With
<1>5. \A x \in Live' : IsLease(leases'[x])
  BY <1>3, <1>4, NewLeaseType DEF TypeOK
<1>. QED  BY <1>2, <1>3, <1>5, SweptTypes DEF TypeOK

\* A trigger lists a key finitely often.
LEMMA OccurrencesType ==
  ASSUME NEW t \in Triggers, NEW n \in Requests, NEW k
  PROVE  n \in Nat /\ Occurrences(t, k) * n \in Nat
<1>1. Limits(t) \in SUBSET Positions
  BY DEF Limits, Positions
<1>2. IsFiniteSet(Limits(t))
  BY <1>1, PositionsAssumption, FS_Subset
<1>3. {i \in Limits(t) : KeyOf(t, i) = k} \in SUBSET Limits(t)
  OBVIOUS
<1>4. Occurrences(t, k) \in Nat
  BY <1>2, <1>3, FS_Subset, FS_CardinalityType DEF Occurrences
<1>5. n \in Nat
  BY CounterAssumption
<1>6. \A a, b \in Nat : a * b \in Nat
  OBVIOUS
<1>. QED  BY <1>4, <1>5, <1>6

\* Every step keeps the types.
LEMMA TypeStep == TypeOK /\ [Next]_vars => TypeOK'
<1>. SUFFICES ASSUME TypeOK, [Next]_vars PROVE TypeOK'
  OBVIOUS
<1>. USE DEF Live
<1>1. ASSUME NEW l \in LeaseIds, NEW t \in Triggers, NEW n \in Requests,
             NEW ttl \in Ttls, ReserveConsumable(l, t, n, ttl)
      PROVE  TypeOK'
  <2>1. n \in Nat /\ \A k : Occurrences(t, k) * n \in Nat
    BY OccurrencesType, CounterAssumption
  <2>2. /\ DOMAIN windows' = DOMAIN windows \cup KeysOf(t, Limits(t))
        /\ DOMAIN windows' \subseteq Keys
    BY <1>1, VisitedWindowsType DEF ReserveConsumable
  <2>3. ASSUME NEW k \in DOMAIN windows', k \in KeysOf(t, Limits(t))
        PROVE  windows'[k] \in Window
    <3>1. windows'[k] = [CurrentWindow(k) EXCEPT
                           !.reserved = WrappingAdd(@, Occurrences(t, k) * n)]
      BY <1>1, <2>2, <2>3 DEF ReserveConsumable
    <3>2. CurrentWindow(k) \in Window
      BY CurrentWindowType
    <3>3. WrappingAdd(CurrentWindow(k).reserved, Occurrences(t, k) * n) \in Nat
      BY <2>1, <3>2, Arithmetic DEF Window
    <3>. QED  BY <3>1, <3>2, <3>3 DEF Window
  <2>4. ASSUME NEW k \in DOMAIN windows', k \notin KeysOf(t, Limits(t))
        PROVE  windows'[k] \in Window
    BY <1>1, <2>2, <2>4, SweptTypes DEF ReserveConsumable
  <2>5. \A k \in DOMAIN windows' : windows'[k] \in Window
    BY <2>3, <2>4
  <2>6. concurrency' \in [Keys -> Nat]
    BY <1>1, SweptTypes DEF ReserveConsumable
  <2>. QED  BY <1>1, <2>2, <2>5, <2>6, ReserveLeasesType DEF ReserveConsumable, TypeOK
<1>2. ASSUME NEW l \in LeaseIds, NEW t \in Triggers, NEW n \in Requests,
             NEW ttl \in Ttls, ReserveOccupancy(l, t, n, ttl)
      PROVE  TypeOK'
  <2>1. n \in Nat
    BY CounterAssumption
  <2>2. \A k \in Keys : WrappingAdd(SweptConcurrency[k], n) \in Nat
    BY <2>1, SweptTypes, Arithmetic
  <2>3. concurrency' \in [Keys -> Nat]
    BY <1>2, <2>2, SweptTypes DEF ReserveOccupancy
  <2>. QED  BY <1>2, <2>3, SweptTypes, ReserveLeasesType DEF ReserveOccupancy, TypeOK
<1>3. ASSUME NEW t \in Triggers, NEW n \in Requests, RejectConsumable(t, n)
      PROVE  TypeOK'
  <2>1. /\ DOMAIN windows' \subseteq Keys
        /\ \A k \in DOMAIN windows' : windows'[k] \in Window
    BY <1>3, VisitedWindowsType DEF RejectConsumable, Visited
  <2>2. Expired \in SUBSET LeaseIds /\ \A x \in Expired : IsLease(leases[x])
    BY ExpiredLeases DEF TypeOK
  <2>3. /\ DOMAIN settled' \subseteq LeaseIds
        /\ \A x \in DOMAIN settled' : IsLease(settled'[x])
    BY <1>3, <2>2, RecordType DEF RejectConsumable
  <2>. QED  BY <1>3, <2>1, <2>3, SweptTypes DEF RejectConsumable, TypeOK
<1>4. ASSUME NEW l \in LeaseIds, NEW total \in 0..U32Max, NEW seq \in 0..MaxSequence,
             UpdateLease(l, total, seq)
      PROVE  TypeOK'
  <2>1. Expired \in SUBSET LeaseIds /\ \A x \in Expired : IsLease(leases[x])
    BY ExpiredLeases DEF TypeOK
  <2>2. /\ DOMAIN settled' \subseteq LeaseIds
        /\ \A x \in DOMAIN settled' : IsLease(settled'[x])
    BY <1>4, <2>1, RecordType DEF UpdateLease
  <2>3. total \in Nat /\ seq \in Nat
    BY CounterAssumption
  <2>4. DOMAIN leases' = Live \ Expired
    BY <1>4, SweptTypes DEF UpdateLease
  <2>5. \A x \in DOMAIN leases' :
           leases'[x] = IF x = l THEN [leases[x] EXCEPT !.consumed_total = total,
                                                      !.sequence = seq]
                                 ELSE leases[x]
    BY <1>4, <2>4, SweptTypes DEF UpdateLease
  <2>6. \A x \in DOMAIN leases' : IsLease(leases'[x])
    <3>1. SUFFICES ASSUME NEW x \in DOMAIN leases' PROVE IsLease(leases'[x])
      OBVIOUS
    <3>2. IsLease(leases[x])
      BY <2>4 DEF TypeOK
    <3>3. IsLease([leases[x] EXCEPT !.consumed_total = total, !.sequence = seq])
      BY <2>3, <3>2, UpdatedLeaseType
    <3>. QED  BY <2>5, <3>2, <3>3
  <2>. QED  BY <1>4, <2>2, <2>4, <2>6, SweptTypes DEF UpdateLease, TypeOK
<1>5. ASSUME NEW l \in LeaseIds, NEW total \in 0..U32Max, NEW seq \in 0..MaxSequence,
             FinishLease(l, total, seq)
      PROVE  TypeOK'
  <2>. DEFINE ls   == [leases EXCEPT ![l].consumed_total = total]
              gone == Expired \cup {l}
  <2>1. total \in Nat /\ seq \in Nat /\ Retention \in Nat
    BY CounterAssumption
  <2>2. gone \in SUBSET LeaseIds /\ gone \subseteq Live
    BY <1>5, ExpiredLeases, SweptTypes DEF FinishLease
  <2>3. \A x \in gone : IsLease(ls[x])
    BY <2>1, <2>2 DEF TypeOK, IsLease
  <2>4. /\ DOMAIN settled' \subseteq LeaseIds
        /\ \A x \in DOMAIN settled' : IsLease(settled'[x])
    BY <1>5, <2>2, <2>3, RecordType DEF FinishLease
  <2>5. /\ DOMAIN windows' = DOMAIN windows
        /\ \A k \in DOMAIN windows' : windows'[k] \in Window
    BY <1>5, <2>2, SettledWindowType DEF FinishLease, SettledWindows
  <2>6. concurrency' \in [Keys -> Nat]
    BY <1>5, <2>2, SettledConcurrencyType DEF FinishLease
  <2>7. /\ DOMAIN leases' = Live \ gone
        /\ \A x \in DOMAIN leases' : leases'[x] = leases[x]
    BY <1>5 DEF FinishLease, Without
  <2>8. now + Retention \in Nat
    BY <2>1 DEF TypeOK
  <2>9. /\ DOMAIN completed' \subseteq LeaseIds
        /\ \A x \in DOMAIN completed' : completed'[x] \in CompletedLease
    BY <1>5, <2>1, <2>8, SweptTypes DEF FinishLease, With, CompletedLease
  <2>. QED  BY <1>5, <2>4, <2>5, <2>6, <2>7, <2>9 DEF FinishLease, TypeOK
<1>6. ASSUME Tick PROVE TypeOK'
  BY <1>6 DEF Tick, TypeOK
<1>7. ASSUME UNCHANGED vars PROVE TypeOK'
  BY <1>7 DEF vars, TypeOK
<1>. QED  BY <1>1, <1>2, <1>3, <1>4, <1>5, <1>6, <1>7, SweepOnlyType
          DEF Next, RefuseReserve, RefuseOperation

\* Type correctness: every map of the counter holds values of its type.
THEOREM TypeCorrect == Spec => []TypeOK
<1>1. Init => TypeOK
  BY DEF Init, TypeOK, Live
<1>. QED  BY <1>1, TypeStep, PTL DEF Spec

-----------------------------------------------------------------------------
(***************************************************************************)
(* Counting units.                                                         *)
(***************************************************************************)

\* Two finite sets with nothing in common: the sizes add up.
LEMMA DisjointUnion ==
  ASSUME NEW A, NEW B, IsFiniteSet(A), IsFiniteSet(B), A \cap B = {}
  PROVE  Cardinality(A \cup B) = Cardinality(A) + Cardinality(B)
<1>1. Cardinality(A \cup B) = Cardinality(A) + Cardinality(B) - Cardinality(A \cap B)
  BY FS_Union
<1>2. Cardinality(A \cap B) = 0
  BY FS_EmptySet
<1>3. Cardinality(A) \in Nat /\ Cardinality(B) \in Nat
  BY FS_CardinalityType
<1>. QED  BY <1>1, <1>2, <1>3

\* One thing holds as many units as it counts.
LEMMA UnitsOfOne ==
  ASSUME NEW x, NEW n \in Nat
  PROVE  Cardinality({x} \X (1..n)) = n
<1>1. IsFiniteSet(1..n)
  BY FS_Interval
<1>2. Cardinality(1..n) = IF 1 > n THEN 0 ELSE n - 1 + 1
  BY FS_Interval
<1>3. Cardinality(1..n) = n
  BY <1>2
<1>4. IsFiniteSet({x}) /\ Cardinality({x}) = 1
  BY FS_Singleton
<1>5. Cardinality({x} \X (1..n)) = 1 * Cardinality(1..n)
  BY <1>1, <1>4, FS_Product
<1>. QED  BY <1>3, <1>5

\* What a caller may ask for fits a u32 and is not zero (QuotaRequest::check_valid).
LEMMA RequestBounds == \A n \in Requests : n \in Nat /\ n \in 1..U32Max
<1>1. Requests \subseteq 1..U32Max /\ U32Max \in Nat
  BY CounterAssumption
<1>. QED  BY <1>1

\* The units of two disjoint sets of leases add up.
LEMMA UnitsAdd ==
  ASSUME NEW ls, NEW S \in SUBSET LeaseIds, NEW T \in SUBSET LeaseIds,
         S \cap T = {}, NEW k, NEW g
  PROVE  /\ Cardinality(ReservedUnits(ls, S \cup T, k, g)) =
              Cardinality(ReservedUnits(ls, S, k, g))
                + Cardinality(ReservedUnits(ls, T, k, g))
         /\ Cardinality(ConsumedUnits(ls, S \cup T, k, g)) =
              Cardinality(ConsumedUnits(ls, S, k, g))
                + Cardinality(ConsumedUnits(ls, T, k, g))
<1>1. /\ ReservedUnits(ls, S \cup T, k, g) =
           ReservedUnits(ls, S, k, g) \cup ReservedUnits(ls, T, k, g)
      /\ ReservedUnits(ls, S, k, g) \cap ReservedUnits(ls, T, k, g) = {}
  BY DEF ReservedUnits, Claims
<1>2. /\ ConsumedUnits(ls, S \cup T, k, g) =
           ConsumedUnits(ls, S, k, g) \cup ConsumedUnits(ls, T, k, g)
      /\ ConsumedUnits(ls, S, k, g) \cap ConsumedUnits(ls, T, k, g) = {}
  BY DEF ConsumedUnits, Claims
<1>3. /\ IsFiniteSet(ReservedUnits(ls, S, k, g))
      /\ IsFiniteSet(ReservedUnits(ls, T, k, g))
      /\ IsFiniteSet(ConsumedUnits(ls, S, k, g))
      /\ IsFiniteSet(ConsumedUnits(ls, T, k, g))
  BY ClaimedUnitsFinite
<1>. QED  BY <1>1, <1>2, <1>3, DisjointUnion

\* The units of a set of leases are those of a part and those of the rest.
LEMMA UnitsSplit ==
  ASSUME NEW ls, NEW L \in SUBSET LeaseIds, NEW S \in SUBSET L, NEW k, NEW g
  PROVE  Cardinality(ReservedUnits(ls, L, k, g)) =
           Cardinality(ReservedUnits(ls, S, k, g))
             + Cardinality(ReservedUnits(ls, L \ S, k, g))
<1>1. /\ S \in SUBSET LeaseIds
      /\ L \ S \in SUBSET LeaseIds
      /\ S \cap (L \ S) = {}
  OBVIOUS
<1>2. S \cup (L \ S) = L
  OBVIOUS
<1>3. Cardinality(ReservedUnits(ls, S \cup (L \ S), k, g)) =
        Cardinality(ReservedUnits(ls, S, k, g))
          + Cardinality(ReservedUnits(ls, L \ S, k, g))
  BY <1>1, UnitsAdd
<1>. QED  BY <1>2, <1>3

\* Only the leases of the set matter, and of them only what they hold.
LEMMA UnitsEqual ==
  ASSUME NEW ls, NEW ms, NEW S, NEW k, NEW g,
         \A l \in S : /\ ls[l].trigger = ms[l].trigger
                      /\ ls[l].windows = ms[l].windows
  PROVE  /\ (\A l \in S : ls[l].reserved_amount = ms[l].reserved_amount)
              => ReservedUnits(ls, S, k, g) = ReservedUnits(ms, S, k, g)
         /\ (\A l \in S : ls[l].consumed_total = ms[l].consumed_total)
              => ConsumedUnits(ls, S, k, g) = ConsumedUnits(ms, S, k, g)
<1>1. Claims(ls, S, k, g) = Claims(ms, S, k, g)
  BY DEF Claims, Counts
<1>2. \A c \in Claims(ls, S, k, g) : c[1] \in S
  BY DEF Claims
<1>. QED  BY <1>1, <1>2 DEF ReservedUnits, ConsumedUnits

\* No lease consumed more than it reserved.
LEMMA ConsumedBelowReserved ==
  ASSUME NEW ls, NEW S \in SUBSET LeaseIds, NEW k, NEW g,
         \A l \in S : /\ IsLease(ls[l])
                      /\ ls[l].consumed_total <= ls[l].reserved_amount
  PROVE  Cardinality(ConsumedUnits(ls, S, k, g))
           <= Cardinality(ReservedUnits(ls, S, k, g))
<1>1. \A l \in S : ls[l].consumed_total \in Nat /\ ls[l].reserved_amount \in Nat
  BY RequestBounds DEF IsLease
<1>2. ConsumedUnits(ls, S, k, g) \in SUBSET ReservedUnits(ls, S, k, g)
  <2>1. SUFFICES ASSUME NEW u \in ConsumedUnits(ls, S, k, g)
                 PROVE  u \in ReservedUnits(ls, S, k, g)
    OBVIOUS
  <2>2. /\ u \in Claims(ls, S, k, g) \X Units
        /\ u[2] <= ls[u[1][1]].consumed_total
    BY DEF ConsumedUnits
  <2>3. u[1][1] \in S /\ u[2] \in Nat
    BY <2>2 DEF Claims, Units
  <2>4. u[2] <= ls[u[1][1]].reserved_amount
    BY <1>1, <2>2, <2>3
  <2>. QED  BY <2>2, <2>4 DEF ReservedUnits
<1>. QED  BY <1>2, ClaimedUnitsFinite, FS_Subset

\* Leases that do not count hold no unit.
LEMMA NoClaimsNoUnits ==
  ASSUME NEW ls, NEW S, NEW k, NEW g,
         \A l \in S : \A i \in Positions : ~Counts(ls[l], i, k, g)
  PROVE  /\ Cardinality(ReservedUnits(ls, S, k, g)) = 0
         /\ Cardinality(ConsumedUnits(ls, S, k, g)) = 0
<1>1. Claims(ls, S, k, g) = {}
  BY DEF Claims
<1>2. ReservedUnits(ls, S, k, g) = {} /\ ConsumedUnits(ls, S, k, g) = {}
  BY <1>1 DEF ReservedUnits, ConsumedUnits
<1>. QED  BY <1>2, FS_EmptySet

\* One lease that counts at exactly one position holds what it reserved.
LEMMA OneClaim ==
  ASSUME NEW ls, NEW l \in LeaseIds, NEW k, NEW g, NEW i \in Positions,
         Counts(ls[l], i, k, g),
         \A j \in Positions : Counts(ls[l], j, k, g) => j = i,
         ls[l].reserved_amount \in 1..U32Max
  PROVE  Cardinality(ReservedUnits(ls, {l}, k, g)) = ls[l].reserved_amount
<1>. DEFINE n == ls[l].reserved_amount
<1>1. Claims(ls, {l}, k, g) = {<<l, i>>}
  BY DEF Claims
<1>2. U32Max \in Nat /\ n \in Nat
  BY CounterAssumption
<1>3. ReservedUnits(ls, {l}, k, g) = {<<l, i>>} \X (1..n)
  BY <1>1, <1>2 DEF ReservedUnits, Units
<1>. QED  BY <1>2, <1>3, UnitsOfOne

-----------------------------------------------------------------------------
(***************************************************************************)
(* The inductive invariant.                                                *)
(***************************************************************************)

\* Window w of key k counts the leases S of ls and the settled leases D of st.
Accounted(w, ls, S, st, D, k, max) ==
    /\ w.reserved = Cardinality(ReservedUnits(ls, S, k, w.generation))
    /\ w.committed = Cardinality(ConsumedUnits(st, D, k, w.generation))
    /\ w.reserved + w.committed <= max

\* The leases S of ls hold windows of ws, in generations of the past.
PastClaims(ls, S, ws) ==
    \A l \in S : \A i \in DOMAIN ls[l].windows :
        /\ KeyOf(ls[l].trigger, i) \in DOMAIN ws
        /\ ls[l].windows[i] <= ws[KeyOf(ls[l].trigger, i)].generation

WindowsAccounted ==
    \A k \in DOMAIN windows : \A t \in Triggers, i \in Positions :
        Owns(t, i, k, ConsumableTriggers)
        => Accounted(windows[k], leases, Live, settled, DOMAIN settled,
                     k, Amounts[t][i].max)

WithinReservation(ls, S) ==
    \A l \in S : /\ ls[l].consumed_total <= ls[l].reserved_amount
                 /\ ls[l].consumed_total >= InitialConsumed(ls[l].trigger)

IInv ==
    /\ TypeOK
    /\ DOMAIN settled \cap Live = {}
    /\ WithinReservation(leases, Live)
    /\ WithinReservation(settled, DOMAIN settled)
    /\ PastClaims(leases, Live, windows)
    /\ PastClaims(settled, DOMAIN settled, windows)
    /\ WindowsAccounted

\* The limit that owns a key is the only one of its kind a lease can hold there.
LEMMA OwnedLimit ==
  ASSUME NEW t \in Triggers, NEW i \in Positions, NEW k, NEW kind,
         Owns(t, i, k, kind)
  PROVE  /\ t \in kind
         /\ i \in Limits(t)
         /\ KeyOf(t, i) = k
         /\ Amounts[t][i].max \in Nat
         /\ Amounts[t][i].max < U32Max
         /\ \A s \in kind, j \in Positions :
               s \in Triggers /\ j \in Limits(s) /\ KeyOf(s, j) = k => s = t /\ j = i
<1>1. <<t, i>> \in LimitsOf(k, kind)
  BY DEF Owns
<1>2. t \in kind /\ i \in Limits(t) /\ KeyOf(t, i) = k
  BY <1>1 DEF LimitsOf
<1>3. Amounts[t] \in Seq(Amount) /\ i \in DOMAIN Amounts[t]
  BY <1>2, CounterAssumption DEF Limits
<1>4. Amounts[t][i] \in Amount
  BY <1>3
<1>5. Amounts[t][i].max \in Nat
  BY <1>4, CounterAssumption DEF Amount
<1>6. ASSUME NEW s \in kind, NEW j \in Positions, s \in Triggers,
             j \in Limits(s), KeyOf(s, j) = k
      PROVE  s = t /\ j = i
  <2>1. <<s, j>> \in LimitsOf(k, kind)
    BY <1>6 DEF LimitsOf
  <2>. QED  BY <2>1 DEF Owns
<1>. QED  BY <1>2, <1>5, <1>6 DEF Owns

\* Settling leases S keeps an owned window accounted.
LEMMA SettledAccounted ==
  ASSUME IInv, NEW ls, NEW S \in SUBSET Live,
         \A l \in S : /\ IsLease(ls[l])
                      /\ ls[l].trigger = leases[l].trigger
                      /\ ls[l].windows = leases[l].windows
                      /\ ls[l].reserved_amount = leases[l].reserved_amount
                      /\ ls[l].consumed_total <= ls[l].reserved_amount,
         NEW st,
         \A l \in DOMAIN settled \cup S :
             st[l] = IF l \in S THEN ls[l] ELSE settled[l],
         NEW k \in DOMAIN windows, NEW t \in Triggers, NEW i \in Positions,
         Owns(t, i, k, ConsumableTriggers)
  PROVE  Accounted(SettledWindow(ls, S, k), leases, Live \ S,
                   st, DOMAIN settled \cup S, k, Amounts[t][i].max)
<1>. DEFINE g == windows[k].generation
            A == Cardinality(ReservedUnits(leases, Live, k, g))
            B == Cardinality(ReservedUnits(ls, S, k, g))
            C == Cardinality(ReservedUnits(leases, Live \ S, k, g))
            D == Cardinality(ConsumedUnits(settled, DOMAIN settled, k, g))
            E == Cardinality(ConsumedUnits(ls, S, k, g))
            F == Cardinality(ConsumedUnits(st, DOMAIN settled \cup S, k, g))
            max == Amounts[t][i].max
            w == SettledWindow(ls, S, k)
<1>1. /\ S \in SUBSET LeaseIds
      /\ Live \ S \in SUBSET LeaseIds
      /\ DOMAIN settled \in SUBSET LeaseIds
      /\ Live = S \cup (Live \ S)
      /\ S \cap (Live \ S) = {}
      /\ DOMAIN settled \cap S = {}
  BY DEF IInv, TypeOK
<1>2. /\ A \in Nat /\ B \in Nat /\ C \in Nat
      /\ D \in Nat /\ E \in Nat /\ F \in Nat
  <2>1. Live \in SUBSET LeaseIds /\ DOMAIN settled \cup S \in SUBSET LeaseIds
    BY <1>1
  <2>. QED  BY <1>1, <2>1, ClaimedUnitsFinite
<1>3. A = B + C
  <2>1. ReservedUnits(ls, S, k, g) = ReservedUnits(leases, S, k, g)
    BY UnitsEqual
  <2>2. Live \in SUBSET LeaseIds /\ S \in SUBSET Live
    BY <1>1
  <2>3. A = Cardinality(ReservedUnits(leases, S, k, g)) + C
    BY <2>2, UnitsSplit
  <2>. QED  BY <2>1, <2>3
<1>4. F = D + E
  <2>1. ConsumedUnits(st, DOMAIN settled, k, g) = ConsumedUnits(settled, DOMAIN settled, k, g)
    BY <1>1, UnitsEqual
  <2>2. ConsumedUnits(st, S, k, g) = ConsumedUnits(ls, S, k, g)
    BY UnitsEqual
  <2>3. F = Cardinality(ConsumedUnits(st, DOMAIN settled, k, g))
              + Cardinality(ConsumedUnits(st, S, k, g))
    BY <1>1, UnitsAdd
  <2>. QED  BY <2>1, <2>2, <2>3
<1>5. E <= B
  BY <1>1, ConsumedBelowReserved
<1>6. /\ windows[k].reserved = A
      /\ windows[k].committed = D
      /\ A + D <= max
      /\ max \in Nat /\ max < U32Max
  BY OwnedLimit DEF IInv, WindowsAccounted, Accounted
<1>7. /\ w.generation = g
      /\ w.reserved = SaturatingSub(windows[k].reserved, B)
      /\ w.committed = SaturatingAdd(windows[k].committed, E)
  BY <1>1, SettledWindowType DEF IInv
<1>8. U32Max \in Nat
  BY CounterAssumption
<1>. HIDE DEF A, B, C, D, E, F, g, w, max
<1>9. w.reserved = C
  BY <1>2, <1>3, <1>6, <1>7 DEF SaturatingSub
<1>10. w.committed = F
  BY <1>2, <1>3, <1>4, <1>5, <1>6, <1>7, <1>8 DEF SaturatingAdd
<1>11. C + F <= max
  BY <1>2, <1>3, <1>4, <1>5, <1>6
<1>. QED  BY <1>7, <1>9, <1>10, <1>11 DEF Accounted, A, B, C, D, E, F, g, w, max

\* What a sweep of S writes to the history.
LEMMA RecordValues ==
  ASSUME NEW ls, NEW S, Record(ls, S)
  PROVE  /\ DOMAIN settled' = DOMAIN settled \cup S
         /\ \A l \in DOMAIN settled \cup S :
               settled'[l] = IF l \in S THEN ls[l] ELSE settled[l]
  BY DEF Record

\* Leases that hold no window of generation g of key k.
LEMMA OtherGeneration ==
  ASSUME NEW ls, NEW S, NEW k, NEW g, NEW ws, PastClaims(ls, S, ws),
         k \in DOMAIN ws => ws[k].generation \in Nat /\ g \in Nat /\ g > ws[k].generation,
         \A l \in S : \A i \in DOMAIN ls[l].windows : ls[l].windows[i] \in Nat
  PROVE  \A l \in S : \A i \in Positions : ~Counts(ls[l], i, k, g)
  BY DEF PastClaims, Counts

\* The window reserve works on is accounted too: a restarted or new window has
\* no claims.
LEMMA CurrentAccounted ==
  ASSUME IInv, NEW st,
         \A l \in DOMAIN settled \cup Expired :
             st[l] = IF l \in Expired THEN leases[l] ELSE settled[l],
         NEW k \in Keys, NEW t \in Triggers, NEW i \in Positions,
         Owns(t, i, k, ConsumableTriggers)
  PROVE  Accounted(CurrentWindow(k), leases, Live \ Expired,
                   st, DOMAIN settled \cup Expired, k, Amounts[t][i].max)
<1>. DEFINE w == CurrentWindow(k)
            D == DOMAIN settled \cup Expired
<1>1. Amounts[t][i].max \in Nat
  BY OwnedLimit
<1>2. \A l \in Live : IsLease(leases[l])
  BY DEF IInv, TypeOK
<1>3. \A l \in DOMAIN settled : IsLease(settled[l])
  BY DEF IInv, TypeOK
<1>4. ASSUME \/ k \notin DOMAIN windows
             \/ /\ k \in DOMAIN windows
                /\ w.generation = windows[k].generation + 1,
             w.committed = 0, w.reserved = 0
      PROVE  Accounted(w, leases, Live \ Expired, st, D, k, Amounts[t][i].max)
  <2>1. k \in DOMAIN windows => /\ windows[k].generation \in Nat
                                /\ w.generation \in Nat
                                /\ w.generation > windows[k].generation
    BY <1>4 DEF IInv, TypeOK, Window
  <2>2. \A l \in Live : \A j \in DOMAIN leases[l].windows : leases[l].windows[j] \in Nat
    BY <1>2 DEF IsLease
  <2>3. \A l \in DOMAIN settled :
            \A j \in DOMAIN settled[l].windows : settled[l].windows[j] \in Nat
    BY <1>3 DEF IsLease
  <2>. HIDE DEF w
  <2>4. \A l \in Live : \A j \in Positions : ~Counts(leases[l], j, k, w.generation)
    BY <2>1, <2>2, OtherGeneration DEF IInv
  <2>5. \A l \in DOMAIN settled : \A j \in Positions : ~Counts(settled[l], j, k, w.generation)
    BY <2>1, <2>3, OtherGeneration DEF IInv
  <2>6. \A l \in D : \A j \in Positions : ~Counts(st[l], j, k, w.generation)
    BY <2>4, <2>5, ExpiredLeases DEF IInv
  <2>7. /\ Cardinality(ReservedUnits(leases, Live \ Expired, k, w.generation)) = 0
        /\ Cardinality(ConsumedUnits(st, D, k, w.generation)) = 0
    BY <2>4, <2>6, NoClaimsNoUnits
  <2>. QED  BY <1>1, <1>4, <2>7 DEF Accounted
<1>5. CASE k \notin DOMAIN windows
  BY <1>4, <1>5 DEF CurrentWindow
<1>6. CASE k \in DOMAIN windows
  <2>1. SweptWindows[k] = SettledWindow(leases, Expired, k)
    BY <1>6 DEF SweptWindows, SettledWindows
  <2>2. Expired \in SUBSET Live
    BY ExpiredLeases DEF IInv
  <2>3. \A l \in Expired : /\ IsLease(leases[l])
                           /\ leases[l].consumed_total <= leases[l].reserved_amount
    BY <2>2, <1>2 DEF IInv, WithinReservation
  <2>4. CASE now - SweptWindows[k].started_at >= Duration[k]
    <3>1. w.committed = 0 /\ w.reserved = 0
      BY <1>6, <2>4 DEF CurrentWindow
    <3>2. w.generation = SweptWindows[k].generation + 1
      BY <1>6, <2>4 DEF CurrentWindow
    <3>3. SweptWindows[k].generation = windows[k].generation
      BY <1>6, <2>1, <2>2, SettledWindowType, ExpiredLeases DEF IInv
    <3>. QED  BY <1>4, <1>6, <3>1, <3>2, <3>3
  <2>5. CASE ~(now - SweptWindows[k].started_at >= Duration[k])
    <3>1. w = SettledWindow(leases, Expired, k)
      BY <1>6, <2>1, <2>5 DEF CurrentWindow
    <3>2. Accounted(SettledWindow(leases, Expired, k), leases, Live \ Expired,
                    st, D, k, Amounts[t][i].max)
      BY <1>6, <2>2, <2>3, SettledAccounted
    <3>. QED  BY <3>1, <3>2
  <2>. QED  BY <2>4, <2>5
<1>. QED  BY <1>5, <1>6

-----------------------------------------------------------------------------
(***************************************************************************)
(* Every step preserves the invariant.                                     *)
(***************************************************************************)

\* No window disappears or goes back to an earlier generation.
WindowsGrow ==
    \A k \in DOMAIN windows :
        k \in DOMAIN windows' /\ windows'[k].generation >= windows[k].generation

\* Leases that name past generations still do when windows only move on.
LEMMA PastClaimsGrow ==
  ASSUME TypeOK, TypeOK', WindowsGrow, NEW ls, NEW S, PastClaims(ls, S, windows),
         \A l \in S : IsLease(ls[l])
  PROVE  PastClaims(ls, S, windows')
<1>. SUFFICES ASSUME NEW l \in S, NEW i \in DOMAIN ls[l].windows
              PROVE  /\ KeyOf(ls[l].trigger, i) \in DOMAIN windows'
                     /\ ls[l].windows[i] <= windows'[KeyOf(ls[l].trigger, i)].generation
  BY DEF PastClaims
<1>. DEFINE k == KeyOf(ls[l].trigger, i)
<1>1. k \in DOMAIN windows /\ ls[l].windows[i] <= windows[k].generation
  BY DEF PastClaims
<1>2. k \in DOMAIN windows' /\ windows'[k].generation >= windows[k].generation
  BY <1>1 DEF WindowsGrow
<1>3. windows[k].generation \in Nat /\ windows'[k].generation \in Nat
  BY <1>1, <1>2 DEF TypeOK, Window
<1>4. ls[l].windows[i] \in Nat
  BY DEF IsLease
<1>. QED  BY <1>1, <1>2, <1>3, <1>4

\* The leases S leave the table for the history as ls has them.
LEMMA HistoryStep ==
  ASSUME IInv, TypeOK', WindowsGrow, NEW ls, NEW S \in SUBSET Live, Record(ls, S),
         \A l \in S : /\ IsLease(ls[l])
                      /\ ls[l].trigger = leases[l].trigger
                      /\ ls[l].windows = leases[l].windows,
         WithinReservation(ls, S)
  PROVE  /\ DOMAIN settled' = DOMAIN settled \cup S
         /\ WithinReservation(settled', DOMAIN settled')
         /\ PastClaims(settled', DOMAIN settled', windows')
<1>1. /\ DOMAIN settled' = DOMAIN settled \cup S
      /\ \A l \in DOMAIN settled \cup S :
            settled'[l] = IF l \in S THEN ls[l] ELSE settled[l]
  BY RecordValues
<1>2. WithinReservation(settled', DOMAIN settled')
  BY <1>1 DEF IInv, WithinReservation
<1>3. PastClaims(settled', DOMAIN settled', windows)
  BY <1>1 DEF IInv, PastClaims
<1>4. \A l \in DOMAIN settled' : IsLease(settled'[l])
  BY DEF TypeOK
<1>. QED  BY <1>1, <1>2, <1>3, <1>4, PastClaimsGrow DEF IInv

\* Of a lease still open only its totals may change.
LEMMA TableStep ==
  ASSUME IInv, TypeOK', WindowsGrow, Live' \subseteq Live,
         \A l \in Live' : /\ leases'[l].trigger = leases[l].trigger
                          /\ leases'[l].windows = leases[l].windows
  PROVE  PastClaims(leases', Live', windows')
<1>1. PastClaims(leases', Live', windows)
  BY DEF IInv, PastClaims
<1>2. \A l \in Live' : IsLease(leases'[l])
  BY DEF TypeOK
<1>. QED  BY <1>1, <1>2, PastClaimsGrow DEF IInv

\* A step that settles S and opens no lease.
LEMMA SettlingStep ==
  ASSUME IInv, TypeOK', WindowsGrow, NEW ls, NEW S \in SUBSET Live, Record(ls, S),
         \A l \in S : /\ IsLease(ls[l])
                      /\ ls[l].trigger = leases[l].trigger
                      /\ ls[l].windows = leases[l].windows,
         WithinReservation(ls, S),
         Live' = Live \ S,
         \A l \in Live' : /\ leases'[l].trigger = leases[l].trigger
                          /\ leases'[l].windows = leases[l].windows
                          /\ leases'[l].reserved_amount = leases[l].reserved_amount,
         WithinReservation(leases', Live'),
         \A k \in DOMAIN windows' : \A t \in Triggers, i \in Positions :
            Owns(t, i, k, ConsumableTriggers)
            => Accounted(windows'[k], leases, Live \ S, settled', DOMAIN settled \cup S,
                         k, Amounts[t][i].max)
  PROVE  IInv'
<1>1. /\ DOMAIN settled' = DOMAIN settled \cup S
      /\ WithinReservation(settled', DOMAIN settled')
      /\ PastClaims(settled', DOMAIN settled', windows')
  BY HistoryStep
<1>2. PastClaims(leases', Live', windows')
  BY TableStep
<1>3. DOMAIN settled' \cap Live' = {}
  BY <1>1 DEF IInv
<1>4. WindowsAccounted'
  <2>1. SUFFICES ASSUME NEW k \in DOMAIN windows', NEW t \in Triggers,
                        NEW i \in Positions, Owns(t, i, k, ConsumableTriggers)
                 PROVE  Accounted(windows'[k], leases', Live', settled',
                                  DOMAIN settled', k, Amounts[t][i].max)
    BY DEF WindowsAccounted
  <2>2. \A g : ReservedUnits(leases', Live', k, g) = ReservedUnits(leases, Live', k, g)
    BY UnitsEqual
  <2>3. Accounted(windows'[k], leases, Live', settled', DOMAIN settled',
                  k, Amounts[t][i].max)
    BY <1>1, <2>1
  <2>. QED  BY <2>2, <2>3 DEF Accounted
<1>. QED  BY <1>1, <1>2, <1>3, <1>4 DEF IInv

\* What an accepted update changes of a lease, and what it leaves.
LEMMA UpdatedLeaseFields ==
  ASSUME NEW x, IsLease(x), NEW total, NEW seq
  PROVE  LET y == [x EXCEPT !.consumed_total = total, !.sequence = seq] IN
         /\ y.trigger = x.trigger
         /\ y.windows = x.windows
         /\ y.reserved_amount = x.reserved_amount
         /\ y.consumed_total = total
         /\ y.expires_at = x.expires_at
         /\ y.concurrency_keys = x.concurrency_keys
<1>. DEFINE z == [x EXCEPT !.consumed_total = total]
<1>1. z = [trigger |-> x.trigger, reserved_amount |-> x.reserved_amount,
           consumed_total |-> total, sequence |-> x.sequence,
           expires_at |-> x.expires_at, windows |-> x.windows,
           concurrency_keys |-> x.concurrency_keys]
  BY DEF IsLease
<1>. HIDE DEF z
<1>2. LET y == [z EXCEPT !.sequence = seq] IN
         /\ y.trigger = x.trigger
         /\ y.windows = x.windows
         /\ y.reserved_amount = x.reserved_amount
         /\ y.consumed_total = total
         /\ y.expires_at = x.expires_at
         /\ y.concurrency_keys = x.concurrency_keys
  BY <1>1
<1>. QED  BY <1>2 DEF z

\* Windows after a sweep, and after the loop of reserve.
LEMMA SweptGeneration ==
  ASSUME TypeOK, NEW k \in DOMAIN windows
  PROVE  /\ SweptWindows[k] = SettledWindow(leases, Expired, k)
         /\ SweptWindows[k].generation = windows[k].generation
         /\ CurrentWindow(k).generation >= windows[k].generation
<1>1. SweptWindows[k] = SettledWindow(leases, Expired, k)
  BY DEF SweptWindows, SettledWindows
<1>2. SweptWindows[k].generation = windows[k].generation
  BY <1>1, SettledWindowType, ExpiredLeases
<1>3. windows[k].generation \in Nat
  BY DEF TypeOK, Window
<1>. QED  BY <1>1, <1>2, <1>3 DEF CurrentWindow

\* The windows a refused reserve created or restarted are accounted too.
LEMMA VisitedAccounted ==
  ASSUME IInv, Record(leases, Expired), NEW t \in Triggers, NEW I \in SUBSET Limits(t)
  PROVE  \A k \in DOMAIN windows \cup KeysOf(t, I) : \A s \in Triggers, i \in Positions :
            Owns(s, i, k, ConsumableTriggers)
            => Accounted(VisitedWindows(t, I)[k], leases, Live \ Expired,
                         settled', DOMAIN settled \cup Expired, k, Amounts[s][i].max)
<1>. SUFFICES ASSUME NEW k \in DOMAIN windows \cup KeysOf(t, I), NEW s \in Triggers,
                     NEW i \in Positions, Owns(s, i, k, ConsumableTriggers)
              PROVE  Accounted(VisitedWindows(t, I)[k], leases, Live \ Expired,
                         settled', DOMAIN settled \cup Expired, k, Amounts[s][i].max)
  OBVIOUS
<1>1. \A l \in DOMAIN settled \cup Expired :
         settled'[l] = IF l \in Expired THEN leases[l] ELSE settled[l]
  BY RecordValues
<1>2. k \in Keys
  BY VisitedWindowsType DEF IInv
<1>3. CASE k \in KeysOf(t, I)
  BY <1>1, <1>2, <1>3, CurrentAccounted DEF VisitedWindows
<1>4. CASE k \notin KeysOf(t, I)
  <2>1. k \in DOMAIN windows /\ VisitedWindows(t, I)[k] = SettledWindow(leases, Expired, k)
    BY <1>4, SweptGeneration DEF VisitedWindows, IInv
  <2>2. Expired \in SUBSET Live
    BY ExpiredLeases DEF IInv
  <2>3. \A l \in Expired : /\ IsLease(leases[l])
                           /\ leases[l].consumed_total <= leases[l].reserved_amount
    BY <2>2 DEF IInv, TypeOK, WithinReservation
  <2>4. \A l \in Expired : /\ leases[l].trigger = leases[l].trigger
                           /\ leases[l].windows = leases[l].windows
                           /\ leases[l].reserved_amount = leases[l].reserved_amount
    OBVIOUS
  <2>5. Accounted(SettledWindow(leases, Expired, k), leases, Live \ Expired,
                  settled', DOMAIN settled \cup Expired, k, Amounts[s][i].max)
    BY <1>1, <2>1, <2>2, <2>3, <2>4, SettledAccounted
  <2>. QED  BY <2>1, <2>5
<1>. QED  BY <1>3, <1>4

\* The sweep of the expired leases keeps every owned window accounted.
LEMMA SweptAccounted ==
  ASSUME IInv, Record(leases, Expired)
  PROVE  \A k \in DOMAIN windows : \A t \in Triggers, i \in Positions :
            Owns(t, i, k, ConsumableTriggers)
            => Accounted(SweptWindows[k], leases, Live \ Expired,
                         settled', DOMAIN settled \cup Expired, k, Amounts[t][i].max)
<1>. SUFFICES ASSUME NEW k \in DOMAIN windows, NEW t \in Triggers, NEW i \in Positions,
                     Owns(t, i, k, ConsumableTriggers)
              PROVE  Accounted(SweptWindows[k], leases, Live \ Expired,
                         settled', DOMAIN settled \cup Expired, k, Amounts[t][i].max)
  OBVIOUS
<1>1. \A l \in DOMAIN settled \cup Expired :
         settled'[l] = IF l \in Expired THEN leases[l] ELSE settled[l]
  BY RecordValues
<1>2. SweptWindows[k] = SettledWindow(leases, Expired, k)
  BY SweptGeneration DEF IInv
<1>3. Expired \in SUBSET Live
  BY ExpiredLeases DEF IInv
<1>4. \A l \in Expired : /\ IsLease(leases[l])
                         /\ leases[l].trigger = leases[l].trigger
                         /\ leases[l].windows = leases[l].windows
                         /\ leases[l].reserved_amount = leases[l].reserved_amount
                         /\ leases[l].consumed_total <= leases[l].reserved_amount
  BY <1>3 DEF IInv, TypeOK, WithinReservation
<1>5. Accounted(SettledWindow(leases, Expired, k), leases, Live \ Expired,
                settled', DOMAIN settled \cup Expired, k, Amounts[t][i].max)
  BY <1>1, <1>3, <1>4, SettledAccounted
<1>. QED  BY <1>2, <1>5

\* What the sweep alone needs from the invariant.
LEMMA ExpiredFacts ==
  ASSUME IInv
  PROVE  /\ Expired \in SUBSET Live
         /\ \A l \in Expired : /\ IsLease(leases[l])
                               /\ leases[l].trigger = leases[l].trigger
                               /\ leases[l].windows = leases[l].windows
         /\ WithinReservation(leases, Expired)
         /\ DOMAIN SweptWindows = DOMAIN windows
         /\ DOMAIN SweptLeases = Live \ Expired
         /\ \A l \in Live \ Expired : SweptLeases[l] = leases[l]
  BY ExpiredLeases, SweptTypes DEF IInv, TypeOK, WithinReservation

\* A refused or repeated operation, which only sweeps, keeps the invariant.
LEMMA SweepOnlyStep ==
  ASSUME IInv, TypeOK', SweepOnly
  PROVE  IInv'
<1>1. /\ Live' = Live \ Expired
      /\ \A l \in Live' : leases'[l] = leases[l]
  BY ExpiredFacts DEF SweepOnly, Live
<1>2. WithinReservation(leases', Live')
  BY <1>1 DEF IInv, WithinReservation
<1>3. WindowsGrow
  <2>1. \A k \in DOMAIN windows : windows[k].generation \in Nat
    BY DEF IInv, TypeOK, Window
  <2>. QED  BY <2>1, ExpiredFacts, SweptGeneration DEF WindowsGrow, SweepOnly, IInv
<1>4. Record(leases, Expired)
  BY DEF SweepOnly
<1>5. \A k \in DOMAIN windows' : \A t \in Triggers, i \in Positions :
         Owns(t, i, k, ConsumableTriggers)
         => Accounted(windows'[k], leases, Live \ Expired, settled',
                      DOMAIN settled \cup Expired, k, Amounts[t][i].max)
  BY <1>4, ExpiredFacts, SweptAccounted DEF SweepOnly
<1>6. \A l \in Live' : /\ leases'[l].trigger = leases[l].trigger
                       /\ leases'[l].windows = leases[l].windows
                       /\ leases'[l].reserved_amount = leases[l].reserved_amount
  BY <1>1
<1>. QED  BY <1>1, <1>2, <1>3, <1>4, <1>5, <1>6, ExpiredFacts, SettlingStep

\* A reserve that finds a window full keeps the invariant.
LEMMA RejectStep ==
  ASSUME IInv, TypeOK', NEW t \in Triggers, NEW n \in Requests, RejectConsumable(t, n)
  PROVE  IInv'
<1>. DEFINE I == Visited(t, n)
<1>1. /\ Live' = Live \ Expired
      /\ \A l \in Live' : leases'[l] = leases[l]
  BY ExpiredFacts DEF RejectConsumable, Live
<1>2. WithinReservation(leases', Live')
  BY <1>1 DEF IInv, WithinReservation
<1>3. I \in SUBSET Limits(t)
  BY DEF Visited
<1>4. /\ DOMAIN windows' = DOMAIN windows \cup KeysOf(t, I)
      /\ windows' = VisitedWindows(t, I)
  BY <1>3, VisitedWindowsType DEF RejectConsumable, IInv
<1>5. WindowsGrow
  <2>1. \A k \in DOMAIN windows : windows[k].generation \in Nat
    BY DEF IInv, TypeOK, Window
  <2>. QED  BY <1>4, <2>1, SweptGeneration DEF WindowsGrow, VisitedWindows, IInv
<1>6. Record(leases, Expired)
  BY DEF RejectConsumable
<1>7. \A k \in DOMAIN windows' : \A s \in Triggers, i \in Positions :
         Owns(s, i, k, ConsumableTriggers)
         => Accounted(windows'[k], leases, Live \ Expired, settled',
                      DOMAIN settled \cup Expired, k, Amounts[s][i].max)
  BY <1>3, <1>4, <1>6, VisitedAccounted
<1>8. \A l \in Live' : /\ leases'[l].trigger = leases[l].trigger
                       /\ leases'[l].windows = leases[l].windows
                       /\ leases'[l].reserved_amount = leases[l].reserved_amount
  BY <1>1
<1>. QED  BY <1>1, <1>2, <1>5, <1>6, <1>7, <1>8, ExpiredFacts, SettlingStep

\* An accepted update keeps the invariant.
LEMMA UpdateStep ==
  ASSUME IInv, TypeOK', NEW l \in LeaseIds, NEW total \in 0..U32Max,
         NEW seq \in 0..MaxSequence, UpdateLease(l, total, seq)
  PROVE  IInv'
<1>1. /\ Live' = Live \ Expired
      /\ l \in Live'
      /\ \A x \in Live' : x # l => leases'[x] = leases[x]
      /\ leases'[l] = [leases[l] EXCEPT !.consumed_total = total, !.sequence = seq]
  BY ExpiredFacts DEF UpdateLease, Live
<1>2. /\ leases'[l].trigger = leases[l].trigger
      /\ leases'[l].windows = leases[l].windows
      /\ leases'[l].reserved_amount = leases[l].reserved_amount
      /\ leases'[l].consumed_total = total
  BY <1>1, UpdatedLeaseFields DEF IInv, TypeOK
<1>3. WithinReservation(leases', Live')
  <2>1. total <= leases[l].reserved_amount /\ total >= leases[l].consumed_total
    BY DEF UpdateLease, ValidOperation
  <2>2. /\ leases[l].consumed_total >= InitialConsumed(leases[l].trigger)
        /\ leases[l].consumed_total \in Nat
    BY <1>1 DEF IInv, WithinReservation, TypeOK, IsLease
  <2>3. total \in Nat /\ InitialConsumed(leases[l].trigger) \in Nat
    BY CounterAssumption DEF InitialConsumed
  <2>4. total >= InitialConsumed(leases[l].trigger)
    BY <2>1, <2>2, <2>3
  <2>. QED  BY <1>1, <1>2, <2>1, <2>4 DEF IInv, WithinReservation
<1>4. WindowsGrow
  <2>1. \A k \in DOMAIN windows : windows[k].generation \in Nat
    BY DEF IInv, TypeOK, Window
  <2>. QED  BY <2>1, ExpiredFacts, SweptGeneration DEF WindowsGrow, UpdateLease, IInv
<1>5. Record(leases, Expired)
  BY DEF UpdateLease
<1>6. \A k \in DOMAIN windows' : \A t \in Triggers, i \in Positions :
         Owns(t, i, k, ConsumableTriggers)
         => Accounted(windows'[k], leases, Live \ Expired, settled',
                      DOMAIN settled \cup Expired, k, Amounts[t][i].max)
  BY <1>5, ExpiredFacts, SweptAccounted DEF UpdateLease
<1>7. \A x \in Live' : /\ leases'[x].trigger = leases[x].trigger
                       /\ leases'[x].windows = leases[x].windows
                       /\ leases'[x].reserved_amount = leases[x].reserved_amount
  BY <1>1, <1>2
<1>. QED  BY <1>1, <1>3, <1>4, <1>5, <1>6, <1>7, ExpiredFacts, SettlingStep

\* The lease that finishes is charged within what it reserved.
LEMMA FinishedLeases ==
  ASSUME IInv, NEW l \in LeaseIds, NEW total \in 0..U32Max,
         NEW seq \in 0..MaxSequence, FinishLease(l, total, seq)
  PROVE  LET ls   == [leases EXCEPT ![l].consumed_total = total]
             gone == Expired \cup {l} IN
         /\ l \in Live \ Expired
         /\ gone \in SUBSET Live
         /\ \A x \in gone : /\ IsLease(ls[x])
                            /\ ls[x].trigger = leases[x].trigger
                            /\ ls[x].windows = leases[x].windows
                            /\ ls[x].reserved_amount = leases[x].reserved_amount
         /\ WithinReservation(ls, gone)
<1>. DEFINE ls   == [leases EXCEPT ![l].consumed_total = total]
            gone == Expired \cup {l}
<1>1. /\ l \in Live \ Expired
      /\ gone \in SUBSET Live
      /\ IsLease(leases[l])
  BY ExpiredFacts DEF FinishLease, IInv, TypeOK
<1>2. total \in Nat
  BY CounterAssumption
<1>3. /\ \A x \in Live : x # l => ls[x] = leases[x]
      /\ ls[l] = [leases[l] EXCEPT !.consumed_total = total]
  BY <1>1 DEF Live
<1>. HIDE DEF ls
<1>4. /\ IsLease(ls[l])
      /\ ls[l].trigger = leases[l].trigger
      /\ ls[l].windows = leases[l].windows
      /\ ls[l].reserved_amount = leases[l].reserved_amount
      /\ ls[l].consumed_total = total
  BY <1>1, <1>2, <1>3, TotalledLeaseType DEF IsLease
<1>5. \A x \in gone : /\ IsLease(ls[x])
                      /\ ls[x].trigger = leases[x].trigger
                      /\ ls[x].windows = leases[x].windows
                      /\ ls[x].reserved_amount = leases[x].reserved_amount
  BY <1>1, <1>3, <1>4 DEF IInv, TypeOK
<1>6. WithinReservation(ls, gone)
  <2>1. total <= leases[l].reserved_amount /\ total >= leases[l].consumed_total
    BY DEF FinishLease, ValidOperation
  <2>2. /\ leases[l].consumed_total >= InitialConsumed(leases[l].trigger)
        /\ leases[l].consumed_total \in Nat
    BY <1>1 DEF IInv, WithinReservation, IsLease
  <2>3. InitialConsumed(leases[l].trigger) \in Nat
    BY DEF InitialConsumed
  <2>4. total >= InitialConsumed(leases[l].trigger)
    BY <1>2, <2>1, <2>2, <2>3
  <2>5. \A x \in gone : x # l => ls[x] = leases[x]
    BY <1>1, <1>3
  <2>. QED  BY <1>1, <1>4, <2>1, <2>4, <2>5, ExpiredFacts DEF IInv, WithinReservation
<1>. QED  BY <1>1, <1>5, <1>6 DEF ls

\* An accepted finish keeps the invariant: the lease is charged its final total.
LEMMA FinishStep ==
  ASSUME IInv, TypeOK', NEW l \in LeaseIds, NEW total \in 0..U32Max,
         NEW seq \in 0..MaxSequence, FinishLease(l, total, seq)
  PROVE  IInv'
<1>. DEFINE ls   == [leases EXCEPT ![l].consumed_total = total]
            gone == Expired \cup {l}
<1>1. /\ l \in Live \ Expired
      /\ gone \in SUBSET Live
  BY FinishedLeases
<1>5. \A x \in gone : /\ IsLease(ls[x])
                      /\ ls[x].trigger = leases[x].trigger
                      /\ ls[x].windows = leases[x].windows
                      /\ ls[x].reserved_amount = leases[x].reserved_amount
  BY FinishedLeases
<1>6. WithinReservation(ls, gone)
  BY FinishedLeases
<1>. HIDE DEF ls
<1>7. /\ Live' = Live \ gone
      /\ \A x \in Live' : leases'[x] = leases[x]
  BY DEF FinishLease, Without, Live
<1>8. Record(ls, gone)
  BY DEF FinishLease, ls
<1>9. /\ DOMAIN windows' = DOMAIN windows
      /\ \A k \in DOMAIN windows : windows'[k] = SettledWindow(ls, gone, k)
  BY DEF FinishLease, SettledWindows, ls
<1>10. WindowsGrow
  <2>1. \A k \in DOMAIN windows : windows[k].generation \in Nat
    BY DEF IInv, TypeOK, Window
  <2>2. gone \in SUBSET LeaseIds
    BY <1>1 DEF IInv, TypeOK
  <2>3. \A k \in DOMAIN windows : windows'[k].generation = windows[k].generation
    BY <1>9, <2>2, SettledWindowType DEF IInv
  <2>. QED  BY <1>9, <2>1, <2>3 DEF WindowsGrow
<1>11. ASSUME NEW k \in DOMAIN windows', NEW t \in Triggers, NEW i \in Positions,
              Owns(t, i, k, ConsumableTriggers)
       PROVE  Accounted(windows'[k], leases, Live \ gone, settled',
                        DOMAIN settled \cup gone, k, Amounts[t][i].max)
  <2>1. \A x \in DOMAIN settled \cup gone :
           settled'[x] = IF x \in gone THEN ls[x] ELSE settled[x]
    BY <1>8, RecordValues
  <2>2. \A x \in gone : ls[x].consumed_total <= ls[x].reserved_amount
    BY <1>6 DEF WithinReservation
  <2>3. Accounted(SettledWindow(ls, gone, k), leases, Live \ gone, settled',
                  DOMAIN settled \cup gone, k, Amounts[t][i].max)
    BY <1>1, <1>5, <1>9, <1>11, <2>1, <2>2, SettledAccounted
  <2>. QED  BY <1>9, <2>3
<1>12. WithinReservation(leases', Live')
  BY <1>7 DEF IInv, WithinReservation
<1>13. \A x \in Live' : /\ leases'[x].trigger = leases[x].trigger
                        /\ leases'[x].windows = leases[x].windows
                        /\ leases'[x].reserved_amount = leases[x].reserved_amount
  BY <1>7
<1>. HIDE DEF gone
<1>. QED  BY <1>1, <1>5, <1>6, <1>7, <1>8, <1>10, <1>11, <1>12, <1>13, SettlingStep

\* A step that sweeps and opens lease l: the reserved counters grow by what l
\* holds.
LEMMA GrantStep ==
  ASSUME IInv, TypeOK', WindowsGrow, Record(leases, Expired),
         NEW l \in LeaseIds \ (Live \cup DOMAIN settled),
         Live' = (Live \ Expired) \cup {l},
         \A x \in Live \ Expired : leases'[x] = leases[x],
         WithinReservation(leases', {l}),
         PastClaims(leases', {l}, windows'),
         \A k \in DOMAIN windows' : \A t \in Triggers, i \in Positions :
            Owns(t, i, k, ConsumableTriggers)
            => LET g == windows'[k].generation IN
               /\ windows'[k].reserved =
                    Cardinality(ReservedUnits(leases, Live \ Expired, k, g))
                      + Cardinality(ReservedUnits(leases', {l}, k, g))
               /\ windows'[k].committed =
                    Cardinality(ConsumedUnits(settled', DOMAIN settled \cup Expired, k, g))
               /\ windows'[k].reserved + windows'[k].committed <= Amounts[t][i].max
  PROVE  IInv'
<1>1. /\ DOMAIN settled' = DOMAIN settled \cup Expired
      /\ WithinReservation(settled', DOMAIN settled')
      /\ PastClaims(settled', DOMAIN settled', windows')
  BY ExpiredFacts, HistoryStep
<1>2. DOMAIN settled' \cap Live' = {}
  BY <1>1, ExpiredFacts DEF IInv
<1>3. WithinReservation(leases', Live')
  BY DEF IInv, WithinReservation
<1>4. PastClaims(leases', Live', windows')
  <2>1. PastClaims(leases, Live \ Expired, windows)
    BY DEF IInv, PastClaims
  <2>2. PastClaims(leases, Live \ Expired, windows')
    BY <2>1, PastClaimsGrow DEF IInv, TypeOK
  <2>. QED  BY <2>2 DEF PastClaims
<1>5. WindowsAccounted'
  <2>1. SUFFICES ASSUME NEW k \in DOMAIN windows', NEW t \in Triggers,
                        NEW i \in Positions, Owns(t, i, k, ConsumableTriggers)
                 PROVE  Accounted(windows'[k], leases', Live', settled',
                                  DOMAIN settled', k, Amounts[t][i].max)
    BY DEF WindowsAccounted
  <2>. DEFINE g == windows'[k].generation
              R == Live \ Expired
  <2>2. /\ Live' \in SUBSET LeaseIds
        /\ R \in SUBSET Live'
        /\ Live' \ R = {l}
    BY DEF TypeOK
  <2>3. Cardinality(ReservedUnits(leases', Live', k, g)) =
          Cardinality(ReservedUnits(leases', R, k, g))
            + Cardinality(ReservedUnits(leases', {l}, k, g))
    <3>. HIDE DEF R, g
    <3>1. Cardinality(ReservedUnits(leases', Live', k, g)) =
            Cardinality(ReservedUnits(leases', R, k, g))
              + Cardinality(ReservedUnits(leases', Live' \ R, k, g))
      BY <2>2, UnitsSplit
    <3>. QED  BY <2>2, <3>1
  <2>4. ReservedUnits(leases', R, k, g) = ReservedUnits(leases, R, k, g)
    <3>1. \A x \in R : /\ leases'[x].trigger = leases[x].trigger
                       /\ leases'[x].windows = leases[x].windows
                       /\ leases'[x].reserved_amount = leases[x].reserved_amount
      OBVIOUS
    <3>. QED  BY <3>1, UnitsEqual
  <2>. QED  BY <1>1, <2>1, <2>2, <2>3, <2>4 DEF Accounted
<1>. QED  BY <1>1, <1>2, <1>3, <1>4, <1>5 DEF IInv

\* What the lease that reserve adds to the table holds.
LEMMA NewLeaseFacts ==
  ASSUME IInv, NEW l \in LeaseIds, NEW t \in Triggers, NEW n \in Requests, NEW ttl \in Ttls
  PROVE  LET f == With(SweptLeases, l, NewLease(t, n, ttl)) IN
         /\ DOMAIN f = (Live \ Expired) \cup {l}
         /\ \A x \in Live \ Expired : x # l => f[x] = leases[x]
         /\ f[l].trigger = t
         /\ f[l].reserved_amount = n
         /\ DOMAIN f[l].windows = WindowLimits(t)
         /\ \A i \in WindowLimits(t) :
               f[l].windows[i] = CurrentWindow(KeyOf(t, i)).generation
         /\ WithinReservation(f, {l})
<1>. DEFINE f == With(SweptLeases, l, NewLease(t, n, ttl))
<1>1. /\ DOMAIN f = (Live \ Expired) \cup {l}
      /\ \A x \in Live \ Expired : x # l => f[x] = leases[x]
      /\ f[l] = NewLease(t, n, ttl)
  BY ExpiredFacts DEF With
<1>. HIDE DEF f
<1>2. /\ f[l].trigger = t
      /\ f[l].reserved_amount = n
      /\ f[l].consumed_total = InitialConsumed(t)
      /\ f[l].windows = [i \in WindowLimits(t) |-> CurrentWindow(KeyOf(t, i)).generation]
  BY <1>1 DEF NewLease
<1>3. n \in Nat /\ n >= 1
  BY RequestBounds
<1>4. InitialConsumed(t) \in Nat /\ InitialConsumed(t) <= n
  BY <1>3 DEF InitialConsumed
<1>5. WithinReservation(f, {l})
  BY <1>2, <1>4 DEF WithinReservation
<1>6. /\ DOMAIN f[l].windows = WindowLimits(t)
      /\ \A i \in WindowLimits(t) :
            f[l].windows[i] = CurrentWindow(KeyOf(t, i)).generation
  BY <1>2
<1>. QED  BY <1>1, <1>2, <1>5, <1>6 DEF f

\* A granted reserve of a concurrency trigger keeps the invariant.
LEMMA OccupancyStep ==
  ASSUME IInv, TypeOK', NEW l \in LeaseIds, NEW t \in Triggers, NEW n \in Requests,
         NEW ttl \in Ttls, ReserveOccupancy(l, t, n, ttl)
  PROVE  IInv'
<1>1. /\ Record(leases, Expired)
      /\ l \in LeaseIds \ (Live \cup DOMAIN settled)
      /\ leases' = With(SweptLeases, l, NewLease(t, n, ttl))
      /\ windows' = SweptWindows
      /\ WindowLimits(t) = {}
  BY DEF ReserveOccupancy, WindowLimits, Consumable
<1>2. WindowsGrow
  <2>1. \A k \in DOMAIN windows : windows[k].generation \in Nat
    BY DEF IInv, TypeOK, Window
  <2>. QED  BY <1>1, <2>1, ExpiredFacts, SweptGeneration DEF WindowsGrow, IInv
<1>3. /\ Live' = (Live \ Expired) \cup {l}
      /\ \A x \in Live \ Expired : leases'[x] = leases[x]
      /\ DOMAIN leases'[l].windows = {}
      /\ WithinReservation(leases', {l})
  <2>. DEFINE f == With(SweptLeases, l, NewLease(t, n, ttl))
  <2>1. /\ DOMAIN f = (Live \ Expired) \cup {l}
        /\ \A x \in Live \ Expired : x # l => f[x] = leases[x]
        /\ f[l].trigger = t
        /\ f[l].reserved_amount = n
        /\ DOMAIN f[l].windows = WindowLimits(t)
        /\ \A i \in WindowLimits(t) :
              f[l].windows[i] = CurrentWindow(KeyOf(t, i)).generation
        /\ WithinReservation(f, {l})
    BY NewLeaseFacts
  <2>2. leases' = f /\ l \notin Live
    BY <1>1
  <2>. HIDE DEF f
  <2>. QED  BY <1>1, <2>1, <2>2 DEF Live
<1>4. PastClaims(leases', {l}, windows')
  BY <1>3 DEF PastClaims
<1>5. \A k, g : Cardinality(ReservedUnits(leases', {l}, k, g)) = 0
  <2>1. \A k, g : \A x \in {l} : \A i \in Positions : ~Counts(leases'[x], i, k, g)
    BY <1>3 DEF Counts
  <2>. QED  BY <2>1, NoClaimsNoUnits
<1>6. ASSUME NEW k \in DOMAIN windows', NEW s \in Triggers, NEW i \in Positions,
             Owns(s, i, k, ConsumableTriggers)
      PROVE  LET g == windows'[k].generation IN
               /\ windows'[k].reserved =
                    Cardinality(ReservedUnits(leases, Live \ Expired, k, g))
                      + Cardinality(ReservedUnits(leases', {l}, k, g))
               /\ windows'[k].committed =
                    Cardinality(ConsumedUnits(settled', DOMAIN settled \cup Expired, k, g))
               /\ windows'[k].reserved + windows'[k].committed <= Amounts[s][i].max
  <2>1. Accounted(windows'[k], leases, Live \ Expired, settled',
                  DOMAIN settled \cup Expired, k, Amounts[s][i].max)
    BY <1>1, <1>6, ExpiredFacts, SweptAccounted
  <2>. DEFINE g == windows'[k].generation
  <2>2. windows'[k].reserved \in Nat
    BY DEF TypeOK, Window
  <2>3. /\ windows'[k].reserved =
            Cardinality(ReservedUnits(leases, Live \ Expired, k, g))
        /\ windows'[k].committed =
            Cardinality(ConsumedUnits(settled', DOMAIN settled \cup Expired, k, g))
        /\ windows'[k].reserved + windows'[k].committed <= Amounts[s][i].max
    BY <2>1 DEF Accounted
  <2>4. Cardinality(ReservedUnits(leases', {l}, k, g)) = 0
    BY <1>5
  <2>5. windows'[k].reserved = windows'[k].reserved
                                 + Cardinality(ReservedUnits(leases', {l}, k, g))
    BY <2>2, <2>4
  <2>. HIDE DEF g
  <2>. QED  BY <2>3, <2>5 DEF g
<1>. QED  BY <1>1, <1>2, <1>3, <1>4, <1>6, GrantStep

\* A granted reserve of a QPS or token trigger keeps the invariant: it checked that
\* the windows have room before it took the units.
LEMMA ConsumableStep ==
  ASSUME IInv, TypeOK', NEW l \in LeaseIds, NEW t \in Triggers, NEW n \in Requests,
         NEW ttl \in Ttls, ReserveConsumable(l, t, n, ttl)
  PROVE  IInv'
<1>. DEFINE ks == KeysOf(t, Limits(t))
<1>1. /\ Record(leases, Expired)
      /\ l \in LeaseIds \ (Live \cup DOMAIN settled)
      /\ leases' = With(SweptLeases, l, NewLease(t, n, ttl))
      /\ Consumable(t)
      /\ WindowLimits(t) = Limits(t)
      /\ \A i \in Limits(t) : Fits(t, i, n)
  BY DEF ReserveConsumable, WindowLimits
<1>2. /\ DOMAIN windows' = DOMAIN windows \cup ks
      /\ \A k \in DOMAIN windows' :
           windows'[k] = IF k \in ks
                         THEN [CurrentWindow(k) EXCEPT
                                 !.reserved = WrappingAdd(@, Occurrences(t, k) * n)]
                         ELSE SweptWindows[k]
  BY DEF ReserveConsumable
<1>3. ASSUME NEW k \in ks
      PROVE  /\ windows'[k].generation = CurrentWindow(k).generation
             /\ windows'[k].committed = CurrentWindow(k).committed
             /\ windows'[k].reserved =
                  WrappingAdd(CurrentWindow(k).reserved, Occurrences(t, k) * n)
  <2>1. CurrentWindow(k) \in Window
    BY CurrentWindowType DEF IInv
  <2>. QED  BY <1>2, <2>1 DEF Window
<1>4. WindowsGrow
  <2>1. \A k \in DOMAIN windows : windows[k].generation \in Nat
    BY DEF IInv, TypeOK, Window
  <2>2. ASSUME NEW k \in DOMAIN windows, k \in ks
        PROVE  windows'[k].generation >= windows[k].generation
    BY <1>3, <2>2, SweptGeneration DEF IInv
  <2>3. ASSUME NEW k \in DOMAIN windows, k \notin ks
        PROVE  windows'[k].generation >= windows[k].generation
    <3>1. windows'[k] = SweptWindows[k]
      BY <1>2, <2>3
    <3>. QED  BY <2>1, <3>1, SweptGeneration DEF IInv
  <2>. QED  BY <1>2, <2>2, <2>3 DEF WindowsGrow
<1>5. /\ Live' = (Live \ Expired) \cup {l}
      /\ \A x \in Live \ Expired : leases'[x] = leases[x]
      /\ leases'[l].trigger = t
      /\ leases'[l].reserved_amount = n
      /\ DOMAIN leases'[l].windows = Limits(t)
      /\ \A i \in Limits(t) :
            leases'[l].windows[i] = CurrentWindow(KeyOf(t, i)).generation
      /\ WithinReservation(leases', {l})
  <2>. DEFINE f == With(SweptLeases, l, NewLease(t, n, ttl))
  <2>1. /\ DOMAIN f = (Live \ Expired) \cup {l}
        /\ \A x \in Live \ Expired : x # l => f[x] = leases[x]
        /\ f[l].trigger = t
        /\ f[l].reserved_amount = n
        /\ DOMAIN f[l].windows = WindowLimits(t)
        /\ \A i \in WindowLimits(t) :
              f[l].windows[i] = CurrentWindow(KeyOf(t, i)).generation
        /\ WithinReservation(f, {l})
    BY NewLeaseFacts
  <2>2. leases' = f /\ l \notin Live
    BY <1>1
  <2>. HIDE DEF f
  <2>. QED  BY <1>1, <2>1, <2>2 DEF Live
<1>6. PastClaims(leases', {l}, windows')
  <2>1. \A i \in Limits(t) : KeyOf(t, i) \in ks
    BY DEF KeysOf
  <2>2. \A k \in ks : CurrentWindow(k).generation \in Nat
    BY CurrentWindowType DEF IInv, Window
  <2>. QED  BY <1>2, <1>3, <1>5, <2>1, <2>2 DEF PastClaims
<1>7. ASSUME NEW k \in DOMAIN windows', NEW s \in Triggers, NEW i \in Positions,
             Owns(s, i, k, ConsumableTriggers)
      PROVE  LET g == windows'[k].generation IN
               /\ windows'[k].reserved =
                    Cardinality(ReservedUnits(leases, Live \ Expired, k, g))
                      + Cardinality(ReservedUnits(leases', {l}, k, g))
               /\ windows'[k].committed =
                    Cardinality(ConsumedUnits(settled', DOMAIN settled \cup Expired, k, g))
               /\ windows'[k].reserved + windows'[k].committed <= Amounts[s][i].max
  <2>. DEFINE g == windows'[k].generation
  <2>1. CASE k \notin ks
    <3>1. windows'[k] = SweptWindows[k] /\ k \in DOMAIN windows
      BY <1>2, <2>1
    <3>2. Accounted(windows'[k], leases, Live \ Expired, settled',
                    DOMAIN settled \cup Expired, k, Amounts[s][i].max)
      BY <1>1, <1>7, <3>1, SweptAccounted
    <3>3. \A x \in {l} : \A j \in Positions : ~Counts(leases'[x], j, k, g)
      BY <1>5, <2>1 DEF Counts, KeysOf
    <3>4. Cardinality(ReservedUnits(leases', {l}, k, g)) = 0
      BY <3>3, NoClaimsNoUnits
    <3>5. windows'[k].reserved \in Nat
      BY DEF TypeOK, Window
    <3>. QED  BY <3>2, <3>4, <3>5 DEF Accounted
  <2>2. CASE k \in ks
    <3>. DEFINE w == CurrentWindow(k)
                max == Amounts[s][i].max
    <3>1. PICK j \in Limits(t) : KeyOf(t, j) = k
      BY <2>2 DEF KeysOf
    <3>2. Limits(t) \subseteq Positions /\ t \in ConsumableTriggers
      BY <1>1 DEF Limits, Positions, ConsumableTriggers
    <3>3. t = s /\ \A m \in Limits(t) : KeyOf(t, m) = k => m = i
      BY <1>7, <3>1, <3>2, OwnedLimit
    <3>4. i \in Limits(t) /\ KeyOf(t, i) = k
      BY <3>1, <3>3
    <3>5. {m \in Limits(t) : KeyOf(t, m) = k} = {i}
      BY <3>3, <3>4
    <3>6. Occurrences(t, k) = 1
      BY <3>5, FS_Singleton DEF Occurrences
    <3>7. /\ max \in Nat /\ max < U32Max /\ U32Max \in Nat
          /\ n \in Nat /\ n \in 1..U32Max
      BY <1>7, OwnedLimit, RequestBounds, CounterAssumption
    <3>8. w \in Window
      BY CurrentWindowType DEF IInv
    <3>9. SaturatingAdd(SaturatingAdd(w.committed, w.reserved), n) <= max
      BY <1>1, <3>3, <3>4 DEF Fits
    <3>10. /\ w.committed \in Nat /\ w.reserved \in Nat
           /\ w.committed + w.reserved + n <= max
      BY <3>7, <3>8, <3>9 DEF SaturatingAdd, Window
    <3>11. windows'[k].reserved = w.reserved + n
      <4>1. w.reserved + n <= U32Max
        BY <3>7, <3>10
      <4>2. WrappingAdd(w.reserved, n) = w.reserved + n
        BY <3>7, <3>10, <4>1, Arithmetic
      <4>3. Occurrences(t, k) * n = n
        BY <3>6, <3>7
      <4>. QED  BY <1>3, <2>2, <4>2, <4>3
    <3>12. Accounted(w, leases, Live \ Expired, settled',
                     DOMAIN settled \cup Expired, k, max)
      <4>1. VisitedWindows(t, Limits(t))[k] = w
        BY <2>2 DEF VisitedWindows
      <4>2. Limits(t) \in SUBSET Limits(t) /\ k \in DOMAIN windows \cup KeysOf(t, Limits(t))
        BY <2>2
      <4>3. Accounted(VisitedWindows(t, Limits(t))[k], leases, Live \ Expired,
                      settled', DOMAIN settled \cup Expired, k, max)
        BY <1>1, <1>7, <4>2, VisitedAccounted
      <4>. QED  BY <4>1, <4>3
    <3>13. Cardinality(ReservedUnits(leases', {l}, k, g)) = n
      <4>1. g = w.generation
        BY <1>3, <2>2
      <4>2. Counts(leases'[l], i, k, g)
        BY <1>5, <3>4, <4>1 DEF Counts
      <4>3. \A m \in Positions : Counts(leases'[l], m, k, g) => m = i
        BY <1>5, <3>3 DEF Counts
      <4>. HIDE DEF g
      <4>. QED  BY <1>5, <3>7, <4>2, <4>3, OneClaim
    <3>14. g = w.generation /\ windows'[k].committed = w.committed
      BY <1>3, <2>2
    <3>. HIDE DEF w, max
    <3>15. /\ w.reserved = Cardinality(ReservedUnits(leases, Live \ Expired, k, g))
           /\ w.committed =
                Cardinality(ConsumedUnits(settled', DOMAIN settled \cup Expired, k, g))
      BY <3>12, <3>14 DEF Accounted
    <3>16. windows'[k].reserved + windows'[k].committed <= max
      BY <3>7, <3>10, <3>11, <3>14
    <3>. QED  BY <3>11, <3>13, <3>14, <3>15, <3>16 DEF max
  <2>. QED  BY <2>1, <2>2
<1>. QED  BY <1>1, <1>4, <1>5, <1>6, <1>7, GrantStep

\* Every step of the counter keeps the invariant.
LEMMA InvariantStep == IInv /\ [Next]_vars => IInv'
<1>. SUFFICES ASSUME IInv, [Next]_vars PROVE IInv'
  OBVIOUS
<1>1. TypeOK'
  BY TypeStep DEF IInv
<1>2. CASE UNCHANGED vars
  BY <1>2 DEF vars, IInv, TypeOK, Live, WithinReservation, PastClaims, WindowsAccounted
<1>3. CASE Tick
  BY <1>1, <1>3 DEF Tick, IInv, Live, WithinReservation, PastClaims, WindowsAccounted
<1>4. CASE SweepOnly
  BY <1>1, <1>4, SweepOnlyStep
<1>5. ASSUME NEW t \in Triggers, NEW n \in Requests, RejectConsumable(t, n)
      PROVE  IInv'
  BY <1>1, <1>5, RejectStep
<1>6. ASSUME NEW l \in LeaseIds, NEW total \in 0..U32Max, NEW seq \in 0..MaxSequence,
             UpdateLease(l, total, seq)
      PROVE  IInv'
  BY <1>1, <1>6, UpdateStep
<1>7. ASSUME NEW l \in LeaseIds, NEW total \in 0..U32Max, NEW seq \in 0..MaxSequence,
             FinishLease(l, total, seq)
      PROVE  IInv'
  BY <1>1, <1>7, FinishStep
<1>8. ASSUME NEW l \in LeaseIds, NEW t \in Triggers, NEW n \in Requests, NEW ttl \in Ttls,
             ReserveOccupancy(l, t, n, ttl)
      PROVE  IInv'
  BY <1>1, <1>8, OccupancyStep
<1>9. ASSUME NEW l \in LeaseIds, NEW t \in Triggers, NEW n \in Requests, NEW ttl \in Ttls,
             ReserveConsumable(l, t, n, ttl)
      PROVE  IInv'
  BY <1>1, <1>9, ConsumableStep
<1>. QED  BY <1>2, <1>3, <1>4, <1>5, <1>6, <1>7, <1>8, <1>9
          DEF Next, RefuseReserve, RefuseOperation

\* The inductive invariant behind the theorems below holds in every reachable
\* state of the counter.
THEOREM Invariance == Spec => []IInv
<1>1. Init => IInv
  BY DEF Init, IInv, TypeOK, Live, WithinReservation, PastClaims, WindowsAccounted
<1>. QED  BY <1>1, InvariantStep, PTL DEF Spec

-----------------------------------------------------------------------------
(***************************************************************************)
(* The theorems.                                                           *)
(***************************************************************************)

\* A window's reserved counter is what its open leases hold of it.
THEOREM ReservedCorrect == Spec => []ReservedIsLive
<1>1. IInv => ReservedIsLive
  BY DEF IInv, WindowsAccounted, Accounted, ReservedIsLive
<1>. QED  BY <1>1, Invariance, PTL

\* A window's committed counter is what its settled leases consumed of it.
THEOREM CommittedCorrect == Spec => []CommittedIsSettled
<1>1. IInv => CommittedIsSettled
  BY DEF IInv, WindowsAccounted, Accounted, CommittedIsSettled
<1>. QED  BY <1>1, Invariance, PTL

\* No limit is ever exceeded by what its leases hold and have consumed.
THEOREM QuotaSafety == Spec => []QuotaNeverExceeded
<1>1. IInv => QuotaNeverExceeded
  BY DEF IInv, WindowsAccounted, Accounted, QuotaNeverExceeded
<1>. QED  BY <1>1, Invariance, PTL

\* No lease is charged more than it reserved.
THEOREM ChargeSafety == Spec => []ConsumedWithinReservation
<1>1. IInv => ConsumedWithinReservation
  BY DEF IInv, WithinReservation, ConsumedWithinReservation
<1>. QED  BY <1>1, Invariance, PTL

-----------------------------------------------------------------------------
(***************************************************************************)
(* Occupancy.                                                              *)
(***************************************************************************)

\* Only the leases of the set matter, and of them only what they occupy.
LEMMA OccupiedEqual ==
  ASSUME NEW ls, NEW ms, NEW S, NEW k,
         \A l \in S : /\ ls[l].concurrency_keys = ms[l].concurrency_keys
                      /\ ls[l].reserved_amount = ms[l].reserved_amount
  PROVE  OccupiedUnits(ls, S, k) = OccupiedUnits(ms, S, k)
<1>1. \A u \in S \X Units : u[1] \in S
  OBVIOUS
<1>. QED  BY <1>1 DEF OccupiedUnits

\* The occupied units of two disjoint sets of leases add up.
LEMMA OccupiedAdd ==
  ASSUME NEW ls, NEW S \in SUBSET LeaseIds, NEW T \in SUBSET LeaseIds, S \cap T = {}, NEW k
  PROVE  Cardinality(OccupiedUnits(ls, S \cup T, k)) =
           Cardinality(OccupiedUnits(ls, S, k)) + Cardinality(OccupiedUnits(ls, T, k))
<1>1. /\ OccupiedUnits(ls, S \cup T, k) = OccupiedUnits(ls, S, k) \cup OccupiedUnits(ls, T, k)
      /\ OccupiedUnits(ls, S, k) \cap OccupiedUnits(ls, T, k) = {}
  BY DEF OccupiedUnits
<1>2. IsFiniteSet(OccupiedUnits(ls, S, k)) /\ IsFiniteSet(OccupiedUnits(ls, T, k))
  BY OccupiedUnitsFinite
<1>. QED  BY <1>1, <1>2, DisjointUnion

\* A limit that counts leases counts on a key of the counter.
LEMMA LimitKeys ==
  ASSUME NEW t \in Triggers, NEW i \in Limits(t)
  PROVE  KeyOf(t, i) \in Keys /\ Amounts[t][i].max \in 0..U32Max
<1>1. Amounts[t] \in Seq(Amount) /\ i \in DOMAIN Amounts[t]
  BY CounterAssumption DEF Limits
<1>2. Amounts[t][i] \in Amount
  BY <1>1
<1>. QED  BY <1>2 DEF KeyOf, Amount

\* Leases that settle give back what they occupy, and nothing else.
LEMMA SettledOccupancy ==
  ASSUME TypeOK, OccupancyIsLive, NEW S \in SUBSET Live, NEW ls,
         \A l \in S : /\ ls[l].concurrency_keys = leases[l].concurrency_keys
                      /\ ls[l].reserved_amount = leases[l].reserved_amount,
         NEW t \in Triggers, NEW i \in Limits(t), Owns(t, i, KeyOf(t, i), OccupancyTriggers)
  PROVE  LET k == KeyOf(t, i) IN
         /\ SettledConcurrency(ls, S)[k] = Cardinality(OccupiedUnits(leases, Live \ S, k))
         /\ SettledConcurrency(ls, S)[k] <= Amounts[t][i].max
<1>. PICK k \in Keys : k = KeyOf(t, i)
  BY LimitKeys
<1>1. /\ concurrency[k] = Cardinality(OccupiedUnits(leases, Live, k))
      /\ concurrency[k] <= Amounts[t][i].max
  BY DEF OccupancyIsLive
<1>2. /\ S \in SUBSET LeaseIds /\ Live \ S \in SUBSET LeaseIds
      /\ S \cap (Live \ S) = {} /\ S \cup (Live \ S) = Live
  BY DEF TypeOK
<1>3. Cardinality(OccupiedUnits(leases, Live, k)) =
        Cardinality(OccupiedUnits(leases, S, k)) + Cardinality(OccupiedUnits(leases, Live \ S, k))
  BY <1>2, OccupiedAdd
<1>4. OccupiedUnits(ls, S, k) = OccupiedUnits(leases, S, k)
  BY OccupiedEqual
<1>5. /\ Cardinality(OccupiedUnits(leases, S, k)) \in Nat
      /\ Cardinality(OccupiedUnits(leases, Live \ S, k)) \in Nat
  BY <1>2, OccupiedUnitsFinite
<1>6. SettledConcurrency(ls, S)[k] = SaturatingSub(concurrency[k], Cardinality(OccupiedUnits(leases, S, k)))
  BY <1>4 DEF SettledConcurrency
<1>7. Amounts[t][i].max \in Nat
  BY LimitKeys, CounterAssumption
<1>8. SettledConcurrency(ls, S)[k] = Cardinality(OccupiedUnits(leases, Live \ S, k))
  BY <1>1, <1>3, <1>5, <1>6 DEF SaturatingSub
<1>9. Cardinality(OccupiedUnits(leases, Live \ S, k)) <= Amounts[t][i].max
  BY <1>1, <1>3, <1>5, <1>7
<1>. QED  BY <1>8, <1>9

\* A step that settles leases and opens none that occupies anything.
LEMMA OccupancyLeaves ==
  ASSUME TypeOK, OccupancyIsLive, NEW S \in SUBSET Live, NEW ls,
         \A l \in S : /\ ls[l].concurrency_keys = leases[l].concurrency_keys
                      /\ ls[l].reserved_amount = leases[l].reserved_amount,
         concurrency' = SettledConcurrency(ls, S),
         \A k : OccupiedUnits(leases', Live', k) = OccupiedUnits(leases, Live \ S, k)
  PROVE  OccupancyIsLive'
<1>1. ASSUME NEW t \in Triggers, NEW i \in Limits(t), Owns(t, i, KeyOf(t, i), OccupancyTriggers)
      PROVE  /\ concurrency'[KeyOf(t, i)] = Cardinality(OccupiedUnits(leases', Live', KeyOf(t, i)))
             /\ concurrency'[KeyOf(t, i)] <= Amounts[t][i].max
  <2>1. /\ SettledConcurrency(ls, S)[KeyOf(t, i)] = Cardinality(OccupiedUnits(leases, Live \ S, KeyOf(t, i)))
        /\ SettledConcurrency(ls, S)[KeyOf(t, i)] <= Amounts[t][i].max
    BY <1>1, SettledOccupancy
  <2>2. OccupiedUnits(leases', Live', KeyOf(t, i)) = OccupiedUnits(leases, Live \ S, KeyOf(t, i))
    OBVIOUS
  <2>. QED  BY <2>1, <2>2
<1>. QED  BY <1>1 DEF OccupancyIsLive

\* The lease that an operation adds occupies its amount on its keys.
LEMMA NewLeaseOccupies ==
  ASSUME NEW ls, NEW l \in LeaseIds, NEW n \in Requests, NEW k, ls[l].reserved_amount = n
  PROVE  Cardinality(OccupiedUnits(ls, {l}, k)) = IF k \in ls[l].concurrency_keys THEN n ELSE 0
<1>1. n \in Nat /\ n \in 1..U32Max /\ U32Max \in Nat
  BY RequestBounds, CounterAssumption
<1>2. CASE k \in ls[l].concurrency_keys
  <2>1. OccupiedUnits(ls, {l}, k) = {l} \X (1..n)
    BY <1>1, <1>2 DEF OccupiedUnits, Units
  <2>. QED  BY <1>1, <1>2, <2>1, UnitsOfOne
<1>3. CASE k \notin ls[l].concurrency_keys
  <2>1. OccupiedUnits(ls, {l}, k) = {}
    BY <1>3 DEF OccupiedUnits
  <2>. QED  BY <1>3, <2>1, FS_EmptySet
<1>. QED  BY <1>2, <1>3

\* A granted occupancy has looked for room on the key it takes.
LEMMA OccupancyTaken ==
  ASSUME TypeOK, OccupancyIsLive, NEW l \in LeaseIds, NEW t \in Triggers, NEW n \in Requests,
         NEW ttl \in Ttls, ReserveOccupancy(l, t, n, ttl),
         NEW s \in Triggers, NEW i \in Limits(s), Owns(s, i, KeyOf(s, i), OccupancyTriggers)
  PROVE  /\ concurrency'[KeyOf(s, i)] = Cardinality(OccupiedUnits(leases', Live', KeyOf(s, i)))
         /\ concurrency'[KeyOf(s, i)] <= Amounts[s][i].max
<1>. PICK k \in Keys : k = KeyOf(s, i)
  BY LimitKeys
<1>1. Expired \in SUBSET Live /\ DOMAIN SweptLeases = Live \ Expired
      /\ \A x \in Live \ Expired : SweptLeases[x] = leases[x]
  BY ExpiredLeases, SweptTypes
<1>2. /\ leases' = With(SweptLeases, l, NewLease(t, n, ttl)) /\ l \notin Live
      /\ \A j \in Limits(t) : HasRoom(t, j, n)
      /\ concurrency' = [q \in Keys |-> IF q \in KeysOf(t, Limits(t)) THEN WrappingAdd(SweptConcurrency[q], n)
                                        ELSE SweptConcurrency[q]]
  BY DEF ReserveOccupancy
<1>3. Live' = (Live \ Expired) \cup {l} /\ (\A x \in Live \ Expired : leases'[x] = leases[x])
      /\ leases'[l] = NewLease(t, n, ttl)
  BY <1>1, <1>2 DEF With, Live
<1>4. leases'[l].reserved_amount = n /\ leases'[l].concurrency_keys = KeysOf(t, Limits(t))
  <2>1. ~Consumable(t)
    BY DEF ReserveOccupancy, Consumable
  <2>. QED  BY <1>3, <2>1 DEF NewLease
<1>5. /\ SweptConcurrency[k] = Cardinality(OccupiedUnits(leases, Live \ Expired, k))
      /\ SweptConcurrency[k] <= Amounts[s][i].max
  BY <1>1, SettledOccupancy DEF SweptConcurrency
<1>6. OccupiedUnits(leases', Live \ Expired, k) = OccupiedUnits(leases, Live \ Expired, k)
  BY <1>3, OccupiedEqual
<1>7. Cardinality(OccupiedUnits(leases', {l}, k)) = IF k \in KeysOf(t, Limits(t)) THEN n ELSE 0
  BY <1>4, NewLeaseOccupies, ZenonT(30)
<1>8. Cardinality(OccupiedUnits(leases', Live', k)) =
        SweptConcurrency[k] + (IF k \in KeysOf(t, Limits(t)) THEN n ELSE 0)
  <2>1. Live \ Expired \in SUBSET LeaseIds /\ {l} \in SUBSET LeaseIds /\ (Live \ Expired) \cap {l} = {}
    BY <1>2 DEF TypeOK
  <2>2. Cardinality(OccupiedUnits(leases', (Live \ Expired) \cup {l}, k)) =
          Cardinality(OccupiedUnits(leases', Live \ Expired, k)) + Cardinality(OccupiedUnits(leases', {l}, k))
    BY <2>1, OccupiedAdd
  <2>. QED  BY <1>3, <1>5, <1>6, <1>7, <2>2
<1>9. SweptConcurrency[k] \in Nat /\ n \in Nat /\ U32Max \in Nat /\ Amounts[s][i].max \in Nat
      /\ Amounts[s][i].max < U32Max
  BY SweptTypes, RequestBounds, CounterAssumption, LimitKeys DEF Owns
<1>10. CASE k \in KeysOf(t, Limits(t))
  <2>1. PICK j \in Limits(t) : k = KeyOf(t, j)
    BY <1>10 DEF KeysOf
  <2>2. <<t, j>> \in LimitsOf(k, OccupancyTriggers)
    <3>1. t \in OccupancyTriggers /\ j \in Positions
      BY DEF OccupancyTriggers, ConsumableTriggers, Consumable, ReserveOccupancy, Positions, Limits
    <3>. QED  BY <2>1, <3>1 DEF LimitsOf
  <2>3. t = s /\ j = i
    BY <2>2 DEF Owns
  <2>4. SaturatingAdd(SweptConcurrency[k], n) <= Amounts[s][i].max
    BY <1>2, <2>3 DEF HasRoom
  <2>5. SweptConcurrency[k] + n <= Amounts[s][i].max
    BY <1>9, <2>4 DEF SaturatingAdd
  <2>6. WrappingAdd(SweptConcurrency[k], n) = SweptConcurrency[k] + n
    <3>1. SweptConcurrency[k] + n <= U32Max
      BY <1>9, <2>5
    <3>. QED  BY <1>9, <3>1, Arithmetic
  <2>7. concurrency'[k] = SweptConcurrency[k] + n
    BY <1>2, <1>10, <2>6
  <2>. QED  BY <1>8, <1>10, <2>5, <2>7
<1>11. CASE k \notin KeysOf(t, Limits(t))
  <2>1. concurrency'[k] = SweptConcurrency[k]
    BY <1>2, <1>11
  <2>. QED  BY <1>5, <1>8, <1>9, <1>11, <2>1
<1>. QED  BY <1>10, <1>11

LEMMA OccupancyInvariant == TypeOK /\ OccupancyIsLive /\ [Next]_vars => OccupancyIsLive'
<1>. SUFFICES ASSUME TypeOK, OccupancyIsLive, [Next]_vars PROVE OccupancyIsLive'
  OBVIOUS
<1>s. /\ Expired \in SUBSET Live /\ DOMAIN SweptLeases = Live \ Expired
      /\ \A x \in Live \ Expired : SweptLeases[x] = leases[x]
  BY ExpiredLeases, SweptTypes
<1>e. ASSUME concurrency' = SweptConcurrency,
             \A k : OccupiedUnits(leases', Live', k) = OccupiedUnits(leases, Live \ Expired, k)
      PROVE  OccupancyIsLive'
  <2>1. concurrency' = SettledConcurrency(leases, Expired)
    BY <1>e DEF SweptConcurrency
  <2>. QED  BY <1>e, <1>s, <2>1, OccupancyLeaves
\* Leases that stay occupy what they did.
<1>k. ASSUME NEW S, Live' = Live \ S,
             \A x \in Live' : /\ leases'[x].concurrency_keys = leases[x].concurrency_keys
                              /\ leases'[x].reserved_amount = leases[x].reserved_amount
      PROVE  \A k : OccupiedUnits(leases', Live', k) = OccupiedUnits(leases, Live \ S, k)
  BY <1>k, OccupiedEqual
<1>1. CASE UNCHANGED vars
  BY <1>1 DEF vars, OccupancyIsLive, Live
<1>2. CASE Tick
  BY <1>2 DEF Tick, OccupancyIsLive, Live
<1>3. ASSUME leases' = SweptLeases, concurrency' = SweptConcurrency
      PROVE  OccupancyIsLive'
  <2>1. Live' = Live \ Expired /\ \A x \in Live' : leases'[x] = leases[x]
    BY <1>3, <1>s DEF Live
  <2>2. \A k : OccupiedUnits(leases', Live', k) = OccupiedUnits(leases, Live \ Expired, k)
    BY <1>k, <2>1
  <2>. QED  BY <1>e, <1>3, <2>2
<1>4. ASSUME NEW l \in LeaseIds, NEW t \in Triggers, NEW n \in Requests, NEW ttl \in Ttls,
             ReserveConsumable(l, t, n, ttl)
      PROVE  OccupancyIsLive'
  <2>1. leases' = With(SweptLeases, l, NewLease(t, n, ttl)) /\ l \notin Live
    BY <1>4 DEF ReserveConsumable
  <2>2. /\ Live' = (Live \ Expired) \cup {l}
        /\ \A x \in Live \ Expired : leases'[x] = leases[x]
        /\ leases'[l].concurrency_keys = {}
    BY <1>4, <1>s, <2>1 DEF With, Live, NewLease, ReserveConsumable
  <2>3. ASSUME NEW k
        PROVE  OccupiedUnits(leases', Live', k) = OccupiedUnits(leases, Live \ Expired, k)
    <3>1. OccupiedUnits(leases', Live', k) = OccupiedUnits(leases', Live \ Expired, k)
      BY <2>2 DEF OccupiedUnits
    <3>. QED  BY <2>2, <3>1, OccupiedEqual
  <2>. QED  BY <1>e, <1>4, <2>3 DEF ReserveConsumable
<1>5. ASSUME NEW l \in LeaseIds, NEW t \in Triggers, NEW n \in Requests, NEW ttl \in Ttls,
             ReserveOccupancy(l, t, n, ttl)
      PROVE  OccupancyIsLive'
  BY <1>5, OccupancyTaken DEF OccupancyIsLive
<1>6. ASSUME NEW l \in LeaseIds, NEW total \in 0..U32Max, NEW seq \in 0..MaxSequence,
             UpdateLease(l, total, seq)
      PROVE  OccupancyIsLive'
  <2>1. /\ Live' = Live \ Expired /\ l \in Live
        /\ \A x \in Live' : x # l => leases'[x] = leases[x]
        /\ l \in Live' => leases'[l] = [leases[l] EXCEPT !.consumed_total = total, !.sequence = seq]
    BY <1>6, <1>s DEF UpdateLease, Live
  <2>2. IsLease(leases[l])
    BY <2>1 DEF TypeOK
  <2>3. l \in Live' => /\ leases'[l].concurrency_keys = leases[l].concurrency_keys
                       /\ leases'[l].reserved_amount = leases[l].reserved_amount
    <3>1. LET y == [leases[l] EXCEPT !.consumed_total = total, !.sequence = seq] IN
            /\ y.reserved_amount = leases[l].reserved_amount
            /\ y.concurrency_keys = leases[l].concurrency_keys
      BY <2>2, UpdatedLeaseFields
    <3>. QED  BY <2>1, <3>1
  <2>4. \A k : OccupiedUnits(leases', Live', k) = OccupiedUnits(leases, Live \ Expired, k)
    BY <1>k, <2>1, <2>3
  <2>. QED  BY <1>e, <1>6, <2>4 DEF UpdateLease
<1>7. ASSUME NEW l \in LeaseIds, NEW total \in 0..U32Max, NEW seq \in 0..MaxSequence,
             FinishLease(l, total, seq)
      PROVE  OccupancyIsLive'
  <2>. DEFINE ls   == [leases EXCEPT ![l].consumed_total = total]
              gone == Expired \cup {l}
  <2>1. l \in Live /\ gone \in SUBSET Live /\ IsLease(leases[l])
    BY <1>7, <1>s DEF FinishLease, TypeOK
  <2>2. \A x \in gone : /\ ls[x].concurrency_keys = leases[x].concurrency_keys
                        /\ ls[x].reserved_amount = leases[x].reserved_amount
    <3>1. \A x \in Live : x # l => ls[x] = leases[x]
      BY DEF Live
    <3>2. ls[l] = [leases[l] EXCEPT !.consumed_total = total]
      BY <2>1 DEF Live
    <3>3. ls[l].concurrency_keys = leases[l].concurrency_keys /\ ls[l].reserved_amount = leases[l].reserved_amount
      BY <2>1, <3>2 DEF IsLease
    <3>. HIDE DEF ls
    <3>. QED  BY <2>1, <3>1, <3>3
  <2>3. concurrency' = SettledConcurrency(ls, gone)
    BY <1>7 DEF FinishLease
  <2>4. Live' = Live \ gone /\ \A x \in Live' : leases'[x] = leases[x]
    BY <1>7 DEF FinishLease, Without, Live
  <2>. HIDE DEF ls, gone
  <2>5. \A k : OccupiedUnits(leases', Live', k) = OccupiedUnits(leases, Live \ gone, k)
    BY <1>k, <2>4
  <2>. QED  BY <2>1, <2>2, <2>3, <2>5, OccupancyLeaves
<1>. QED  BY <1>1, <1>2, <1>3, <1>4, <1>5, <1>6, <1>7
          DEF Next, RefuseReserve, RefuseOperation, RejectConsumable, SweepOnly

\* The occupancy count of a concurrency trigger is what its open leases occupy,
\* and stays within the limit (try_reserve_occupancy, release_occupancy).
THEOREM OccupancyCorrect == Spec => []OccupancyIsLive
<1>1. Init => OccupancyIsLive
  <2>. SUFFICES ASSUME Init, NEW t \in Triggers, NEW i \in Limits(t)
                PROVE  /\ concurrency[KeyOf(t, i)] = Cardinality(OccupiedUnits(leases, Live, KeyOf(t, i)))
                       /\ concurrency[KeyOf(t, i)] <= Amounts[t][i].max
    BY DEF OccupancyIsLive
  <2>1. OccupiedUnits(leases, Live, KeyOf(t, i)) = {}
    BY DEF Init, OccupiedUnits, Live
  <2>2. concurrency[KeyOf(t, i)] = 0 /\ Amounts[t][i].max \in Nat
    BY LimitKeys, CounterAssumption DEF Init
  <2>. QED  BY <2>1, <2>2, FS_EmptySet
<1>. QED  BY <1>1, TypeCorrect, OccupancyInvariant, PTL DEF Spec

-----------------------------------------------------------------------------
(***************************************************************************)
(* The end of a lease.                                                     *)
(***************************************************************************)

\* No lease is open that is past its lifetime.
NoneExpired(ls) == \A l \in DOMAIN ls : ls[l].expires_at > now

\* Who was settled stays so, and keeps what it was charged.
SettledStay == \A l \in DOMAIN settled : l \in DOMAIN settled' \ DOMAIN leases' /\ settled'[l] = settled[l]

\* What an operation records are leases that were open.
LEMMA RecordKeeps ==
  ASSUME IInv, NEW ls, NEW S \in SUBSET Live, Record(ls, S), DOMAIN leases' \cap DOMAIN settled = {}
  PROVE  SettledStay
<1>1. \A l \in DOMAIN settled : l \notin S
  BY DEF IInv
<1>. QED  BY <1>1 DEF Record, SettledStay

LEMMA EndStep == IInv /\ Next => (now' = now => NoneExpired(leases')) /\ SettledStay
<1>. SUFFICES ASSUME IInv, Next PROVE (now' = now => NoneExpired(leases')) /\ SettledStay
  OBVIOUS
<1>t. TypeOK /\ DOMAIN settled \cap Live = {}
  BY DEF IInv
<1>s. /\ Expired \in SUBSET Live /\ DOMAIN SweptLeases = Live \ Expired
      /\ \A x \in Live \ Expired : SweptLeases[x] = leases[x] /\ leases[x].expires_at > now
  <2>1. \A x \in Live : leases[x].expires_at \in Nat /\ now \in Nat
    BY <1>t DEF TypeOK, IsLease
  <2>. QED  BY <1>t, <2>1, ExpiredLeases, SweptTypes DEF Expired
<1>1. CASE Tick
  <2>1. now' # now
    BY <1>1, <1>t DEF Tick, TypeOK
  <2>. QED  BY <1>1, <1>t, <2>1 DEF Tick, SettledStay, Live
<1>2. ASSUME leases' = SweptLeases, Record(leases, Expired)
      PROVE  NoneExpired(leases') /\ SettledStay
  BY <1>2, <1>s, <1>t, RecordKeeps DEF NoneExpired
<1>3. ASSUME NEW l \in LeaseIds, NEW t \in Triggers, NEW n \in Requests, NEW ttl \in Ttls,
             leases' = With(SweptLeases, l, NewLease(t, n, ttl)), l \notin DOMAIN settled,
             Record(leases, Expired)
      PROVE  NoneExpired(leases') /\ SettledStay
  <2>1. /\ DOMAIN leases' = (Live \ Expired) \cup {l}
        /\ \A x \in Live \ Expired : x # l => leases'[x] = leases[x]
        /\ leases'[l] = NewLease(t, n, ttl)
    BY <1>3, <1>s DEF With
  <2>2. NewLease(t, n, ttl).expires_at > now
    <3>1. now + ttl > now
      BY <1>t, CounterAssumption DEF TypeOK
    <3>. QED  BY <3>1 DEF NewLease
  <2>. QED  BY <1>3, <1>s, <1>t, <2>1, <2>2, RecordKeeps DEF NoneExpired
<1>4. ASSUME NEW l \in LeaseIds, NEW total \in 0..U32Max, NEW seq \in 0..MaxSequence,
             UpdateLease(l, total, seq)
      PROVE  NoneExpired(leases') /\ SettledStay
  <2>1. /\ DOMAIN leases' = Live \ Expired /\ l \in Live \ Expired
        /\ \A x \in Live \ Expired : x # l => leases'[x] = leases[x]
        /\ leases'[l] = [leases[l] EXCEPT !.consumed_total = total, !.sequence = seq]
    BY <1>4, <1>s DEF UpdateLease
  <2>2. leases'[l].expires_at = leases[l].expires_at
    <3>1. LET y == [leases[l] EXCEPT !.consumed_total = total, !.sequence = seq] IN
            y.expires_at = leases[l].expires_at
      BY <1>t, <2>1, UpdatedLeaseFields DEF TypeOK
    <3>. QED  BY <2>1, <3>1
  <2>. QED  BY <1>4, <1>s, <1>t, <2>1, <2>2, RecordKeeps DEF NoneExpired, UpdateLease
<1>5. ASSUME NEW l \in LeaseIds, NEW total \in 0..U32Max, NEW seq \in 0..MaxSequence,
             FinishLease(l, total, seq)
      PROVE  NoneExpired(leases') /\ SettledStay
  <2>. DEFINE ls   == [leases EXCEPT ![l].consumed_total = total]
              gone == Expired \cup {l}
  <2>1. gone \in SUBSET Live /\ Record(ls, gone)
    BY <1>5, <1>s DEF FinishLease
  <2>2. DOMAIN leases' = Live \ gone /\ \A x \in Live \ gone : leases'[x] = leases[x]
    BY <1>5 DEF FinishLease, Without, Live
  <2>3. NoneExpired(leases')
    BY <1>s, <2>2 DEF NoneExpired
  <2>4. DOMAIN leases' \cap DOMAIN settled = {}
    BY <1>t, <2>2
  <2>. HIDE DEF ls, gone
  <2>5. SettledStay
    BY <2>1, <2>4, RecordKeeps
  <2>. QED  BY <2>3, <2>5
<1>6. ASSUME SweepOnly PROVE NoneExpired(leases') /\ SettledStay
  BY <1>2, <1>6 DEF SweepOnly
<1>7. ASSUME NEW t \in Triggers, NEW n \in Requests, RejectConsumable(t, n)
      PROVE  NoneExpired(leases') /\ SettledStay
  BY <1>2, <1>7 DEF RejectConsumable
<1>8. ASSUME NEW l \in LeaseIds, NEW t \in Triggers, NEW n \in Requests, NEW ttl \in Ttls,
             ReserveConsumable(l, t, n, ttl) \/ ReserveOccupancy(l, t, n, ttl)
      PROVE  NoneExpired(leases') /\ SettledStay
  BY <1>3, <1>8 DEF ReserveConsumable, ReserveOccupancy
<1>. QED  BY <1>1, <1>4, <1>5, <1>6, <1>7, <1>8 DEF Next, RefuseReserve, RefuseOperation

\* No operation runs with, or leaves behind, a lease past its lifetime
\* (cleanup_expired_local_leases), and the end of a lease is final: nothing
\* brings it back, and what it was charged never changes.
THEOREM EndsFinal == Spec => EndsAreFinal
<1>1. IInv /\ [Next]_vars =>
        [/\ now' = now => \A l \in DOMAIN leases' : leases'[l].expires_at > now
         /\ \A l \in DOMAIN settled :
               l \in DOMAIN settled' \ DOMAIN leases' /\ settled'[l] = settled[l]]_vars
  <2>. SUFFICES ASSUME IInv, Next
                PROVE  /\ now' = now => \A l \in DOMAIN leases' : leases'[l].expires_at > now
                       /\ \A l \in DOMAIN settled :
                             l \in DOMAIN settled' \ DOMAIN leases' /\ settled'[l] = settled[l]
    OBVIOUS
  <2>. QED  BY EndStep DEF NoneExpired, SettledStay
<1>. QED  BY <1>1, Invariance, PTL DEF Spec, EndsAreFinal

-----------------------------------------------------------------------------
(***************************************************************************)
(* Refinement: every limit with a key of its own is a QuotaBucket.         *)
(***************************************************************************)

\* The period of k goes on, or a new one begins.
SamePeriod(k) == k \in DOMAIN windows => windows'[k].generation = windows[k].generation
NewPeriod(k) == k \in DOMAIN windows /\ windows'[k].generation > windows[k].generation

\* Lease x keeps its part of bucket (t, i) or returns it while the period goes
\* on, and has none of the next period.
Goes(x, t, i) ==
    /\ (Consumable(t) => SamePeriod(KeyOf(t, i))) => Bucket(t, i)!Keep(x) \/ Bucket(t, i)!Return(x)
    /\ Consumable(t) /\ NewPeriod(KeyOf(t, i)) => Bucket(t, i)!Forget(x)

\* No step takes a window away or sets its generation back.
LEMMA StepWindowsGrow == IInv /\ Next => WindowsGrow
<1>. SUFFICES ASSUME IInv, Next PROVE WindowsGrow
  OBVIOUS
<1>t. TypeOK /\ \A k \in DOMAIN windows : windows[k].generation \in Nat
  BY DEF IInv, TypeOK, Window
<1>s. DOMAIN SweptWindows = DOMAIN windows
      /\ \A k \in DOMAIN windows : SweptWindows[k].generation = windows[k].generation
                                   /\ CurrentWindow(k).generation >= windows[k].generation
  BY <1>t, SweptGeneration, SweptTypes
<1>1. CASE Tick
  BY <1>1, <1>t DEF Tick, WindowsGrow
<1>2. ASSUME windows' = SweptWindows
      PROVE  WindowsGrow
  BY <1>2, <1>s, <1>t DEF WindowsGrow
<1>3. ASSUME NEW t \in Triggers, NEW n \in Requests, RejectConsumable(t, n)
      PROVE  WindowsGrow
  <2>1. windows' = VisitedWindows(t, Visited(t, n))
    BY <1>3 DEF RejectConsumable
  <2>. QED  BY <1>s, <1>t, <2>1 DEF WindowsGrow, VisitedWindows
<1>4. ASSUME NEW l \in LeaseIds, NEW t \in Triggers, NEW n \in Requests, NEW ttl \in Ttls,
             ReserveConsumable(l, t, n, ttl)
      PROVE  WindowsGrow
  <2>1. DOMAIN windows' = DOMAIN windows \cup KeysOf(t, Limits(t))
        /\ \A k \in DOMAIN windows' :
             windows'[k] = IF k \in KeysOf(t, Limits(t))
                           THEN [CurrentWindow(k) EXCEPT
                                   !.reserved = WrappingAdd(@, Occurrences(t, k) * n)]
                           ELSE SweptWindows[k]
    BY <1>4 DEF ReserveConsumable
  <2>2. ASSUME NEW k \in DOMAIN windows, k \in KeysOf(t, Limits(t))
        PROVE  windows'[k].generation = CurrentWindow(k).generation
    <3>1. CurrentWindow(k) \in Window
      BY <1>t, CurrentWindowType
    <3>. QED  BY <2>1, <2>2, <3>1 DEF Window
  <2>3. ASSUME NEW k \in DOMAIN windows, k \notin KeysOf(t, Limits(t))
        PROVE  windows'[k].generation = windows[k].generation
    BY <1>s, <2>1, <2>3
  <2>. QED  BY <1>s, <1>t, <2>1, <2>2, <2>3 DEF WindowsGrow
<1>5. ASSUME NEW l \in LeaseIds, NEW total \in 0..U32Max, NEW seq \in 0..MaxSequence,
             FinishLease(l, total, seq)
      PROVE  WindowsGrow
  <2>. DEFINE ls   == [leases EXCEPT ![l].consumed_total = total]
              gone == Expired \cup {l}
  <2>1. windows' = SettledWindows(ls, gone) /\ gone \in SUBSET LeaseIds
    BY <1>5, <1>t, ExpiredLeases DEF FinishLease
  <2>. HIDE DEF ls, gone
  <2>2. \A k \in DOMAIN windows : SettledWindow(ls, gone, k).generation = windows[k].generation
    BY <1>t, <2>1, SettledWindowType
  <2>. QED  BY <1>t, <2>1, <2>2 DEF SettledWindows, WindowsGrow
<1>. QED  BY <1>1, <1>2, <1>3, <1>4, <1>5
          DEF Next, ReserveOccupancy, RefuseReserve, RefuseOperation, UpdateLease, SweepOnly

\* What a lease has of a bucket, by where it is.
LEMMA HeldSpent ==
  ASSUME NEW t, NEW i, NEW x \in LeaseIds
  PROVE  /\ HeldOf(t, i)[x] = IF x \in Live /\ CountsFor(leases[x], t, i) THEN leases[x].reserved_amount ELSE 0
         /\ SpentOf(t, i)[x] = IF Consumable(t) /\ x \in DOMAIN settled /\ CountsFor(settled[x], t, i)
                               THEN settled[x].consumed_total ELSE 0
         /\ HeldOf(t, i)'[x] = IF x \in Live' /\ CountsFor(leases[x], t, i)' THEN leases'[x].reserved_amount ELSE 0
         /\ SpentOf(t, i)'[x] = IF Consumable(t) /\ x \in DOMAIN settled' /\ CountsFor(settled[x], t, i)'
                                THEN settled'[x].consumed_total ELSE 0
  BY DEF HeldOf, SpentOf

\* So goes every lease that is not new.
LEMMA LeasePart ==
  ASSUME IInv, TypeOK', WindowsGrow, NEW ls, NEW gone \in SUBSET Live, Record(ls, gone),
         \A l \in gone : /\ ls[l].trigger = leases[l].trigger
                         /\ ls[l].windows = leases[l].windows
                         /\ ls[l].reserved_amount = leases[l].reserved_amount,
         WithinReservation(ls, gone),
         NEW x \in LeaseIds, x \in Live' <=> x \in Live \ gone,
         x \in Live' => /\ leases'[x].trigger = leases[x].trigger
                        /\ leases'[x].windows = leases[x].windows
                        /\ leases'[x].reserved_amount = leases[x].reserved_amount,
         NEW t \in Triggers, NEW i \in Limits(t)
  PROVE  Goes(x, t, i)
<1>. PICK k : k = KeyOf(t, i)
  OBVIOUS
<1>1. /\ \A l \in Live : IsLease(leases[l])
      /\ \A l \in DOMAIN settled : IsLease(settled[l])
      /\ DOMAIN settled \cap Live = {}
      /\ \A q \in DOMAIN windows : windows[q].generation \in Nat
      /\ \A q \in DOMAIN windows' : windows'[q].generation \in Nat
  BY DEF IInv, TypeOK, Window
<1>2. /\ DOMAIN settled' = DOMAIN settled \cup gone
      /\ \A l \in DOMAIN settled \cup gone : settled'[l] = IF l \in gone THEN ls[l] ELSE settled[l]
  BY RecordValues
\* Who holds a window has a claim of the past on it.
<1>3. ASSUME NEW y, IsLease(y), PastClaims([z \in {x} |-> y], {x}, windows), y.trigger = t, i \in DOMAIN y.windows
      PROVE  k \in DOMAIN windows /\ y.windows[i] \in Nat /\ y.windows[i] <= windows[k].generation
  BY <1>3 DEF PastClaims, IsLease
<1>4. x \in Live => PastClaims([z \in {x} |-> leases[x]], {x}, windows)
  BY DEF IInv, PastClaims
<1>5. x \in DOMAIN settled => PastClaims([z \in {x} |-> settled[x]], {x}, windows)
  BY DEF IInv, PastClaims
\* What counts before and after.
<1>6. ASSUME NEW y, NEW z, IsLease(y), PastClaims([q \in {x} |-> y], {x}, windows),
             z.trigger = y.trigger, z.windows = y.windows, Consumable(t) => SamePeriod(k)
      PROVE  (CountsFor(y, t, i) <=> y.trigger = t /\ (Consumable(t) => /\ k \in DOMAIN windows'
                                                                       /\ Counts(z, i, k, windows'[k].generation)))
             /\ (CountsFor(y, t, i) => y.trigger = t)
  <2>1. CASE Consumable(t)
    <3>1. CASE k \in DOMAIN windows
      <4>1. k \in DOMAIN windows' /\ windows'[k].generation = windows[k].generation
        BY <1>6, <2>1, <3>1 DEF WindowsGrow, SamePeriod
      <4>. QED  BY <1>6, <2>1, <3>1, <4>1 DEF CountsFor, Counts
    <3>2. CASE k \notin DOMAIN windows
      BY <1>3, <1>6, <2>1, <3>2 DEF CountsFor, Counts
    <3>. QED  BY <3>1, <3>2
  <2>2. CASE ~Consumable(t)
    BY <1>6, <2>2 DEF CountsFor
  <2>. QED  BY <2>1, <2>2
<1>7. ASSUME NEW y, NEW z, IsLease(y), PastClaims([q \in {x} |-> y], {x}, windows),
             z.trigger = y.trigger, z.windows = y.windows, Consumable(t), NewPeriod(k)
      PROVE  ~(z.trigger = t /\ (Consumable(t) => /\ k \in DOMAIN windows'
                                                  /\ Counts(z, i, k, windows'[k].generation)))
  <2>1. k \in DOMAIN windows /\ windows'[k].generation > windows[k].generation /\ k \in DOMAIN windows'
    BY <1>7 DEF NewPeriod, WindowsGrow
  <2>2. ASSUME z.trigger = t, Counts(z, i, k, windows'[k].generation)
        PROVE  FALSE
    <3>1. y.windows[i] <= windows[k].generation /\ y.windows[i] = windows'[k].generation
      BY <1>3, <1>7, <2>2 DEF Counts
    <3>. QED  BY <1>1, <2>1, <3>1
  <2>. QED  BY <1>7, <2>1, <2>2
<1>8. /\ x \in Live' => (CountsFor(leases[x], t, i)' <=>
           leases'[x].trigger = t /\ (Consumable(t) => /\ k \in DOMAIN windows'
                                                       /\ Counts(leases'[x], i, k, windows'[k].generation)))
      /\ x \in DOMAIN settled' => (CountsFor(settled[x], t, i)' <=>
           settled'[x].trigger = t /\ (Consumable(t) => /\ k \in DOMAIN windows'
                                                        /\ Counts(settled'[x], i, k, windows'[k].generation)))
  BY DEF CountsFor, Counts
<1>. DEFINE h  == HeldOf(t, i)[x]
            h1 == HeldOf(t, i)'[x]
            s  == SpentOf(t, i)[x]
            s1 == SpentOf(t, i)'[x]
<1>h. /\ h = IF x \in Live /\ CountsFor(leases[x], t, i) THEN leases[x].reserved_amount ELSE 0
      /\ s = IF Consumable(t) /\ x \in DOMAIN settled /\ CountsFor(settled[x], t, i)
             THEN settled[x].consumed_total ELSE 0
      /\ h1 = IF x \in Live' /\ CountsFor(leases[x], t, i)' THEN leases'[x].reserved_amount ELSE 0
      /\ s1 = IF Consumable(t) /\ x \in DOMAIN settled' /\ CountsFor(settled[x], t, i)'
              THEN settled'[x].consumed_total ELSE 0
  BY HeldSpent
<1>g. /\ Bucket(t, i)!Keep(x) <=> h1 = h /\ s1 = s
      /\ Bucket(t, i)!Return(x) <=> h > 0 /\ h1 = 0 /\ s1 \in 0..h
      /\ Bucket(t, i)!Forget(x) <=> h1 = 0 /\ s1 = 0
  BY DEF Bucket!Keep, Bucket!Return, Bucket!Forget
<1>. HIDE DEF h, h1, s, s1
<1>9. CASE x \in Live \ gone
  <2>1. x \notin DOMAIN settled /\ x \notin DOMAIN settled' /\ x \in Live' /\ x \in Live
    BY <1>1, <1>2, <1>9
  <2>2. s = 0 /\ s1 = 0
    BY <1>h, <2>1
  <2>3. IsLease(leases[x]) /\ PastClaims([z \in {x} |-> leases[x]], {x}, windows)
    BY <1>1, <1>4, <2>1
  <2>4. ASSUME Consumable(t) => SamePeriod(k)
        PROVE  h1 = h
    <3>1. CountsFor(leases[x], t, i)' <=> CountsFor(leases[x], t, i)
      BY <1>6, <1>8, <2>1, <2>3, <2>4
    <3>. QED  BY <1>h, <2>1, <3>1
  <2>5. ASSUME Consumable(t), NewPeriod(k)
        PROVE  h1 = 0
    <3>1. ~CountsFor(leases[x], t, i)'
      BY <1>7, <1>8, <2>1, <2>3, <2>5
    <3>. QED  BY <1>h, <3>1
  <2>. QED  BY <1>g, <2>2, <2>4, <2>5 DEF Goes
<1>10. CASE x \in gone
  <2>1. x \notin DOMAIN settled /\ x \in DOMAIN settled' /\ x \notin Live' /\ x \in Live /\ settled'[x] = ls[x]
    BY <1>1, <1>2, <1>10
  <2>2. s = 0 /\ h1 = 0
    BY <1>h, <2>1
  <2>3. IsLease(leases[x]) /\ PastClaims([z \in {x} |-> leases[x]], {x}, windows)
    BY <1>1, <1>4, <2>1
  <2>4. settled'[x].trigger = leases[x].trigger /\ settled'[x].windows = leases[x].windows
    BY <1>10, <2>1
  <2>5. settled'[x].consumed_total \in Nat /\ settled'[x].consumed_total <= leases[x].reserved_amount
        /\ leases[x].reserved_amount \in Nat /\ leases[x].reserved_amount > 0
    <3>1. IsLease(settled'[x])
      BY <2>1 DEF TypeOK
    <3>. QED  BY <1>10, <2>1, <2>3, <3>1, RequestBounds DEF IsLease, WithinReservation
  <2>6. ASSUME Consumable(t) => SamePeriod(k)
        PROVE  (h1 = h /\ s1 = s) \/ (h > 0 /\ h1 = 0 /\ s1 \in 0..h)
    <3>1. CountsFor(settled[x], t, i)' <=> CountsFor(leases[x], t, i)
      BY <1>6, <1>8, <2>1, <2>3, <2>4, <2>6
    <3>2. CASE CountsFor(leases[x], t, i)
      <4>1. h = leases[x].reserved_amount
        BY <1>h, <2>1, <3>2
      <4>2. s1 = (IF Consumable(t) THEN settled'[x].consumed_total ELSE 0)
        BY <1>h, <2>1, <3>1, <3>2
      <4>. QED  BY <2>2, <2>5, <4>1, <4>2
    <3>3. CASE ~CountsFor(leases[x], t, i)
      BY <1>h, <2>2, <3>1, <3>3
    <3>. QED  BY <3>2, <3>3
  <2>7. ASSUME Consumable(t), NewPeriod(k)
        PROVE  s1 = 0
    <3>1. ~CountsFor(settled[x], t, i)'
      BY <1>7, <1>8, <2>1, <2>3, <2>4, <2>7
    <3>. QED  BY <1>h, <3>1
  <2>. QED  BY <1>g, <2>2, <2>6, <2>7 DEF Goes
<1>11. CASE x \in DOMAIN settled
  <2>1. x \notin Live /\ x \notin gone /\ x \in DOMAIN settled' /\ x \notin Live' /\ settled'[x] = settled[x]
    BY <1>1, <1>2, <1>11
  <2>2. h = 0 /\ h1 = 0
    BY <1>h, <2>1
  <2>3. IsLease(settled[x]) /\ PastClaims([z \in {x} |-> settled[x]], {x}, windows)
    BY <1>1, <1>5, <1>11
  <2>4. ASSUME Consumable(t) => SamePeriod(k)
        PROVE  s1 = s
    <3>1. CountsFor(settled[x], t, i)' <=> CountsFor(settled[x], t, i)
      BY <1>6, <1>8, <2>1, <2>3, <2>4
    <3>. QED  BY <1>h, <1>11, <2>1, <3>1
  <2>5. ASSUME Consumable(t), NewPeriod(k)
        PROVE  s1 = 0
    <3>1. ~CountsFor(settled[x], t, i)'
      BY <1>7, <1>8, <2>1, <2>3, <2>5
    <3>. QED  BY <1>h, <3>1
  <2>. QED  BY <1>g, <2>2, <2>4, <2>5 DEF Goes
<1>12. CASE x \notin Live /\ x \notin DOMAIN settled
  <2>1. x \notin Live' /\ x \notin DOMAIN settled'
    BY <1>2, <1>12
  <2>2. h = 0 /\ s = 0 /\ h1 = 0 /\ s1 = 0
    BY <1>h, <1>12, <2>1
  <2>. QED  BY <1>g, <2>2 DEF Goes
<1>. QED  BY <1>1, <1>9, <1>10, <1>11, <1>12

\* When all leases go so, the bucket settles them or restarts.
LEMMA AllGo ==
  ASSUME IInv, TypeOK', WindowsGrow, NEW t \in Triggers, NEW i \in Limits(t),
         \A x \in LeaseIds : Goes(x, t, i)
  PROVE  Bucket(t, i)!Next
<1>. PICK k : k = KeyOf(t, i)
  OBVIOUS
<1>1. k \in DOMAIN windows => windows[k].generation \in Nat /\ windows'[k].generation \in Nat
  BY DEF IInv, TypeOK, Window, WindowsGrow
<1>2. SamePeriod(k) \/ NewPeriod(k)
  BY <1>1 DEF SamePeriod, NewPeriod, WindowsGrow
<1>3. CASE Consumable(t) => SamePeriod(k)
  <2>1. \A x \in LeaseIds : Bucket(t, i)!Keep(x) \/ Bucket(t, i)!Return(x)
    BY <1>3 DEF Goes
  <2>2. Bucket(t, i)!Settle
    BY <2>1 DEF Bucket!Settle
  <2>. QED  BY <2>2 DEF Bucket!Next
<1>4. CASE Consumable(t) /\ NewPeriod(k)
  <2>1. \A x \in LeaseIds : Bucket(t, i)!Forget(x)
    BY <1>4 DEF Goes
  <2>2. Bucket(t, i)!Restart
    BY <2>1 DEF Bucket!Restart
  <2>. QED  BY <2>2 DEF Bucket!Next
<1>. QED  BY <1>2, <1>3, <1>4

\* When all leases but one go so, and that one takes units, the bucket grants them.
LEMMA OneTakes ==
  ASSUME IInv, TypeOK', WindowsGrow, NEW t \in Triggers, NEW i \in Limits(t), NEW l \in LeaseIds,
         \A x \in LeaseIds \ {l} : Goes(x, t, i),
         HeldOf(t, i)[l] = 0, SpentOf(t, i)[l] = 0, SpentOf(t, i)'[l] = 0,
         HeldOf(t, i)'[l] = 0 \/ HeldOf(t, i)'[l] \in 1..Amounts[t][i].max,
         Bucket(t, i)!Granted' <= Amounts[t][i].max
  PROVE  Bucket(t, i)!Next
<1>. PICK k : k = KeyOf(t, i)
  OBVIOUS
<1>1. k \in DOMAIN windows => windows[k].generation \in Nat /\ windows'[k].generation \in Nat
  BY DEF IInv, TypeOK, Window, WindowsGrow
<1>2. SamePeriod(k) \/ NewPeriod(k)
  BY <1>1 DEF SamePeriod, NewPeriod, WindowsGrow
<1>3. CASE HeldOf(t, i)'[l] = 0
  <2>1. Bucket(t, i)!Keep(l) /\ Bucket(t, i)!Forget(l)
    BY <1>3 DEF Bucket!Keep, Bucket!Forget
  <2>2. \A x \in LeaseIds : Goes(x, t, i)
    BY <2>1 DEF Goes
  <2>. QED  BY <2>2, AllGo
<1>4. CASE HeldOf(t, i)'[l] \in 1..Amounts[t][i].max
  <2>1. \/ \A x \in LeaseIds \ {l} : Bucket(t, i)!Keep(x) \/ Bucket(t, i)!Return(x)
        \/ \A x \in LeaseIds \ {l} : Bucket(t, i)!Forget(x)
    <3>1. CASE Consumable(t) => SamePeriod(k)
      BY <3>1 DEF Goes
    <3>2. CASE Consumable(t) /\ NewPeriod(k)
      BY <3>2 DEF Goes
    <3>. QED  BY <1>2, <3>1, <3>2
  <2>2. Bucket(t, i)!Grant
    BY <1>4, <2>1 DEF Bucket!Grant
  <2>. QED  BY <2>2 DEF Bucket!Next
<1>. QED  BY <1>3, <1>4

\* No bucket of a limit with a key of its own holds more than its units.
WithinBuckets == \A x \in OwnedLimits : Bucket(x[1], x[2])!Granted <= Amounts[x[1]][x[2]].max

\* The units of a bucket of windows are those of its leases.
LEMMA UnitsOfWindow ==
  ASSUME IInv, NEW t \in Triggers, NEW i \in Limits(t), Consumable(t), KeyOf(t, i) \in DOMAIN windows,
         Amounts[t][i].max < U32Max
  PROVE  LET k == KeyOf(t, i)
             g == windows[k].generation IN
         /\ Cardinality(Bucket(t, i)!UnitsOf(HeldOf(t, i))) <= Cardinality(ReservedUnits(leases, Live, k, g))
         /\ Cardinality(Bucket(t, i)!UnitsOf(SpentOf(t, i))) <= Cardinality(ConsumedUnits(settled, DOMAIN settled, k, g))
<1>. PICK k, g : k = KeyOf(t, i) /\ g = windows[k].generation
  OBVIOUS
<1>. DEFINE max == Amounts[t][i].max
<1>1. max \in Nat /\ U32Max \in Nat /\ 1..max \subseteq Units /\ i \in Positions
  BY LimitKeys, CounterAssumption DEF Units, Limits, Positions
<1>2. Live \in SUBSET LeaseIds /\ DOMAIN settled \in SUBSET LeaseIds
  BY DEF IInv, TypeOK
<1>3. ASSUME NEW y
      PROVE  CountsFor(y, t, i) <=> y.trigger = t /\ Counts(y, i, k, g)
  BY DEF CountsFor
<1>4. ASSUME NEW f, NEW R, IsFiniteSet(R),
             \A x \in LeaseIds, u \in 1..max : u <= f[x] => <<<<x, i>>, u>> \in R
      PROVE  Cardinality(Bucket(t, i)!UnitsOf(f)) <= Cardinality(R)
  <2>. DEFINE U == Bucket(t, i)!UnitsOf(f)
  <2>1. U = {u \in LeaseIds \X (1..max) : u[2] <= f[u[1]]}
    BY DEF Bucket!UnitsOf
  <2>2. PICK m : m = [u \in U |-> <<<<u[1], i>>, u[2]>>]
    OBVIOUS
  <2>3. \A u \in U : m[u] \in R
    BY <1>4, <2>1, <2>2
  <2>4. \A u, v \in U : m[u] = m[v] => u = v
    BY <2>1, <2>2
  <2>. HIDE DEF U
  <2>5. m \in Injection(U, R)
    BY <2>2, <2>3, <2>4 DEF Injection, IsInjective
  <2>. QED  BY <1>4, <2>5, FS_Injection DEF U
<1>5. Cardinality(Bucket(t, i)!UnitsOf(HeldOf(t, i))) <= Cardinality(ReservedUnits(leases, Live, k, g))
  <2>. PICK R : R = ReservedUnits(leases, Live, k, g)
    OBVIOUS
  <2>1. IsFiniteSet(R)
    BY <1>2, ClaimedUnitsFinite
  <2>2. ASSUME NEW x \in LeaseIds, NEW u \in 1..max, u <= HeldOf(t, i)[x]
        PROVE  <<<<x, i>>, u>> \in R
    <3>1. x \in Live /\ CountsFor(leases[x], t, i) /\ u <= leases[x].reserved_amount
      BY <1>1, <2>2, HeldSpent
    <3>. QED  BY <1>1, <1>3, <3>1 DEF ReservedUnits, Claims
  <2>. QED  BY <1>2, <1>4, <2>1, <2>2
<1>6. Cardinality(Bucket(t, i)!UnitsOf(SpentOf(t, i))) <= Cardinality(ConsumedUnits(settled, DOMAIN settled, k, g))
  <2>. PICK R : R = ConsumedUnits(settled, DOMAIN settled, k, g)
    OBVIOUS
  <2>1. IsFiniteSet(R)
    BY <1>2, ClaimedUnitsFinite
  <2>2. ASSUME NEW x \in LeaseIds, NEW u \in 1..max, u <= SpentOf(t, i)[x]
        PROVE  <<<<x, i>>, u>> \in R
    <3>1. x \in DOMAIN settled /\ CountsFor(settled[x], t, i) /\ u <= settled[x].consumed_total
      BY <1>1, <2>2, HeldSpent
    <3>. QED  BY <1>1, <1>3, <3>1 DEF ConsumedUnits, Claims
  <2>. QED  BY <1>2, <1>4, <2>1, <2>2
<1>. QED  BY <1>5, <1>6

\* The buckets count as their counter does.
LEMMA BucketCardinality ==
  ASSUME NEW t, NEW i, NEW S
  PROVE  Bucket(t, i)!Cardinality(S) = Cardinality(S)
BY DEF Bucket!Cardinality, Cardinality, Bucket!IsFiniteSet, IsFiniteSet

\* What counts as nothing has no units, and the units of a bucket are finite.
LEMMA BucketUnits ==
  ASSUME NEW t \in Triggers, NEW i \in Limits(t), NEW f
  PROVE  /\ Cardinality(Bucket(t, i)!UnitsOf(f)) \in Nat
         /\ (\A x \in LeaseIds : f[x] = 0) => Cardinality(Bucket(t, i)!UnitsOf(f)) = 0
<1>. PICK max \in Nat : max = Amounts[t][i].max
  BY LimitKeys, CounterAssumption
<1>. PICK U : U = Bucket(t, i)!UnitsOf(f)
  OBVIOUS
<1>1. U = {u \in LeaseIds \X (1..max) : u[2] <= f[u[1]]}
  BY DEF Bucket!UnitsOf
<1>2. IsFiniteSet(LeaseIds) /\ IsFiniteSet(1..max)
  BY CounterAssumption, FS_Interval
<1>3. IsFiniteSet(LeaseIds \X (1..max))
  BY <1>2, FS_Product
<1>4. IsFiniteSet(U)
  BY <1>1, <1>3, FS_Subset
<1>5. ASSUME \A x \in LeaseIds : f[x] = 0
      PROVE  U = {}
  BY <1>1, <1>5
<1>. QED  BY <1>4, <1>5, FS_CardinalityType, FS_EmptySet

\* The units a concurrency trigger's bucket holds are those its leases occupy.
LEMMA UnitsOfOccupancy ==
  ASSUME IInv, NEW t \in Triggers, NEW i \in Limits(t), ~Consumable(t)
  PROVE  Cardinality(Bucket(t, i)!UnitsOf(HeldOf(t, i)))
           <= Cardinality(OccupiedUnits(leases, Live, KeyOf(t, i)))
<1>. PICK k, max : k = KeyOf(t, i) /\ max = Amounts[t][i].max
  OBVIOUS
<1>. PICK U, R : U = Bucket(t, i)!UnitsOf(HeldOf(t, i)) /\ R = OccupiedUnits(leases, Live, k)
  OBVIOUS
<1>1. max \in Nat /\ 1..max \subseteq Units
  BY LimitKeys, CounterAssumption DEF Units
<1>2. U = {u \in LeaseIds \X (1..max) : u[2] <= HeldOf(t, i)[u[1]]}
  BY DEF Bucket!UnitsOf
<1>3. IsFiniteSet(R)
  BY OccupiedUnitsFinite DEF IInv, TypeOK
<1>4. U \subseteq R
  <2>1. SUFFICES ASSUME NEW x \in LeaseIds, NEW u \in 1..max, u <= HeldOf(t, i)[x]
                 PROVE  <<x, u>> \in R
    BY <1>2
  <2>2. x \in Live /\ leases[x].trigger = t /\ u <= leases[x].reserved_amount
    BY <1>1, <2>1, HeldSpent DEF CountsFor
  <2>3. k \in leases[x].concurrency_keys
    <3>1. IsLease(leases[x])
      BY <2>2 DEF IInv, TypeOK
    <3>. QED  BY <2>2, <3>1 DEF IsLease, KeysOf
  <2>. QED  BY <1>1, <2>2, <2>3 DEF OccupiedUnits
<1>. QED  BY <1>3, <1>4, FS_Subset

\* No bucket is ever exceeded.
LEMMA GrantedWithin == IInv /\ OccupancyIsLive => WithinBuckets
<1>. SUFFICES ASSUME IInv, OccupancyIsLive, NEW t \in Triggers, NEW i \in Limits(t),
                     <<t, i>> \in OwnedLimits
              PROVE  Bucket(t, i)!Granted <= Amounts[t][i].max
  BY DEF WithinBuckets, OwnedLimits
<1>. PICK k, max : k = KeyOf(t, i) /\ max = Amounts[t][i].max
  OBVIOUS
<1>. PICK h, s : /\ h = Cardinality(Bucket(t, i)!UnitsOf(HeldOf(t, i)))
                 /\ s = Cardinality(Bucket(t, i)!UnitsOf(SpentOf(t, i)))
  OBVIOUS
<1>1. h \in Nat /\ s \in Nat /\ max \in Nat /\ i \in Positions
  BY BucketUnits, LimitKeys, CounterAssumption DEF Limits, Positions
<1>2. Bucket(t, i)!Granted = h + s
  BY BucketCardinality DEF Bucket!Granted
<1>3. CASE Owns(t, i, k, ConsumableTriggers) /\ t \in ConsumableTriggers
  <2>0. Consumable(t) /\ max < U32Max
    BY <1>3 DEF ConsumableTriggers, Owns
  <2>1. CASE k \in DOMAIN windows
    <3>. PICK g, r, c : /\ g = windows[k].generation
                        /\ r = Cardinality(ReservedUnits(leases, Live, k, g))
                        /\ c = Cardinality(ConsumedUnits(settled, DOMAIN settled, k, g))
      OBVIOUS
    <3>1. Accounted(windows[k], leases, Live, settled, DOMAIN settled, k, max)
      BY <1>1, <1>3, <2>1 DEF IInv, WindowsAccounted
    <3>2. r + c <= max
      BY <3>1 DEF Accounted
    <3>3. h <= r /\ s <= c
      BY <2>0, <2>1, UnitsOfWindow
    <3>4. r \in Nat /\ c \in Nat
      BY ClaimedUnitsFinite DEF IInv, TypeOK
    <3>. QED  BY <1>1, <1>2, <3>2, <3>3, <3>4
  <2>2. CASE k \notin DOMAIN windows
    <3>1. \A x \in LeaseIds : HeldOf(t, i)[x] = 0 /\ SpentOf(t, i)[x] = 0
      BY <2>0, <2>2, HeldSpent DEF CountsFor
    <3>2. h = 0 /\ s = 0
      BY <3>1, BucketUnits
    <3>. QED  BY <1>1, <1>2, <3>2
  <2>. QED  BY <2>1, <2>2
<1>4. CASE Owns(t, i, k, OccupancyTriggers) /\ t \in OccupancyTriggers
  <2>0. ~Consumable(t)
    BY <1>4 DEF ConsumableTriggers, OccupancyTriggers
  <2>1. \A x \in LeaseIds : SpentOf(t, i)[x] = 0
    BY <2>0, HeldSpent
  <2>2. s = 0
    BY <2>1, BucketUnits
  <2>. PICK o : o = Cardinality(OccupiedUnits(leases, Live, k))
    OBVIOUS
  <2>3. o <= max
    BY <1>4 DEF OccupancyIsLive
  <2>4. h <= o
    BY <2>0, UnitsOfOccupancy
  <2>5. o \in Nat
    BY OccupiedUnitsFinite DEF IInv, TypeOK
  <2>. QED  BY <1>1, <1>2, <2>2, <2>3, <2>4, <2>5
<1>. QED  BY <1>3, <1>4 DEF OwnedLimits

\* A step that opens no lease settles or restarts every bucket.
LEMMA SettlingBucket ==
  ASSUME IInv, TypeOK', WindowsGrow, NEW ls, NEW gone \in SUBSET Live, Record(ls, gone),
         \A l \in gone : /\ ls[l].trigger = leases[l].trigger
                         /\ ls[l].windows = leases[l].windows
                         /\ ls[l].reserved_amount = leases[l].reserved_amount,
         WithinReservation(ls, gone),
         Live' = Live \ gone,
         \A x \in Live' : /\ leases'[x].trigger = leases[x].trigger
                          /\ leases'[x].windows = leases[x].windows
                          /\ leases'[x].reserved_amount = leases[x].reserved_amount,
         NEW t \in Triggers, NEW i \in Limits(t)
  PROVE  Bucket(t, i)!Next
<1>1. ASSUME NEW x \in LeaseIds PROVE Goes(x, t, i)
  BY LeasePart
<1>. QED  BY <1>1, AllGo

\* A step that opens a lease grants it units of its own limits, and settles or
\* restarts the buckets of the others.
LEMMA GrantBucket ==
  ASSUME IInv, TypeOK', WindowsGrow, Record(leases, Expired),
         NEW l \in LeaseIds, l \notin Live \cup DOMAIN settled,
         Live' = (Live \ Expired) \cup {l},
         \A x \in Live \ Expired : leases'[x] = leases[x],
         NEW t \in Triggers, NEW i \in Limits(t),
         leases'[l].trigger = t => leases'[l].reserved_amount \in 1..Amounts[t][i].max,
         Bucket(t, i)!Granted' <= Amounts[t][i].max
  PROVE  Bucket(t, i)!Next
<1>1. ASSUME NEW x \in LeaseIds \ {l} PROVE Goes(x, t, i)
  <2>1. x \in Live' <=> x \in Live \ Expired
    OBVIOUS
  <2>2. x \in Live' => /\ leases'[x].trigger = leases[x].trigger
                       /\ leases'[x].windows = leases[x].windows
                       /\ leases'[x].reserved_amount = leases[x].reserved_amount
    BY <2>1
  <2>. QED  BY <2>1, <2>2, ExpiredFacts, LeasePart
<1>2. DOMAIN settled' = DOMAIN settled \cup Expired
  BY RecordValues
<1>3. HeldOf(t, i)[l] = 0 /\ SpentOf(t, i)[l] = 0 /\ SpentOf(t, i)'[l] = 0
  BY <1>2, ExpiredFacts, HeldSpent
<1>4. HeldOf(t, i)'[l] = 0 \/ HeldOf(t, i)'[l] \in 1..Amounts[t][i].max
  BY HeldSpent DEF CountsFor
<1>. QED  BY <1>1, <1>3, <1>4, OneTakes

\* A lease is granted no more than each of its limits.
LEMMA GrantFits ==
  ASSUME IInv, NEW t \in Triggers, NEW n \in Requests, NEW i \in Limits(t),
         Amounts[t][i].max < U32Max, Fits(t, i, n) \/ HasRoom(t, i, n)
  PROVE  n \in 1..Amounts[t][i].max
<1>. PICK k \in Keys : k = KeyOf(t, i)
  BY LimitKeys
<1>1. /\ n \in Nat /\ n >= 1 /\ U32Max \in Nat /\ Amounts[t][i].max \in Nat
  BY RequestBounds, CounterAssumption, LimitKeys
<1>2. ASSUME NEW x \in Nat, SaturatingAdd(x, n) <= Amounts[t][i].max
      PROVE  n <= Amounts[t][i].max
  BY <1>1, <1>2 DEF SaturatingAdd
<1>3. CASE Fits(t, i, n)
  <2>. PICK w : w = CurrentWindow(k)
    OBVIOUS
  <2>1. w \in Window
    BY CurrentWindowType DEF IInv
  <2>2. w.committed \in Nat /\ w.reserved \in Nat
    BY <2>1 DEF Window
  <2>3. SaturatingAdd(w.committed, w.reserved) \in Nat
    BY <1>1, <2>2 DEF SaturatingAdd
  <2>. QED  BY <1>1, <1>2, <1>3, <2>3 DEF Fits
<1>4. CASE HasRoom(t, i, n)
  <2>1. SweptConcurrency[k] \in Nat
    BY SweptTypes DEF IInv
  <2>. QED  BY <1>1, <1>2, <1>4, <2>1 DEF HasRoom
<1>. QED  BY <1>3, <1>4

\* Every operation does to each bucket what QuotaBucket allows.
LEMMA BucketsStep ==
  ASSUME IInv, TypeOK', WithinBuckets', Next, NEW t \in Triggers, NEW i \in Limits(t),
         <<t, i>> \in OwnedLimits
  PROVE  BucketStep(<<t, i>>)
<1>g. WindowsGrow
  BY StepWindowsGrow
<1>m. Amounts[t][i].max < U32Max
  BY DEF OwnedLimits, Owns
<1>b. Bucket(t, i)!Granted' <= Amounts[t][i].max
  BY DEF WithinBuckets
<1>n. SUFFICES ASSUME ~UNCHANGED <<HeldOf(t, i), SpentOf(t, i)>>
               PROVE  Bucket(t, i)!Next
  BY DEF BucketStep
<1>1. CASE Tick
  <2>1. UNCHANGED <<HeldOf(t, i), SpentOf(t, i)>>
    BY <1>1 DEF Tick, HeldOf, SpentOf, CountsFor, Counts, Live
  <2>. QED  BY <1>n, <2>1
<1>2. ASSUME leases' = SweptLeases, Record(leases, Expired)
      PROVE  Bucket(t, i)!Next
  <2>1. /\ Live' = Live \ Expired
        /\ \A x \in Live' : leases'[x] = leases[x]
    BY <1>2, ExpiredFacts DEF Live
  <2>2. \A x \in Live' : /\ leases'[x].trigger = leases[x].trigger
                         /\ leases'[x].windows = leases[x].windows
                         /\ leases'[x].reserved_amount = leases[x].reserved_amount
    BY <2>1
  <2>. QED  BY <1>2, <1>g, <2>1, <2>2, ExpiredFacts, SettlingBucket
<1>3. ASSUME NEW l \in LeaseIds, NEW u \in Triggers, NEW n \in Requests, NEW ttl \in Ttls,
             l \notin Live \cup DOMAIN settled, Record(leases, Expired),
             leases' = With(SweptLeases, l, NewLease(u, n, ttl)),
             u = t => Fits(t, i, n) \/ HasRoom(t, i, n)
      PROVE  Bucket(t, i)!Next
  <2>1. /\ Live' = (Live \ Expired) \cup {l}
        /\ \A x \in Live \ Expired : leases'[x] = leases[x]
        /\ leases'[l].trigger = u /\ leases'[l].reserved_amount = n
    <3>. DEFINE f == With(SweptLeases, l, NewLease(u, n, ttl))
    <3>1. /\ DOMAIN f = (Live \ Expired) \cup {l}
          /\ \A x \in Live \ Expired : x # l => f[x] = leases[x]
          /\ f[l].trigger = u
          /\ f[l].reserved_amount = n
          /\ DOMAIN f[l].windows = WindowLimits(u)
          /\ \A j \in WindowLimits(u) : f[l].windows[j] = CurrentWindow(KeyOf(u, j)).generation
          /\ WithinReservation(f, {l})
      BY NewLeaseFacts
    <3>2. leases' = f
      BY <1>3
    <3>. HIDE DEF f
    <3>. QED  BY <1>3, <3>1, <3>2 DEF Live
  <2>2. u = t => n \in 1..Amounts[t][i].max
    BY <1>3, <1>m, GrantFits
  <2>. QED  BY <1>3, <1>g, <1>b, <2>1, <2>2, GrantBucket
<1>4. ASSUME NEW l \in LeaseIds, NEW total \in 0..U32Max, NEW seq \in 0..MaxSequence,
             UpdateLease(l, total, seq)
      PROVE  Bucket(t, i)!Next
  <2>1. /\ Live' = Live \ Expired /\ l \in Live'
        /\ \A x \in Live' : x # l => leases'[x] = leases[x]
        /\ leases'[l] = [leases[l] EXCEPT !.consumed_total = total, !.sequence = seq]
    BY <1>4, ExpiredFacts DEF UpdateLease, Live
  <2>2. /\ leases'[l].trigger = leases[l].trigger
        /\ leases'[l].windows = leases[l].windows
        /\ leases'[l].reserved_amount = leases[l].reserved_amount
    BY <2>1, UpdatedLeaseFields DEF IInv, TypeOK
  <2>3. \A x \in Live' : /\ leases'[x].trigger = leases[x].trigger
                         /\ leases'[x].windows = leases[x].windows
                         /\ leases'[x].reserved_amount = leases[x].reserved_amount
    BY <2>1, <2>2
  <2>4. Record(leases, Expired)
    BY <1>4 DEF UpdateLease
  <2>. QED  BY <1>g, <2>1, <2>3, <2>4, ExpiredFacts, SettlingBucket
<1>5. ASSUME NEW l \in LeaseIds, NEW total \in 0..U32Max, NEW seq \in 0..MaxSequence,
             FinishLease(l, total, seq)
      PROVE  Bucket(t, i)!Next
  <2>. DEFINE ls   == [leases EXCEPT ![l].consumed_total = total]
              gone == Expired \cup {l}
  <2>1. /\ gone \in SUBSET Live
        /\ \A x \in gone : /\ ls[x].trigger = leases[x].trigger
                           /\ ls[x].windows = leases[x].windows
                           /\ ls[x].reserved_amount = leases[x].reserved_amount
        /\ WithinReservation(ls, gone)
    BY <1>5, FinishedLeases
  <2>2. Record(ls, gone)
    BY <1>5 DEF FinishLease
  <2>3. Live' = Live \ gone /\ \A x \in Live' : leases'[x] = leases[x]
    BY <1>5 DEF FinishLease, Without, Live
  <2>. HIDE DEF ls, gone
  <2>4. \A x \in Live' : /\ leases'[x].trigger = leases[x].trigger
                         /\ leases'[x].windows = leases[x].windows
                         /\ leases'[x].reserved_amount = leases[x].reserved_amount
    BY <2>3
  <2>. QED  BY <1>g, <2>1, <2>2, <2>3, <2>4, SettlingBucket
<1>6. ASSUME SweepOnly PROVE Bucket(t, i)!Next
  BY <1>2, <1>6 DEF SweepOnly
<1>7. ASSUME NEW u \in Triggers, NEW n \in Requests, RejectConsumable(u, n)
      PROVE  Bucket(t, i)!Next
  BY <1>2, <1>7 DEF RejectConsumable
<1>8. ASSUME NEW l \in LeaseIds, NEW u \in Triggers, NEW n \in Requests, NEW ttl \in Ttls,
             ReserveConsumable(l, u, n, ttl)
      PROVE  Bucket(t, i)!Next
  <2>1. u = t => Fits(t, i, n)
    BY <1>8 DEF ReserveConsumable
  <2>. QED  BY <1>3, <1>8, <2>1 DEF ReserveConsumable
<1>9. ASSUME NEW l \in LeaseIds, NEW u \in Triggers, NEW n \in Requests, NEW ttl \in Ttls,
             ReserveOccupancy(l, u, n, ttl)
      PROVE  Bucket(t, i)!Next
  <2>1. u = t => HasRoom(t, i, n)
    BY <1>9 DEF ReserveOccupancy
  <2>. QED  BY <1>3, <1>9, <2>1 DEF ReserveOccupancy
<1>. QED  BY <1>1, <1>4, <1>5, <1>6, <1>7, <1>8, <1>9 DEF Next, RefuseReserve, RefuseOperation

\* Every limit with a key of its own is a bucket of its max_amount units: the
\* counter, its periods, generations, sweeps and sequence numbers included,
\* only ever grants, settles and restarts as QuotaBucket says (LocalQuotaCounter).
THEOREM Refinement == Spec => ImplementsBuckets
<1>1. Init => \A x \in OwnedLimits : BucketInit(x)
  <2>. SUFFICES ASSUME Init, NEW x \in OwnedLimits PROVE BucketInit(x)
    OBVIOUS
  <2>1. Live = {} /\ DOMAIN settled = {}
    BY DEF Init, Live
  <2>2. /\ HeldOf(x[1], x[2]) = [l \in LeaseIds |-> 0]
        /\ SpentOf(x[1], x[2]) = [l \in LeaseIds |-> 0]
    BY <2>1 DEF HeldOf, SpentOf
  <2>. QED  BY <2>2 DEF BucketInit, Bucket!Init
<1>2. IInv /\ TypeOK' /\ WithinBuckets' /\ [Next]_vars => [\A x \in OwnedLimits : BucketStep(x)]_vars
  <2>. SUFFICES ASSUME IInv, TypeOK', WithinBuckets', Next, NEW x \in OwnedLimits
                PROVE  BucketStep(x)
    OBVIOUS
  <2>1. x = <<x[1], x[2]>> /\ x[1] \in Triggers /\ x[2] \in Limits(x[1])
    BY DEF OwnedLimits
  <2>2. BucketStep(<<x[1], x[2]>>)
    BY <2>1, BucketsStep
  <2>. QED  BY <2>1, <2>2
<1>3. IInv /\ OccupancyIsLive => TypeOK /\ WithinBuckets
  BY GrantedWithin DEF IInv
<1>. QED  BY <1>1, <1>2, <1>3, Invariance, OccupancyCorrect, PTL DEF Spec, ImplementsBuckets

=============================================================================
