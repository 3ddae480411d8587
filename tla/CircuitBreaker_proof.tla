------------------------ MODULE CircuitBreaker_proof ------------------------
(***************************************************************************)
(* Proofs about CircuitBreaker, for any callers, resources, rule lists and *)
(* thresholds: the counters of a state machine tell the truth about what   *)
(* was reported, what it does is earned, and it is one of a rule in force. *)
(***************************************************************************)
EXTENDS CircuitBreaker, FiniteSetTheorems, TLAPS

\* The rules that may be published.
RuleSet == UNION {{l[i] : i \in DOMAIN l} : l \in UNION {RuleLists[s] : s \in Services}}

Machine == [rule : RuleSet, status : {"Close", "HalfOpen", "Open"}, opened_at : Nat,
            errors : 0..U32Max, successes : Nat, requests : 0..U32Max]

CallRecord == [at : {"idle", "loading", "loaded", "clearing", "ready", "recording"},
               kind : {"check", "report"}, refresh : {"required", "tried", "none"},
               keys : Seq(Keys), failed : BOOLEAN, list : Seq(RuleSet)]

TypeInv ==
    /\ published \in [Services -> Seq(RuleSet)]
    /\ rules \in Seq(RuleSet)
    /\ DOMAIN states \subseteq Keys /\ states \in [DOMAIN states -> Seq(Machine)]
    /\ call \in [Callers -> CallRecord]
    /\ \A c \in Callers : call[c].at # "idle" => call[c].keys # <<>>
    /\ now \in Nat
    /\ trail \in [Keys -> Seq(BOOLEAN)]
    /\ raced \in BOOLEAN

-----------------------------------------------------------------------------
(* The operators of the model                                              *)

LEMMA RuleType ==
  ASSUME NEW r \in RuleSet
  PROVE  /\ IsRule(r)
         /\ \A t \in r.triggers : t.errors \in Nat /\ t.minimum \in Nat
         /\ r.recover.present \in BOOLEAN /\ r.recover.sleep \in Nat /\ r.recover.successes \in Nat
  <1>1. IsRule(r)
    <2>1. PICK s \in Services : \E l \in RuleLists[s] : \E i \in DOMAIN l : r = l[i]
      BY DEF RuleSet
    <2>2. PICK l \in RuleLists[s] : \E i \in DOMAIN l : r = l[i]
      BY <2>1
    <2>3. \A i \in DOMAIN l : IsRule(l[i])
      BY BreakerAssumption DEF IsRuleList
    <2>. QED
      BY <2>2, <2>3
  <1>2. r.triggers \subseteq [errors : 0..U32Max, minimum : 0..U32Max]
        /\ r.recover \in [present : BOOLEAN, sleep : Nat, successes : 0..U32Max]
    BY <1>1 DEF IsRule
  <1>. QED
    BY <1>1, <1>2

LEMMA RecoverType ==
  ASSUME NEW x \in Machine
  PROVE  Recover(x) \in Nat \ {0}
  <1>1. x.rule.recover.successes \in Nat
    BY RuleType DEF Machine
  <1>. QED
    BY <1>1 DEF Recover, AtLeastOne

\* A counter counts, or wraps.
LEMMA Increments ==
  ASSUME NEW n \in 0..U32Max
  PROVE  Increment(n) = IF n < U32Max THEN n + 1 ELSE 0
  BY BreakerAssumption DEF Increment

LEMMA CountedType ==
  ASSUME NEW x \in Machine, now \in Nat, NEW failure \in BOOLEAN
  PROVE  Counted(x, failure) \in Machine /\ Counted(x, failure).rule = x.rule
  <1>1. Increment(x.errors) \in 0..U32Max /\ Increment(x.requests) \in 0..U32Max /\ 0 \in 0..U32Max
    BY Increments, BreakerAssumption DEF Machine
  <1> DEFINE e == IF failure THEN Increment(x.errors) ELSE 0
             y == State(x.rule, x.status, x.opened_at, e, x.successes, Increment(x.requests))
  <1>2. y \in Machine /\ y.rule = x.rule
    BY <1>1 DEF Machine, State
  <1>3. Opened(y) \in Machine /\ Opened(y).rule = x.rule
    BY <1>2 DEF Opened, State, Machine
  <1>. QED
    BY <1>2, <1>3 DEF Counted

LEMMA TriedType ==
  ASSUME NEW x \in Machine
  PROVE  Tried(x) \in Machine /\ Tried(x).rule = x.rule
  <1>1. x.successes + 1 \in Nat /\ 0 \in 0..U32Max
    BY BreakerAssumption DEF Machine
  <1> DEFINE y == State(x.rule, x.status, x.opened_at, x.errors, x.successes + 1, x.requests)
  <1>2. y \in Machine /\ y.rule = x.rule
    BY <1>1 DEF Machine, State
  <1>3. Closed(y) \in Machine /\ Closed(y).rule = x.rule
    BY <1>1, <1>2 DEF Closed, State, Machine
  <1>. QED
    BY <1>2, <1>3 DEF Tried

LEMMA RefreshedType ==
  ASSUME NEW x \in Machine
  PROVE  Refreshed(x) \in Machine /\ Refreshed(x).rule = x.rule
  BY DEF Refreshed, HalfOpened, State, Machine

LEMMA ReportedType ==
  ASSUME NEW x \in Machine, now \in Nat, NEW failure \in BOOLEAN
  PROVE  Reported(x, failure) \in Machine /\ Reported(x, failure).rule = x.rule
  <1>1. PICK y \in Machine : y = Refreshed(x) /\ y.rule = x.rule
    BY RefreshedType
  <1>2. Opened(y) \in Machine /\ Opened(y).rule = y.rule
    BY DEF Opened, State, Machine
  <1>3. y.status \in {"Open", "HalfOpen", "Close"}
    BY DEF Machine
  <1>. QED
    BY <1>1, <1>2, <1>3, TriedType, CountedType DEF Reported

-----------------------------------------------------------------------------
(* What a machine has counted, and what was reported                       *)

\* The last n reports of t were all b.
EndsWith(t, n, b) ==
    n <= Len(t) /\ \A i \in Len(t) - n + 1..Len(t) : t[i] = b

LEMMA EndsLonger ==
  ASSUME NEW t \in Seq(BOOLEAN), NEW b \in BOOLEAN, NEW n \in Nat, EndsWith(t, n, b)
  PROVE  EndsWith(Append(t, b), n + 1, b)
  BY DEF EndsWith

LEMMA EndsShorter ==
  ASSUME NEW t \in Seq(BOOLEAN), NEW b \in BOOLEAN, NEW n \in Nat, NEW m \in 0..n, EndsWith(t, n, b)
  PROVE  EndsWith(t, m, b)
  BY DEF EndsWith

LEMMA EndedWith ==
  ASSUME NEW t \in Seq(BOOLEAN), NEW b \in BOOLEAN, NEW f \in BOOLEAN, NEW n \in Nat,
         EndsWith(Append(t, f), n + 1, b)
  PROVE  f = b /\ EndsWith(t, n, b)
  <1> DEFINE u == Append(t, f)
  <1>1. Len(u) = Len(t) + 1 /\ u[Len(t) + 1] = f /\ \A i \in 1..Len(t) : u[i] = t[i]
    OBVIOUS
  <1>2. n <= Len(t) /\ \A i \in Len(t) + 1 - n..Len(t) + 1 : u[i] = b
    BY <1>1 DEF EndsWith
  <1>3. f = b
    BY <1>1, <1>2
  <1>4. \A i \in Len(t) - n + 1..Len(t) : t[i] = b
    BY <1>1, <1>2
  <1>. QED
    BY <1>2, <1>3, <1>4 DEF EndsWith

\* As long as its u32 counters do not wrap, a closed machine has counted all
\* the failures at the end.
Told(x, t) ==
    /\ x.requests <= Len(t)
    /\ x.status = "Close" => EndsWith(t, x.errors, TRUE) /\ ~ShouldOpen(x)
    /\ x.status = "Close" /\ MaxReports <= U32Max => ~EndsWith(t, x.errors + 1, TRUE)
    /\ x.status = "HalfOpen" => EndsWith(t, x.successes, FALSE) /\ x.successes < Recover(x)
    /\ x.status = "Open" => x.successes = 0

\* An end of no reports is any end.
LEMMA EndsEmpty ==
  ASSUME NEW t \in Seq(BOOLEAN), NEW b \in BOOLEAN
  PROVE  EndsWith(t, 0, b)
  BY DEF EndsWith

LEMMA FreshTold ==
  ASSUME NEW x \in Machine, x.status = "Close", x.errors = 0, x.requests = 0,
         NEW t \in Seq(BOOLEAN), t = <<>> \/ ~EndsWith(t, 1, TRUE)
  PROVE  Told(x, t)
  <1>1. ~EndsWith(t, 1, TRUE)
    BY DEF EndsWith
  <1>2. ~ShouldOpen(x)
    BY RuleType DEF ShouldOpen, Trips, Machine
  <1>3. EndsWith(t, x.errors, TRUE) /\ ~EndsWith(t, x.errors + 1, TRUE)
    <2>1. x.errors + 1 = 1
      OBVIOUS
    <2>. QED
      BY <1>1, <2>1, EndsEmpty, Zenon
  <1>4. x.requests <= Len(t)
    OBVIOUS
  <1>. QED
    BY <1>2, <1>3, <1>4 DEF Told

LEMMA RefreshedTold ==
  ASSUME NEW x \in Machine, NEW t \in Seq(BOOLEAN), Told(x, t)
  PROVE  Told(Refreshed(x), t)
  <1>1. CASE Cooled(x)
    <2>1. PICK y \in Machine : y = HalfOpened(x)
      BY <1>1, RefreshedType DEF Refreshed
    <2>2. y.status = "HalfOpen" /\ y.successes = 0 /\ y.requests = x.requests
      BY <2>1 DEF HalfOpened, State
    <2>3. Recover(y) \in Nat \ {0}
      BY RecoverType
    <2>4. EndsWith(t, y.successes, FALSE) /\ y.successes < Recover(y)
      <3>1. EndsWith(t, 0, FALSE)
        BY EndsEmpty
      <3>2. 0 < Recover(y)
        BY <2>3
      <3>. QED
        BY <2>2, <3>1, <3>2, Zenon
    <2>5. Told(y, t)
      BY <2>2, <2>4 DEF Told
    <2>. QED
      BY <1>1, <2>1, <2>5 DEF Refreshed
  <1>. QED
    BY <1>1 DEF Refreshed

LEMMA CountedTold ==
  ASSUME NEW x \in Machine, x.status = "Close", now \in Nat, NEW f \in BOOLEAN,
         NEW t \in Seq(BOOLEAN), Len(t) < MaxReports, Told(x, t)
  PROVE  Told(Counted(x, f), Append(t, f))
  <1> DEFINE u == Append(t, f)
             e == IF f THEN Increment(x.errors) ELSE 0
             y == State(x.rule, x.status, x.opened_at, e, x.successes, Increment(x.requests))
  <1>1. u \in Seq(BOOLEAN) /\ Len(u) = Len(t) + 1
    OBVIOUS
  <1>2. x.errors \in 0..U32Max /\ x.requests \in 0..U32Max /\ U32Max \in Nat /\ MaxReports \in Nat
    BY BreakerAssumption DEF Machine
  <1>3. /\ Increment(x.errors) = IF x.errors < U32Max THEN x.errors + 1 ELSE 0
        /\ Increment(x.requests) = IF x.requests < U32Max THEN x.requests + 1 ELSE 0
    BY <1>2, Increments
  <1>4. y.status = "Close" /\ y.errors = e /\ y.requests = Increment(x.requests) /\ y.rule = x.rule
    BY DEF State
  <1>5. y.requests <= Len(u)
    BY <1>1, <1>2, <1>3, <1>4 DEF Told
  <1>6. EndsWith(u, e, TRUE)
    <2>1. CASE f /\ x.errors < U32Max
      <3>1. e = x.errors + 1 /\ x.errors \in Nat /\ f = TRUE
        BY <2>1, <1>2, <1>3
      <3>2. EndsWith(t, x.errors, TRUE)
        BY DEF Told
      <3>3. EndsWith(Append(t, TRUE), x.errors + 1, TRUE)
        BY <3>1, <3>2, EndsLonger
      <3>. QED
        BY <3>1, <3>3
    <2>2. CASE ~(f /\ x.errors < U32Max)
      BY <2>2, <1>1, <1>2, <1>3, EndsEmpty
    <2>. QED
      BY <2>1, <2>2
  <1>7. ASSUME MaxReports <= U32Max
        PROVE  ~EndsWith(u, e + 1, TRUE)
    <2>1. x.errors < U32Max
      BY <1>2, <1>7 DEF Told, EndsWith
    <2>2. CASE f
      <3>1. e = x.errors + 1 /\ x.errors + 1 \in Nat
        BY <1>2, <1>3, <2>1, <2>2
      <3>2. ~EndsWith(t, x.errors + 1, TRUE)
        BY <1>7 DEF Told
      <3>. QED
        BY <3>1, <3>2, <2>2, EndedWith
    <2>3. CASE ~f
      <3>1. e = 0
        BY <2>3
      <3>2. ~EndsWith(u, 0 + 1, TRUE)
        BY <2>3, EndedWith
      <3>. QED
        BY <3>1, <3>2
    <2>. QED
      BY <2>2, <2>3
  <1>8. CASE ShouldOpen(y)
    <2>1. Counted(x, f) = Opened(y)
      BY <1>8 DEF Counted
    <2>2. PICK z : z = Opened(y)
      OBVIOUS
    <2>3. z.status = "Open" /\ z.successes = 0 /\ z.requests = y.requests
      BY <2>2 DEF Opened, State
    <2>4. Told(z, u)
      BY <2>3, <1>5 DEF Told
    <2>. QED
      BY <2>1, <2>2, <2>4
  <1>9. CASE ~ShouldOpen(y)
    <2>1. Counted(x, f) = y
      BY <1>9 DEF Counted
    <2>2. Told(y, u)
      BY <1>4, <1>5, <1>6, <1>7, <1>9 DEF Told
    <2>. QED
      BY <2>1, <2>2
  <1>. QED
    BY <1>8, <1>9

LEMMA TriedTold ==
  ASSUME NEW x \in Machine, x.status = "HalfOpen", NEW t \in Seq(BOOLEAN), Told(x, t)
  PROVE  Told(Tried(x), Append(t, FALSE))
  <1> DEFINE u == Append(t, FALSE)
             y == State(x.rule, x.status, x.opened_at, x.errors, x.successes + 1, x.requests)
  <1>1. u \in Seq(BOOLEAN) /\ Len(u) = Len(t) + 1 /\ x.successes \in Nat
    BY DEF Machine
  <1>2. y.status = "HalfOpen" /\ y.successes = x.successes + 1 /\ y.requests = x.requests /\ y.rule = x.rule
    BY DEF State
  <1>3. EndsWith(u, x.successes + 1, FALSE)
    BY <1>1, EndsLonger DEF Told
  <1>4. Recover(y) = Recover(x) /\ Recover(x) \in Nat
    BY <1>2, RecoverType DEF Recover
  <1>5. CASE y.successes >= Recover(x)
    <2>1. PICK z \in Machine : z = Tried(x)
      BY TriedType
    <2>2. z = Closed(y)
      BY <2>1, <1>5 DEF Tried
    <2>3. z.status = "Close" /\ z.errors = 0 /\ z.requests = 0
      BY <2>2 DEF Closed, State
    <2>4. ~EndsWith(u, 1, TRUE)
      <3>1. ~EndsWith(u, 0 + 1, TRUE)
        BY EndedWith
      <3>2. 0 + 1 = 1
        OBVIOUS
      <3>. QED
        BY <3>1, <3>2, Zenon
    <2>5. Told(z, u)
      BY <2>3, <2>4, <1>1, FreshTold
    <2>. QED
      BY <2>1, <2>5
  <1>6. CASE ~(y.successes >= Recover(x))
    <2>1. Tried(x) = y
      BY <1>6 DEF Tried
    <2>2. y.requests <= Len(u)
      BY <1>1, <1>2 DEF Told, Machine
    <2>3. EndsWith(u, y.successes, FALSE) /\ y.successes < Recover(y)
      <3>1. x.successes + 1 < Recover(x)
        BY <1>1, <1>2, <1>4, <1>6
      <3>. QED
        BY <1>2, <1>3, <1>4, <3>1, Zenon
    <2>4. Told(y, u)
      BY <2>2, <2>3, <1>2 DEF Told
    <2>. QED
      BY <2>1, <2>4
  <1>. QED
    BY <1>5, <1>6

LEMMA ReportedTold ==
  ASSUME NEW x \in Machine, now \in Nat, NEW f \in BOOLEAN,
         NEW t \in Seq(BOOLEAN), Len(t) < MaxReports, Told(x, t)
  PROVE  Told(Reported(x, f), Append(t, f))
  <1> DEFINE u == Append(t, f)
  <1>1. PICK y \in Machine : y = Refreshed(x) /\ Told(y, t)
    BY RefreshedType, RefreshedTold
  <1>2. y.status \in {"Open", "HalfOpen", "Close"} /\ y.requests \in Nat /\ Len(t) \in Nat /\ Len(u) = Len(t) + 1
    BY DEF Machine
  <1>3. y.requests <= Len(u)
    BY <1>1, <1>2 DEF Told
  <1>4. CASE y.status = "Open"
    <2>1. Told(y, u)
      BY <1>1, <1>3, <1>4 DEF Told
    <2>. QED
      BY <2>1, <1>1, <1>4 DEF Reported
  <1>5. CASE y.status = "HalfOpen" /\ f
    <2>1. PICK z : z = Opened(y)
      OBVIOUS
    <2>2. z.status = "Open" /\ z.successes = 0 /\ z.requests = y.requests
      BY <2>1 DEF Opened, State
    <2>3. Told(z, u)
      BY <2>2, <1>3 DEF Told
    <2>. QED
      BY <2>1, <2>3, <1>1, <1>5 DEF Reported
  <1>6. CASE y.status = "HalfOpen" /\ ~f
    <2>1. Told(Tried(y), u)
      BY <1>1, <1>6, TriedTold
    <2>. QED
      BY <2>1, <1>1, <1>6 DEF Reported
  <1>7. CASE y.status = "Close"
    BY <1>1, <1>7, CountedTold DEF Reported
  <1>. QED
    BY <1>2, <1>4, <1>5, <1>6, <1>7

-----------------------------------------------------------------------------
(* The rules that apply to a resource                                      *)

Chosen(l, k) == {i \in DOMAIN l : Applies(l[i], k)}
Earlier(l, k, i) == {j \in Chosen(l, k) : Before(l, j, i)}

\* The rules that apply are numbered without a gap: no two have the same
\* number of rules before them.
LEMMA Numbered ==
  ASSUME NEW l \in Seq(RuleSet), NEW k
  PROVE  /\ IsFiniteSet(Chosen(l, k)) /\ Cardinality(Chosen(l, k)) \in Nat
         /\ \A i, j \in Chosen(l, k) : Before(l, i, j) =>
                Cardinality(Earlier(l, k, i)) \in Nat /\ Cardinality(Earlier(l, k, j)) \in Nat
                /\ Cardinality(Earlier(l, k, i)) < Cardinality(Earlier(l, k, j))
         /\ \A i \in Chosen(l, k) : Cardinality(Earlier(l, k, i)) + 1 \in 1..Cardinality(Chosen(l, k))
         /\ \A n \in 1..Cardinality(Chosen(l, k)) : \E i \in Chosen(l, k) : Cardinality(Earlier(l, k, i)) + 1 = n
  <1> DEFINE S == Chosen(l, k)
             Pred(i) == Earlier(l, k, i)
  <1>1. S \subseteq 1..Len(l) /\ Len(l) \in Nat /\ \A i \in S : l[i].priority \in Nat
    BY RuleType DEF Chosen, IsRule
  <1>2. IsFiniteSet(S) /\ \A i : IsFiniteSet(Pred(i))
    <2>1. IsFiniteSet(1..Len(l))
      BY <1>1, FS_Interval
    <2>2. IsFiniteSet(S)
      BY <2>1, <1>1, FS_Subset
    <2>3. \A i : Pred(i) \in SUBSET S
      BY DEF Earlier
    <2>. QED
      BY <2>2, <2>3, FS_Subset
  <1>3. Cardinality(S) \in Nat /\ \A i : Cardinality(Pred(i)) \in Nat
    BY <1>2, FS_CardinalityType
  <1>4. ASSUME NEW i \in S, NEW j \in S, Before(l, i, j)
        PROVE  Cardinality(Pred(i)) < Cardinality(Pred(j))
    <2>1. Pred(i) \cup {i} \subseteq Pred(j) /\ i \notin Pred(i)
      BY <1>1, <1>4 DEF Earlier, Before
    <2>2. Cardinality(Pred(i) \cup {i}) = Cardinality(Pred(i)) + 1
      BY <2>1, <1>2, FS_AddElement
    <2>3. Cardinality(Pred(i) \cup {i}) <= Cardinality(Pred(j))
      BY <2>1, <1>2, FS_Subset
    <2>. QED
      BY <2>2, <2>3, <1>3
  <1>5. ASSUME NEW i \in S
        PROVE  Cardinality(Pred(i)) + 1 \in 1..Cardinality(S)
    <2>1. Pred(i) \cup {i} \subseteq S /\ i \notin Pred(i)
      BY <1>1 DEF Earlier, Before
    <2>2. Cardinality(Pred(i) \cup {i}) = Cardinality(Pred(i)) + 1
      BY <2>1, <1>2, FS_AddElement
    <2>3. Cardinality(Pred(i) \cup {i}) <= Cardinality(S)
      BY <2>1, <1>2, FS_Subset
    <2>. QED
      BY <2>2, <2>3, <1>3
  <1> DEFINE rank == [i \in S |-> Cardinality(Pred(i)) + 1]
  <1>6. rank \in Injection(S, 1..Cardinality(S))
    <2>1. rank \in [S -> 1..Cardinality(S)]
      BY <1>5
    <2>2. ASSUME NEW i \in S, NEW j \in S, rank[i] = rank[j]
          PROVE  i = j
      <3>1. Cardinality(Pred(i)) = Cardinality(Pred(j))
        BY <2>2, <1>3
      <3>2. ~Before(l, i, j) /\ ~Before(l, j, i)
        BY <3>1, <1>3, <1>4
      <3>. QED
        BY <3>2, <1>1 DEF Before
    <2>. QED
      BY <2>1, <2>2 DEF Injection, IsInjective
  <1>7. rank \in Surjection(S, 1..Cardinality(S))
    <2>1. IsFiniteSet(1..Cardinality(S)) /\ Cardinality(1..Cardinality(S)) = Cardinality(S)
      BY <1>3, FS_Interval
    <2>. QED
      BY <2>1, <1>6, FS_Injection
  <1>8. \A n \in 1..Cardinality(S) : \E i \in S : rank[i] = n
    BY <1>7 DEF Surjection
  <1>. QED
    BY <1>2, <1>3, <1>4, <1>5, <1>8

\* applicable_rules gives the enabled rules that match, each of them, and
\* the more urgent first.
THEOREM ApplicableRules ==
  ASSUME NEW l \in Seq(RuleSet), NEW k
  PROVE  LET a == Applicable(l, k) IN
         /\ a \in Seq(RuleSet)
         /\ \A n \in DOMAIN a : Applies(a[n], k)
         /\ \A i \in DOMAIN l : Applies(l[i], k) => \E n \in DOMAIN a : a[n] = l[i]
         /\ \A m, n \in DOMAIN a : m < n => a[m].priority <= a[n].priority
  <1> DEFINE S == Chosen(l, k)
             rank(i) == Cardinality(Earlier(l, k, i)) + 1
             a == Applicable(l, k)
             Place(n) == CHOOSE i \in S : rank(i) = n
  <1>1. a = [n \in 1..Cardinality(S) |-> l[Place(n)]]
    BY DEF Applicable, Chosen, Earlier
  <1>2. /\ Cardinality(S) \in Nat
        /\ \A i \in S : rank(i) \in 1..Cardinality(S)
        /\ \A i, j \in S : Before(l, i, j) => rank(i) < rank(j)
    BY Numbered
  <1>3. ASSUME NEW n \in 1..Cardinality(S)
        PROVE  Place(n) \in S /\ rank(Place(n)) = n
    <2>1. \E i \in S : rank(i) = n
      BY Numbered
    <2>. QED
      BY <2>1
  <1>4. S \subseteq DOMAIN l /\ DOMAIN l = 1..Len(l) /\ \A i \in S : l[i] \in RuleSet /\ Applies(l[i], k)
    BY DEF Chosen
  <1>5. \A i \in S : l[i].priority \in Nat
    BY <1>4, RuleType DEF IsRule
  <1> HIDE DEF S, rank, Place, a
  <1>6. a \in Seq(RuleSet) /\ DOMAIN a = 1..Cardinality(S)
    BY <1>1, <1>2, <1>3, <1>4
  <1>7. \A n \in DOMAIN a : Applies(a[n], k)
    BY <1>1, <1>3, <1>4, <1>6
  <1>8. ASSUME NEW i \in DOMAIN l, Applies(l[i], k)
        PROVE  \E n \in DOMAIN a : a[n] = l[i]
    <2>1. i \in S
      BY <1>8 DEF S, Chosen
    <2>2. rank(i) \in 1..Cardinality(S)
      BY <2>1, <1>2
    <2>3. PICK j \in S : j = Place(rank(i)) /\ rank(j) = rank(i)
      BY <2>2, <1>3
    <2>4. i = j
      <3>1. ~Before(l, i, j) /\ ~Before(l, j, i)
        BY <2>1, <2>3, <1>2
      <3>. QED
        BY <3>1, <2>1, <1>4, <1>5 DEF Before
    <2>. QED
      BY <2>2, <2>3, <2>4, <1>1, <1>6
  <1>9. ASSUME NEW m \in DOMAIN a, NEW n \in DOMAIN a, m < n
        PROVE  a[m].priority <= a[n].priority
    <2>1. PICK i \in S : i = Place(m) /\ rank(i) = m
      BY <1>3, <1>6
    <2>2. PICK j \in S : j = Place(n) /\ rank(j) = n
      BY <1>3, <1>6
    <2>3. ~Before(l, j, i)
      BY <2>1, <2>2, <1>2, <1>6, <1>9
    <2>4. a[m] = l[i] /\ a[n] = l[j]
      BY <2>1, <2>2, <1>1, <1>6
    <2>. QED
      BY <2>3, <2>4, <1>5 DEF Before
  <1>. QED
    BY <1>6, <1>7, <1>8, <1>9 DEF a

-----------------------------------------------------------------------------
(* Types                                                                   *)

LEMMA PublishedType ==
  ASSUME NEW s \in Services, NEW l \in RuleLists[s]
  PROVE  l \in Seq(RuleSet)
  <1>1. l \in Seq({l[i] : i \in DOMAIN l})
    BY BreakerAssumption DEF IsRuleList
  <1>2. \A i \in DOMAIN l : l[i] \in RuleSet
    BY DEF RuleSet
  <1>. QED
    BY <1>1, <1>2

LEMMA IdleType == Idle \in CallRecord /\ Idle.at = "idle"
  BY DEF Idle, CallRecord

\* What a call becomes.
LEMMA CallStage ==
  ASSUME TypeInv, NEW c \in Callers, NEW r \in CallRecord, r.at # "idle" => r.keys # <<>>,
         call' = [call EXCEPT ![c] = r]
  PROVE  call' \in [Callers -> CallRecord] /\ \A d \in Callers : call'[d].at # "idle" => call'[d].keys # <<>>
  BY DEF TypeInv

\* A report on several resources goes on with the next.
LEMMA NextKey ==
  ASSUME NEW r \in CallRecord, Len(r.keys) # 1, r.keys # <<>>
  PROVE  LET q == [r EXCEPT !.at = "ready", !.keys = Tail(r.keys), !.list = <<>>]
         IN  q \in CallRecord /\ q.at = "ready" /\ q.keys # <<>>
  <1>1. PICK p : p = [r EXCEPT !.at = "ready"]
    OBVIOUS
  <1>2. p = [at |-> "ready", kind |-> r.kind, refresh |-> r.refresh, keys |-> r.keys, failed |-> r.failed, list |-> r.list]
    BY <1>1 DEF CallRecord
  <1>3. PICK o : o = [p EXCEPT !.keys = Tail(r.keys)]
    OBVIOUS
  <1>4. o = [at |-> "ready", kind |-> r.kind, refresh |-> r.refresh, keys |-> Tail(r.keys), failed |-> r.failed,
             list |-> r.list]
    BY <1>2, <1>3
  <1>5. PICK q : q = [o EXCEPT !.list = <<>>]
    OBVIOUS
  <1>6. q = [at |-> "ready", kind |-> r.kind, refresh |-> r.refresh, keys |-> Tail(r.keys), failed |-> r.failed,
             list |-> <<>>]
    BY <1>4, <1>5
  <1>7. Tail(r.keys) \in Seq(Keys) /\ Tail(r.keys) # <<>>
    <2>1. PICK ks \in Seq(Keys) : ks = r.keys
      BY DEF CallRecord
    <2>2. Len(ks) \in Nat /\ Len(ks) # 0 /\ Len(ks) # 1
      BY <2>1
    <2>3. Tail(ks) \in Seq(Keys) /\ Len(Tail(ks)) = Len(ks) - 1
      BY <2>1, <2>2
    <2>4. Tail(ks) # <<>>
      <3>1. Len(Tail(ks)) # 0 /\ Len(<<>>) = 0
        BY <2>2, <2>3
      <3>. QED
        BY <3>1, Zenon
    <2>. QED
      BY <2>1, <2>3, <2>4
  <1>8. q \in CallRecord /\ q.keys # <<>>
    <2>1. <<>> \in Seq(RuleSet)
      OBVIOUS
    <2>. QED
      BY <1>6, <1>7, <2>1 DEF CallRecord
  <1>9. q = [r EXCEPT !.at = "ready", !.keys = Tail(r.keys), !.list = <<>>]
    BY <1>1, <1>3, <1>5
  <1>. QED
    BY <1>6, <1>8, <1>9

LEMMA TypeInit == Init => TypeInv
  <1>1. SUFFICES ASSUME Init PROVE TypeInv
    OBVIOUS
  <1>2. published \in [Services -> Seq(RuleSet)]
    <2>1. PICK p \in [Services -> UNION {RuleLists[s] : s \in Services}] :
              (\A s \in Services : p[s] \in RuleLists[s]) /\ published = p
      BY <1>1 DEF Init
    <2>2. \A s \in Services : p[s] \in Seq(RuleSet)
      BY <2>1, PublishedType
    <2>. QED
      BY <2>1, <2>2
  <1>3. call \in [Callers -> CallRecord] /\ \A c \in Callers : call[c].at = "idle"
    BY <1>1, IdleType DEF Init
  <1>4. rules \in Seq(RuleSet) /\ now \in Nat /\ raced \in BOOLEAN
    <2>1. rules = <<>> /\ now = 0
      BY <1>1 DEF Init
    <2>2. raced \in BOOLEAN
      BY <1>1 DEF Init
    <2>. QED
      BY <2>1, <2>2
  <1>5. DOMAIN states = {} /\ states \in [DOMAIN states -> Seq(Machine)]
    BY <1>1 DEF Init
  <1>6. trail \in [Keys -> Seq(BOOLEAN)]
    <2>1. <<>> \in Seq(BOOLEAN)
      OBVIOUS
    <2>. QED
      BY <1>1, <2>1 DEF Init
  <1>. QED
    BY <1>2, <1>3, <1>4, <1>5, <1>6 DEF TypeInv

LEMMA CheckedType ==
  ASSUME NEW s \in Seq(Machine)
  PROVE  /\ Checked(s) \in Seq(Machine) /\ DOMAIN Checked(s) = DOMAIN s
         /\ \A i \in DOMAIN s : Checked(s)[i] \in {s[i], Refreshed(s[i])}
  <1>1. \A i \in DOMAIN s : s[i] \in Machine /\ Refreshed(s[i]) \in Machine
    BY RefreshedType
  <1>2. DOMAIN Checked(s) = 1..Len(s) /\ DOMAIN s = 1..Len(s) /\ Len(s) \in Nat
    BY DEF Checked
  <1>3. \A i \in DOMAIN s : Checked(s)[i] \in {s[i], Refreshed(s[i])}
    BY DEF Checked
  <1>4. \A i \in 1..Len(s) : Checked(s)[i] \in Machine
    BY <1>1, <1>2, <1>3
  <1>5. Checked(s) = [i \in 1..Len(s) |-> Checked(s)[i]]
    BY <1>2 DEF Checked
  <1>. QED
    BY <1>2, <1>3, <1>4, <1>5

\* A report makes the machines of a resource, or finds them.
LEMMA StatesForType ==
  ASSUME TypeInv, NEW c \in Callers, At(c, "recording")
  PROVE  /\ Key(c) \in Keys /\ StatesFor(c) \in Seq(Machine)
         /\ Key(c) \notin DOMAIN states =>
               /\ DOMAIN StatesFor(c) = DOMAIN call[c].list
               /\ \A i \in DOMAIN call[c].list : StatesFor(c)[i] = NewState(call[c].list[i])
  <1>1. call[c] \in CallRecord /\ call[c].keys # <<>>
    BY DEF TypeInv, At
  <1>2. Key(c) \in Keys
    BY <1>1 DEF Key, CallRecord
  <1>3. call[c].list \in Seq(RuleSet)
    BY <1>1 DEF CallRecord
  <1>4. \A r \in RuleSet : NewState(r) \in Machine
    BY BreakerAssumption DEF NewState, State, Machine
  <1>5. [i \in DOMAIN call[c].list |-> NewState(call[c].list[i])] \in Seq(Machine)
    BY <1>3, <1>4
  <1>. QED
    BY <1>2, <1>3, <1>5 DEF StatesFor, TypeInv

LEMMA TypeStep == TypeInv /\ [Next]_vars => TypeInv'
  <1>1. SUFFICES ASSUME TypeInv, [Next]_vars PROVE TypeInv'
    OBVIOUS
  <1>2. \A c \in Callers : call[c] \in CallRecord /\ call[c].list \in Seq(RuleSet)
    BY <1>1 DEF TypeInv, CallRecord
  <1>3. ASSUME NEW c \in Callers, Return(c)
        PROVE  call' \in [Callers -> CallRecord] /\ \A d \in Callers : call'[d].at # "idle" => call'[d].keys # <<>>
    BY <1>1, <1>3, IdleType, CallStage DEF Return
  <1>4. ASSUME NEW c \in Callers, NEW to \in {"loading", "loaded", "clearing", "ready", "recording"},
               ~At(c, "idle"), Goto(c, to)
        PROVE  call' \in [Callers -> CallRecord] /\ \A d \in Callers : call'[d].at # "idle" => call'[d].keys # <<>>
    <2>1. PICK r : r = [call[c] EXCEPT !.at = to]
      OBVIOUS
    <2>2. r \in CallRecord /\ r.keys = call[c].keys
      BY <2>1, <1>2 DEF CallRecord
    <2>3. call' = [call EXCEPT ![c] = r] /\ r.keys # <<>>
      BY <1>1, <1>4, <2>1, <2>2 DEF Goto, TypeInv, At
    <2>. QED
      BY <1>1, <2>2, <2>3, CallStage
  <1>5. ASSUME NEW c \in Callers, NEW j \in Jobs, NEW failed \in BOOLEAN, Begin(c, j, failed)
        PROVE  TypeInv'
    <2>1. PICK r : r = [at |-> IF j.refresh = "none" THEN "ready" ELSE "loading", kind |-> j.kind,
                        refresh |-> j.refresh, keys |-> j.keys, failed |-> failed, list |-> <<>>]
      OBVIOUS
    <2>2. j \in Job /\ j.keys # <<>>
      BY BreakerAssumption
    <2>3. r \in CallRecord /\ r.keys # <<>>
      <3>1. <<>> \in Seq(RuleSet)
        OBVIOUS
      <3>. QED
        BY <2>1, <2>2, <3>1 DEF CallRecord, Job
    <2>4. call' = [call EXCEPT ![c] = r] /\ UNCHANGED <<published, rules, states, trail, raced, now>>
      BY <1>5, <2>1 DEF Begin, plugin
    <2>5. call' \in [Callers -> CallRecord] /\ \A d \in Callers : call'[d].at # "idle" => call'[d].keys # <<>>
      BY <1>1, <2>3, <2>4, CallStage
    <2>. QED
      BY <1>1, <2>4, <2>5 DEF TypeInv
  <1>6. ASSUME NEW c \in Callers, Load(c) \/ Snapshot(c)
        PROVE  TypeInv'
    <2>1. PICK to \in {"loaded", "recording"}, l \in Seq(RuleSet) :
              call' = [call EXCEPT ![c] = [@ EXCEPT !.at = to, !.list = l]]
      <3>1. call[c].keys # <<>> /\ Head(call[c].keys) \in Keys
        BY <1>1, <1>2, <1>6 DEF Load, Snapshot, At, TypeInv, CallRecord
      <3>2. published[Callee(c)] \in Seq(RuleSet)
        BY <1>1, <3>1, BreakerAssumption DEF Callee, Key, TypeInv
      <3>3. Applicable(rules, Key(c)) \in Seq(RuleSet)
        BY <1>1, ApplicableRules DEF TypeInv
      <3>. QED
        BY <1>6, <3>2, <3>3 DEF Load, Snapshot
    <2>2. PICK r : r = [call[c] EXCEPT !.at = to, !.list = l]
      OBVIOUS
    <2>3. r \in CallRecord /\ r.keys = call[c].keys
      <3>1. to \in {"idle", "loading", "loaded", "clearing", "ready", "recording"}
        OBVIOUS
      <3>2. call[c] \in CallRecord
        BY <1>2
      <3>3. r \in CallRecord /\ r = [at |-> to, kind |-> call[c].kind, refresh |-> call[c].refresh,
                                    keys |-> call[c].keys, failed |-> call[c].failed, list |-> l]
        <4>1. PICK p : p = [call[c] EXCEPT !.at = to]
          OBVIOUS
        <4>2. p = [at |-> to, kind |-> call[c].kind, refresh |-> call[c].refresh,
                   keys |-> call[c].keys, failed |-> call[c].failed, list |-> call[c].list]
          BY <3>2, <4>1 DEF CallRecord
        <4>3. r = [p EXCEPT !.list = l]
          BY <2>2, <4>1
        <4>4. r = [at |-> to, kind |-> call[c].kind, refresh |-> call[c].refresh,
                   keys |-> call[c].keys, failed |-> call[c].failed, list |-> l]
          BY <4>2, <4>3
        <4>. QED
          BY <3>1, <3>2, <4>4 DEF CallRecord
      <3>. QED
        BY <3>3
    <2>4. call' = [call EXCEPT ![c] = r]
      BY <1>1, <2>1, <2>2 DEF TypeInv
    <2>5. call[c].keys # <<>>
      BY <1>1, <1>6 DEF Load, Snapshot, At, TypeInv
    <2>6. call' \in [Callers -> CallRecord] /\ \A d \in Callers : call'[d].at # "idle" => call'[d].keys # <<>>
      BY <1>1, <2>3, <2>4, <2>5, CallStage
    <2>7. UNCHANGED <<published, rules, states, trail, raced, now>>
      BY <1>6 DEF Load, Snapshot, plugin
    <2>. QED
      BY <1>1, <2>6, <2>7 DEF TypeInv
  <1>7. ASSUME NEW c \in Callers, LoadFails(c)
        PROVE  TypeInv'
    <2>1. ~At(c, "idle") /\ (Goto(c, "ready") \/ Return(c)) /\ UNCHANGED <<published, rules, states, trail, raced, now>>
      BY <1>7 DEF LoadFails, At, plugin
    <2>2. call' \in [Callers -> CallRecord] /\ \A d \in Callers : call'[d].at # "idle" => call'[d].keys # <<>>
      BY <2>1, <1>3, <1>4
    <2>. QED
      BY <1>1, <2>1, <2>2 DEF TypeInv
  <1>8. ASSUME NEW c \in Callers, Install(c)
        PROVE  TypeInv'
    <2>1. PICK to \in {"ready", "clearing"} : Goto(c, to)
      BY <1>8 DEF Install
    <2>2. call' \in [Callers -> CallRecord] /\ \A d \in Callers : call'[d].at # "idle" => call'[d].keys # <<>>
      BY <2>1, <1>4, <1>8 DEF Install, At
    <2>3. rules' \in Seq(RuleSet)
      BY <1>2, <1>8 DEF Install
    <2>4. UNCHANGED <<published, states, trail, now>> /\ raced' \in BOOLEAN
      BY <1>8 DEF Install
    <2>. QED
      BY <1>1, <2>2, <2>3, <2>4 DEF TypeInv
  <1>9. ASSUME NEW c \in Callers, Clear(c)
        PROVE  TypeInv'
    <2>1. call' \in [Callers -> CallRecord] /\ \A d \in Callers : call'[d].at # "idle" => call'[d].keys # <<>>
      BY <1>4, <1>9 DEF Clear, At
    <2>2. DOMAIN states' = {} /\ states' \in [{} -> Seq(Machine)] /\ trail' \in [Keys -> Seq(BOOLEAN)]
      BY <1>9 DEF Clear
    <2>3. UNCHANGED <<published, rules, now, raced>>
      BY <1>9 DEF Clear
    <2>. QED
      BY <1>1, <2>1, <2>2, <2>3 DEF TypeInv
  <1>10. ASSUME NEW c \in Callers, Check(c)
         PROVE  TypeInv'
    <2>1. call' \in [Callers -> CallRecord] /\ \A d \in Callers : call'[d].at # "idle" => call'[d].keys # <<>>
      BY <1>3, <1>10 DEF Check
    <2>2. \A k \in DOMAIN states : states[k] \in Seq(Machine) /\ Checked(states[k]) \in Seq(Machine)
      BY <1>1, CheckedType DEF TypeInv
    <2>3. DOMAIN states' = DOMAIN states /\ states' \in [DOMAIN states -> Seq(Machine)]
      BY <1>10, <2>2 DEF Check
    <2>4. UNCHANGED <<published, rules, trail, now, raced>>
      BY <1>10 DEF Check
    <2>. QED
      BY <1>1, <2>1, <2>3, <2>4 DEF TypeInv
  <1>11. ASSUME NEW c \in Callers, Record(c)
         PROVE  TypeInv'
    <2>1. At(c, "recording") /\ call[c].keys # <<>> /\ call[c].failed \in BOOLEAN
      BY <1>1, <1>2, <1>11 DEF Record, At, TypeInv, CallRecord
    <2>2. PICK k, s : k = Key(c) /\ s = StatesFor(c)
      OBVIOUS
    <2>3. k \in Keys /\ s \in Seq(Machine)
      BY <1>1, <2>1, <2>2, StatesForType
    <2>4. [i \in DOMAIN s |-> Reported(s[i], call[c].failed)] \in Seq(Machine)
      <3>1. \A i \in DOMAIN s : Reported(s[i], call[c].failed) \in Machine
        BY <1>1, <2>1, <2>3, ReportedType DEF TypeInv
      <3>. QED
        BY <2>3, <3>1
    <2>5. states' = [m \in DOMAIN states \cup {k} |->
              IF m = k THEN [i \in DOMAIN s |-> Reported(s[i], call[c].failed)] ELSE states[m]]
      BY <1>11, <2>2 DEF Record
    <2>6. DOMAIN states' \subseteq Keys /\ states' \in [DOMAIN states' -> Seq(Machine)]
      BY <1>1, <2>3, <2>4, <2>5 DEF TypeInv
    <2>7. trail' \in [Keys -> Seq(BOOLEAN)]
      BY <1>1, <1>11, <2>1, <2>2, <2>3 DEF Record, TypeInv
    <2>8. call' \in [Callers -> CallRecord] /\ \A d \in Callers : call'[d].at # "idle" => call'[d].keys # <<>>
      <3>1. CASE Return(c)
        BY <1>3, <3>1
      <3>2. CASE ~Return(c)
        <4>1. PICK r : r = [call[c] EXCEPT !.at = "ready", !.keys = Tail(call[c].keys), !.list = <<>>]
          OBVIOUS
        <4>2. Len(call[c].keys) # 1 /\ call' = [call EXCEPT ![c] = r]
          <5>1. Len(call[c].keys) # 1 /\ call' = [call EXCEPT ![c] =
                    [@ EXCEPT !.at = "ready", !.keys = Tail(call[c].keys), !.list = <<>>]]
            BY <1>11, <3>2 DEF Record
          <5>2. call \in [Callers -> CallRecord]
            BY <1>1 DEF TypeInv
          <5>. QED
            BY <4>1, <5>1, <5>2, Zenon
        <4>3. r \in CallRecord /\ r.keys # <<>>
          BY <1>2, <2>1, <4>1, <4>2, NextKey
        <4>. QED
          BY <1>1, <4>2, <4>3, CallStage
      <3>. QED
        BY <3>1, <3>2
    <2>9. UNCHANGED <<published, rules, now, raced>>
      BY <1>11 DEF Record
    <2>. QED
      BY <1>1, <2>6, <2>7, <2>8, <2>9 DEF TypeInv
  <1>12. ASSUME NEW s \in Services, NEW l \in RuleLists[s], Publish(s, l)
         PROVE  TypeInv'
    <2>1. l \in Seq(RuleSet)
      BY PublishedType
    <2>2. published' \in [Services -> Seq(RuleSet)]
      BY <1>1, <1>12, <2>1 DEF Publish, TypeInv
    <2>. QED
      BY <1>1, <1>12, <2>2 DEF Publish, plugin, TypeInv
  <1>13. CASE Tick
    BY <1>1, <1>13 DEF Tick, plugin, TypeInv
  <1>14. CASE UNCHANGED vars
    BY <1>1, <1>14 DEF vars, TypeInv
  <1>. QED
    BY <1>1, <1>5, <1>6, <1>7, <1>8, <1>9, <1>10, <1>11, <1>12, <1>13, <1>14 DEF Next, Step

\* Every step of the calls, the control plane and the clock keeps the types of
\* the plugin's state: what it keeps of a resource are machines of rules that
\* were published.
THEOREM TypeCorrect == Spec => []TypeInv
  BY TypeInit, TypeStep, PTL DEF Spec

-----------------------------------------------------------------------------
(* Machines and what was reported                                          *)

\* A report of f on k, whose machines were s.
Reports(c, k, f, s) ==
    /\ k = Key(c) /\ f = call[c].failed /\ s = StatesFor(c)
    /\ Len(trail[k]) < MaxReports
    /\ DOMAIN states' = DOMAIN states \cup {k}
    /\ \A m \in DOMAIN states \ {k} : states'[m] = states[m]
    /\ DOMAIN states'[k] = DOMAIN s
    /\ \A i \in DOMAIN s : states'[k][i] = Reported(s[i], f)
    /\ trail'[k] = Append(trail[k], f)
    /\ \A m \in Keys \ {k} : trail'[m] = trail[m]
    /\ k \in DOMAIN states => s = states[k]
    /\ k \notin DOMAIN states => DOMAIN s = DOMAIN call[c].list
                                /\ \A i \in DOMAIN s : s[i] = NewState(call[c].list[i])

LEMMA RecordReports ==
  ASSUME TypeInv, NEW c \in Callers, Record(c)
  PROVE  \E k \in Keys, f \in BOOLEAN, s \in Seq(Machine) : Reports(c, k, f, s)
  <1>1. At(c, "recording") /\ call[c].failed \in BOOLEAN /\ trail \in [Keys -> Seq(BOOLEAN)]
    BY DEF Record, TypeInv, CallRecord
  <1>2. PICK k, f, s : k = Key(c) /\ f = call[c].failed /\ s = StatesFor(c)
    OBVIOUS
  <1>3. k \in Keys /\ f \in BOOLEAN /\ s \in Seq(Machine)
    BY <1>1, <1>2, StatesForType
  <1>4. states' = [m \in DOMAIN states \cup {k} |->
            IF m = k THEN [i \in DOMAIN s |-> Reported(s[i], f)] ELSE states[m]]
    BY <1>2 DEF Record
  <1>5. trail' = [trail EXCEPT ![k] = Append(@, f)] /\ Len(trail[k]) < MaxReports
    BY <1>2 DEF Record
  <1>6. k \in DOMAIN states => s = states[k]
    BY <1>2 DEF StatesFor
  <1>7. k \notin DOMAIN states => DOMAIN s = DOMAIN call[c].list
                                /\ \A i \in DOMAIN s : s[i] = NewState(call[c].list[i])
    BY <1>1, <1>2, StatesForType
  <1>8. trail'[k] = Append(trail[k], f) /\ \A m \in Keys \ {k} : trail'[m] = trail[m]
    BY <1>1, <1>3, <1>5
  <1>9. /\ DOMAIN states' = DOMAIN states \cup {k}
        /\ \A m \in DOMAIN states \ {k} : states'[m] = states[m]
        /\ DOMAIN states'[k] = DOMAIN s
        /\ \A i \in DOMAIN s : states'[k][i] = Reported(s[i], f)
    BY <1>4
  <1>. QED
    BY <1>2, <1>3, <1>5, <1>6, <1>7, <1>8, <1>9 DEF Reports

\* Only a check, a report and a clear touch the machines.
LEMMA MachineSteps ==
  ASSUME TypeInv, [Next]_vars
  PROVE  \/ UNCHANGED <<states, trail>>
         \/ DOMAIN states' = {} /\ \A k \in Keys : trail'[k] = <<>>
         \/ UNCHANGED trail /\ DOMAIN states' = DOMAIN states /\ \A k \in DOMAIN states :
               /\ DOMAIN states'[k] = DOMAIN states[k]
               /\ \A i \in DOMAIN states[k] : states'[k][i] \in {states[k][i], Refreshed(states[k][i])}
         \/ \E c \in Callers : Record(c) /\ \E k \in Keys, f \in BOOLEAN, s \in Seq(Machine) : Reports(c, k, f, s)
  <1>1. ASSUME NEW c \in Callers, Step(c), ~Check(c), ~Clear(c), ~Record(c)
        PROVE  UNCHANGED <<states, trail>>
    BY <1>1 DEF Step, Begin, Load, LoadFails, Install, Snapshot, plugin
  <1>2. ASSUME NEW c \in Callers, Check(c)
        PROVE  UNCHANGED trail /\ DOMAIN states' = DOMAIN states /\ \A k \in DOMAIN states :
               /\ DOMAIN states'[k] = DOMAIN states[k]
               /\ \A i \in DOMAIN states[k] : states'[k][i] \in {states[k][i], Refreshed(states[k][i])}
    <2>1. \A k \in DOMAIN states : states[k] \in Seq(Machine)
      BY DEF TypeInv
    <2>2. \A k \in DOMAIN states : states'[k] \in {states[k], Checked(states[k])}
      BY <1>2 DEF Check
    <2>. QED
      BY <1>2, <2>1, <2>2, CheckedType DEF Check
  <1>3. ASSUME NEW c \in Callers, Clear(c)
        PROVE  DOMAIN states' = {} /\ \A k \in Keys : trail'[k] = <<>>
    BY <1>3 DEF Clear
  <1>4. ASSUME NEW s \in Services, NEW l \in RuleLists[s], Publish(s, l)
        PROVE  UNCHANGED <<states, trail>>
    BY <1>4 DEF Publish, plugin
  <1>5. Tick \/ UNCHANGED vars => UNCHANGED <<states, trail>>
    BY DEF Tick, plugin, vars
  <1>. QED
    BY <1>1, <1>2, <1>3, <1>4, <1>5, RecordReports DEF Next, Step

\* The inductive invariant: a resource without machines has had no reports.
ToldInv ==
    /\ \A k \in Keys \ DOMAIN states : trail[k] = <<>>
    /\ \A k \in DOMAIN states : \A i \in DOMAIN states[k] : Told(states[k][i], trail[k])

LEMMA ToldStep == TypeInv /\ ToldInv /\ [Next]_vars => ToldInv'
  <1>1. SUFFICES ASSUME TypeInv, ToldInv, [Next]_vars PROVE ToldInv'
    OBVIOUS
  <1>2. /\ DOMAIN states \subseteq Keys /\ trail \in [Keys -> Seq(BOOLEAN)]
        /\ \A k \in DOMAIN states : states[k] \in Seq(Machine)
        /\ \A k \in Keys : trail[k] \in Seq(BOOLEAN)
        /\ now \in Nat
    BY <1>1 DEF TypeInv
  <1>3. \A k \in DOMAIN states : \A i \in DOMAIN states[k] : states[k][i] \in Machine
    BY <1>2
  <1>4. CASE UNCHANGED <<states, trail>>
    BY <1>1, <1>4, ZenonT(30) DEF ToldInv, Told, ShouldOpen, Recover
  <1>5. CASE DOMAIN states' = {} /\ \A k \in Keys : trail'[k] = <<>>
    BY <1>5 DEF ToldInv
  <1>6. CASE UNCHANGED trail /\ DOMAIN states' = DOMAIN states /\ \A k \in DOMAIN states :
               /\ DOMAIN states'[k] = DOMAIN states[k]
               /\ \A i \in DOMAIN states[k] : states'[k][i] \in {states[k][i], Refreshed(states[k][i])}
    <2>1. ASSUME NEW k \in DOMAIN states, NEW i \in DOMAIN states[k]
          PROVE  Told(states'[k][i], trail[k])
      <3>1. Told(states[k][i], trail[k]) /\ Told(Refreshed(states[k][i]), trail[k])
        BY <1>1, <1>2, <1>3, RefreshedTold DEF ToldInv
      <3>. QED
        BY <1>6, <3>1
    <2>. QED
      BY <1>1, <1>6, <2>1 DEF ToldInv
  <1>7. ASSUME NEW c \in Callers, NEW k \in Keys, NEW f \in BOOLEAN, NEW s \in Seq(Machine), Reports(c, k, f, s)
        PROVE  ToldInv'
    <2>1. \A i \in DOMAIN s : s[i] \in Machine /\ Told(s[i], trail[k])
      <3>1. CASE k \in DOMAIN states
        BY <1>1, <1>3, <1>7, <3>1 DEF Reports, ToldInv
      <3>2. CASE k \notin DOMAIN states
        <4>1. trail[k] = <<>>
          BY <1>1, <3>2 DEF ToldInv
        <4>2. ASSUME NEW i \in DOMAIN s
              PROVE  s[i] \in Machine /\ s[i].status = "Close" /\ s[i].errors = 0 /\ s[i].requests = 0
          BY <1>7, <3>2 DEF Reports, NewState, State
        <4>. QED
          BY <1>2, <4>1, <4>2, FreshTold
      <3>. QED
        BY <3>1, <3>2
    <2>2. \A i \in DOMAIN s : Told(Reported(s[i], f), Append(trail[k], f))
      BY <1>2, <1>7, <2>1, ReportedTold DEF Reports
    <2>3. \A i \in DOMAIN states'[k] : Told(states'[k][i], trail'[k])
      BY <1>7, <2>2 DEF Reports
    <2>4. ASSUME NEW m \in DOMAIN states \ {k}
          PROVE  \A i \in DOMAIN states'[m] : Told(states'[m][i], trail'[m])
      BY <1>1, <1>2, <1>7, <2>4 DEF Reports, ToldInv
    <2>5. \A m \in Keys \ DOMAIN states' : trail'[m] = <<>>
      BY <1>1, <1>7 DEF Reports, ToldInv
    <2>6. DOMAIN states' = DOMAIN states \cup {k}
      BY <1>7 DEF Reports
    <2>. QED
      BY <2>3, <2>4, <2>5, <2>6 DEF ToldInv
  <1>. QED
    BY <1>1, <1>4, <1>5, <1>6, <1>7, MachineSteps

\* The counters of a state machine tell the truth about what was reported on
\* its resource, whoever reported, checked and refreshed in between; of the
\* failures at the end none is forgotten as long as there are not so many
\* reports that a u32 wraps.
THEOREM CountersTrue ==
  ASSUME MaxReports <= U32Max
  PROVE  Spec => []CountersMatchTrail
  <1>1. Init => ToldInv
    BY DEF Init, ToldInv
  <1>2. TypeInv /\ ToldInv => CountersMatchTrail
    BY DEF TypeInv, ToldInv, Told, EndsWith, CountersMatchTrail, LastAre
  <1>. QED
    BY <1>1, <1>2, TypeInit, TypeStep, ToldStep, PTL DEF Spec

-----------------------------------------------------------------------------
(* Transitions                                                             *)

Slept(x) == x.rule.recover.present /\ now - x.opened_at >= x.rule.recover.sleep

\* What TransitionsAreEarned says of a machine that was x and is y, after t.
Earned(x, y, t) ==
    /\ x.status = "Close" /\ y.status = "Open" =>
          \E g \in x.rule.triggers : g.errors > 0 /\ EndsWith(t, g.errors, TRUE) /\ Len(t) >= g.minimum
    /\ x.status = "HalfOpen" /\ y.status = "Open" => EndsWith(t, 1, TRUE)
    /\ x.status = "HalfOpen" /\ y.status = "Close" => EndsWith(t, Recover(y), FALSE)
    /\ x.status = "Open" /\ y.status = "HalfOpen" => Slept(x)
    /\ x.status = "Open" /\ y.status = "Close" => Slept(x) /\ EndsWith(t, 1, FALSE)
    /\ ~(x.status = "Close" /\ y.status = "HalfOpen")

LEMMA RefreshedEarned ==
  ASSUME NEW x \in Machine, NEW t
  PROVE  Earned(x, x, t) /\ Earned(x, Refreshed(x), t)
  <1>1. Refreshed(x) # x => Cooled(x) /\ Refreshed(x).status = "HalfOpen"
    BY DEF Refreshed, HalfOpened, State
  <1>2. Earned(x, x, t)
    BY DEF Earned
  <1>3. CASE Refreshed(x) # x
    <2>1. PICK y : y = Refreshed(x)
      OBVIOUS
    <2>2. y.status = "HalfOpen" /\ x.status = "Open" /\ Slept(x)
      BY <1>1, <1>3, <2>1 DEF Cooled, Slept
    <2>3. Earned(x, y, t)
      BY <2>2 DEF Earned
    <2>. QED
      BY <1>2, <2>1, <2>3
  <1>. QED
    BY <1>2, <1>3

\* A machine that tries closes when it has seen enough.
LEMMA TriedBecomes ==
  ASSUME NEW x \in Machine, x.status = "HalfOpen"
  PROVE  \/ Tried(x).status = "HalfOpen"
         \/ Tried(x).status = "Close" /\ x.successes + 1 >= Recover(x)
  <1> DEFINE y == State(x.rule, x.status, x.opened_at, x.errors, x.successes + 1, x.requests)
  <1>1. y.successes = x.successes + 1 /\ y.status = "HalfOpen" /\ Closed(y).status = "Close"
    BY DEF State, Closed
  <1>. HIDE DEF y
  <1>2. Tried(x) = IF y.successes >= Recover(x) THEN Closed(y) ELSE y
    BY DEF Tried, y
  <1>. QED
    BY <1>1, <1>2

LEMMA CountedEarned ==
  ASSUME NEW x \in Machine, x.status = "Close", now \in Nat, NEW f \in BOOLEAN,
         NEW t \in Seq(BOOLEAN), Told(x, t)
  PROVE  Earned(x, Counted(x, f), Append(t, f))
  <1> DEFINE u == Append(t, f)
             e == IF f THEN Increment(x.errors) ELSE 0
             y == State(x.rule, x.status, x.opened_at, e, x.successes, Increment(x.requests))
  <1>1. u \in Seq(BOOLEAN) /\ Len(u) = Len(t) + 1 /\ x.errors \in 0..U32Max /\ x.requests \in 0..U32Max
        /\ U32Max \in Nat
    BY BreakerAssumption DEF Machine
  <1>2. y.status = "Close" /\ y.errors = e /\ y.requests = Increment(x.requests) /\ y.rule = x.rule
    BY DEF State
  <1>3. CASE ShouldOpen(y)
    <2>1. PICK g \in x.rule.triggers : Trips(g, Increment(x.requests), e)
      BY <1>2, <1>3 DEF ShouldOpen
    <2>2. g.errors \in Nat /\ g.minimum \in Nat
      BY RuleType DEF Machine
    <2>3. g.errors > 0 /\ e >= g.errors /\ Increment(x.requests) >= g.minimum
      BY <2>1 DEF Trips
    <2>4. f = TRUE /\ x.errors < U32Max /\ e = x.errors + 1
      BY <1>1, <2>2, <2>3, Increments
    <2>5. EndsWith(u, x.errors + 1, TRUE)
      <3>1. EndsWith(t, x.errors, TRUE)
        BY DEF Told
      <3>2. EndsWith(Append(t, TRUE), x.errors + 1, TRUE)
        <4>1. x.errors \in Nat
          BY <1>1
        <4>. QED
          BY <3>1, <4>1, EndsLonger
      <3>. QED
        BY <2>4, <3>2
    <2>6. EndsWith(u, g.errors, TRUE)
      <3>1. g.errors \in 0..(x.errors + 1) /\ x.errors + 1 \in Nat
        BY <1>1, <2>2, <2>3, <2>4
      <3>. QED
        BY <1>1, <2>5, <3>1, EndsShorter
    <2>7. Len(u) >= g.minimum
      BY <1>1, <2>2, <2>3, Increments DEF Told
    <2>8. Counted(x, f).status = "Open"
      <3>1. Counted(x, f) = Opened(y)
        BY <1>3 DEF Counted
      <3>. QED
        BY <3>1 DEF Opened, State
    <2>. QED
      BY <2>3, <2>6, <2>7, <2>8 DEF Earned
  <1>4. CASE ~ShouldOpen(y)
    <2>1. Counted(x, f).status = "Close"
      <3>1. Counted(x, f) = y
        BY <1>4 DEF Counted
      <3>. QED
        BY <1>2, <3>1
    <2>. QED
      BY <2>1 DEF Earned
  <1>. QED
    BY <1>3, <1>4

LEMMA ReportedEarned ==
  ASSUME NEW x \in Machine, now \in Nat, NEW f \in BOOLEAN,
         NEW t \in Seq(BOOLEAN), Told(x, t)
  PROVE  Earned(x, Reported(x, f), Append(t, f))
  <1> DEFINE u == Append(t, f)
  <1>1. PICK y \in Machine : y = Refreshed(x) /\ y.rule = x.rule
    BY RefreshedType
  <1>2. PICK z \in Machine : z = Reported(x, f) /\ z.rule = x.rule
    BY ReportedType
  <1>3. x.status \in {"Open", "HalfOpen", "Close"} /\ Len(u) = Len(t) + 1 /\ u \in Seq(BOOLEAN)
    BY DEF Machine
  <1>4. EndsWith(u, 1, f)
    <2>1. EndsWith(u, 0 + 1, f)
      BY EndsEmpty, EndsLonger
    <2>2. 0 + 1 = 1
      OBVIOUS
    <2>. QED
      BY <2>1, <2>2, Zenon
  <1>5. Recover(z) = Recover(x) /\ Recover(y) = Recover(x) /\ Recover(x) \in Nat \ {0}
    BY <1>1, <1>2, RecoverType DEF Recover
  <1>6. CASE x.status = "Close"
    <2>1. y = x
      BY <1>1, <1>6 DEF Refreshed, Cooled
    <2>2. z = Counted(x, f)
      BY <1>1, <1>2, <1>6, <2>1 DEF Reported
    <2>. QED
      BY <1>2, <1>6, <2>2, CountedEarned
  <1>7. CASE x.status = "HalfOpen"
    <2>1. y = x
      BY <1>1, <1>7 DEF Refreshed, Cooled
    <2>2. CASE f
      <3>1. z = Opened(x)
        BY <1>1, <1>2, <1>7, <2>1, <2>2 DEF Reported
      <3>2. z.status = "Open"
        BY <3>1 DEF Opened, State
      <3>3. EndsWith(u, 1, TRUE)
        BY <1>4, <2>2
      <3>4. Earned(x, z, u)
        BY <1>7, <3>2, <3>3 DEF Earned
      <3>. QED
        BY <1>2, <3>4
    <2>3. CASE ~f
      <3>1. z = Tried(x)
        BY <1>1, <1>2, <1>7, <2>1, <2>3 DEF Reported
      <3>2. EndsWith(u, x.successes + 1, FALSE) /\ x.successes + 1 \in Nat
        <4>1. EndsWith(t, x.successes, FALSE) /\ x.successes \in Nat
          BY <1>7 DEF Told, Machine
        <4>2. EndsWith(Append(t, FALSE), x.successes + 1, FALSE)
          BY <4>1, EndsLonger
        <4>3. f = FALSE
          BY <2>3
        <4>4. EndsWith(u, x.successes + 1, FALSE)
          BY <4>2, <4>3, Zenon
        <4>5. x.successes + 1 \in Nat
          BY <4>1
        <4>. QED
          BY <4>4, <4>5, Zenon
      <3>3. z.status = "Close" => EndsWith(u, Recover(z), FALSE)
        <4>1. ASSUME z.status = "Close"
              PROVE  Recover(x) \in 0..(x.successes + 1)
          BY <1>5, <1>7, <3>1, <3>2, <4>1, TriedBecomes
        <4>2. z.status = "Close" => EndsWith(u, Recover(x), FALSE)
          BY <1>3, <3>2, <4>1, EndsShorter
        <4>. QED
          BY <1>5, <4>2
      <3>4. z.status # "Open"
        BY <1>7, <3>1, TriedBecomes
      <3>5. Earned(x, z, u)
        BY <1>7, <3>3, <3>4 DEF Earned
      <3>. QED
        BY <1>2, <3>5
    <2>. QED
      BY <2>2, <2>3
  <1>8. CASE x.status = "Open"
    <2>1. CASE Cooled(x)
      <3>1. y.status = "HalfOpen" /\ Slept(x)
        BY <1>1, <2>1 DEF Refreshed, Cooled, HalfOpened, State, Slept
      <3>2. CASE f
        <4>1. z = Opened(y)
          BY <1>1, <1>2, <3>1, <3>2 DEF Reported
        <4>2. z.status = "Open"
          BY <4>1 DEF Opened, State
        <4>3. Earned(x, z, u)
          BY <1>8, <4>2 DEF Earned
        <4>. QED
          BY <1>2, <4>3
      <3>3. CASE ~f
        <4>1. EndsWith(u, 1, FALSE)
          <5>1. f = FALSE
            BY <3>3
          <5>. QED
            BY <1>4, <5>1
        <4>2. Earned(x, z, u)
          BY <1>8, <3>1, <4>1 DEF Earned
        <4>. QED
          BY <1>2, <4>2
      <3>. QED
        BY <3>2, <3>3
    <2>2. CASE ~Cooled(x)
      <3>1. z = x
        BY <1>1, <1>2, <1>8, <2>2 DEF Refreshed, Reported
      <3>2. Earned(x, z, u)
        BY <3>1 DEF Earned
      <3>. QED
        BY <1>2, <3>2
    <2>. QED
      BY <2>1, <2>2
  <1>. QED
    BY <1>3, <1>6, <1>7, <1>8

LEMMA EarnedStep ==
  ASSUME TypeInv, ToldInv, [Next]_vars,
         NEW k \in DOMAIN states \cap DOMAIN states', NEW i \in DOMAIN states[k]
  PROVE  Earned(states[k][i], states'[k][i], trail'[k])
  <1>1. /\ DOMAIN states \subseteq Keys /\ trail[k] \in Seq(BOOLEAN)
        /\ states[k][i] \in Machine /\ now \in Nat
        /\ Told(states[k][i], trail[k])
    BY DEF TypeInv, ToldInv
  <1>2. CASE UNCHANGED <<states, trail>>
    BY <1>1, <1>2, RefreshedEarned
  <1>3. CASE DOMAIN states' = {} /\ \A m \in Keys : trail'[m] = <<>>
    BY <1>3
  <1>4. CASE UNCHANGED trail /\ states'[k][i] \in {states[k][i], Refreshed(states[k][i])}
    <2>1. Earned(states[k][i], states[k][i], trail'[k]) /\ Earned(states[k][i], Refreshed(states[k][i]), trail'[k])
      BY <1>1, RefreshedEarned
    <2>. QED
      BY <1>4, <2>1
  <1>5. ASSUME NEW c \in Callers, NEW m \in Keys, NEW f \in BOOLEAN, NEW s \in Seq(Machine), Reports(c, m, f, s)
        PROVE  Earned(states[k][i], states'[k][i], trail'[k])
    <2>1. CASE k = m
      <3>1. s = states[k] /\ states'[k][i] = Reported(states[k][i], f) /\ trail'[k] = Append(trail[k], f)
        BY <1>5, <2>1 DEF Reports
      <3>. QED
        BY <1>1, <3>1, ReportedEarned
    <2>2. CASE k # m
      <3>1. states'[k][i] = states[k][i]
        BY <1>5, <2>2 DEF Reports
      <3>. QED
        BY <1>1, <3>1, RefreshedEarned
    <2>. QED
      BY <2>1, <2>2
  <1>. QED
    BY <1>2, <1>3, <1>4, <1>5, MachineSteps

\* A machine opens on enough failures in a row, or on one while it tries; it
\* tries after its sleep window only, and only enough successes close it:
\* whatever is checked, refreshed and reported of other resources meanwhile.
THEOREM TransitionsEarned == Spec => TransitionsAreEarned
  <1>1. Init => ToldInv
    BY DEF Init, ToldInv
  <1>2. ASSUME TypeInv, ToldInv, [Next]_vars,
               NEW k \in DOMAIN states \cap DOMAIN states', NEW i \in DOMAIN states[k]
        PROVE  TransitionEarned(k, i)
    BY <1>2, EarnedStep DEF TransitionEarned, Earned, EndsWith, LastAre, Slept
  <1>3. TypeInv /\ ToldInv /\ [Next]_vars =>
            [\A k \in DOMAIN states \cap DOMAIN states' : \A i \in DOMAIN states[k] : TransitionEarned(k, i)]_vars
    BY <1>2
  <1>. QED
    BY <1>1, <1>3, TypeInit, TypeStep, ToldStep, PTL DEF Spec, TransitionsAreEarned

-----------------------------------------------------------------------------
(* Machines and the rules in force                                         *)

\* Unless the rules changed before a report was recorded, reports have the
\* rules in force, and so have the machines until a call that has changed the
\* rules clears them.
FollowInv == ~raced =>
    /\ \A c \in Callers : At(c, "recording") => call[c].list = Applicable(rules, Key(c))
    /\ (\A c \in Callers : ~At(c, "clearing")) => \A k \in DOMAIN states :
           [i \in DOMAIN states[k] |-> states[k][i].rule] = Applicable(rules, k)

LEMMA FollowStep == TypeInv /\ FollowInv /\ [Next]_vars => FollowInv'
  <1>1. SUFFICES ASSUME TypeInv, FollowInv, [Next]_vars PROVE FollowInv'
    OBVIOUS
  <1>2. /\ call \in [Callers -> CallRecord] /\ DOMAIN states \subseteq Keys
        /\ \A k \in DOMAIN states : states[k] \in Seq(Machine)
    BY <1>1 DEF TypeInv
  \* A call that goes on elsewhere, and touches neither machines nor rules.
  <1>3. ASSUME NEW c \in Callers, UNCHANGED <<rules, states, raced>>, ~At(c, "clearing"), ~At(c, "clearing")',
               At(c, "recording")' => call'[c].list = Applicable(rules, Key(c)'),
               \A d \in Callers \ {c} : call'[d] = call[d]
        PROVE  FollowInv'
    <2>1. ASSUME NEW d \in Callers, ~raced, At(d, "recording")'
          PROVE  call'[d].list = Applicable(rules, Key(d)')
      BY <1>1, <1>3, <2>1 DEF FollowInv, At, Key
    <2>2. (\A d \in Callers : ~At(d, "clearing")') => \A d \in Callers : ~At(d, "clearing")
      BY <1>3 DEF At
    <2>. QED
      BY <1>1, <1>3, <2>1, <2>2 DEF FollowInv
  <1>4. ASSUME NEW c \in Callers, \/ (\E j \in Jobs, failed \in BOOLEAN : Begin(c, j, failed))
                                 \/ Load(c) \/ LoadFails(c)
        PROVE  FollowInv'
    <2>1. UNCHANGED <<rules, states, raced>> /\ call[c].at \in {"idle", "loading"}
      BY <1>4 DEF Begin, Load, LoadFails, plugin, At
    <2>2. call'[c].at \in {"ready", "loading", "loaded", "idle"} /\ \A d \in Callers \ {c} : call'[d] = call[d]
      <3>1. CASE \E j \in Jobs, failed \in BOOLEAN : Begin(c, j, failed)
        BY <1>2, <3>1 DEF Begin
      <3>2. CASE Load(c)
        <4>1. call' = [call EXCEPT ![c] = [call[c] EXCEPT !.at = "loaded", !.list = published[Callee(c)]]]
          BY <3>2 DEF Load
        <4>2. PICK p : p = [call[c] EXCEPT !.at = "loaded"]
          OBVIOUS
        <4>3. PICK r : r = [p EXCEPT !.list = published[Callee(c)]]
          OBVIOUS
        <4>4. r.at = "loaded"
          BY <1>2, <4>2, <4>3 DEF CallRecord
        <4>5. call' = [call EXCEPT ![c] = r]
          BY <4>1, <4>2, <4>3
        <4>. QED
          BY <1>2, <4>4, <4>5
      <3>3. CASE LoadFails(c)
        BY <1>2, <3>3, IdleType DEF LoadFails, Goto, Return, CallRecord
      <3>. QED
        BY <1>4, <3>1, <3>2, <3>3
    <2>. QED
      BY <2>1, <2>2, <1>3 DEF At
  <1>5. ASSUME NEW c \in Callers, Snapshot(c)
        PROVE  FollowInv'
    <2>1. PICK l : l = Applicable(rules, Key(c))
      OBVIOUS
    <2>2. call' = [call EXCEPT ![c] = [call[c] EXCEPT !.at = "recording", !.list = l]] /\ At(c, "ready")
          /\ UNCHANGED <<rules, states, raced>>
      BY <1>5, <2>1 DEF Snapshot, plugin
    <2>3. PICK p : p = [call[c] EXCEPT !.at = "recording"]
      OBVIOUS
    <2>4. PICK r : r = [p EXCEPT !.list = l]
      OBVIOUS
    <2>5. r.at = "recording" /\ r.list = l /\ r.keys = call[c].keys
      BY <1>2, <2>3, <2>4 DEF CallRecord
    <2>6. call' = [call EXCEPT ![c] = r]
      BY <2>2, <2>3, <2>4
    <2>7. call'[c] = r /\ \A d \in Callers \ {c} : call'[d] = call[d]
      BY <1>2, <2>6
    <2>. QED
      BY <2>1, <2>2, <2>5, <2>7, <1>3 DEF At, Key
  <1>6. ASSUME NEW c \in Callers, Check(c)
        PROVE  FollowInv'
    <2>1. UNCHANGED <<rules, raced>> /\ At(c, "ready") /\ Return(c)
      BY <1>6 DEF Check
    <2>2. call'[c].at = "idle" /\ \A d \in Callers \ {c} : call'[d] = call[d]
      BY <1>2, <2>1, IdleType DEF Return
    <2>3. \A d \in Callers : At(d, "recording")' => call'[d] = call[d] /\ At(d, "recording")
      BY <2>2 DEF At
    <2>4. (\A d \in Callers : ~At(d, "clearing")') => \A d \in Callers : ~At(d, "clearing")
      BY <2>1, <2>2 DEF At
    <2>5. DOMAIN states' = DOMAIN states /\ \A k \in DOMAIN states : states'[k] \in {states[k], Checked(states[k])}
      BY <1>6 DEF Check
    <2>6. \A k \in DOMAIN states : DOMAIN states'[k] = DOMAIN states[k]
                                  /\ \A i \in DOMAIN states[k] : states'[k][i].rule = states[k][i].rule
      BY <1>2, <2>5, CheckedType, RefreshedType, SMTT(30)
    <2>7. \A k \in DOMAIN states :
              [i \in DOMAIN states'[k] |-> states'[k][i].rule] = [i \in DOMAIN states[k] |-> states[k][i].rule]
      BY <2>6
    <2>. QED
      BY <1>1, <2>1, <2>3, <2>4, <2>5, <2>7 DEF FollowInv, Key
  <1>7. ASSUME NEW c \in Callers, Install(c)
        PROVE  FollowInv'
    <2>1. At(c, "loaded") /\ rules' = call[c].list /\ UNCHANGED states
          /\ raced' = (raced \/ (rules # call[c].list /\ \E d \in Callers : At(d, "recording")))
      BY <1>7 DEF Install
    <2>2. CASE rules = call[c].list
      <3>1. raced' = raced
        BY <1>1, <2>1, <2>2 DEF TypeInv
      <3>2. Goto(c, "ready")
        BY <1>7, <2>2 DEF Install
      <3>3. call'[c].at = "ready" /\ \A d \in Callers \ {c} : call'[d] = call[d]
        BY <1>2, <3>2 DEF Goto, CallRecord
      <3>. QED
        BY <2>1, <2>2, <3>1, <3>3, <1>3 DEF At
    <2>3. CASE rules # call[c].list
      <3>1. Goto(c, "clearing")
        BY <1>7, <2>3 DEF Install
      <3>2. call'[c].at = "clearing" /\ \A d \in Callers \ {c} : call'[d] = call[d]
        BY <1>2, <3>1 DEF Goto, CallRecord
      <3>3. ~raced' => \A d \in Callers : ~At(d, "recording")
        BY <2>1, <2>3
      <3>4. ~raced' => \A d \in Callers : ~At(d, "recording")'
        BY <3>2, <3>3 DEF At
      <3>. QED
        BY <3>2, <3>4 DEF FollowInv, At
    <2>. QED
      BY <2>2, <2>3
  <1>8. ASSUME NEW c \in Callers, Clear(c)
        PROVE  FollowInv'
    <2>1. Goto(c, "ready") /\ UNCHANGED <<rules, raced>> /\ DOMAIN states' = {}
      BY <1>8 DEF Clear
    <2>2. call'[c].at = "ready" /\ \A d \in Callers \ {c} : call'[d] = call[d]
      BY <1>2, <2>1 DEF Goto, CallRecord
    <2>3. \A d \in Callers : At(d, "recording")' => call'[d] = call[d] /\ At(d, "recording")
      BY <2>2 DEF At
    <2>. QED
      BY <1>1, <2>1, <2>3 DEF FollowInv, Key
  <1>9. ASSUME NEW c \in Callers, Record(c)
        PROVE  FollowInv'
    <2>1. PICK k \in Keys, f \in BOOLEAN, s \in Seq(Machine) : Reports(c, k, f, s)
      BY <1>1, <1>9, RecordReports
    <2>2. At(c, "recording") /\ UNCHANGED <<rules, raced>> /\ k = Key(c)
      BY <1>9, <2>1 DEF Record, Reports
    <2>3. call'[c].at \in {"idle", "ready"} /\ \A d \in Callers \ {c} : call'[d] = call[d]
      <3>1. CASE Return(c)
        BY <1>2, <3>1, IdleType DEF Return
      <3>2. CASE ~Return(c)
        <4>1. call' = [call EXCEPT ![c] = [call[c] EXCEPT !.at = "ready", !.keys = Tail(call[c].keys), !.list = <<>>]]
              /\ Len(call[c].keys) # 1 /\ call[c].keys # <<>> /\ call[c] \in CallRecord
          BY <1>1, <1>9, <2>2, <3>2 DEF Record, TypeInv, At
        <4>2. PICK r : r = [call[c] EXCEPT !.at = "ready", !.keys = Tail(call[c].keys), !.list = <<>>]
          OBVIOUS
        <4>3. call' = [call EXCEPT ![c] = r]
          BY <4>1, <4>2, Zenon
        <4>4. r.at = "ready"
          BY <4>1, <4>2, NextKey
        <4>. QED
          BY <1>2, <4>3, <4>4
      <3>. QED
        BY <3>1, <3>2
    <2>4. \A d \in Callers : At(d, "recording")' => call'[d] = call[d] /\ At(d, "recording")
      BY <2>3 DEF At
    <2>5. (\A d \in Callers : ~At(d, "clearing")') => \A d \in Callers : ~At(d, "clearing")
      BY <2>2, <2>3 DEF At
    <2>6. ASSUME ~raced, \A d \in Callers : ~At(d, "clearing")
          PROVE  \A m \in DOMAIN states' : [i \in DOMAIN states'[m] |-> states'[m][i].rule] = Applicable(rules, m)
      <3>1. \A m \in DOMAIN states : [i \in DOMAIN states[m] |-> states[m][i].rule] = Applicable(rules, m)
        BY <1>1, <2>6 DEF FollowInv
      <3>2. [i \in DOMAIN s |-> s[i].rule] = Applicable(rules, k)
        <4>1. CASE k \in DOMAIN states
          BY <2>1, <3>1, <4>1 DEF Reports
        <4>2. CASE k \notin DOMAIN states
          <5>1. call[c].list = Applicable(rules, k)
            BY <1>1, <2>2, <2>6 DEF FollowInv
          <5>2. PICK l \in Seq(RuleSet) : l = call[c].list
            BY <1>2 DEF CallRecord
          <5>3. DOMAIN s = DOMAIN l /\ \A i \in DOMAIN s : s[i].rule = l[i]
            BY <2>1, <4>2, <5>2 DEF Reports, NewState, State
          <5>4. [i \in DOMAIN s |-> s[i].rule] = l
            BY <5>2, <5>3
          <5>. QED
            BY <5>1, <5>2, <5>4
        <4>. QED
          BY <4>1, <4>2
      <3>3. \A i \in DOMAIN s : s[i] \in Machine /\ Reported(s[i], f).rule = s[i].rule
        BY <1>1, ReportedType DEF TypeInv
      <3>4. [i \in DOMAIN states'[k] |-> states'[k][i].rule] = [i \in DOMAIN s |-> s[i].rule]
        BY <2>1, <3>3 DEF Reports
      <3>5. \A m \in DOMAIN states \ {k} : states'[m] = states[m]
        BY <2>1 DEF Reports
      <3>6. DOMAIN states' = DOMAIN states \cup {k}
        BY <2>1 DEF Reports
      <3>. QED
        BY <3>1, <3>2, <3>4, <3>5, <3>6
    <2>7. raced' = raced /\ rules' = rules
      BY <2>2
    <2>. QED
      BY <1>1, <2>4, <2>5, <2>6, <2>7 DEF FollowInv, Key
  <1>10. ASSUME UNCHANGED <<rules, states, raced, call>>
         PROVE  FollowInv'
    BY <1>1, <1>10 DEF FollowInv, At, Key
  <1>11. ASSUME \/ \E s \in Services : \E l \in RuleLists[s] : Publish(s, l)
                \/ Tick \/ UNCHANGED vars
         PROVE  FollowInv'
    BY <1>10, <1>11 DEF Publish, Tick, plugin, vars
  <1>. QED
    BY <1>1, <1>4, <1>5, <1>6, <1>7, <1>8, <1>9, <1>11 DEF Next, Step

\* When no call is under way, the machines of a resource are those of the
\* rules in force that apply to it, each and in their order, unless the rules
\* changed between the snapshot of a report and its record.
THEOREM StatesFollow == Spec => []StatesFollowRules
  <1>1. Init => FollowInv
    BY IdleType DEF Init, FollowInv, At
  <1>2. FollowInv => StatesFollowRules
    BY DEF FollowInv, StatesFollowRules, At
  <1>. QED
    BY <1>1, <1>2, TypeInit, TypeStep, FollowStep, PTL DEF Spec
=============================================================================
