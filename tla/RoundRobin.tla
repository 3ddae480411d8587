----------------------------- MODULE RoundRobin -----------------------------
(***************************************************************************)
(* WeightedRoundRobinBalancer (plugins/loadbalance/roundrobin): smooth      *)
(* weighted round robin under concurrent calls.                            *)
(*                                                                         *)
(* Every instance has a record with its current weight.  A call brings the *)
(* records up to date with its list of instances under the write lock of   *)
(* the cache; then, under the read lock and so at the same time as others, *)
(* it raises the current weight of each instance of the list in turn by    *)
(* the weight of its record, chooses the greatest it has seen, and lowers  *)
(* the current weight of the chosen one by the total of the list.          *)
(*                                                                         *)
(* The cache is a map by service, but the instances the resource cache     *)
(* returns carry no name of their service (core/model/cache.rs:638-656):   *)
(* every call of the client uses the entry of the empty name, and the      *)
(* records of all services are in it, by the id of the instance.           *)
(***************************************************************************)
EXTENDS Integers, FiniteSets, SequencesExt

CONSTANTS
    Choosers,     \* the concurrent calls of choose_instance
    Nodes,        \* ids of instances
    Offers,       \* the lists of instances they choose from, see IsList
    Expiry,       \* 60: is_expire is true of a record idle for longer
    MaxCalls,     \* bound of the model: calls
    MaxTime       \* bound of the model: seconds

VARIABLES
    robins,   \* the records, by id: cur_weight, weight, last_fetch
    turn,     \* what each caller is doing, see NotChoosing
    now,
    owed,     \* history: the sum of an instance's weights in the calls completed
    taken,    \* history: the sum of the totals of the calls that chose it
    turns,    \* history: calls started
    reset     \* history: a weight changed under a record in use

robinVars == <<robins, turn, now, owed, taken, turns, reset>>

\* An instance of a list: its id and weight.
IsList(l) ==
    /\ l \in Seq([id : Nodes, weight : Nat])
    /\ \A m, n \in DOMAIN l : l[m].id = l[n].id => m = n

ASSUME RoundRobinAssumption ==
    /\ IsFiniteSet(Choosers)
    /\ \A l \in Offers : IsList(l)
    /\ Expiry \in Nat /\ MaxCalls \in Nat /\ MaxTime \in Nat

\* get_total_weight
Total(l) == FoldLeft(LAMBDA sum, x : sum + x.weight, 0, l)

\* A record that was just made.
NewRobin(weight) == [cur |-> 0, weight |-> weight, fetched |-> now]

\* A caller in no call.  next: the index it raises next; best: the index it
\* would choose, 0 for none; most: the current weight it saw there.
NotChoosing == [at |-> "idle", list |-> <<>>, next |-> 1, best |-> 0, most |-> 0]

RobinInit ==
    /\ robins = <<>>
    /\ turn = [c \in Choosers |-> NotChoosing]
    /\ now = 0
    /\ owed = [i \in Nodes |-> 0]
    /\ taken = [i \in Nodes |-> 0]
    /\ turns = 0
    /\ reset = FALSE

-----------------------------------------------------------------------------
(* The locks of the cache                                                  *)

Known == DOMAIN robins
Doing(c, label) == turn[c].at = label

\* Mutant: the write lock is kept while the read lock is asked for.
Stuck_Upgrading == \E c \in Choosers : Doing(c, "stuck") \/ Doing(c, "enter")

\* A caller that is stuck holds the write lock for ever.
Stuck == \E c \in Choosers : Doing(c, "stuck")
Readers == {c \in Choosers : turn[c].at \in {"raise", "lower"}}

-----------------------------------------------------------------------------
(* choose_instance                                                         *)

\* Nothing to choose from: an error, and nothing changes.
Refused(l) == l = <<>> \/ Total(l) = 0

Start(c, l) ==
    /\ Doing(c, "idle")
    /\ turns < MaxCalls
    /\ ~Refused(l)
    /\ turn' = [turn EXCEPT ![c] = [NotChoosing EXCEPT !.at = "refresh", !.list = l]]
    /\ turns' = turns + 1
    /\ UNCHANGED <<robins, now, owed, taken, reset>>

\* is_expire
Expired(r) == now - r.fetched > Expiry

\* The record after a caller has looked at it with this weight.
Reweighed(r, weight) == IF r.weight = weight THEN r ELSE [r EXCEPT !.cur = 0, !.weight = weight]
Updated(x) == IF x.id \in Known THEN Reweighed(robins[x.id], x.weight) ELSE NewRobin(x.weight)

Position(l, i) == CHOOSE n \in DOMAIN l : l[n].id = i
IdsOf(l) == {l[n].id : n \in DOMAIN l}

\* The records when the instances of l have been looked at.
UpdatedRobins(l) ==
    [i \in Known \cup IdsOf(l) |-> IF i \in IdsOf(l) THEN Updated(l[Position(l, i)]) ELSE robins[i]]

\* Some record of l in use has another weight.
Disturbs(l) == \E n \in DOMAIN l : l[n].id \in Known /\ robins[l[n].id].weight # l[n].weight

ExpiredIn(l) == {n \in DOMAIN l : l[n].id \in Known /\ Expired(robins[l[n].id])}

\* The write lock is taken when nobody holds either lock.
Exclusive == Readers = {} /\ ~Stuck

Refresh(c) ==
    LET l == turn[c].list
    IN  /\ Doing(c, "refresh")
        /\ Exclusive
        /\ ExpiredIn(l) = {}
        /\ robins' = UpdatedRobins(l)
        /\ reset' = (reset \/ Disturbs(l))
        /\ turn' = [turn EXCEPT ![c].at = "enter"]
        /\ UNCHANGED <<now, owed, taken, turns>>

\* At the first expired record the caller asks for the lock of the records
\* that it already holds: it never returns, and never gives up the cache.
FindExpired(c) ==
    LET l == turn[c].list
        seen == SubSeq(l, 1, Min(ExpiredIn(l)) - 1)
    IN  /\ Doing(c, "refresh")
        /\ Exclusive
        /\ ExpiredIn(l) # {}
        /\ robins' = UpdatedRobins(seen)
        /\ reset' = (reset \/ Disturbs(seen))
        /\ turn' = [turn EXCEPT ![c].at = "stuck"]
        /\ UNCHANGED <<now, owed, taken, turns>>

\* The lock is taken again, for reading: others may have been here meanwhile.
Enter(c) ==
    /\ Doing(c, "enter")
    /\ ~Stuck
    /\ turn' = [turn EXCEPT ![c].at = "raise"]
    /\ UNCHANGED <<robins, now, owed, taken, turns, reset>>

\* Strictly greater: the first of equals is chosen.
Better(c, weight) == turn[c].best = 0 \/ weight > turn[c].most

Raise(c) ==
    LET n == turn[c].next
        i == turn[c].list[n].id
        raised == robins[i].cur + robins[i].weight
        last == n = Len(turn[c].list)
    IN  /\ Doing(c, "raise")
        /\ robins' = [robins EXCEPT ![i].cur = raised, ![i].fetched = now]
        /\ turn' = [turn EXCEPT
             ![c].at = IF last THEN "lower" ELSE "raise",
             ![c].next = n + 1,
             ![c].best = IF Better(c, raised) THEN n ELSE @,
             ![c].most = IF Better(c, raised) THEN raised ELSE @]
        /\ UNCHANGED <<now, owed, taken, turns, reset>>

Chosen(c) == turn[c].list[turn[c].best].id

\* Mutant: only the weight of the chosen one is taken back.
Cost_OwnWeight(c) == turn[c].list[turn[c].best].weight

Cost(c) == Total(turn[c].list)

Lower(c) ==
    /\ Doing(c, "lower")
    /\ robins' = [robins EXCEPT ![Chosen(c)].cur = @ - Cost(c)]
    /\ owed' = [i \in Nodes |-> owed[i] +
         IF i \in IdsOf(turn[c].list) THEN turn[c].list[Position(turn[c].list, i)].weight ELSE 0]
    /\ taken' = [taken EXCEPT ![Chosen(c)] = @ + Total(turn[c].list)]
    /\ turn' = [turn EXCEPT ![c] = NotChoosing]
    /\ UNCHANGED <<now, turns, reset>>

Tick ==
    /\ now < MaxTime
    /\ now' = now + 1
    /\ UNCHANGED <<robins, turn, owed, taken, turns, reset>>

-----------------------------------------------------------------------------
Proceed(c) == Refresh(c) \/ FindExpired(c) \/ Enter(c) \/ Raise(c) \/ Lower(c)

RobinNext ==
    \/ \E c \in Choosers : (\E l \in Offers : Start(c, l)) \/ Proceed(c)
    \/ Tick

RobinSpec == RobinInit /\ [][RobinNext]_robinVars

\* The threads of the callers run.
FairRobinSpec == RobinSpec /\ \A c \in Choosers : WF_robinVars(Proceed(c))

-----------------------------------------------------------------------------
AtRest == \A c \in Choosers : Doing(c, "idle")

(***************************************************************************)
(* RobinTypeOK.  The indices of a caller are those of its list, and every  *)
(* record it will ask for is there: get(&ins.id).unwrap() cannot fail.     *)
(***************************************************************************)
Entered == {"enter", "raise", "lower"}

RobinTypeOK ==
    /\ DOMAIN robins \subseteq Nodes
    /\ \A i \in Known : robins[i].cur \in Int /\ robins[i].weight \in Nat /\ robins[i].fetched \in 0..now
    /\ \A c \in Choosers :
         /\ turn[c].at \in Entered \cup {"idle", "refresh", "stuck"}
         /\ turn[c].list \in Offers \cup {<<>>}
         /\ turn[c].next \in Nat \ {0} /\ turn[c].best \in Nat
         /\ turn[c].best < turn[c].next
         /\ Doing(c, "raise") => turn[c].next \in DOMAIN turn[c].list
         /\ Doing(c, "lower") => turn[c].best \in DOMAIN turn[c].list
         /\ turn[c].at \in Entered => IdsOf(turn[c].list) \subseteq Known

(***************************************************************************)
(* What callers raise beyond what they have paid for is all the current    *)
(* weights add up to: whatever the interleaving, no turn is lost or made   *)
(* up, until a weight changes under a record (reset starts it from zero    *)
(* and leaves the others as they are).                                     *)
(***************************************************************************)
RaisedSoFar(c) == IF c \in Readers THEN Total(SubSeq(turn[c].list, 1, turn[c].next - 1)) ELSE 0

Conserved ==
    ~reset => SumFunction([i \in Known |-> robins[i].cur])
                = SumFunction([c \in Choosers |-> RaisedSoFar(c)])

(***************************************************************************)
(* The share of an instance follows its weight: when no call is under way, *)
(* the instance is away from its share by less than one choice for every   *)
(* concurrent caller.  (One caller at a time gets exact turns, as the      *)
(* tests say, and two do not: three calls of which two overlap may choose  *)
(* the instance of weight 1 of 3 twice.)  The bound is for lists like those*)
(* of MCRoundRobin, which meet in one instance or in all.  It does not hold*)
(* for every set of lists, because all services share the records: with    *)
(* {a, b}, {c, d} and {b, d}, of equal weights, one caller is enough for d *)
(* to be two choices ahead.                                                *)
(***************************************************************************)
Distance(i) == IF owed[i] < taken[i] THEN taken[i] - owed[i] ELSE owed[i] - taken[i]

FairShare ==
    AtRest /\ ~reset =>
        \A i \in Nodes : Distance(i) < Cardinality(Choosers) * Max({Total(l) : l \in Offers})

(***************************************************************************)
(* Turns are fair: concurrent calls neither lose one nor make one up, and  *)
(* every instance gets its share of them.                                  *)
(***************************************************************************)
TurnsAreFair == Conserved /\ FairShare

(***************************************************************************)
(* Every call returns, unless some caller has met a record that nobody     *)
(* used for longer than the expiry: all calls after that one wait for ever.*)
(***************************************************************************)
Waits(c) == ~Doing(c, "idle") /\ (\A d \in Choosers : ~Doing(d, "stuck"))

CallsReturnWhileInUse == \A c \in Choosers : Waits(c) ~> ~Waits(c)

(***************************************************************************)
(* A record that was not used for longer than the expiry is taken for      *)
(* expired and made anew (roundrobin.rs:194, the comment at is_expire):    *)
(* the call that finds it returns like any other.                          *)
(***************************************************************************)
ExpiryIsHarmless == \A c \in Choosers : ~Doing(c, "idle") ~> Doing(c, "idle")
=============================================================================
