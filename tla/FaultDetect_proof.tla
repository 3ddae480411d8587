-------------------------- MODULE FaultDetect_proof --------------------------
(***************************************************************************)
(* Proofs about FaultDetect, for any services, rules, instances and number *)
(* of accesses: what loops are left when reloads have ended, however many   *)
(* overlapped, and that the circuit breaker hears of a service only from   *)
(* the instances of a list that is of it.                                  *)
(***************************************************************************)
EXTENDS FaultDetect, TLAPS

Fields == {"at", "of", "strict", "rules", "list", "plans", "targets"}
Labels == {"idle", "plans", "listing", "inserting", "told", "copying", "pairing", "stopping", "starting"}

\* What the cache may have given for a service.
PlanSets(s) == {{}} \cup {BuildPlans(RulesAt[s][v]) : v \in DOMAIN RulesAt[s]}
ListAt(s, v) == {j \in InstancesAt[s][v] : j.available}
Lists(s) == {{}} \cup {ListAt(s, v) : v \in DOMAIN InstancesAt[s]}

\* A list that has instances says whose they are.
OwnList(s, l) == l.list \in Lists(s) /\ (l.list # {} => l.service = Naming[s])

PlansOwn(m) == m = [s \in Services |-> m[s]] /\ \A s \in Services : m[s].plans \in PlanSets(s)
ListsOwn(m) == m = [s \in Services |-> m[s]] /\ \A s \in Services : OwnList(s, m[s])

\* A plan of a service with an instance of it, for the service the list names.
OwnTarget(t) ==
    \E s \in Services :
        /\ \E ps \in PlanSets(s), is \in Lists(s) : t.plan \in ps /\ t.instance \in is
        /\ t.plan.service = Naming[s]

WorkerOK(w) ==
    /\ DOMAIN w = Fields /\ w.at \in Labels
    /\ w.at \in {"plans", "listing", "inserting", "told"} => w.of \in Services
    /\ w.at \in {"plans", "told"} => w.rules \in DOMAIN RulesAt[w.of]
    /\ w.at = "inserting" => OwnList(w.of, w.list)
    /\ w.at = "pairing" => PlansOwn(w.plans)
    /\ w.at \in {"stopping", "starting"} => \A t \in w.targets : OwnTarget(t)

CacheOK ==
    /\ cached \in [Services -> [rules : Nat, instances : Nat]]
    /\ \A s \in Services : cached[s].rules <= Len(RulesAt[s]) /\ cached[s].instances <= Len(InstancesAt[s])
MapsOK == PlansOwn(plans) /\ ListsOwn(instances)
LoopsOK == \A l \in running :
    l = [by |-> l.by, target |-> l.target] /\ (l.by # "user" => OwnTarget(l.target))
WorkersOK == worker = [p \in Workers |-> worker[p]] /\ \A p \in Workers : WorkerOK(worker[p])

TypeInv == CacheOK /\ MapsOK /\ LoopsOK /\ WorkersOK /\ lone \in BOOLEAN /\ stopped \in BOOLEAN

\* Only p makes a step.
Moves(p) == worker' = [q \in Workers |-> worker'[q]] /\ \A q \in Workers : q # p => worker'[q] = worker[q]

-----------------------------------------------------------------------------
(* The operators of the model                                              *)

\* Plans are paired with instances of their service, whatever the instances say,
\* and only if they say they are of the service of the plan.
LEMMA TargetsAreOwn ==
  ASSUME NEW ps, NEW is, PlansOwn(ps), ListsOwn(is), NEW t \in TargetsOf(ps, is)
  PROVE  OwnTarget(t)
  <1>1. PICK s \in Services : t \in Targets(s, ps[s].plans, is[s].list) /\ t.plan.service = is[s].service
    BY DEF TargetsOf
  <1>2. PICK p \in ps[s].plans, i \in is[s].list : t = [of |-> s, plan |-> p, instance |-> i]
    BY <1>1 DEF Targets
  <1>3. ps[s].plans \in PlanSets(s) /\ is[s].list \in Lists(s) /\ is[s].service = Naming[s]
    BY <1>2 DEF PlansOwn, ListsOwn, OwnList
  <1>. QED
    BY <1>1, <1>2, <1>3 DEF OwnTarget

LEMMA Versions ==
  ASSUME NEW s \in Services
  PROVE  /\ Len(RulesAt[s]) \in Nat /\ DOMAIN RulesAt[s] = 1 .. Len(RulesAt[s])
         /\ Len(InstancesAt[s]) \in Nat /\ DOMAIN InstancesAt[s] = 1 .. Len(InstancesAt[s])
  BY FaultAssumption

LEMMA GivenPlans ==
  ASSUME NEW s \in Services, NEW v \in {0} \cup DOMAIN RulesAt[s]
  PROVE  PlansOf(s, v).plans \in PlanSets(s)
  BY DEF PlansOf, PlanSets, Absent

LEMMA GivenLists ==
  ASSUME NEW s \in Services, NEW v \in {0} \cup DOMAIN InstancesAt[s]
  PROVE  OwnList(s, ListOf(s, v))
  BY DEF ListOf, Lists, ListAt, OwnList, Absent

LEMMA NoneGiven ==
  ASSUME NEW s \in Services
  PROVE  Absent.plans \in PlanSets(s) /\ OwnList(s, Absent)
  BY DEF Absent, PlanSets, Lists, OwnList

LEMMA WorkerKept ==
  ASSUME WorkersOK, NEW p \in Workers, Moves(p), WorkerOK(worker'[p])
  PROVE  WorkersOK'
  BY DEF WorkersOK, Moves

-----------------------------------------------------------------------------
(* Types                                                                   *)

LEMMA TypeInit == Init => TypeInv
  <1> SUFFICES ASSUME Init PROVE TypeInv
    OBVIOUS
  <1>1. CacheOK
    <2>1. \A s \in Services : cached[s] = [rules |-> 0, instances |-> 0]
      BY DEF Init
    <2>2. cached \in [Services -> [rules : Nat, instances : Nat]]
      BY DEF Init
    <2>. QED
      BY <2>1, <2>2, Versions DEF CacheOK
  <1>2. MapsOK
    BY NoneGiven DEF Init, MapsOK, PlansOwn, ListsOwn
  <1>3. LoopsOK
    BY DEF Init, LoopsOK
  <1>4. WorkersOK
    <2>1. WorkerOK(Idle)
      BY DEF WorkerOK, Idle, Labels, Fields
    <2>. QED
      BY <2>1 DEF Init, WorkersOK
  <1>. QED
    BY <1>1, <1>2, <1>3, <1>4 DEF Init, TypeInv

LEMMA TypeStep == TypeInv /\ [Next]_vars => TypeInv'
  <1> SUFFICES ASSUME TypeInv, [Next]_vars PROVE TypeInv'
    OBVIOUS
  <1>w. WorkersOK /\ CacheOK /\ MapsOK /\ LoopsOK /\ lone \in BOOLEAN /\ stopped \in BOOLEAN
    BY DEF TypeInv
  <1>i. WorkerOK(Idle)
    BY DEF WorkerOK, Idle, Labels, Fields
  <1>1. ASSUME NEW c \in Accessors, NEW s \in Services, NEW strict \in BOOLEAN, Access(c, s, strict)
        PROVE  TypeInv'
    <2> DEFINE v == cached[s].rules
    <2>1. c \in Workers /\ v \in Nat /\ v <= Len(RulesAt[s])
      BY <1>w DEF CacheOK, Workers
    <2>2. PICK w : w = [Idle EXCEPT !.at = IF v = 0 THEN "listing" ELSE "plans", !.of = s, !.strict = strict, !.rules = v]
      OBVIOUS
    <2>3. /\ w.at = (IF v = 0 THEN "listing" ELSE "plans") /\ w.of = s /\ w.rules = v /\ DOMAIN w = Fields
      BY <2>2 DEF Idle, Fields
    <2>4. WorkerOK(w)
      BY <2>1, <2>3, Versions DEF WorkerOK, Labels
    <2>5. worker' = [worker EXCEPT ![c] = w]
      BY <1>1, <2>2 DEF Access
    <2>6. Moves(c) /\ worker'[c] = w
      BY <1>w, <2>1, <2>5 DEF Moves, WorkersOK
    <2>7. WorkersOK'
      BY <1>w, <2>1, <2>4, <2>6, WorkerKept
    <2>8. lone' \in BOOLEAN /\ stopped' \in BOOLEAN
      BY <1>1, <1>w DEF Access, history
    <2>9. (CacheOK /\ MapsOK /\ LoopsOK)'
      BY <1>1, <1>w DEF Access, maps, CacheOK, MapsOK, LoopsOK
    <2>. QED
      BY <2>7, <2>8, <2>9 DEF TypeInv
  <1>2. ASSUME NEW c \in Accessors, InsertPlans(c)
        PROVE  TypeInv'
    <2> DEFINE s == worker[c].of
    <2>1. c \in Workers /\ s \in Services /\ worker[c].rules \in DOMAIN RulesAt[s]
      BY <1>2, <1>w DEF InsertPlans, At, WorkersOK, WorkerOK, Workers
    <2>2. PICK w : w = [Idle EXCEPT !.at = "listing", !.of = s]
      OBVIOUS
    <2>3. w.at = "listing" /\ w.of = s /\ DOMAIN w = Fields
      BY <2>2 DEF Idle, Fields
    <2>4. WorkerOK(w)
      BY <2>1, <2>3 DEF WorkerOK, Labels
    <2>5. worker' = [worker EXCEPT ![c] = w] \/ worker' = [worker EXCEPT ![c] = Idle]
      BY <1>2, <2>2 DEF InsertPlans, List, Finish
    <2>6. Moves(c) /\ worker'[c] \in {w, Idle}
      BY <1>w, <2>1, <2>5 DEF Moves, WorkersOK
    <2>7. WorkersOK'
      BY <1>w, <1>i, <2>1, <2>4, <2>6, WorkerKept
    <2>8. lone' \in BOOLEAN /\ stopped' \in BOOLEAN
      BY <1>2, <1>w DEF InsertPlans, MapsChange
    <2>9. (CacheOK /\ LoopsOK)'
      BY <1>2, <1>w DEF InsertPlans, CacheOK, LoopsOK
    <2>10. PlansOwn(plans)'
      <3>1. PlansOf(s, worker[c].rules).plans \in PlanSets(s)
        BY <2>1, GivenPlans
      <3>2. plans' = plans \/ plans' = [plans EXCEPT ![s] = PlansOf(s, worker[c].rules)]
        BY <1>2 DEF InsertPlans
      <3>. QED
        BY <1>w, <2>1, <3>1, <3>2 DEF MapsOK, PlansOwn
    <2>11. MapsOK'
      BY <1>2, <1>w, <2>10 DEF InsertPlans, MapsOK
    <2>. QED
      BY <2>7, <2>8, <2>9, <2>11 DEF TypeInv
  <1>3. ASSUME NEW p \in Workers, ListInstances(p)
        PROVE  TypeInv'
    <2> DEFINE s == worker[p].of
               l == ListOf(s, cached[s].instances)
    <2>1. s \in Services /\ DOMAIN worker[p] = Fields
      BY <1>3, <1>w DEF ListInstances, At, WorkersOK, WorkerOK
    <2>2. cached[s].instances \in {0} \cup DOMAIN InstancesAt[s]
      BY <1>w, <2>1, Versions DEF CacheOK
    <2>3. OwnList(s, l)
      BY <2>1, <2>2, GivenLists
    <2> HIDE DEF l
    <2>4. worker' = [worker EXCEPT ![p].at = "inserting", ![p].list = l]
      BY <1>3 DEF ListInstances, l
    <2>5. PICK w : w = [worker[p] EXCEPT !.at = "inserting", !.list = l]
      OBVIOUS
    <2>6. w.at = "inserting" /\ w.of = s /\ w.list = l /\ DOMAIN w = Fields
      BY <2>1, <2>5 DEF Fields
    <2>7. WorkerOK(w)
      BY <2>1, <2>3, <2>6 DEF WorkerOK, Labels
    <2>8. worker' = [worker EXCEPT ![p] = w]
      BY <1>w, <2>4, <2>5 DEF WorkersOK
    <2>9. Moves(p) /\ worker'[p] = w
      BY <1>w, <2>8 DEF Moves, WorkersOK
    <2>10. WorkersOK'
      BY <1>w, <2>7, <2>9, WorkerKept
    <2>11. (CacheOK /\ MapsOK /\ LoopsOK /\ lone \in BOOLEAN /\ stopped \in BOOLEAN)'
      BY <1>3, <1>w DEF ListInstances, maps, history, CacheOK, MapsOK, LoopsOK
    <2>. QED
      BY <2>10, <2>11 DEF TypeInv
  <1>4. ASSUME NEW p \in Workers, Forget(p, "copying")
        PROVE  WorkersOK'
    <2>1. PICK w : w = [Idle EXCEPT !.at = "copying"]
      OBVIOUS
    <2>2. w.at = "copying" /\ DOMAIN w = Fields
      BY <2>1 DEF Idle, Fields
    <2>3. WorkerOK(w)
      BY <2>2 DEF WorkerOK, Labels
    <2>4. Moves(p) /\ worker'[p] = w
      BY <1>4, <1>w, <2>1 DEF Moves, WorkersOK, Forget
    <2>. QED
      BY <1>w, <2>3, <2>4, WorkerKept
  <1>5. ASSUME NEW p \in Workers, InsertInstances(p)
        PROVE  TypeInv'
    <2>1. WorkersOK'
      BY <1>4, <1>5 DEF InsertInstances
    <2>2. worker[p].of \in Services /\ OwnList(worker[p].of, worker[p].list)
      BY <1>5, <1>w DEF InsertInstances, At, WorkersOK, WorkerOK
    <2>3. instances' = [instances EXCEPT ![worker[p].of] = worker[p].list]
      BY <1>5 DEF InsertInstances
    <2>4. ListsOwn(instances)'
      BY <1>w, <2>2, <2>3 DEF MapsOK, ListsOwn
    <2>5. (CacheOK /\ MapsOK /\ LoopsOK /\ lone \in BOOLEAN /\ stopped \in BOOLEAN)'
      BY <1>5, <1>w, <2>4 DEF InsertInstances, MapsChange, CacheOK, MapsOK, LoopsOK
    <2>. QED
      BY <2>1, <2>5 DEF TypeInv
  <1>6. ASSUME NEW s \in Services, NEW kind \in {"rules", "instances"}, Event(s, kind)
        PROVE  TypeInv'
    <2>1. Receiver \in Workers
      BY DEF Workers
    <2>2. CacheOK'
      <3>1. cached[s][kind] \in Nat /\ cached[s][kind] < Last(s, kind)
        BY <1>6, <1>w DEF Event, CacheOK
      <3>2. cached' = [cached EXCEPT ![s] = [cached[s] EXCEPT ![kind] = cached[s][kind] + 1]]
        BY <1>6 DEF Event
      <3>3. PICK n : n = [cached[s] EXCEPT ![kind] = cached[s][kind] + 1]
        OBVIOUS
      <3>4. n \in [rules : Nat, instances : Nat] /\ n.rules <= Len(RulesAt[s]) /\ n.instances <= Len(InstancesAt[s])
        <4>1. cached[s] \in [rules : Nat, instances : Nat] /\ cached[s].rules <= Len(RulesAt[s])
              /\ cached[s].instances <= Len(InstancesAt[s])
          BY <1>w DEF CacheOK
        <4>2. CASE kind = "rules"
          BY <3>1, <3>3, <4>1, <4>2, Versions DEF Last
        <4>3. CASE kind = "instances"
          BY <3>1, <3>3, <4>1, <4>3, Versions DEF Last
        <4>. QED
          BY <4>2, <4>3
      <3>5. cached' = [cached EXCEPT ![s] = n]
        BY <3>2, <3>3
      <3>. QED
        BY <1>w, <3>4, <3>5 DEF CacheOK
    <2>3. PICK w : w = [Idle EXCEPT !.at = IF kind = "rules" THEN "told" ELSE "listing", !.of = s,
                          !.rules = IF kind = "rules" THEN cached'[s].rules ELSE 0]
      OBVIOUS
    <2>4. /\ w.at = (IF kind = "rules" THEN "told" ELSE "listing") /\ w.of = s /\ DOMAIN w = Fields
          /\ w.rules = (IF kind = "rules" THEN cached'[s].rules ELSE 0)
      BY <2>3 DEF Idle, Fields
    <2>5. kind = "rules" => cached'[s].rules \in DOMAIN RulesAt[s]
      <3>1. cached[s][kind] \in Nat /\ cached' = [cached EXCEPT ![s][kind] = @ + 1] /\ cached[s] \in [rules : Nat, instances : Nat]
        BY <1>6, <1>w DEF Event, CacheOK
      <3>2. cached'[s][kind] = cached[s][kind] + 1
        BY <1>w, <3>1 DEF CacheOK
      <3>. QED
        BY <2>2, <3>1, <3>2, Versions DEF CacheOK
    <2>6. WorkerOK(w)
      BY <2>4, <2>5 DEF WorkerOK, Labels
    <2>7. worker' = [worker EXCEPT ![Receiver] = w]
      BY <1>6, <2>3 DEF Event
    <2>8. Moves(Receiver) /\ worker'[Receiver] = w
      BY <1>w, <2>1, <2>7 DEF Moves, WorkersOK
    <2>9. WorkersOK'
      BY <1>w, <2>1, <2>6, <2>8, WorkerKept
    <2>10. (MapsOK /\ LoopsOK /\ lone \in BOOLEAN /\ stopped \in BOOLEAN)'
      BY <1>6, <1>w DEF Event, history, maps, MapsOK, LoopsOK
    <2>. QED
      BY <2>2, <2>9, <2>10 DEF TypeInv
  <1>7. CASE TakeRules
    <2>1. Receiver \in Workers
      BY DEF Workers
    <2>2. WorkersOK'
      BY <1>4, <1>7, <2>1 DEF TakeRules
    <2> DEFINE s == worker[Receiver].of
    <2>3. s \in Services /\ worker[Receiver].rules \in DOMAIN RulesAt[s]
      BY <1>7, <1>w, <2>1 DEF TakeRules, At, WorkersOK, WorkerOK
    <2>4. PlansOf(s, worker[Receiver].rules).plans \in PlanSets(s)
      BY <2>3, GivenPlans
    <2>5. plans' = [plans EXCEPT ![s] = PlansOf(s, worker[Receiver].rules)]
      BY <1>7 DEF TakeRules
    <2>6. PlansOwn(plans)'
      BY <1>w, <2>3, <2>4, <2>5 DEF MapsOK, PlansOwn
    <2>7. (CacheOK /\ MapsOK /\ LoopsOK /\ lone \in BOOLEAN /\ stopped \in BOOLEAN)'
      BY <1>7, <1>w, <2>6 DEF TakeRules, MapsChange, CacheOK, MapsOK, LoopsOK
    <2>. QED
      BY <2>2, <2>7 DEF TypeInv
  <1>8. ASSUME NEW s \in Services, NEW kind \in {"rules", "instances"}, Removal(s, kind)
        PROVE  TypeInv'
    <2>1. WorkersOK'
      BY <1>4, <1>8 DEF Removal, Workers
    <2>2. CacheOK'
      <3>1. PICK n : n = [cached[s] EXCEPT ![kind] = 0]
        OBVIOUS
      <3>2. cached' = [cached EXCEPT ![s] = n]
        BY <1>8, <3>1 DEF Removal
      <3>3. cached[s] \in [rules : Nat, instances : Nat] /\ cached[s].rules <= Len(RulesAt[s])
            /\ cached[s].instances <= Len(InstancesAt[s])
        BY <1>w DEF CacheOK
      <3>4. n \in [rules : Nat, instances : Nat] /\ n.rules <= Len(RulesAt[s]) /\ n.instances <= Len(InstancesAt[s])
        <4>2. CASE kind = "rules"
          BY <3>1, <3>3, <4>2, Versions
        <4>3. CASE kind = "instances"
          BY <3>1, <3>3, <4>3, Versions
        <4>. QED
          BY <4>2, <4>3
      <3>. QED
        BY <1>w, <3>2, <3>4 DEF CacheOK
    <2>3. PlansOwn(plans)'
      <3>1. plans' = plans \/ plans' = [plans EXCEPT ![s] = Absent]
        BY <1>8 DEF Removal
      <3>. QED
        BY <1>w, <3>1, NoneGiven DEF MapsOK, PlansOwn
    <2>4. ListsOwn(instances)'
      <3>1. instances' = instances \/ instances' = [instances EXCEPT ![s] = Absent]
        BY <1>8 DEF Removal
      <3>. QED
        BY <1>w, <3>1, NoneGiven DEF MapsOK, ListsOwn
    <2>5. (LoopsOK /\ lone \in BOOLEAN /\ stopped \in BOOLEAN)'
      BY <1>8, <1>w DEF Removal, MapsChange, LoopsOK
    <2>. QED
      BY <2>1, <2>2, <2>3, <2>4, <2>5 DEF TypeInv, MapsOK
  <1>9. ASSUME NEW p \in Workers, CopyPlans(p)
        PROVE  TypeInv'
    <2>1. PICK w : w = [worker[p] EXCEPT !.at = "pairing", !.plans = plans]
      OBVIOUS
    <2>2. DOMAIN worker[p] = Fields
      BY <1>w DEF WorkersOK, WorkerOK
    <2>3. w.at = "pairing" /\ w.plans = plans /\ DOMAIN w = Fields
      BY <2>1, <2>2 DEF Fields
    <2>4. WorkerOK(w)
      BY <1>w, <2>3 DEF WorkerOK, Labels, MapsOK
    <2>5. worker' = [worker EXCEPT ![p] = w]
      BY <1>9, <1>w, <2>1 DEF CopyPlans, WorkersOK
    <2>6. Moves(p) /\ worker'[p] = w
      BY <1>w, <2>5 DEF Moves, WorkersOK
    <2>7. WorkersOK'
      BY <1>w, <2>4, <2>6, WorkerKept
    <2>8. (CacheOK /\ MapsOK /\ LoopsOK /\ lone \in BOOLEAN /\ stopped \in BOOLEAN)'
      BY <1>9, <1>w DEF CopyPlans, maps, CacheOK, MapsOK, LoopsOK
    <2>. QED
      BY <2>7, <2>8 DEF TypeInv
  <1>10. ASSUME NEW p \in Workers, CopyInstances(p)
         PROVE  TypeInv'
    <2>1. PICK ts : ts = TargetsOf(worker[p].plans, instances)
      OBVIOUS
    <2>2. PlansOwn(worker[p].plans) /\ ListsOwn(instances)
      BY <1>10, <1>w DEF CopyInstances, At, WorkersOK, WorkerOK, MapsOK
    <2>3. \A t \in ts : OwnTarget(t)
      BY <2>1, <2>2, TargetsAreOwn
    <2>4. PICK w : w = [Idle EXCEPT !.at = "stopping", !.targets = ts]
      OBVIOUS
    <2>5. w.at = "stopping" /\ w.targets = ts /\ DOMAIN w = Fields
      BY <2>4 DEF Idle, Fields
    <2>6. WorkerOK(w)
      BY <2>3, <2>5 DEF WorkerOK, Labels
    <2>7. worker' = [worker EXCEPT ![p] = w]
      BY <1>10, <2>1, <2>4 DEF CopyInstances
    <2>8. Moves(p) /\ worker'[p] = w
      BY <1>w, <2>7 DEF Moves, WorkersOK
    <2>9. WorkersOK'
      BY <1>w, <2>6, <2>8, WorkerKept
    <2>10. (CacheOK /\ MapsOK /\ LoopsOK /\ lone \in BOOLEAN /\ stopped \in BOOLEAN)'
      BY <1>10, <1>w DEF CopyInstances, maps, history, CacheOK, MapsOK, LoopsOK
    <2>. QED
      BY <2>9, <2>10 DEF TypeInv
  <1>11. ASSUME NEW p \in Workers, StopOld(p)
         PROVE  TypeInv'
    <2>1. PICK w : w = [worker[p] EXCEPT !.at = "starting"]
      OBVIOUS
    <2>2. DOMAIN worker[p] = Fields /\ \A t \in worker[p].targets : OwnTarget(t)
      BY <1>11, <1>w DEF StopOld, At, WorkersOK, WorkerOK
    <2>3. w.at = "starting" /\ w.targets = worker[p].targets /\ DOMAIN w = Fields
      BY <2>1, <2>2 DEF Fields
    <2>4. WorkerOK(w)
      BY <2>2, <2>3 DEF WorkerOK, Labels
    <2>5. worker' = [worker EXCEPT ![p] = w]
      BY <1>11, <1>w, <2>1 DEF StopOld, Goto, WorkersOK
    <2>6. Moves(p) /\ worker'[p] = w
      BY <1>w, <2>5 DEF Moves, WorkersOK
    <2>7. WorkersOK'
      BY <1>w, <2>4, <2>6, WorkerKept
    <2>8. (CacheOK /\ MapsOK /\ LoopsOK /\ lone \in BOOLEAN /\ stopped \in BOOLEAN)'
      BY <1>11, <1>w DEF StopOld, maps, history, CacheOK, MapsOK, LoopsOK
    <2>. QED
      BY <2>7, <2>8 DEF TypeInv
  <1>12. ASSUME NEW p \in Workers, StartNew(p)
         PROVE  TypeInv'
    <2>1. Moves(p) /\ worker'[p] = Idle
      BY <1>12, <1>w DEF StartNew, Finish, Moves, WorkersOK
    <2>2. WorkersOK'
      BY <1>w, <1>i, <2>1, WorkerKept
    <2>3. \A t \in worker[p].targets : OwnTarget(t)
      BY <1>12, <1>w DEF StartNew, At, WorkersOK, WorkerOK
    <2>4. LoopsOK'
      <3>1. \A l \in Loops(p, worker[p].targets) : l = [by |-> l.by, target |-> l.target] /\ OwnTarget(l.target)
        BY <2>3 DEF Loops
      <3>. QED
        BY <1>12, <1>w, <3>1 DEF StartNew, LoopsOK
    <2>5. (CacheOK /\ MapsOK /\ lone \in BOOLEAN /\ stopped \in BOOLEAN)'
      BY <1>12, <1>w DEF StartNew, maps, history, CacheOK, MapsOK
    <2>. QED
      BY <2>2, <2>4, <2>5 DEF TypeInv
  <1>13. CASE StopByHand
    BY <1>13, <1>w DEF StopByHand, maps, TypeInv, CacheOK, MapsOK, LoopsOK, WorkersOK
  <1>14. CASE StartByHand
    <2>1. \A l \in Loops("user", ByHand) : l.by = "user" /\ l = [by |-> l.by, target |-> l.target]
      BY DEF Loops
    <2>2. LoopsOK'
      BY <1>14, <1>w, <2>1 DEF StartByHand, LoopsOK
    <2>. QED
      BY <1>14, <1>w, <2>2 DEF StartByHand, maps, history, TypeInv, CacheOK, MapsOK, WorkersOK
  <1>15. CASE UNCHANGED vars
    BY <1>15, <1>w DEF vars, maps, history, TypeInv, CacheOK, MapsOK, LoopsOK, WorkersOK
  <1>. QED
    BY <1>1, <1>2, <1>3, <1>5, <1>6, <1>7, <1>8, <1>9, <1>10, <1>11, <1>12, <1>13, <1>14, <1>15 DEF Next, Reload

\* Every variable has its type; what is on its way is of one service: the
\* plans, instances and targets that a call carries, and the loops of reloads.
THEOREM TypeCorrect == Spec => []TypeInv
  BY TypeInit, TypeStep, PTL DEF Spec

-----------------------------------------------------------------------------
(* What the circuit breaker hears                                          *)

LEMMA PlansAreGiven ==
  ASSUME NEW s \in Services, NEW ps \in PlanSets(s), NEW plan \in ps
  PROVE  \E v \in DOMAIN RulesAt[s] : plan \in BuildPlans(RulesAt[s][v])
  BY DEF PlanSets

LEMMA InstancesAreGiven ==
  ASSUME NEW s \in Services, NEW is \in Lists(s), NEW i \in is
  PROVE  \E v \in DOMAIN InstancesAt[s] : i \in InstancesAt[s][v] /\ i.available
  BY DEF Lists, ListAt

\* What the breaker hears of a service comes from an available instance of a list
\* that says it is of that service, by a rule that came under the name of the list
\* (build_fault_detect_targets, fault_detect_result_to_resource_stat), whatever
\* reloads overlap and whichever service a list of instances names; a success is
\* one, and the time was up if it says so.
THEOREM ReportsTrue == Spec => []ReportsAreTrue
  <1>1. ASSUME TypeInv, NEW l \in Reloaded, NEW met \in Meets
        PROVE  LET report == Report(l.target.plan, met)
               IN  /\ \E s \in Services :
                        /\ \E v \in DOMAIN RulesAt[s] : l.target.plan \in BuildPlans(RulesAt[s][v])
                        /\ \E v \in DOMAIN InstancesAt[s] :
                              l.target.instance \in InstancesAt[s][v] /\ l.target.instance.available
                        /\ report.service = Naming[s]
                   /\ report.status = "RetSuccess" =>
                          met = "good" \/ (met = "bad" /\ l.target.plan.protocol # "http" /\ ~l.target.plan.expects)
                   /\ met = "late" => report.status = "RetTimeout"
    <2>1. OwnTarget(l.target)
      BY <1>1 DEF TypeInv, LoopsOK, Reloaded
    <2>2. PICK s \in Services :
             /\ \E ps \in PlanSets(s), is \in Lists(s) : l.target.plan \in ps /\ l.target.instance \in is
             /\ l.target.plan.service = Naming[s]
      BY <2>1 DEF OwnTarget
    <2>3. PICK ps \in PlanSets(s), is \in Lists(s) : l.target.plan \in ps /\ l.target.instance \in is
      BY <2>2
    <2>4. /\ \E v \in DOMAIN RulesAt[s] : l.target.plan \in BuildPlans(RulesAt[s][v])
          /\ \E v \in DOMAIN InstancesAt[s] : l.target.instance \in InstancesAt[s][v] /\ l.target.instance.available
      BY <2>3, PlansAreGiven, InstancesAreGiven
    <2>5. Report(l.target.plan, met).service = Naming[s]
      BY <2>2 DEF Report
    <2>6. LET status == Report(l.target.plan, met).status
          IN  /\ status = "RetSuccess" =>
                     met = "good" \/ (met = "bad" /\ l.target.plan.protocol # "http" /\ ~l.target.plan.expects)
              /\ met = "late" => status = "RetTimeout"
      BY DEF Report, StatOf, Success, SaysTimeout, Meets
    <2>. QED
      BY <2>4, <2>5, <2>6
  <1>2. TypeInv => ReportsAreTrue
    BY <1>1 DEF ReportsAreTrue
  <1>. QED
    BY TypeCorrect, <1>2, PTL

-----------------------------------------------------------------------------
(* The loops that reloads leave                                            *)

Stopping == \E p \in Workers : worker[p].at \in {"pairing", "stopping"}

\* What a reload carries was in the maps since the reloads under way began.
CarriesRecent ==
    /\ plans \in past.plans /\ instances \in past.instances
    /\ past = [plans |-> past.plans, instances |-> past.instances]
    /\ \A p \in Workers :
         /\ At(p, "pairing") => worker[p].plans \in past.plans
         /\ worker[p].at \in {"stopping", "starting"} =>
               \E ps \in past.plans, is \in past.instances : worker[p].targets = TargetsOf(ps, is)

\* Each reload under way stops what was there before it began.
OldIsGone == Stopping \/ Probed \subseteq Recent

\* When one has stopped the loops it starts its own.
NoneIsMissing ==
    past = MapsAre /\ ~stopped => (\E p \in Workers : Reloading(p)) \/ TargetsOf(plans, instances) \subseteq Probed

OneOfEach == lone =>
    /\ \A p, q \in Workers : Reloading(p) /\ Reloading(q) => p = q
    /\ \A p \in Workers : At(p, "starting") => Reloaded = {}
    /\ (\A p \in Workers : ~Reloading(p)) => \A l, m \in Reloaded : l.by = m.by

RecentInv == CarriesRecent /\ OldIsGone /\ NoneIsMissing /\ OneOfEach

LEMMA RecentInit == Init => RecentInv
  <1> SUFFICES ASSUME Init PROVE RecentInv
    OBVIOUS
  <1>1. \A p \in Workers : worker[p].at = "idle"
    BY DEF Init, Idle
  <1>2. TargetsOf(plans, instances) = {}
    BY DEF Init, TargetsOf, Targets, Absent
  <1>3. Reloaded = {} /\ Probed = {}
    BY DEF Init, Reloaded, Probed
  <1>. QED
    BY <1>1, <1>2, <1>3 DEF Init, MapsAre, RecentInv, CarriesRecent, OldIsGone, NoneIsMissing, OneOfEach, At, Reloading

\* A worker that has begun and not yet copied the maps, or that ends before: it
\* may change the maps.
LEMMA NotReloading ==
  ASSUME RecentInv, NEW p \in Workers, Moves(p), ~Reloading(p), ~Reloading(p)', UNCHANGED running,
         UNCHANGED <<maps, history>> \/ MapsChange
  PROVE  RecentInv'
  <1>1. \A q \in Workers : /\ Reloading(q)' <=> Reloading(q)
                           /\ Reloading(q) => worker'[q] = worker[q]
    <2>1. \A q \in Workers : q # p => worker'[q] = worker[q]
      BY DEF Moves
    <2>2. \A q \in Workers : q # p => (Reloading(q)' <=> Reloading(q))
      BY <2>1 DEF Reloading
    <2>. QED
      BY <2>1, <2>2
  <1>2. /\ plans' \in past'.plans /\ instances' \in past'.instances /\ lone' = lone /\ stopped' = stopped
        /\ past.plans \subseteq past'.plans /\ past.instances \subseteq past'.instances
        /\ past' = [plans |-> past'.plans, instances |-> past'.instances]
    BY DEF RecentInv, CarriesRecent, MapsChange, maps, history
  <1>3. Reloaded' = Reloaded /\ Probed' = Probed
    BY DEF Reloaded, Probed
  <1>4. \A q \in Workers : worker'[q].at \in {"pairing", "stopping", "starting"} => worker'[q] = worker[q]
    BY <1>1 DEF Reloading
  <1>5. CarriesRecent'
    BY <1>2, <1>4 DEF RecentInv, CarriesRecent, At
  <1>6. OldIsGone'
    <2>1. CASE Stopping
      <3>1. Stopping'
        BY <1>1, <2>1 DEF Stopping, Reloading
      <3>. QED
        BY <3>1 DEF OldIsGone
    <2>2. CASE Probed \subseteq Recent
      <3>1. Recent \subseteq Recent'
        BY <1>2 DEF Recent
      <3>. QED
        BY <1>3, <2>2, <3>1 DEF OldIsGone
    <2>. QED
      BY <2>1, <2>2 DEF RecentInv, OldIsGone
  <1>7. NoneIsMissing'
    <2>1. SUFFICES ASSUME past' = MapsAre', ~stopped'
                   PROVE  (\E q \in Workers : Reloading(q)') \/ TargetsOf(plans', instances') \subseteq Probed'
      BY DEF NoneIsMissing, TargetsOf
    <2>2. plans' = plans /\ instances' = instances /\ past = MapsAre
      <3>1. past'.plans = {plans'} /\ past'.instances = {instances'}
        BY <2>1 DEF MapsAre
      <3>2. plans \in past.plans /\ instances \in past.instances /\ past = [plans |-> past.plans, instances |-> past.instances]
        BY DEF RecentInv, CarriesRecent
      <3>3. past.plans = {plans} /\ past.instances = {instances} /\ plans' = plans /\ instances' = instances
        BY <1>2, <3>1, <3>2
      <3>. QED
        BY <3>2, <3>3 DEF MapsAre
    <2>. QED
      BY <1>1, <1>2, <1>3, <2>1, <2>2 DEF RecentInv, NoneIsMissing
  <1>8. OneOfEach'
    BY <1>1, <1>2, <1>3, <1>4 DEF RecentInv, OneOfEach, At, Reloading
  <1>. QED
    BY <1>5, <1>6, <1>7, <1>8 DEF RecentInv

LEMMA RecentStep == TypeInv /\ RecentInv /\ [Next]_vars => RecentInv'
  <1> SUFFICES ASSUME TypeInv, RecentInv, [Next]_vars PROVE RecentInv'
    OBVIOUS
  <1>w. worker = [p \in Workers |-> worker[p]] /\ \A p \in Workers : DOMAIN worker[p] = Fields
    BY DEF TypeInv, WorkersOK, WorkerOK
  \* What every step of a worker has in common.
  <1>m. ASSUME NEW p \in Workers, NEW w, worker' = [worker EXCEPT ![p] = w]
        PROVE  Moves(p) /\ worker'[p] = w
    BY <1>w, <1>m DEF Moves
  <1>f. ASSUME NEW p \in Workers, Forget(p, "copying"), ~Reloading(p), UNCHANGED running, MapsChange
        PROVE  RecentInv'
    <2>1. PICK w : w = [Idle EXCEPT !.at = "copying"]
      OBVIOUS
    <2>2. w.at = "copying"
      BY <2>1 DEF Idle
    <2>3. Moves(p) /\ worker'[p] = w
      BY <1>f, <1>m, <2>1 DEF Forget
    <2>. QED
      BY <1>f, <2>2, <2>3, NotReloading DEF Reloading
  <1>1. ASSUME NEW c \in Accessors, NEW s \in Services, NEW strict \in BOOLEAN, Access(c, s, strict)
        PROVE  RecentInv'
    <2> DEFINE v == cached[s].rules
    <2>1. c \in Workers /\ ~Reloading(c)
      BY <1>1 DEF Workers, Access, At, Reloading
    <2>2. PICK w : w = [Idle EXCEPT !.at = IF v = 0 THEN "listing" ELSE "plans", !.of = s, !.strict = strict, !.rules = v]
      OBVIOUS
    <2>3. w.at = (IF v = 0 THEN "listing" ELSE "plans")
      BY <2>2 DEF Idle
    <2>4. worker' = [worker EXCEPT ![c] = w] /\ UNCHANGED <<running, maps, history>>
      BY <1>1, <2>2 DEF Access
    <2>. QED
      BY <1>m, <2>1, <2>3, <2>4, NotReloading DEF Reloading
  <1>2. ASSUME NEW c \in Accessors, InsertPlans(c)
        PROVE  RecentInv'
    <2>1. c \in Workers /\ ~Reloading(c)
      BY <1>2 DEF InsertPlans, At, Workers, Reloading
    <2>2. PICK w : w = [Idle EXCEPT !.at = "listing", !.of = worker[c].of]
      OBVIOUS
    <2>3. w.at = "listing" /\ Idle.at = "idle"
      BY <2>2 DEF Idle
    <2>4. worker' = [worker EXCEPT ![c] = w] \/ worker' = [worker EXCEPT ![c] = Idle]
      BY <1>2, <2>2 DEF InsertPlans, List, Finish
    <2>5. Moves(c) /\ worker'[c] \in {w, Idle}
      BY <1>m, <2>1, <2>4
    <2>6. UNCHANGED running /\ MapsChange
      BY <1>2 DEF InsertPlans
    <2>. QED
      BY <2>1, <2>3, <2>5, <2>6, NotReloading DEF Reloading
  <1>3. ASSUME NEW p \in Workers, ListInstances(p)
        PROVE  RecentInv'
    <2>1. ~Reloading(p)
      BY <1>3 DEF ListInstances, At, Reloading
    <2>2. PICK l : l = ListOf(worker[p].of, cached[worker[p].of].instances)
      OBVIOUS
    <2>3. PICK w : w = [worker[p] EXCEPT !.at = "inserting", !.list = l]
      OBVIOUS
    <2>4. w.at = "inserting"
      BY <1>w, <2>3 DEF Fields
    <2>5. worker' = [worker EXCEPT ![p].at = "inserting", ![p].list = l]
      BY <1>3, <2>2 DEF ListInstances
    <2>6. worker' = [worker EXCEPT ![p] = w]
      BY <1>w, <2>3, <2>5
    <2>7. UNCHANGED <<running, maps, history>>
      BY <1>3 DEF ListInstances
    <2>. QED
      BY <1>m, <2>1, <2>4, <2>6, <2>7, NotReloading DEF Reloading
  <1>4. ASSUME NEW p \in Workers, InsertInstances(p)
        PROVE  RecentInv'
    <2>1. ~Reloading(p)
      BY <1>4 DEF InsertInstances, At, Reloading
    <2>. QED
      BY <1>4, <1>f, <2>1 DEF InsertInstances
  <1>5. ASSUME NEW s \in Services, NEW kind \in {"rules", "instances"}, Event(s, kind)
        PROVE  RecentInv'
    <2>1. Receiver \in Workers /\ ~Reloading(Receiver)
      BY <1>5 DEF Workers, Event, At, Reloading
    <2>2. PICK w : w = [Idle EXCEPT !.at = IF kind = "rules" THEN "told" ELSE "listing", !.of = s,
                          !.rules = IF kind = "rules" THEN cached'[s].rules ELSE 0]
      OBVIOUS
    <2>3. w.at = (IF kind = "rules" THEN "told" ELSE "listing")
      BY <2>2 DEF Idle
    <2>4. worker' = [worker EXCEPT ![Receiver] = w] /\ UNCHANGED <<running, maps, history>>
      BY <1>5, <2>2 DEF Event
    <2>. QED
      BY <1>m, <2>1, <2>3, <2>4, NotReloading DEF Reloading
  <1>6. CASE TakeRules
    <2>1. Receiver \in Workers /\ ~Reloading(Receiver)
      BY <1>6 DEF TakeRules, At, Workers, Reloading
    <2>. QED
      BY <1>6, <1>f, <2>1 DEF TakeRules
  <1>7. ASSUME NEW s \in Services, NEW kind \in {"rules", "instances"}, Removal(s, kind)
        PROVE  RecentInv'
    <2>1. Receiver \in Workers /\ ~Reloading(Receiver)
      BY <1>7 DEF Removal, At, Workers, Reloading
    <2>. QED
      BY <1>7, <1>f, <2>1 DEF Removal
  <1>8. ASSUME NEW p \in Workers, CopyPlans(p)
        PROVE  RecentInv'
    <2>1. PICK w : w = [worker[p] EXCEPT !.at = "pairing", !.plans = plans]
      OBVIOUS
    <2>2. w.at = "pairing" /\ w.plans = plans
      BY <1>w, <2>1 DEF Fields
    <2>3. worker' = [worker EXCEPT ![p] = w]
      BY <1>8, <1>w, <2>1 DEF CopyPlans
    <2>4. Moves(p) /\ worker'[p] = w
      BY <1>m, <2>3
    <2>5. UNCHANGED <<plans, instances, running>> /\ ~Reloading(p)
      BY <1>8 DEF CopyPlans, maps, At, Reloading
    <2>6. Stopping' /\ Reloading(p)'
      BY <2>2, <2>4 DEF Stopping, Reloading
    <2>7. OldIsGone' /\ NoneIsMissing'
      BY <2>6 DEF OldIsGone, NoneIsMissing
    <2>8. \A q \in Workers : q # p => worker'[q] = worker[q]
      BY <2>4 DEF Moves
    <2>9. CASE \E q \in Workers \ {p} : Reloading(q)
      <3>1. lone' = FALSE /\ past' = past
        BY <1>8, <2>9 DEF CopyPlans
      <3>2. CarriesRecent'
        BY <2>2, <2>4, <2>5, <2>8, <3>1 DEF RecentInv, CarriesRecent, At
      <3>. QED
        BY <2>7, <3>1, <3>2 DEF RecentInv, OneOfEach
    <2>10. CASE ~\E q \in Workers \ {p} : Reloading(q)
      <3>1. lone' = TRUE /\ past' = MapsAre
        BY <1>8, <2>10 DEF CopyPlans
      <3>2. \A q \in Workers : q # p => ~Reloading(q)'
        BY <2>8, <2>10 DEF Reloading
      <3>3. \A q \in Workers : worker'[q].at \in {"pairing", "stopping", "starting"} => q = p
        BY <3>2 DEF Reloading
      <3>4. past'.plans = {plans} /\ past'.instances = {instances}
            /\ past' = [plans |-> past'.plans, instances |-> past'.instances]
        BY <3>1 DEF MapsAre
      <3>5. CarriesRecent'
        BY <2>2, <2>4, <2>5, <3>3, <3>4 DEF CarriesRecent, At
      <3>6. OneOfEach'
        BY <2>2, <2>4, <2>6, <3>2, <3>3 DEF OneOfEach, At
      <3>. QED
        BY <2>7, <3>5, <3>6 DEF RecentInv
    <2>. QED
      BY <2>9, <2>10
  <1>9. ASSUME NEW p \in Workers, CopyInstances(p)
        PROVE  RecentInv'
    <2>1. worker[p].at = "pairing" /\ worker[p].plans \in past.plans /\ instances \in past.instances
      BY <1>9 DEF CopyInstances, At, RecentInv, CarriesRecent
    <2>2. PICK ts : ts = TargetsOf(worker[p].plans, instances)
      OBVIOUS
    <2>3. PICK w : w = [Idle EXCEPT !.at = "stopping", !.targets = ts]
      OBVIOUS
    <2>4. w.at = "stopping" /\ w.targets = ts
      BY <2>3 DEF Idle
    <2>5. worker' = [worker EXCEPT ![p] = w]
      BY <1>9, <2>2, <2>3 DEF CopyInstances
    <2>6. Moves(p) /\ worker'[p] = w
      BY <1>m, <2>5
    <2>7. UNCHANGED <<plans, instances, running, past, lone, stopped>>
      BY <1>9 DEF CopyInstances, maps, history
    <2>8. \A q \in Workers : q # p => worker'[q] = worker[q]
      BY <2>6 DEF Moves
    <2>9. CarriesRecent'
      <3>1. \E ps \in past.plans, is \in past.instances : worker'[p].targets = TargetsOf(ps, is)
        BY <2>1, <2>2, <2>4, <2>6
      <3>. QED
        BY <2>4, <2>6, <2>7, <2>8, <3>1 DEF RecentInv, CarriesRecent, At
    <2>10. Stopping' /\ Reloading(p)' /\ Reloading(p)
      BY <2>1, <2>4, <2>6 DEF Stopping, Reloading
    <2>11. OldIsGone' /\ NoneIsMissing'
      BY <2>10 DEF OldIsGone, NoneIsMissing
    <2>12. OneOfEach'
      <3>1. \A q \in Workers : Reloading(q)' <=> Reloading(q)
        BY <2>8, <2>10 DEF Reloading
      <3>2. \A q \in Workers : worker'[q].at = "starting" => worker[q].at = "starting"
        BY <2>4, <2>6, <2>8
      <3>3. Reloaded' = Reloaded
        BY <2>7 DEF Reloaded
      <3>. QED
        BY <2>7, <3>1, <3>2, <3>3 DEF RecentInv, OneOfEach, At
    <2>. QED
      BY <2>9, <2>11, <2>12 DEF RecentInv
  <1>10. ASSUME NEW p \in Workers, StopOld(p)
         PROVE  RecentInv'
    <2>1. PICK w : w = [worker[p] EXCEPT !.at = "starting"]
      OBVIOUS
    <2>2. w.at = "starting" /\ w.targets = worker[p].targets
      BY <1>w, <2>1 DEF Fields
    <2>3. worker' = [worker EXCEPT ![p] = w] /\ worker[p].at = "stopping"
      BY <1>10, <1>w, <2>1 DEF StopOld, Goto, At
    <2>4. Moves(p) /\ worker'[p] = w
      BY <1>m, <2>3
    <2>5. UNCHANGED <<plans, instances, past, lone, stopped>> /\ running' = {}
      BY <1>10 DEF StopOld, maps, history
    <2>6. \A q \in Workers : q # p => worker'[q] = worker[q]
      BY <2>4 DEF Moves
    <2>7. Reloaded' = {} /\ Probed' = {}
      BY <2>5 DEF Reloaded, Probed
    <2>8. CarriesRecent'
      <3>1. \E ps \in past.plans, is \in past.instances : worker[p].targets = TargetsOf(ps, is)
        BY <2>3 DEF RecentInv, CarriesRecent
      <3>. QED
        BY <2>2, <2>4, <2>5, <2>6, <3>1 DEF RecentInv, CarriesRecent, At
    <2>9. Reloading(p) /\ Reloading(p)'
      BY <2>2, <2>3, <2>4 DEF Reloading
    <2>10. OldIsGone' /\ NoneIsMissing'
      BY <2>7, <2>9 DEF OldIsGone, NoneIsMissing
    <2>11. OneOfEach'
      <3>1. \A q \in Workers : Reloading(q)' <=> Reloading(q)
        BY <2>6, <2>9 DEF Reloading
      <3>. QED
        BY <2>5, <2>7, <3>1 DEF RecentInv, OneOfEach
    <2>. QED
      BY <2>8, <2>10, <2>11 DEF RecentInv
  <1>11. ASSUME NEW p \in Workers, StartNew(p)
         PROVE  RecentInv'
    <2>1. worker[p].at = "starting" /\ Moves(p) /\ worker'[p] = Idle /\ Idle.at = "idle"
      BY <1>11, <1>m DEF StartNew, Finish, At, Idle
    <2>2. \A q \in Workers : q # p => worker'[q] = worker[q]
      BY <2>1 DEF Moves
    <2>3. PICK ts : ts = worker[p].targets
      OBVIOUS
    <2>4. running' = running \cup Loops(p, ts) /\ UNCHANGED <<plans, instances, past, lone, stopped>>
      BY <1>11, <2>3 DEF StartNew, maps, history
    <2>5. PICK ps \in past.plans, is \in past.instances : ts = TargetsOf(ps, is)
      BY <2>1, <2>3 DEF RecentInv, CarriesRecent
    <2>6. p # "user"
      BY FaultAssumption DEF Workers
    <2>7. Reloaded' = Reloaded \cup Loops(p, ts)
      BY <2>4, <2>6 DEF Reloaded, Loops
    <2>8. Probed' = Probed \cup ts
      <3>1. \A t : t \in Probed' <=> \E l \in Reloaded' : t = l.target
        BY DEF Probed
      <3>2. \A t : (\E l \in Loops(p, ts) : t = l.target) <=> t \in ts
        <4>1. ASSUME NEW t \in ts
              PROVE  \E l \in Loops(p, ts) : t = l.target
          <5>1. [by |-> p, target |-> t] \in Loops(p, ts) /\ [by |-> p, target |-> t].target = t
            BY DEF Loops
          <5>. QED
            BY <5>1
        <4>2. \A l \in Loops(p, ts) : l.target \in ts
          BY DEF Loops
        <4>. QED
          BY <4>1, <4>2
      <3>. QED
        BY <2>7, <3>1, <3>2 DEF Probed
    <2>9. CarriesRecent'
      BY <2>1, <2>2, <2>4 DEF RecentInv, CarriesRecent, At
    <2>10. OldIsGone'
      <3>1. ts \subseteq Recent /\ Recent' = Recent
        BY <2>4, <2>5 DEF Recent
      <3>2. Stopping => Stopping'
        BY <2>1, <2>2 DEF Stopping
      <3>. QED
        BY <2>8, <3>1, <3>2 DEF RecentInv, OldIsGone
    <2>11. NoneIsMissing'
      <3>1. SUFFICES ASSUME past = MapsAre
                     PROVE  TargetsOf(plans', instances') \subseteq Probed'
        BY <2>4 DEF NoneIsMissing, MapsAre, TargetsOf
      <3>2. ps = plans /\ is = instances
        BY <3>1 DEF MapsAre
      <3>. QED
        BY <2>4, <2>5, <2>8, <3>2
    <2>12. OneOfEach'
      <3>1. \A q \in Workers : Reloading(q)' => Reloading(q) /\ q # p
        BY <2>1, <2>2 DEF Reloading
      <3>2. Reloading(p)
        BY <2>1 DEF Reloading
      <3>3. lone => \A q \in Workers : ~Reloading(q)'
        BY <3>1, <3>2 DEF RecentInv, OneOfEach
      <3>4. lone => Reloaded' = Loops(p, ts)
        BY <2>1, <2>7 DEF RecentInv, OneOfEach, At
      <3>5. \A l \in Loops(p, ts) : l.by = p
        BY DEF Loops
      <3>6. \A q \in Workers : At(q, "starting")' => Reloading(q)'
        BY DEF At, Reloading
      <3>. QED
        BY <2>4, <3>3, <3>4, <3>5, <3>6 DEF OneOfEach
    <2>. QED
      BY <2>9, <2>10, <2>11, <2>12 DEF RecentInv
  <1>12. CASE StopByHand
    <2>1. UNCHANGED <<plans, instances, worker, past, lone>> /\ running' = {} /\ stopped' = TRUE
      BY <1>12 DEF StopByHand, maps
    <2>2. Reloaded' = {} /\ Probed' = {}
      BY <2>1 DEF Reloaded, Probed
    <2>. QED
      BY <2>1, <2>2 DEF RecentInv, CarriesRecent, OldIsGone, NoneIsMissing, OneOfEach, At, Reloading
  <1>13. ASSUME UNCHANGED <<plans, instances, worker, past, lone, stopped>>, Reloaded' = Reloaded
         PROVE  RecentInv'
    <2>1. Probed' = Probed /\ Recent' = Recent /\ (Stopping' <=> Stopping) /\ MapsAre' = MapsAre
      BY <1>13 DEF Probed, Recent, Stopping, MapsAre
    <2>2. CarriesRecent'
      BY <1>13 DEF RecentInv, CarriesRecent, At
    <2>3. OldIsGone'
      BY <2>1 DEF RecentInv, OldIsGone
    <2>4. NoneIsMissing'
      BY <1>13, <2>1 DEF RecentInv, NoneIsMissing, Reloading
    <2>5. OneOfEach'
      BY <1>13 DEF RecentInv, OneOfEach, At, Reloading
    <2>. QED
      BY <2>2, <2>3, <2>4, <2>5 DEF RecentInv
  <1>14. CASE StartByHand
    <2>1. Reloaded' = Reloaded
      BY <1>14 DEF StartByHand, Reloaded, Loops
    <2>. QED
      BY <1>13, <1>14, <2>1 DEF StartByHand, maps, history
  <1>15. CASE UNCHANGED vars
    BY <1>13, <1>15 DEF vars, Reloaded
  <1>. QED
    BY <1>1, <1>2, <1>3, <1>4, <1>5, <1>6, <1>7, <1>8, <1>9, <1>10, <1>11, <1>12, <1>14, <1>15 DEF Next, Reload

\* While no reload is under way the loops are of rules and instances that the maps
\* had since the last reloads began (reload_targets), of all that are in them if
\* they have been the same since, and of each once if no reload overlapped another.
THEOREM RecentLoops == Spec => []OnlyRecentLoops
  <1>1. ASSUME TypeInv, RecentInv, \A p \in Workers : ~Reloading(p)
        PROVE  /\ Probed \subseteq Recent
               /\ past = MapsAre /\ ~stopped => Probed = TargetsOf(plans, instances)
               /\ lone => \A l, m \in Reloaded : l.target = m.target => l = m
    <2>1. Probed \subseteq Recent
      BY <1>1 DEF RecentInv, OldIsGone, Stopping, Reloading
    <2>2. ASSUME past = MapsAre, ~stopped
          PROVE  Probed = TargetsOf(plans, instances)
      <3>1. Recent = TargetsOf(plans, instances)
        BY <2>2 DEF Recent, MapsAre
      <3>. QED
        BY <1>1, <2>1, <2>2, <3>1 DEF RecentInv, NoneIsMissing
    <2>3. ASSUME lone, NEW l \in Reloaded, NEW m \in Reloaded, l.target = m.target
          PROVE  l = m
      <3>1. l.by = m.by
        BY <1>1, <2>3 DEF RecentInv, OneOfEach
      <3>2. l = [by |-> l.by, target |-> l.target] /\ m = [by |-> m.by, target |-> m.target]
        BY <1>1 DEF TypeInv, LoopsOK, Reloaded
      <3>. QED
        BY <2>3, <3>1, <3>2
    <2>. QED
      BY <2>1, <2>2, <2>3
  <1>2. TypeInv /\ RecentInv => OnlyRecentLoops
    BY <1>1 DEF OnlyRecentLoops
  <1>. QED
    BY TypeInit, TypeStep, RecentInit, RecentStep, <1>2, PTL DEF Spec
=============================================================================
