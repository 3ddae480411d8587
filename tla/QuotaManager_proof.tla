------------------------- MODULE QuotaManager_proof -------------------------
(***************************************************************************)
(* Proofs about QuotaManager, for any servers, requests and number of      *)
(* calls, and for any loss of sessions: a server has one usable session,   *)
(* and a reservation names counters the server has, for what is wanted as  *)
(* long as no Init has taken the answer to a dropped call's.               *)
(* At the end, about QuotaSession, the stream of one such session: a       *)
(* response reaches the call it answers.                                   *)
(***************************************************************************)
EXTENDS QuotaManager, QuotaSession, FiniteSetTheorems, WellFoundedInduction, TLAPS

-----------------------------------------------------------------------------
(* The choice of a server                                                  *)

\* A set of numbers that is not empty has a least one.
LEMMA Least ==
  ASSUME NEW S, S \subseteq Nat, S # {}
  PROVE  \E m \in S : \A k \in S : m <= k
  <1>1. PICK m \in S : \A k \in S : ~(<<k, m>> \in OpToRel(<, Nat))
    BY NatLessThanWellFounded, WFMin, Zenon
  <1>2. \A k \in S : ~(k < m)
    BY <1>1 DEF OpToRel
  <1>. QED
    BY <1>2

\* Whatever the hash is, it counts off one of the servers that can be used.
LEMMA SelectExists ==
  ASSUME NEW view \in Views, NEW q \in Requests
  PROVE  Select(view, q) \in Endpoints
  <1> DEFINE A == Available(view)
             n == Len(Servers)
             Upto(i) == {j \in A : j <= i}
  <1> HIDE DEF Upto
  <1>1. n \in Nat /\ DOMAIN Servers = 1..n /\ \A i \in 1..n : Servers[i] \in Endpoints
    BY ManagerAssumption DEF Endpoints
  <1>2. A \subseteq 1..n /\ A # {}
    BY <1>1, ManagerAssumption DEF Available, Endpoints
  <1>3. IsFiniteSet(1..n)
    BY <1>1, FS_Interval
  <1>4. IsFiniteSet(A) /\ \A i : IsFiniteSet(Upto(i)) /\ IsFiniteSet(Before(i, view))
    BY <1>2, <1>3, FS_Subset DEF Before, Upto
  <1>5. Cardinality(A) \in Nat \ {0}
    BY <1>2, <1>4, FS_CardinalityType, FS_EmptySet
  <1>6. PICK k \in Nat : k = Hash[Affinity(q)] % Cardinality(A) /\ k < Cardinality(A)
    BY <1>5, ManagerAssumption
  <1> DEFINE T == {i \in 0..n : Cardinality(Upto(i)) > k}
  <1>7. n \in T
    <2>1. Upto(n) = A
      BY <1>1, <1>2 DEF Upto
    <2>. QED
      BY <2>1, <1>1, <1>5, <1>6
  <1>8. PICK m \in T : \A i \in T : m <= i
    <2>1. T \subseteq Nat
      BY <1>1
    <2>. QED
      BY <2>1, <1>7, Least
  <1>9. m # 0
    <2>1. Upto(0) = {}
      BY <1>1, <1>2 DEF Upto
    <2>2. Cardinality(Upto(0)) = 0
      BY <2>1, FS_EmptySet
    <2>. QED
      BY <2>2, <1>6
  <1>10. m \in 1..n /\ m - 1 \in 0..n /\ m - 1 \notin T
    BY <1>1, <1>8, <1>9
  <1>11. Upto(m - 1) = Before(m, view) /\ Upto(m) = Before(m, view) \cup ({m} \cap A)
    BY <1>2, <1>10 DEF Before, Upto
  <1>12. Cardinality(Before(m, view)) \in Nat /\ Cardinality(Before(m, view)) <= k /\ Cardinality(Upto(m)) > k
    <2>1. Cardinality(Before(m, view)) \in Nat
      BY <1>4, FS_CardinalityType
    <2>2. ~(Cardinality(Before(m, view)) > k)
      BY <1>10, <1>11
    <2>. QED
      BY <2>1, <2>2, <1>6, <1>8
  <1>13. m \in A
    <2>1. ASSUME m \notin A PROVE FALSE
      <3>1. Upto(m) = Before(m, view)
        BY <1>11, <2>1
      <3>. QED
        BY <3>1, <1>12, <1>6
    <2>. QED
      BY <2>1
  <1>14. Cardinality(Upto(m)) = Cardinality(Before(m, view)) + 1
    <2>1. Upto(m) = Before(m, view) \cup {m}
      BY <1>11, <1>13
    <2>2. m \notin Before(m, view)
      BY <1>10 DEF Before
    <2>. QED
      BY <2>1, <2>2, <1>4, FS_AddElement
  <1>15. Cardinality(Before(m, view)) = Hash[Affinity(q)] % Cardinality(A)
    BY <1>12, <1>14, <1>6
  <1>16. Chosen(view, q) \in A
    BY <1>13, <1>15 DEF Chosen
  <1>. QED
    BY <1>16, <1>1, <1>2 DEF Select

-----------------------------------------------------------------------------
(* The inductive invariant                                                 *)

Bound == {"session", "lock", "connect"}
Preparing == {"stale", "enter", "ensure", "initialize", "announce"}
Holding == {"ensure", "initialize", "announce"}
InSession == Preparing \cup {"adjust", "adjusting", "reserve"}
Labels == {"idle", "bind"} \cup Bound \cup InSession

CallerRecord == [at : Labels, want : Requests \cup {<<>>}, view : Views \cup {{}},
                 endpoint : Endpoints \cup {"none"}, session : 0..MaxSessions,
                 object : 0..MaxWindows, counters : Seq(Nat)]
WindowRecord == [key : WindowKeys \cup {NoKey}, session : 0..MaxSessions, counter : Nat,
                 holder : Callers \cup {"nobody"}]
Carried == {Asks(w) : w \in Wanted}
Answered == [cmd : {"init", "reserve"}, counter : Nat]
LinkRecord == [endpoint : Endpoints \cup {"none"}, state : {"unused", "open", "failed"}]

SharedOK ==
    /\ binding \in [{Affinity(q) : q \in Requests} -> Endpoints \cup {"none"}]
    /\ sessions \in [Endpoints -> 0..MaxSessions]
    /\ link \in [SessionIds -> LinkRecord]
    /\ connecting \in Callers \cup {"nobody"}
    /\ windows \in [WindowKeys -> 0..MaxWindows]
    /\ window \in [1..MaxWindows -> WindowRecord]
    /\ adjusting \in [SessionIds -> Callers \cup {"nobody"}]
    /\ calls \in 0..MaxCalls
    /\ announced \in [SessionIds -> Seq(Carried)]
    /\ stray \in [SessionIds -> Seq(Answered)]
    /\ crossed \subseteq SessionIds

\* What a call has when it gets to a label: a want, a server, a session, and
\* a number of counters.
Stage(r) ==
    /\ r.at # "idle" => r.want \in Requests
    /\ r.at = "bind" => r.view \in Views
    /\ r.at \notin {"idle", "bind"} => r.endpoint \in Endpoints
    /\ r.at \in InSession <=> r.session # 0
    /\ r.at \notin InSession => r.counters = <<>>
    /\ r.at \in Preparing => Len(r.counters) < Len(r.want)
    /\ Len(r.counters) <= Len(r.want)
    /\ r.at \in Holding => r.object # 0

CallersOK ==
    /\ caller \in [Callers -> CallerRecord]
    /\ \A c \in Callers : Stage(caller[c])

TypeOK == SharedOK /\ CallersOK

\* The map has every open session, and whoever connects has seen to it that
\* there is none for its server.
SessionInv ==
    /\ \A s \in SessionIds : link[s].state = "open" =>
           link[s].endpoint \in Endpoints /\ sessions[link[s].endpoint] = s
    /\ \A c \in Callers : At(c, "connect") =>
           connecting = c /\ sessions[caller[c].endpoint] = 0

\* The map and the calls find a window under its own key.
KeyInv ==
    /\ \A k \in WindowKeys : windows[k] # 0 => window[windows[k]].key = k
    /\ \A c \in Callers : caller[c].at \in Holding =>
           window[caller[c].object].key = KeyOf(c, Current(c))

\* The server has a counter of this number on the session, for this target
\* and these totals if the answers to Inits have not got crossed.
Known(s, n, asked) ==
    /\ n \in DOMAIN announced[s]
    /\ s \notin crossed => n \in Heard(s, asked)

\* A window has the number of a counter of its session.
Numbered(w) == w.session # 0 =>
    /\ link[w.session].state # "unused"
    /\ link[w.session].state = "open" => Known(w.session, w.counter, Asks(w.key))

NumberInv == \A n \in 1..MaxWindows : Numbered(window[n])

\* So does a call, which has a session that was opened.
Charged(r) == r.session # 0 =>
    /\ link[r.session].state # "unused"
    /\ link[r.session].state = "open" =>
           \A i \in DOMAIN r.counters : Known(r.session, r.counters[i], Asks(r.want[i]))

ChargeInv == \A c \in Callers : Charged(caller[c])

\* And so does an answer that is still to come, unless it is an error, or
\* the answer to a reservation.
Given(s) == {Refused, Reserved} \cup {[cmd |-> "init", counter |-> n] : n \in DOMAIN announced[s]}
StrayInv == \A s \in SessionIds : stray[s] \in Seq(Given(s))

-----------------------------------------------------------------------------
(* The operators of the model                                              *)

LEMMA IdleRecord == Idle \in CallerRecord /\ Stage(Idle) /\ Idle.at = "idle" /\ Idle.session = 0 /\ Idle.counters = <<>>
  <1>1. <<>> \in Seq(Nat) /\ Len(<<>>) = 0
    OBVIOUS
  <1>. QED
    BY <1>1, ManagerAssumption DEF Idle, CallerRecord, Stage, Labels, Bound, Preparing, Holding, InSession

\* What is left of the windows are windows.
LEMMA KeptType ==
  ASSUME NEW objects \in [1..MaxWindows -> WindowRecord], NEW map, NEW users
  PROVE  Kept(objects, map, users) \in [1..MaxWindows -> WindowRecord]
  <1>1. FreeWindow \in WindowRecord
    BY ManagerAssumption DEF FreeWindow, WindowRecord
  <1>. QED
    BY <1>1 DEF Kept

\* A session that fails is a session, and what is left of its answers are
\* answers.
LEMMA FailType ==
  ASSUME link \in [SessionIds -> LinkRecord], announced \in [SessionIds -> Seq(Carried)],
         stray \in [SessionIds -> Seq(Answered)], NEW s, Fail(s)
  PROVE  /\ link' \in [SessionIds -> LinkRecord] /\ announced' \in [SessionIds -> Seq(Carried)]
         /\ stray' \in [SessionIds -> Seq(Answered)]
  <1>1. <<>> \in Seq(Carried) /\ <<>> \in Seq(Answered)
    OBVIOUS
  <1>2. announced' \in [SessionIds -> Seq(Carried)] /\ stray' \in [SessionIds -> Seq(Answered)]
    BY <1>1 DEF Fail
  <1>3. \A t \in SessionIds : [link[t] EXCEPT !.state = "failed"] \in LinkRecord
    BY DEF LinkRecord
  <1>. QED
    BY <1>2, <1>3 DEF Fail

\* Of the answers that come on a session the first is taken.
LEMMA Taken ==
  ASSUME NEW A, NEW s, stray[s] \in Seq(A), NEW own \in A
  PROVE  /\ First(s, own) \in A
         /\ (IF stray[s] = <<>> THEN <<>> ELSE Append(Tail(stray[s]), own)) \in Seq(A)
         /\ stray[s] # <<>> => Tail(stray[s]) \in Seq(A)
         /\ Append(stray[s], own) \in Seq(A)
  BY DEF First

LEMMA BehindType ==
  ASSUME stray \in [SessionIds -> Seq(Answered)], NEW s \in SessionIds, NEW own \in Answered
  PROVE  First(s, own) \in Answered /\ Behind(s, own) \in [SessionIds -> Seq(Answered)]
  <1>1. stray[s] \in Seq(Answered)
    OBVIOUS
  <1>2. (IF stray[s] = <<>> THEN <<>> ELSE Append(Tail(stray[s]), own)) \in Seq(Answered)
    BY <1>1, Taken
  <1>. QED
    BY <1>1, <1>2, Taken DEF Behind

\* The answer to an Init is an answer, and tells of a counter the server has.
LEMMA NumberHeard ==
  ASSUME announced \in [SessionIds -> Seq(Carried)], NEW s \in SessionIds, NEW asked \in Carried,
         NEW own \in {Refused, Number(s, asked)}, Hears(s, asked, own)
  PROVE  /\ own \in Answered
         /\ announced' \in [SessionIds -> Seq(Carried)]
         /\ \A t \in SessionIds \ {s} : announced'[t] = announced[t]
         /\ DOMAIN announced[s] \subseteq DOMAIN announced'[s]
         /\ \A k : Heard(s, k) \subseteq Heard(s, k)'
         /\ own # Refused => own.counter \in Heard(s, asked)' /\ own = [cmd |-> "init", counter |-> own.counter]
  <1>1. announced[s] \in Seq(Carried)
    OBVIOUS
  <1>2. PICK n : n = IF Heard(s, asked) # {} THEN CHOOSE i \in Heard(s, asked) : TRUE ELSE Len(announced[s]) + 1
    OBVIOUS
  <1>3. n \in Nat
    BY <1>1, <1>2 DEF Heard
  <1>4. own \in {Refused, [cmd |-> "init", counter |-> n]}
    BY <1>2 DEF Number
  <1>5. own \in Answered
    BY <1>3, <1>4 DEF Answered, Refused
  <1>6. CASE announced' = announced /\ (own # Refused => n \in Heard(s, asked))
    BY <1>1, <1>4, <1>5, <1>6 DEF Heard
  <1>7. CASE announced' = [announced EXCEPT ![s] = Append(@, asked)] /\ n = Len(announced[s]) + 1
    <2>1. announced'[s] = Append(announced[s], asked) /\ announced'[s] \in Seq(Carried)
          /\ \A t \in SessionIds \ {s} : announced'[t] = announced[t]
      BY <1>1, <1>7
    <2>2. announced' \in [SessionIds -> Seq(Carried)]
      BY <2>1, <1>7
    <2>3. \A i \in DOMAIN announced[s] : i \in DOMAIN announced'[s] /\ announced'[s][i] = announced[s][i]
      BY <1>1, <2>1
    <2>4. n \in DOMAIN announced'[s] /\ announced'[s][n] = asked
      BY <1>1, <1>7, <2>1
    <2>. QED
      BY <1>4, <1>5, <2>1, <2>2, <2>3, <2>4 DEF Heard
  <1>. QED
    BY <1>2, <1>6, <1>7 DEF Hears

\* The want a call prepares has a key, and something to tell the server.
LEMMA CurrentKey ==
  ASSUME TypeOK, NEW c \in Callers, caller[c].at \in Preparing
  PROVE  KeyOf(c, Current(c)) \in WindowKeys /\ Asks(Current(c)) \in Carried
  <1>1. caller[c] \in CallerRecord /\ Stage(caller[c]) /\ caller[c].at # "idle" /\ caller[c].at # "bind"
    BY DEF TypeOK, CallersOK, Preparing
  <1>2. caller[c].want \in Seq(Wanted)
    BY <1>1, ManagerAssumption DEF Stage
  <1>3. Len(caller[c].counters) \in Nat /\ Len(caller[c].counters) + 1 <= Len(caller[c].want)
    BY <1>1, <1>2 DEF Stage, CallerRecord
  <1>4. Current(c) \in Wanted
    BY <1>2, <1>3 DEF Current
  <1>5. caller[c].endpoint \in Endpoints
    BY <1>1 DEF Stage
  <1>. QED
    BY <1>4, <1>5 DEF KeyOf, WindowKeys, Carried

\* One call goes on with a record that fits.
LEMMA CallerStage ==
  ASSUME CallersOK, NEW c \in Callers, NEW r \in CallerRecord, Stage(r), caller' = [caller EXCEPT ![c] = r]
  PROVE  CallersOK'
  BY DEF CallersOK

LEMMA FinishStage ==
  ASSUME CallersOK, NEW c \in Callers, Finish(c)
  PROVE  CallersOK'
  BY IdleRecord, CallerStage DEF Finish

\* A call that goes on has a record of the same type.
LEMMA Advanced ==
  ASSUME NEW r \in CallerRecord, NEW to \in Labels, NEW n \in 0..MaxWindows, NEW all \in Seq(Nat)
  PROVE  [r EXCEPT !.counters = all, !.object = n, !.at = to] \in CallerRecord
  <1>1. PICK q : q = [r EXCEPT !.counters = all]
    OBVIOUS
  <1>2. q \in CallerRecord
    BY <1>1 DEF CallerRecord
  <1>3. PICK p : p = [q EXCEPT !.object = n]
    OBVIOUS
  <1>4. p \in CallerRecord
    BY <1>2, <1>3 DEF CallerRecord
  <1>5. [p EXCEPT !.at = to] \in CallerRecord
    BY <1>4 DEF CallerRecord
  <1>. QED
    BY <1>1, <1>3, <1>5

\* A label is reached from those that have what it needs.
LEMMA GotoStage ==
  ASSUME CallersOK, NEW c \in Callers, NEW to \in Labels \ {"idle", "bind"}, Goto(c, to),
         caller[c].at \notin {"idle", "bind"}, to \in InSession <=> caller[c].at \in InSession,
         to \in Preparing => caller[c].at \in Preparing, to \in Holding => caller[c].at \in Holding
  PROVE  CallersOK'
  <1>1. caller[c] \in CallerRecord /\ Stage(caller[c])
    BY DEF CallersOK
  <1>2. PICK r : r = [caller[c] EXCEPT !.at = to]
    OBVIOUS
  <1>3. r \in CallerRecord
    BY <1>1, <1>2 DEF CallerRecord
  <1>4. r.at = to /\ r.want = caller[c].want /\ r.endpoint = caller[c].endpoint
        /\ r.session = caller[c].session /\ r.object = caller[c].object /\ r.counters = caller[c].counters
    BY <1>1, <1>2 DEF CallerRecord
  <1>5. Stage(r)
    BY <1>1, <1>4 DEF Stage
  <1>6. caller' = [caller EXCEPT ![c] = r]
    BY <1>2 DEF Goto, CallersOK
  <1>. QED
    BY <1>3, <1>5, <1>6, CallerStage

\* A call that has found a session has not prepared anything.
LEMMA TakeStage ==
  ASSUME CallersOK, NEW c \in Callers, caller[c].at \in Bound, NEW s \in SessionIds, Take(c, s)
  PROVE  CallersOK'
  <1>1. caller[c] \in CallerRecord /\ Stage(caller[c])
    BY DEF CallersOK
  <1>2. PICK r : r = [caller[c] EXCEPT !.at = "stale", !.session = s, !.view = {}]
    OBVIOUS
  <1>3. r.at = "stale" /\ r.want = caller[c].want /\ r.endpoint = caller[c].endpoint /\ r.view = {}
        /\ r.session = s /\ r.object = caller[c].object /\ r.counters = caller[c].counters
    BY <1>1, <1>2 DEF CallerRecord
  <1>4. r = [at |-> "stale", want |-> caller[c].want, view |-> {}, endpoint |-> caller[c].endpoint,
             session |-> s, object |-> caller[c].object, counters |-> caller[c].counters]
    BY <1>1, <1>2 DEF CallerRecord
  <1>5. r \in CallerRecord
    BY <1>1, <1>4, ManagerAssumption DEF CallerRecord, Labels, InSession, Preparing, SessionIds
  <1>6. Stage(r)
    <2>1. caller[c].want \in Seq(Wanted) /\ caller[c].want # <<>> /\ caller[c].counters = <<>>
      BY <1>1, ManagerAssumption DEF Stage, Bound, InSession, Preparing
    <2>2. Len(caller[c].counters) = 0 /\ Len(caller[c].want) > 0
      BY <2>1
    <2>. QED
      BY <1>1, <1>3, <2>2 DEF Stage, Bound, InSession, Preparing, Holding, SessionIds
  <1>7. caller' = [caller EXCEPT ![c] = r]
    BY <1>2 DEF Take, CallersOK
  <1>. QED
    BY <1>5, <1>6, <1>7, CallerStage

\* A call that has a counter goes on, with or without another want to prepare.
LEMMA PreparedStage ==
  ASSUME CallersOK, NEW c \in Callers, caller[c].at \in Preparing, NEW counter \in Nat,
         Prepared(c, counter)
  PROVE  CallersOK'
  <1>1. caller \in [Callers -> CallerRecord] /\ caller[c] \in CallerRecord /\ Stage(caller[c])
    BY DEF CallersOK
  <1>2. CASE Finish(c)
    BY <1>2, FinishStage
  <1>3. CASE ~Finish(c)
    <2> DEFINE all == Append(caller[c].counters, counter)
               to == IF Len(all) = Len(caller[c].want) THEN "adjust" ELSE "stale"
               r == [caller[c] EXCEPT !.counters = all, !.object = 0, !.at = to]
    <2>1. caller' = [caller EXCEPT ![c] = r]
      BY <1>1, <1>3 DEF Prepared
    <2>2. all \in Seq(Nat) /\ Len(all) = Len(caller[c].counters) + 1
      BY <1>1 DEF CallerRecord
    <2>3. Len(caller[c].want) \in Nat /\ Len(all) <= Len(caller[c].want)
      <3>1. caller[c].want \in Seq(Wanted)
        BY <1>1, ManagerAssumption DEF Stage, Preparing
      <3>. QED
        BY <3>1, <2>2, <1>1 DEF Stage, CallerRecord
    <2> HIDE DEF all
    <2>6. to \in Labels
      BY DEF Labels, InSession, Preparing
    <2> HIDE DEF to
    <2>7. r \in CallerRecord
      <3>1. 0 \in 0..MaxWindows
        BY ManagerAssumption
      <3>. QED
        BY <3>1, <1>1, <2>2, <2>6, Advanced, Zenon
    <2>4. /\ r.want = caller[c].want /\ r.endpoint = caller[c].endpoint
          /\ r.session = caller[c].session /\ r.counters = all
          /\ r.at = to
      BY <1>1 DEF CallerRecord
    <2> HIDE DEF r
    <2>5. Stage(r)
      <3>1. Len(all) < Len(caller[c].want) \/ Len(all) = Len(caller[c].want)
        BY <2>2, <2>3, <1>1 DEF CallerRecord
      <3>2. caller[c].want \in Requests /\ caller[c].endpoint \in Endpoints /\ caller[c].session # 0
        BY <1>1 DEF Stage, Preparing, InSession
      <3>. QED
        BY <3>1, <3>2, <2>3, <2>4 DEF Stage, Preparing, InSession, Holding, to
    <2>. QED
      BY <2>1, <2>7, <2>5, CallerStage
  <1>. QED
    BY <1>2, <1>3

\* What changes when a call goes on, finds its session, or ends.
LEMMA GotoMoves ==
  ASSUME CallersOK, NEW c \in Callers, NEW to, Goto(c, to)
  PROVE  /\ \A d \in Callers \ {c} : caller'[d] = caller[d]
         /\ caller'[c].at = to /\ caller'[c].want = caller[c].want /\ caller'[c].endpoint = caller[c].endpoint
         /\ caller'[c].session = caller[c].session /\ caller'[c].object = caller[c].object
         /\ caller'[c].counters = caller[c].counters
  BY DEF CallersOK, Goto, CallerRecord

LEMMA TakeMoves ==
  ASSUME CallersOK, NEW c \in Callers, NEW s, Take(c, s)
  PROVE  /\ \A d \in Callers \ {c} : caller'[d] = caller[d]
         /\ caller'[c].at = "stale" /\ caller'[c].session = s /\ caller'[c].counters = caller[c].counters
  BY DEF CallersOK, Take, CallerRecord

LEMMA FinishMoves ==
  ASSUME CallersOK, NEW c \in Callers, Finish(c)
  PROVE  caller'[c] = Idle /\ \A d \in Callers \ {c} : caller'[d] = caller[d]
  BY DEF CallersOK, Finish

\* What changes when a call has a counter.
LEMMA PreparedMoves ==
  ASSUME CallersOK, NEW c \in Callers, NEW counter, Prepared(c, counter)
  PROVE  /\ \A d \in Callers \ {c} : caller'[d] = caller[d]
         /\ \/ caller'[c] = Idle
            \/ /\ caller'[c].at \in {"stale", "adjust"} /\ caller'[c].want = caller[c].want
               /\ caller'[c].endpoint = caller[c].endpoint /\ caller'[c].session = caller[c].session
               /\ caller'[c].counters = Append(caller[c].counters, counter)
  <1>1. caller \in [Callers -> CallerRecord] /\ caller[c] \in CallerRecord
    BY DEF CallersOK
  <1>2. CASE Finish(c)
    BY <1>1, <1>2 DEF Finish
  <1>3. CASE ~Finish(c)
    <2> DEFINE all == Append(caller[c].counters, counter)
               to == IF Len(all) = Len(caller[c].want) THEN "adjust" ELSE "stale"
    <2> HIDE DEF all
    <2>1. caller' = [caller EXCEPT ![c].counters = all, ![c].object = 0, ![c].at = to]
      BY <1>1, <1>3 DEF Prepared, all
    <2>2. to \in {"stale", "adjust"}
      OBVIOUS
    <2> HIDE DEF to
    <2>3. PICK r : r = [caller[c] EXCEPT !.counters = all, !.object = 0, !.at = to]
      OBVIOUS
    <2>4. r.at = to /\ r.want = caller[c].want /\ r.endpoint = caller[c].endpoint
          /\ r.session = caller[c].session /\ r.counters = all
      BY <1>1, <2>3 DEF CallerRecord
    <2>5. caller' = [caller EXCEPT ![c] = r]
      BY <1>1, <2>1, <2>3
    <2>. QED
      BY <1>1, <2>2, <2>4, <2>5 DEF all
  <1>. QED
    BY <1>2, <1>3

-----------------------------------------------------------------------------
(* Types, and the stages of a call                                         *)

LEMMA TypeInit == Init => TypeOK
  <1>1. <<>> \in Seq(Carried) /\ <<>> \in Seq(Answered)
    OBVIOUS
  <1>2. FreeWindow \in WindowRecord
    BY ManagerAssumption DEF FreeWindow, WindowRecord
  <1>. QED
    BY <1>1, <1>2, IdleRecord, ManagerAssumption DEF Init, TypeOK, SharedOK, CallersOK, LinkRecord

LEMMA TypeStep == TypeOK /\ [Next]_vars => TypeOK'
  <1>1. SUFFICES ASSUME TypeOK, [Next]_vars PROVE TypeOK'
    OBVIOUS
  <1>2. SharedOK /\ CallersOK /\ \A c \in Callers : caller[c] \in CallerRecord /\ Stage(caller[c])
    BY <1>1 DEF TypeOK, CallersOK
  <1>7. \A c \in Callers : caller[c].at \notin {"idle", "bind"} => caller[c].endpoint \in Endpoints
    BY <1>2 DEF Stage
  <1>8. /\ sessions \in [Endpoints -> 0..MaxSessions] /\ link \in [SessionIds -> LinkRecord]
        /\ announced \in [SessionIds -> Seq(Carried)] /\ stray \in [SessionIds -> Seq(Answered)]
        /\ window \in [1..MaxWindows -> WindowRecord]
        /\ windows \in [WindowKeys -> 0..MaxWindows] /\ caller \in [Callers -> CallerRecord]
    BY <1>2 DEF SharedOK, CallersOK
  <1>9. \A c \in Callers : caller[c].at \notin {"idle", "bind"} /\ Usable(sessions[caller[c].endpoint])
            => sessions[caller[c].endpoint] \in SessionIds
    <2>1. \A e \in Endpoints : Usable(sessions[e]) => sessions[e] \in SessionIds
      BY <1>8, ManagerAssumption DEF Usable, SessionIds
    <2>. QED
      BY <1>7, <2>1
  <1>10. \A n : \A h \in Callers \cup {"nobody"} : [window EXCEPT ![n].holder = h] \in [1..MaxWindows -> WindowRecord]
    BY <1>8 DEF WindowRecord
  <1>11. \A c \in Callers : caller[c].at \in Holding =>
            caller[c].object \in 1..MaxWindows /\ window[caller[c].object].counter \in Nat
    BY <1>2, <1>8, ManagerAssumption, SMTT(30) DEF Stage, CallerRecord, WindowRecord
  <1>. USE ManagerAssumption
  <1>3. ASSUME NEW c \in Callers, Advance(c)
        PROVE  SharedOK' /\ CallersOK'
    <2>1. CASE Bind(c)
      <3>1. SharedOK'
        BY <2>1, <1>2, SelectExists DEF Bind, At, Stage, SharedOK
      <3>2. PICK e \in Endpoints : caller' = [caller EXCEPT ![c].at = "session", ![c].endpoint = e]
        BY <2>1, <1>2, SelectExists DEF Bind, At, Stage
      <3>3. PICK r : r = [caller[c] EXCEPT !.at = "session", !.endpoint = e]
        OBVIOUS
      <3>4. r \in CallerRecord
        BY <3>3, <1>2 DEF CallerRecord, Labels, Bound
      <3>5. r.at = "session" /\ r.want = caller[c].want /\ r.endpoint = e /\ r.session = caller[c].session
            /\ r.counters = caller[c].counters
        BY <3>3, <1>2 DEF CallerRecord
      <3>6. Stage(r)
        BY <3>5, <2>1, <1>2 DEF Bind, At, Stage, InSession, Preparing, Holding
      <3>7. caller' = [caller EXCEPT ![c] = r]
        BY <3>2, <3>3, <1>8
      <3>. QED
        BY <3>1, <3>4, <3>6, <3>7, <1>2, CallerStage
    <2>2. CASE FindSession(c)
      <3>1. SharedOK'
        BY <2>2, <1>2 DEF FindSession, SharedOK
      <3>2. CASE Usable(sessions[caller[c].endpoint])
        <4>1. sessions[caller[c].endpoint] \in SessionIds
          BY <3>2, <2>2, <1>9 DEF FindSession, At
        <4>. QED
          BY <3>1, <3>2, <4>1, <2>2, <1>2, TakeStage DEF FindSession, At, Bound
      <3>3. CASE ~Usable(sessions[caller[c].endpoint])
        BY <3>1, <3>3, <2>2, <1>2, GotoStage DEF FindSession, At, Labels, Bound, InSession, Preparing, Holding
      <3>. QED
        BY <3>2, <3>3
    <2>3. CASE LockConnect(c)
      <3>1. SharedOK'
        <4>1. 0 \in 0..MaxSessions
          OBVIOUS
        <4>2. [sessions EXCEPT ![caller[c].endpoint] = 0] \in [Endpoints -> 0..MaxSessions]
          BY <4>1, <1>8, Zenon
        <4>. QED
          <5>1. \/ connecting' = connecting /\ sessions' = sessions
                \/ connecting' = c /\ sessions' = [sessions EXCEPT ![caller[c].endpoint] = 0]
            BY <2>3, Zenon DEF LockConnect
          <5>2. connecting' \in Callers \cup {"nobody"} /\ sessions' \in [Endpoints -> 0..MaxSessions]
            <6>1. connecting \in Callers \cup {"nobody"}
              BY <1>2 DEF SharedOK
            <6>2. connecting' \in Callers \cup {"nobody"}
              BY <5>1, <6>1, Zenon
            <6>3. sessions' \in [Endpoints -> 0..MaxSessions]
              BY <5>1, <4>2, <1>8, Zenon
            <6>. QED
              BY <6>2, <6>3
          <5>. QED
            BY <5>2, <2>3, <1>2 DEF LockConnect, SharedOK
      <3>2. CASE Usable(sessions[caller[c].endpoint])
        <4>1. sessions[caller[c].endpoint] \in SessionIds
          BY <3>2, <2>3, <1>9 DEF LockConnect, At
        <4>. QED
          BY <3>1, <3>2, <4>1, <2>3, <1>2, TakeStage DEF LockConnect, At, Bound
      <3>3. CASE ~Usable(sessions[caller[c].endpoint])
        BY <3>1, <3>3, <2>3, <1>2, GotoStage DEF LockConnect, At, Labels, Bound, InSession, Preparing, Holding
      <3>. QED
        BY <3>2, <3>3
    <2>4. CASE Connect(c)
      <3>1. SharedOK'
        <4>1. PICK s \in SessionIds :
                /\ link' = [link EXCEPT ![s] = [endpoint |-> caller[c].endpoint, state |-> "open"]]
                /\ sessions' = [sessions EXCEPT ![caller[c].endpoint] = s]
          BY <2>4 DEF Connect
        <4>2. caller[c].endpoint \in Endpoints
          BY <2>4, <1>7 DEF Connect, At
        <4>3. sessions' \in [Endpoints -> 0..MaxSessions]
          BY <4>1, <4>2, <1>8 DEF SessionIds
        <4>4. link' \in [SessionIds -> LinkRecord]
          BY <4>1, <4>2, <1>8 DEF LinkRecord
        <4>. QED
          BY <4>3, <4>4, <2>4, <1>2 DEF Connect, SharedOK
      <3>2. CallersOK'
        BY <2>4, <1>2, TakeStage DEF Connect, At, Bound
      <3>. QED
        BY <3>1, <3>2
    <2>5. CASE ConnectFails(c)
      BY <2>5, <1>2, FinishStage DEF ConnectFails, SharedOK
    <2>6. CASE RemoveStale(c)
      <3>1. SharedOK'
        <4>1. windows' \in [WindowKeys -> 0..MaxWindows]
          BY <2>6, <1>8 DEF RemoveStale
        <4>2. window' \in [1..MaxWindows -> WindowRecord]
          BY <2>6, <1>8, KeptType DEF RemoveStale
        <4>. QED
          BY <4>1, <4>2, <2>6, <1>2 DEF RemoveStale, SharedOK
      <3>2. CallersOK'
        BY <2>6, <1>2, GotoStage DEF RemoveStale, At, Labels, Bound, InSession, Preparing, Holding
      <3>. QED
        BY <3>1, <3>2
    <2>7. CASE EnterWindow(c)
      <3>1. KeyOf(c, Current(c)) \in WindowKeys
        BY <2>7, <1>1, CurrentKey DEF EnterWindow, At, Preparing
      <3>2. PICK n \in 1..MaxWindows :
              /\ caller' = [caller EXCEPT ![c].at = "ensure", ![c].object = n]
              /\ \/ UNCHANGED <<windows, window>>
                 \/ /\ windows' = [windows EXCEPT ![KeyOf(c, Current(c))] = n]
                    /\ window' = [window EXCEPT ![n] = [FreeWindow EXCEPT !.key = KeyOf(c, Current(c))]]
        <4>1. CASE windows[KeyOf(c, Current(c))] # 0
          <5>1. windows[KeyOf(c, Current(c))] \in 1..MaxWindows
            BY <4>1, <3>1, <1>8
          <5>. QED
            BY <4>1, <5>1, <2>7 DEF EnterWindow
        <4>2. CASE windows[KeyOf(c, Current(c))] = 0
          BY <4>2, <2>7, Zenon DEF EnterWindow
        <4>. QED
          BY <4>1, <4>2
      <3>3. [FreeWindow EXCEPT !.key = KeyOf(c, Current(c))] \in WindowRecord
        BY <3>1 DEF FreeWindow, WindowRecord
      <3>4. windows' \in [WindowKeys -> 0..MaxWindows] /\ window' \in [1..MaxWindows -> WindowRecord]
        <4>3. n \in 0..MaxWindows
          OBVIOUS
        <4>1. [windows EXCEPT ![KeyOf(c, Current(c))] = n] \in [WindowKeys -> 0..MaxWindows]
          BY <4>3, <1>8, Zenon
        <4>2. [window EXCEPT ![n] = [FreeWindow EXCEPT !.key = KeyOf(c, Current(c))]] \in [1..MaxWindows -> WindowRecord]
          BY <3>3, <1>8, Zenon
        <4>. QED
          BY <3>2, <4>1, <4>2, <1>8
      <3>5. SharedOK'
        BY <3>4, <2>7, <1>2 DEF EnterWindow, SharedOK
      <3>6. PICK r : r = [caller[c] EXCEPT !.at = "ensure", !.object = n]
        OBVIOUS
      <3>7. r \in CallerRecord
        <4>1. PICK p : p = [caller[c] EXCEPT !.at = "ensure"]
          OBVIOUS
        <4>2. p \in CallerRecord
          BY <4>1, <1>2 DEF CallerRecord, Labels, InSession, Preparing
        <4>3. [p EXCEPT !.object = n] \in CallerRecord
          <5>1. n \in 0..MaxWindows
            OBVIOUS
          <5>. QED
            BY <4>2, <5>1 DEF CallerRecord
        <4>. QED
          BY <4>1, <4>3, <3>6
      <3>8. r.at = "ensure" /\ r.want = caller[c].want /\ r.endpoint = caller[c].endpoint
            /\ r.session = caller[c].session /\ r.counters = caller[c].counters /\ r.object = n
        BY <3>6, <1>2 DEF CallerRecord
      <3>9. Stage(r)
        BY <3>8, <2>7, <1>2 DEF EnterWindow, At, Stage, InSession, Preparing, Holding
      <3>10. caller' = [caller EXCEPT ![c] = r]
        BY <3>2, <3>6, <1>8
      <3>. QED
        BY <3>5, <3>7, <3>9, <3>10, <1>2, CallerStage
    <2>8. CASE EnsureWindow(c)
      <3>1. SharedOK'
        BY <2>8, <1>2, <1>8, KeptType DEF EnsureWindow, SharedOK
      <3>2. CASE Initialized(c, caller[c].object)
        BY <3>1, <3>2, <2>8, <1>2, <1>11, PreparedStage DEF EnsureWindow, At, Preparing, Holding
      <3>3. CASE ~Initialized(c, caller[c].object)
        BY <3>1, <3>3, <2>8, <1>2, GotoStage DEF EnsureWindow, At, Labels, Bound, InSession, Preparing, Holding
      <3>. QED
        BY <3>2, <3>3
    <2>9. CASE LockWindow(c)
      <3>1. SharedOK'
        <4>1. [window EXCEPT ![caller[c].object].holder = c] \in [1..MaxWindows -> WindowRecord]
          BY <1>8, <1>10
        <4>2. window' \in [1..MaxWindows -> WindowRecord]
          <5>1. \/ window' = Kept(window, windows, caller')
                \/ window' = [window EXCEPT ![caller[c].object].holder = c]
            BY <2>9, Zenon DEF LockWindow
          <5>2. Kept(window, windows, caller') \in [1..MaxWindows -> WindowRecord]
            BY <1>8, KeptType
          <5>. QED
            BY <5>1, <5>2, <4>1
        <4>. QED
          BY <4>2, <2>9, <1>2 DEF LockWindow, SharedOK
      <3>2. CASE Initialized(c, caller[c].object)
        BY <3>1, <3>2, <2>9, <1>2, <1>11, PreparedStage DEF LockWindow, At, Preparing, Holding
      <3>3. CASE ~Initialized(c, caller[c].object)
        BY <3>1, <3>3, <2>9, <1>2, GotoStage DEF LockWindow, At, Labels, Bound, InSession, Preparing, Holding
      <3>. QED
        BY <3>2, <3>3
    <2>10. CASE NoTotals(c)
      <3>1. [window EXCEPT ![caller[c].object].holder = "nobody"] \in [1..MaxWindows -> WindowRecord]
        BY <1>8, <1>10
      <3>2. SharedOK'
        BY <3>1, <2>10, <1>2, KeptType DEF NoTotals, SharedOK
      <3>3. CallersOK'
        BY <2>10, <1>2, FinishStage DEF NoTotals
      <3>. QED
        BY <3>2, <3>3
    <2>11. CASE Announce(c)
      <3> DEFINE n == caller[c].object
                 s == caller[c].session
                 asked == Asks(Current(c))
      <3>0. s \in SessionIds /\ n \in 1..MaxWindows /\ asked \in Carried
        <4>1. s \in 0..MaxSessions /\ n \in 1..MaxWindows /\ s # 0
          BY <2>11, <1>2, <1>11 DEF Announce, At, Holding, CallerRecord, Stage, InSession, Preparing
        <4>. QED
          BY <4>1, <2>11, <1>1, CurrentKey DEF Announce, At, Preparing, SessionIds
      <3>1. PICK own \in {Refused, Number(s, asked)} :
              /\ Hears(s, asked, own) /\ stray' = Behind(s, own)
              /\ LET answer == First(s, own)
                     left == [window EXCEPT ![n].holder = "nobody"]
                 IN  \/ Finish(c) /\ window' = Kept(left, windows, caller')
                     \/ /\ Prepared(c, answer.counter)
                        /\ window' = Kept([left EXCEPT ![n].session = s, ![n].counter = answer.counter],
                                          windows, caller')
        BY <2>11, Zenon DEF Announce
      <3>6. own \in Answered /\ announced' \in [SessionIds -> Seq(Carried)]
        BY <3>0, <3>1, <1>8, NumberHeard
      <3>7. First(s, own) \in Answered /\ stray' \in [SessionIds -> Seq(Answered)]
        BY <3>0, <3>1, <3>6, <1>8, BehindType
      <3>8. PICK counter : counter = First(s, own).counter /\ counter \in Nat
        BY <3>7 DEF Answered
      <3>9. PICK left : left = [window EXCEPT ![n].holder = "nobody"] /\ left \in [1..MaxWindows -> WindowRecord]
        BY <1>10
      <3>2. window' \in [1..MaxWindows -> WindowRecord]
        <4>1. s \in 0..MaxSessions /\ left[n] \in WindowRecord
          BY <3>0, <3>9 DEF SessionIds
        <4>2. PICK p : p = [left[n] EXCEPT !.session = s]
          OBVIOUS
        <4>3. p \in WindowRecord
          BY <4>1, <4>2 DEF WindowRecord
        <4>4. PICK q : q = [p EXCEPT !.counter = counter]
          OBVIOUS
        <4>5. q \in WindowRecord
          BY <4>3, <4>4, <3>8 DEF WindowRecord
        <4>6. [left EXCEPT ![n].session = s, ![n].counter = counter] = [left EXCEPT ![n] = q]
          BY <3>0, <3>9, <4>2, <4>4
        <4>7. [left EXCEPT ![n] = q] \in [1..MaxWindows -> WindowRecord]
          BY <3>9, <4>5
        <4>8. \/ window' = Kept(left, windows, caller')
              \/ window' = Kept([left EXCEPT ![n] = q], windows, caller')
          BY <3>1, <3>8, <3>9, <4>6, Zenon
        <4>9. \A w \in [1..MaxWindows -> WindowRecord] :
                Kept(w, windows, caller') \in [1..MaxWindows -> WindowRecord]
          BY KeptType
        <4>. QED
          BY <4>7, <4>8, <4>9, <3>9
      <3>3. SharedOK'
        <4>1. crossed' \subseteq SessionIds
          BY <2>11, <3>0, <1>2 DEF Announce, SharedOK
        <4>. QED
          BY <4>1, <3>2, <3>6, <3>7, <2>11, <1>2 DEF Announce, SharedOK
      <3>4. CallersOK'
        BY <3>1, <3>8, <2>11, <1>2, FinishStage, PreparedStage DEF Announce, At, Preparing
      <3>. QED
        BY <3>3, <3>4
    <2>12. CASE AnnounceFails(c)
      <3>1. [window EXCEPT ![caller[c].object].holder = "nobody"] \in [1..MaxWindows -> WindowRecord]
        BY <1>8, <1>10
      <3>2. SharedOK'
        BY <3>1, <2>12, <1>2, <1>8, KeptType, FailType DEF AnnounceFails, SharedOK, Fail
      <3>3. CallersOK'
        BY <2>12, <1>2, FinishStage DEF AnnounceFails
      <3>. QED
        BY <3>2, <3>3
    <2>13. CASE KeepClock(c)
      <3>1. SharedOK'
        BY <2>13, <1>2 DEF KeepClock, SharedOK
      <3>2. CallersOK'
        BY <2>13, <1>2, GotoStage DEF KeepClock, At, Labels, Bound, InSession, Preparing, Holding
      <3>. QED
        BY <3>1, <3>2
    <2>14. CASE LockClock(c)
      <3>1. SharedOK'
        BY <2>14, <1>2 DEF LockClock, SharedOK
      <3>2. CallersOK'
        BY <2>14, <1>2, GotoStage DEF LockClock, At, Labels, Bound, InSession, Preparing, Holding
      <3>. QED
        BY <3>1, <3>2
    <2>15. CASE Adjusted(c)
      <3>1. SharedOK'
        BY <2>15, <1>2 DEF Adjusted, SharedOK
      <3>2. CallersOK'
        BY <2>15, <1>2, GotoStage DEF Adjusted, At, Labels, Bound, InSession, Preparing, Holding
      <3>. QED
        BY <3>1, <3>2
    <2>16. CASE Reserve(c)
      <3>1. SharedOK'
        <4>1. caller[c].session \in SessionIds /\ Reserved \in Answered
          BY <2>16, <1>2 DEF Reserve, At, CallerRecord, Stage, InSession, SessionIds, Reserved, Answered
        <4>2. CASE Fail(caller[c].session)
          BY <4>2, <2>16, <1>2, <1>8, FailType DEF Reserve, SharedOK, Fail
        <4>3. CASE stray' = Behind(caller[c].session, Reserved) /\ UNCHANGED <<link, announced, crossed>>
          BY <4>1, <4>3, <2>16, <1>2, <1>8, BehindType DEF Reserve, SharedOK
        <4>. QED
          BY <4>2, <4>3, <2>16 DEF Reserve
      <3>2. CallersOK'
        BY <2>16, <1>2, FinishStage DEF Reserve
      <3>. QED
        BY <3>1, <3>2
    <2>. QED
      BY <1>3, <2>1, <2>2, <2>3, <2>4, <2>5, <2>6, <2>7, <2>8, <2>9, <2>10, <2>11, <2>12, <2>13, <2>14, <2>15, <2>16 DEF Advance
  <1>4. ASSUME NEW c \in Callers, NEW q \in Requests, NEW view \in Views, Begin(c, q, view)
        PROVE  SharedOK' /\ CallersOK'
    <2> DEFINE bound == binding[Affinity(q)]
    <2>1. PICK to, e : \/ bound \in view /\ to = "session" /\ e = bound
                       \/ bound \notin view /\ to = "bind" /\ e = "none"
      OBVIOUS
    <2>2. PICK r : r = [Idle EXCEPT !.at = to, !.want = q, !.view = view, !.endpoint = e]
      OBVIOUS
    <2>3. caller' = [caller EXCEPT ![c] = r]
      <3>1. to = (IF bound \in view THEN "session" ELSE "bind") /\ e = (IF to = "session" THEN bound ELSE "none")
        BY <2>1
      <3>. QED
        BY <2>2, <3>1, <1>4 DEF Begin
    <2>4. r \in CallerRecord
      <3>1. to \in Labels /\ e \in Endpoints \cup {"none"}
        BY <2>1 DEF Labels, Bound
      <3>2. PICK f : f = [Idle EXCEPT !.at = to]
        OBVIOUS
      <3>3. f \in CallerRecord
        BY <3>1, <3>2, IdleRecord DEF CallerRecord
      <3>4. PICK g : g = [f EXCEPT !.want = q]
        OBVIOUS
      <3>5. g \in CallerRecord
        BY <3>3, <3>4 DEF CallerRecord
      <3>6. PICK h : h = [g EXCEPT !.view = view]
        OBVIOUS
      <3>7. h \in CallerRecord
        BY <3>5, <3>6 DEF CallerRecord
      <3>8. [h EXCEPT !.endpoint = e] \in CallerRecord
        BY <3>1, <3>7 DEF CallerRecord
      <3>. QED
        BY <2>2, <3>2, <3>4, <3>6, <3>8
    <2>7. r.at = to /\ r.want = q /\ r.view = view /\ r.endpoint = e
          /\ r.session = Idle.session /\ r.counters = Idle.counters
      BY <2>2, IdleRecord DEF CallerRecord
    <2>5. Stage(r)
      BY <2>1, <2>7, IdleRecord DEF Stage, InSession, Preparing, Holding
    <2>6. CallersOK'
      BY <1>2, <2>3, <2>4, <2>5, CallerStage
    <2>. QED
      BY <2>6, <1>4, <1>2 DEF Begin, SharedOK
  <1>5. ASSUME NEW s \in SessionIds, Lose(s)
        PROVE  SharedOK' /\ CallersOK'
    BY <1>5, <1>2, <1>8, FailType DEF Lose, SharedOK, CallersOK, Fail
  <1>12. ASSUME NEW s \in SessionIds, Discard(s)
         PROVE  SharedOK' /\ CallersOK'
    <2>1. Tail(stray[s]) \in Seq(Answered)
      BY <1>8, <1>12 DEF Discard
    <2>2. stray' \in [SessionIds -> Seq(Answered)]
      BY <2>1, <1>8, <1>12 DEF Discard
    <2>. QED
      BY <2>2, <1>12, <1>2 DEF Discard, SharedOK, CallersOK
  <1>13. ASSUME NEW c \in Callers, LetGo(c)
         PROVE  /\ CallersOK' /\ window' \in [1..MaxWindows -> WindowRecord]
                /\ connecting' \in Callers \cup {"nobody"} /\ adjusting' \in [SessionIds -> Callers \cup {"nobody"}]
    <2>1. \A n \in 1..MaxWindows : [window[n] EXCEPT !.holder = "nobody"] \in WindowRecord
      BY <1>8 DEF WindowRecord
    <2>2. [n \in 1..MaxWindows |-> IF window[n].holder = c THEN [window[n] EXCEPT !.holder = "nobody"] ELSE window[n]]
              \in [1..MaxWindows -> WindowRecord]
      BY <2>1, <1>8
    <2>. QED
      BY <2>2, <1>13, <1>2, KeptType, FinishStage DEF LetGo, SharedOK
  <1>14. ASSUME NEW c \in Callers, DropUnsent(c)
         PROVE  SharedOK' /\ CallersOK'
    BY <1>14, <1>13, <1>2 DEF DropUnsent, LetGo, SharedOK
  <1>15. ASSUME NEW c \in Callers, DropSent(c)
         PROVE  SharedOK' /\ CallersOK'
    <2> DEFINE s == caller[c].session
    <2>1. s \in SessionIds /\ stray[s] \in Seq(Answered)
      BY <1>15, <1>2, <1>8 DEF DropSent, CallerRecord, SessionIds
    <2>2. PICK own \in Answered :
            stray' = [stray EXCEPT ![s] = Append(@, own)] /\ announced' \in [SessionIds -> Seq(Carried)]
      <3>1. CASE At(c, "reserve") /\ stray' = [stray EXCEPT ![s] = Append(@, Reserved)] /\ UNCHANGED announced
        <4>1. Reserved \in Answered
          BY DEF Reserved, Answered
        <4>. QED
          BY <3>1, <4>1, <1>8
      <3>2. ASSUME At(c, "announce"), NEW own \in {Refused, Number(s, Asks(Current(c)))},
                   Hears(s, Asks(Current(c)), own), stray' = [stray EXCEPT ![s] = Append(@, own)]
            PROVE  own \in Answered /\ announced' \in [SessionIds -> Seq(Carried)]
        <4>1. Asks(Current(c)) \in Carried
          BY <3>2, <1>1, CurrentKey DEF At, Preparing
        <4>. QED
          BY <3>2, <4>1, <2>1, <1>8, NumberHeard
      <3>. QED
        BY <3>1, <3>2, <1>15 DEF DropSent
    <2>3. Append(stray[s], own) \in Seq(Answered)
      BY <2>1, Taken
    <2>4. stray' \in [SessionIds -> Seq(Answered)]
      BY <2>2, <2>3, <1>8
    <2>. QED
      BY <2>2, <2>4, <1>15, <1>13, <1>2 DEF DropSent, LetGo, SharedOK
  <1>6. CASE UNCHANGED vars
    BY <1>6, <1>2 DEF vars, SharedOK, CallersOK, TypeOK
  <1>. QED
    BY <1>1, <1>3, <1>4, <1>5, <1>6, <1>12, <1>14, <1>15 DEF Next, TypeOK

\* Every step of reserve_many and of the locks keeps the types of the manager's
\* state, and no call gets to a step without what the step needs: a request, a
\* server, a session, a window.
THEOREM TypeCorrect == Spec => []TypeOK
  BY TypeInit, TypeStep, PTL DEF Spec

-----------------------------------------------------------------------------
(* One session for a server                                                *)

LEMMA SessionStep == TypeOK /\ SessionInv /\ [Next]_vars => SessionInv'
  <1>1. SUFFICES ASSUME TypeOK, SessionInv, [Next]_vars PROVE SessionInv'
    OBVIOUS
  <1>2. /\ sessions \in [Endpoints -> 0..MaxSessions] /\ link \in [SessionIds -> LinkRecord]
        /\ caller \in [Callers -> CallerRecord] /\ connecting \in Callers \cup {"nobody"}
        /\ \A c \in Callers : caller[c].at \notin {"idle", "bind"} => caller[c].endpoint \in Endpoints
    BY <1>1 DEF TypeOK, SharedOK, CallersOK, Stage
  \* Whoever else moves, a call that connects keeps the lock; links fail only.
  <1>3. ASSUME NEW c \in Callers, UNCHANGED <<sessions, connecting>>, ~At(c, "connect")',
               \A d \in Callers \ {c} : caller'[d] = caller[d],
               \A s \in SessionIds : link'[s] = link[s] \/ link'[s].state = "failed"
        PROVE  SessionInv'
    BY <1>1, <1>3 DEF SessionInv, At
  <1>4. \A s : Fail(s) => \A t \in SessionIds : link'[t] = link[t] \/ link'[t].state = "failed"
    BY <1>2 DEF Fail, LinkRecord
  <1>9. \A c \in Callers : \A counter : Prepared(c, counter)
            => ~At(c, "connect")' /\ \A d \in Callers \ {c} : caller'[d] = caller[d]
    BY <1>1, PreparedMoves, IdleRecord DEF At, TypeOK
  <1>10. \A c \in Callers : \A s : Take(c, s)
            => ~At(c, "connect")' /\ \A d \in Callers \ {c} : caller'[d] = caller[d]
    BY <1>2 DEF Take, At, CallerRecord
  <1>5. ASSUME NEW c \in Callers, Advance(c)
        PROVE  SessionInv'
    <2>1. CASE Bind(c)
      BY <2>1, <1>2, <1>3 DEF Bind, At, CallerRecord
    <2>2. CASE FindSession(c)
      <3>1. CASE Usable(sessions[caller[c].endpoint])
        BY <3>1, <2>2, <1>2, <1>3, <1>10 DEF FindSession
      <3>2. CASE ~Usable(sessions[caller[c].endpoint])
        BY <3>2, <2>2, <1>2, <1>3 DEF FindSession, At, Goto, CallerRecord
      <3>. QED
        BY <3>1, <3>2
    <2>3. CASE LockConnect(c)
      <3>1. CASE Usable(sessions[caller[c].endpoint])
        <4>1. \E s : Take(c, s)
          BY <3>1, <2>3 DEF LockConnect
        <4>2. UNCHANGED <<sessions, connecting, link>>
          BY <3>1, <2>3 DEF LockConnect
        <4>. QED
          BY <4>1, <4>2, <1>3, <1>10
      <3>2. CASE ~Usable(sessions[caller[c].endpoint])
        <4> DEFINE e == caller[c].endpoint
        <4>1. e \in Endpoints /\ connecting = "nobody" /\ connecting' = c /\ UNCHANGED link
              /\ sessions' = [sessions EXCEPT ![e] = 0] /\ caller' = [caller EXCEPT ![c].at = "connect"]
          BY <3>2, <2>3, <1>2 DEF LockConnect, At, Goto
        \* No open session is of this server: the map would have it.
        <4>2. \A s \in SessionIds : link[s].state = "open" => link[s].endpoint # e
          BY <3>2, <1>1 DEF SessionInv, Usable, SessionIds
        <4>3. \A s \in SessionIds : link'[s].state = "open" =>
                link'[s].endpoint \in Endpoints /\ sessions'[link'[s].endpoint] = s
          BY <4>1, <4>2, <1>1, <1>2 DEF SessionInv
        <4>4. \A d \in Callers : caller[d].at # "connect"
          BY <4>1, <1>1, ManagerAssumption DEF SessionInv, At
        <4>5. \A d \in Callers : caller'[d].at = "connect" => d = c /\ caller'[d].endpoint = e
          BY <4>1, <4>4, <1>2 DEF CallerRecord
        <4>6. sessions'[e] = 0
          BY <4>1, <1>2
        <4>. QED
          BY <4>1, <4>3, <4>5, <4>6 DEF SessionInv, At
      <3>. QED
        BY <3>1, <3>2
    <2>4. CASE Connect(c)
      <3> DEFINE e == caller[c].endpoint
      <3>1. PICK n \in SessionIds :
              /\ link' = [link EXCEPT ![n] = [endpoint |-> e, state |-> "open"]]
              /\ sessions' = [sessions EXCEPT ![e] = n]
              /\ Take(c, n)
        BY <2>4 DEF Connect
      <3>2. e \in Endpoints /\ connecting = c /\ sessions[e] = 0
        BY <2>4, <1>1, <1>2 DEF Connect, At, SessionInv
      <3>3. \A s \in SessionIds \ {n} : link[s].state = "open" => link[s].endpoint # e
        BY <3>2, <1>1 DEF SessionInv, SessionIds
      <3>4. \A s \in SessionIds : link'[s].state = "open" =>
              link'[s].endpoint \in Endpoints /\ sessions'[link'[s].endpoint] = s
        BY <3>1, <3>2, <3>3, <1>1, <1>2 DEF SessionInv
      <3>5. \A d \in Callers : caller'[d].at # "connect"
        <4>1. \A d \in Callers : caller[d].at = "connect" => d = c
          BY <3>2, <1>1 DEF SessionInv, At
        <4>. QED
          BY <3>1, <4>1, <1>2 DEF Take, CallerRecord
      <3>. QED
        BY <3>4, <3>5 DEF SessionInv, At
    <2>5. CASE ConnectFails(c)
      BY <2>5, <1>1, <1>2, IdleRecord DEF ConnectFails, Finish, At, SessionInv
    <2>6. CASE RemoveStale(c)
      BY <2>6, <1>2, <1>3 DEF RemoveStale, At, Goto, CallerRecord
    <2>7. CASE EnterWindow(c)
      <3>1. /\ UNCHANGED <<sessions, connecting, link>>
            /\ \E n : caller' = [caller EXCEPT ![c].at = "ensure", ![c].object = n]
        BY <2>7 DEF EnterWindow
      <3>2. ~At(c, "connect")' /\ \A d \in Callers \ {c} : caller'[d] = caller[d]
        BY <3>1, <1>2 DEF At, CallerRecord
      <3>. QED
        BY <3>1, <3>2, <1>3
    <2>8. CASE EnsureWindow(c)
      BY <2>8, <1>2, <1>3, <1>9 DEF EnsureWindow, At, Goto, CallerRecord
    <2>9. CASE LockWindow(c)
      BY <2>9, <1>2, <1>3, <1>9 DEF LockWindow, At, Goto, CallerRecord
    <2>10. CASE NoTotals(c)
      BY <2>10, <1>2, <1>3, IdleRecord DEF NoTotals, At, Finish, CallerRecord
    <2>11. CASE Announce(c)
      <3>1. Finish(c) \/ \E counter : Prepared(c, counter)
        BY <2>11 DEF Announce
      <3>2. ~At(c, "connect")' /\ \A d \in Callers \ {c} : caller'[d] = caller[d]
        BY <3>1, <1>1, <1>9, FinishMoves, IdleRecord DEF At, TypeOK
      <3>. QED
        BY <3>2, <2>11, <1>3 DEF Announce
    <2>12. CASE AnnounceFails(c)
      BY <2>12, <1>2, <1>3, <1>4, IdleRecord DEF AnnounceFails, At, Finish
    <2>13. CASE KeepClock(c)
      BY <2>13, <1>2, <1>3 DEF KeepClock, At, Goto, CallerRecord
    <2>14. CASE LockClock(c)
      BY <2>14, <1>2, <1>3 DEF LockClock, At, Goto, CallerRecord
    <2>15. CASE Adjusted(c)
      BY <2>15, <1>2, <1>3 DEF Adjusted, At, Goto, CallerRecord
    <2>16. CASE Reserve(c)
      BY <2>16, <1>2, <1>3, <1>4, IdleRecord DEF Reserve, At, Finish
    <2>. QED
      BY <1>5, <2>1, <2>2, <2>3, <2>4, <2>5, <2>6, <2>7, <2>8, <2>9, <2>10, <2>11, <2>12, <2>13, <2>14, <2>15, <2>16 DEF Advance
  <1>6. ASSUME NEW c \in Callers, NEW q \in Requests, NEW view \in Views, Begin(c, q, view)
        PROVE  SessionInv'
    BY <1>6, <1>2, <1>3 DEF Begin, Idle, At
  <1>7. ASSUME NEW s \in SessionIds, Lose(s)
        PROVE  SessionInv'
    BY <1>1, <1>2, <1>4, <1>7 DEF Lose, SessionInv, At
  \* Whoever is dropped while it connects gives the lock back.
  <1>11. ASSUME NEW c \in Callers, LetGo(c)
         PROVE  SessionInv'
    <2>1. UNCHANGED <<sessions, link>> /\ caller'[c] = Idle /\ (\A d \in Callers \ {c} : caller'[d] = caller[d])
          /\ connecting' = IF connecting = c THEN "nobody" ELSE connecting
      BY <1>11, <1>1, FinishMoves DEF LetGo, TypeOK
    <2>. QED
      BY <2>1, <1>1, IdleRecord DEF SessionInv, At
  <1>12. ASSUME NEW s \in SessionIds, Discard(s)
         PROVE  SessionInv'
    BY <1>1, <1>12 DEF Discard, SessionInv, At
  <1>8. CASE UNCHANGED vars
    BY <1>1, <1>8 DEF vars, SessionInv, At
  <1>. QED
    BY <1>1, <1>5, <1>6, <1>7, <1>8, <1>11, <1>12 DEF Next, DropUnsent, DropSent

\* However many calls find a server without a session, and whoever gets the
\* lock, no two sessions of a server can be used at a time.
THEOREM OneSession == Spec => []OneSessionPerServer
  <1>1. Init => SessionInv
    BY ManagerAssumption, IdleRecord DEF Init, SessionInv, At
  <1>2. SessionInv => OneSessionPerServer
    BY DEF SessionInv, OneSessionPerServer, Usable
  <1>. QED
    BY <1>1, <1>2, SessionStep, TypeCorrect, PTL DEF Spec

-----------------------------------------------------------------------------
(* The keys of windows                                                     *)

\* A call that does not get hold of a window leaves the others theirs.
LEMMA KeysKept ==
  ASSUME TypeOK, KeyInv, NEW c \in Callers,
         \A d \in Callers \ {c} : caller'[d] = caller[d],
         caller'[c].at \in Holding => /\ caller[c].at \in Holding /\ caller'[c].object = caller[c].object
                                     /\ KeyOf(c, Current(c))' = KeyOf(c, Current(c)),
         \A k \in WindowKeys : windows'[k] \in {0, windows[k]},
         NEW objects, \A n \in 1..MaxWindows : objects[n].key = window[n].key,
         window' = objects \/ window' = Kept(objects, windows', caller')
  PROVE  KeyInv'
  <1>1. ASSUME NEW n \in 1..MaxWindows, ~Free(n, windows', caller')
        PROVE  window'[n].key = window[n].key
    BY <1>1 DEF Kept
  <1>2. ASSUME NEW k \in WindowKeys, windows'[k] # 0
        PROVE  window'[windows'[k]].key = k
    <2>1. windows'[k] = windows[k] /\ windows[k] \in 1..MaxWindows
      BY <1>2, ManagerAssumption DEF TypeOK, SharedOK
    <2>. QED
      BY <2>1, <1>1, <1>2 DEF KeyInv, Free
  <1>3. ASSUME NEW d \in Callers, caller'[d].at \in Holding
        PROVE  window'[caller'[d].object].key = KeyOf(d, Current(d))'
    <2>1. /\ caller[d].at \in Holding /\ caller'[d].object = caller[d].object
          /\ KeyOf(d, Current(d))' = KeyOf(d, Current(d))
      BY <1>3 DEF KeyOf, Current
    <2>2. caller[d].object \in 1..MaxWindows
      BY <2>1, ManagerAssumption DEF TypeOK, CallersOK, Stage, CallerRecord
    <2>. QED
      BY <2>1, <2>2, <1>1 DEF KeyInv, Free
  <1>. QED
    BY <1>2, <1>3 DEF KeyInv

LEMMA KeyStep == TypeOK /\ KeyInv /\ [Next]_vars => KeyInv'
  <1>1. SUFFICES ASSUME TypeOK, KeyInv, [Next]_vars PROVE KeyInv'
    OBVIOUS
  <1>2. CallersOK /\ window \in [1..MaxWindows -> WindowRecord]
    BY <1>1 DEF TypeOK, SharedOK
  <1>3. ASSUME NEW c \in Callers, UNCHANGED <<windows, window>>,
               \A d \in Callers \ {c} : caller'[d] = caller[d], caller'[c].at \notin Holding
        PROVE  KeyInv'
    BY <1>1, <1>3, KeysKept
  <1>8. \A c \in Callers : Finish(c) =>
            caller'[c].at \notin Holding /\ \A d \in Callers \ {c} : caller'[d] = caller[d]
    BY <1>2, FinishMoves, IdleRecord DEF Holding
  <1>9. \A n, h : \A m \in 1..MaxWindows : [window EXCEPT ![n].holder = h][m].key = window[m].key
    BY <1>2 DEF WindowRecord
  <1>4. ASSUME NEW c \in Callers, Advance(c)
        PROVE  KeyInv'
    <2>1. CASE Bind(c)
      BY <2>1, <1>2, <1>3 DEF Bind, CallersOK, CallerRecord, Holding
    <2>2. CASE FindSession(c)
      BY <2>2, <1>2, <1>3, TakeMoves, GotoMoves DEF FindSession, Holding
    <2>3. CASE LockConnect(c)
      BY <2>3, <1>2, <1>3, TakeMoves, GotoMoves DEF LockConnect, Holding
    <2>4. CASE Connect(c)
      BY <2>4, <1>2, <1>3, TakeMoves DEF Connect, Holding
    <2>5. CASE ConnectFails(c)
      BY <2>5, <1>2, <1>3, FinishMoves, IdleRecord DEF ConnectFails, Holding
    <2>6. CASE RemoveStale(c)
      <3>1. caller'[c].at \notin Holding /\ \A d \in Callers \ {c} : caller'[d] = caller[d]
        BY <2>6, <1>2, GotoMoves DEF RemoveStale, Holding
      <3>2. \A k \in WindowKeys : windows'[k] \in {0, windows[k]}
        BY <2>6 DEF RemoveStale
      <3>. QED
        BY <3>1, <3>2, <2>6, <1>1, KeysKept DEF RemoveStale
    <2>7. CASE EnterWindow(c)
      <3> DEFINE k == KeyOf(c, Current(c))
      <3>1. k \in WindowKeys
        BY <2>7, <1>1, CurrentKey DEF EnterWindow, At, Preparing
      <3>2. ASSUME NEW n, caller' = [caller EXCEPT ![c].at = "ensure", ![c].object = n]
            PROVE  /\ \A d \in Callers \ {c} : caller'[d] = caller[d]
                   /\ caller'[c].object = n /\ KeyOf(c, Current(c))' = k
        <4>1. caller'[c].want = caller[c].want /\ caller'[c].endpoint = caller[c].endpoint
              /\ caller'[c].counters = caller[c].counters /\ caller'[c].object = n
          BY <3>2, <1>2 DEF CallersOK, CallerRecord
        <4>2. KeyOf(c, Current(c))' = k
          BY <4>1 DEF KeyOf, Current
        <4>. QED
          BY <3>2, <4>1, <4>2, <1>2 DEF CallersOK
      <3>3. CASE windows[k] # 0
        <4>1. caller' = [caller EXCEPT ![c].at = "ensure", ![c].object = windows[k]] /\ UNCHANGED <<windows, window>>
          BY <3>3, <2>7 DEF EnterWindow
        <4>2. window'[caller'[c].object].key = KeyOf(c, Current(c))'
          BY <4>1, <3>1, <3>2, <3>3, <1>1 DEF KeyInv
        <4>3. \A d \in Callers \ {c} : KeyOf(d, Current(d))' = KeyOf(d, Current(d))
          BY <4>1, <3>2 DEF KeyOf, Current
        <4>. QED
          BY <4>1, <4>2, <4>3, <3>2, <1>1 DEF KeyInv
      <3>4. CASE windows[k] = 0
        <4>1. PICK n \in 1..MaxWindows :
                /\ Free(n, windows, caller)
                /\ windows' = [windows EXCEPT ![k] = n]
                /\ window' = [window EXCEPT ![n] = [FreeWindow EXCEPT !.key = k]]
                /\ caller' = [caller EXCEPT ![c].at = "ensure", ![c].object = n]
          BY <3>4, <2>7, Zenon DEF EnterWindow
        <4>2. window'[n].key = k
          BY <4>1, <1>2 DEF FreeWindow
        <4>3. \A m \in 1..MaxWindows : m # n => window'[m] = window[m]
          BY <4>1, <1>2
        <4>4. ASSUME NEW j \in WindowKeys, windows'[j] # 0
              PROVE  window'[windows'[j]].key = j
          <5>1. windows \in [WindowKeys -> 0..MaxWindows]
            BY <1>1 DEF TypeOK, SharedOK
          <5>2. CASE j = k
            BY <5>1, <5>2, <4>1, <4>2
          <5>3. CASE j # k
            <6>1. windows'[j] = windows[j] /\ windows[j] \in 1..MaxWindows /\ windows[j] # n
              BY <5>1, <5>3, <4>1, <4>4, ManagerAssumption DEF Free
            <6>. QED
              BY <6>1, <4>3, <1>1 DEF KeyInv
          <5>. QED
            BY <5>2, <5>3
        <4>5. ASSUME NEW d \in Callers, caller'[d].at \in Holding
              PROVE  window'[caller'[d].object].key = KeyOf(d, Current(d))'
          <5>1. CASE d = c
            BY <5>1, <4>1, <4>2, <3>2
          <5>2. CASE d # c
            <6>1. caller'[d] = caller[d] /\ KeyOf(d, Current(d))' = KeyOf(d, Current(d))
              BY <5>2, <4>1, <3>2 DEF KeyOf, Current
            <6>2. caller[d].object \in 1..MaxWindows /\ caller[d].object # n
              BY <6>1, <4>1, <4>5, <1>2, ManagerAssumption DEF Free, CallersOK, Stage, CallerRecord
            <6>. QED
              BY <6>1, <6>2, <4>3, <4>5, <1>1 DEF KeyInv
          <5>. QED
            BY <5>1, <5>2
        <4>. QED
          BY <4>4, <4>5 DEF KeyInv
      <3>. QED
        BY <3>3, <3>4
    <2>8. CASE EnsureWindow(c)
      <3>1. \A d \in Callers \ {c} : caller'[d] = caller[d]
        BY <2>8, <1>2, PreparedMoves, GotoMoves DEF EnsureWindow
      <3>2. \/ caller'[c].at \notin Holding
            \/ /\ caller[c].at \in Holding /\ caller'[c].object = caller[c].object
               /\ KeyOf(c, Current(c))' = KeyOf(c, Current(c))
        BY <2>8, <1>2, PreparedMoves, GotoMoves, IdleRecord DEF EnsureWindow, At, KeyOf, Current, Holding
      <3>. QED
        BY <3>1, <3>2, <2>8, <1>1, KeysKept DEF EnsureWindow
    <2>9. CASE LockWindow(c)
      <3>1. \A d \in Callers \ {c} : caller'[d] = caller[d]
        BY <2>9, <1>2, PreparedMoves, GotoMoves DEF LockWindow
      <3>2. \/ caller'[c].at \notin Holding
            \/ /\ caller[c].at \in Holding /\ caller'[c].object = caller[c].object
               /\ KeyOf(c, Current(c))' = KeyOf(c, Current(c))
        BY <2>9, <1>2, PreparedMoves, GotoMoves, IdleRecord DEF LockWindow, At, KeyOf, Current, Holding
      <3>3. \A n \in 1..MaxWindows : [window EXCEPT ![caller[c].object].holder = c][n].key = window[n].key
        BY <1>2 DEF WindowRecord
      <3>4. CASE window' = Kept(window, windows, caller')
        BY <3>1, <3>2, <3>4, <2>9, <1>1, KeysKept DEF LockWindow
      <3>5. CASE window' = [window EXCEPT ![caller[c].object].holder = c]
        BY <3>1, <3>2, <3>3, <3>5, <2>9, <1>1, KeysKept DEF LockWindow
      <3>. QED
        BY <3>4, <3>5, <2>9, Zenon DEF LockWindow
    <2>10. CASE NoTotals(c)
      <3>1. PICK objects : /\ objects = [window EXCEPT ![caller[c].object].holder = "nobody"]
                           /\ window' = Kept(objects, windows, caller')
        BY <2>10 DEF NoTotals
      <3>2. \A m \in 1..MaxWindows : objects[m].key = window[m].key
        BY <3>1, <1>9
      <3>. QED
        BY <3>1, <3>2, <2>10, <1>1, <1>8, KeysKept DEF NoTotals
    <2>11. CASE Announce(c)
      <3> DEFINE n == caller[c].object
                 s == caller[c].session
                 left == [window EXCEPT ![n].holder = "nobody"]
      <3>1. PICK counter :
              \/ Finish(c) /\ window' = Kept(left, windows, caller')
              \/ /\ Prepared(c, counter)
                 /\ window' = Kept([left EXCEPT ![n].session = s, ![n].counter = counter], windows, caller')
        BY <2>11, Zenon DEF Announce
      <3>2. caller'[c].at \notin Holding /\ \A d \in Callers \ {c} : caller'[d] = caller[d]
        BY <3>1, <1>2, <1>8, PreparedMoves, IdleRecord DEF Holding
      <3>3. \A m \in 1..MaxWindows : left[m].key = window[m].key
        BY <1>9
      <3>4. \A m \in 1..MaxWindows : [left EXCEPT ![n].session = s, ![n].counter = counter][m].key = window[m].key
        BY <1>2 DEF WindowRecord
      <3>5. PICK objects : /\ window' = Kept(objects, windows', caller')
                           /\ \A m \in 1..MaxWindows : objects[m].key = window[m].key
        BY <3>1, <3>3, <3>4, <2>11 DEF Announce
      <3>. QED
        BY <3>2, <3>5, <2>11, <1>1, KeysKept DEF Announce
    <2>12. CASE AnnounceFails(c)
      <3>1. PICK objects : /\ objects = [window EXCEPT ![caller[c].object].holder = "nobody"]
                           /\ window' = Kept(objects, windows, caller')
        BY <2>12 DEF AnnounceFails
      <3>2. \A m \in 1..MaxWindows : objects[m].key = window[m].key
        BY <3>1, <1>9
      <3>. QED
        BY <3>1, <3>2, <2>12, <1>1, <1>8, KeysKept DEF AnnounceFails
    <2>13. CASE KeepClock(c)
      BY <2>13, <1>2, <1>3, GotoMoves DEF KeepClock, Holding
    <2>14. CASE LockClock(c)
      BY <2>14, <1>2, <1>3, GotoMoves DEF LockClock, Holding
    <2>15. CASE Adjusted(c)
      BY <2>15, <1>2, <1>3, GotoMoves DEF Adjusted, Holding
    <2>16. CASE Reserve(c)
      BY <2>16, <1>2, <1>3, FinishMoves, IdleRecord DEF Reserve, Holding
    <2>. QED
      BY <1>4, <2>1, <2>2, <2>3, <2>4, <2>5, <2>6, <2>7, <2>8, <2>9, <2>10, <2>11, <2>12, <2>13, <2>14, <2>15, <2>16 DEF Advance
  <1>5. ASSUME NEW c \in Callers, NEW q \in Requests, NEW view \in Views, Begin(c, q, view)
        PROVE  KeyInv'
    BY <1>5, <1>2, <1>3 DEF Begin, Idle, CallersOK, Holding
  <1>6. ASSUME NEW s \in SessionIds, Lose(s)
        PROVE  KeyInv'
    BY <1>1, <1>6 DEF Lose, KeyInv, KeyOf, Current
  <1>10. ASSUME NEW c \in Callers, LetGo(c)
         PROVE  KeyInv'
    <2>1. PICK objects : /\ window' = Kept(objects, windows', caller') /\ UNCHANGED windows
                         /\ \A n \in 1..MaxWindows : objects[n].key = window[n].key
      <3> DEFINE released == [n \in 1..MaxWindows |-> IF window[n].holder = c THEN [window[n] EXCEPT !.holder = "nobody"]
                                                     ELSE window[n]]
      <3>1. \A n \in 1..MaxWindows : released[n].key = window[n].key
        BY <1>2 DEF WindowRecord
      <3>2. window' = Kept(released, windows', caller') /\ UNCHANGED windows
        BY <1>10 DEF LetGo
      <3> HIDE DEF released
      <3>. QED
        BY <3>1, <3>2
    <2>. QED
      BY <2>1, <1>10, <1>1, <1>8, KeysKept DEF LetGo
  <1>11. ASSUME NEW s \in SessionIds, Discard(s)
         PROVE  KeyInv'
    BY <1>1, <1>11 DEF Discard, KeyInv, KeyOf, Current
  <1>7. CASE UNCHANGED vars
    BY <1>1, <1>7 DEF vars, KeyInv, KeyOf, Current
  <1>. QED
    BY <1>1, <1>4, <1>5, <1>6, <1>7, <1>10, <1>11 DEF Next, DropUnsent, DropSent

-----------------------------------------------------------------------------
(* The numbers of windows and of calls                                     *)

\* A session keeps the counters it has as long as it is open.
Kindred ==
    \A s \in SessionIds :
        /\ link'[s].state = "unused" => link[s].state = "unused"
        /\ link'[s].state = "open" /\ link[s].state # "unused" =>
               /\ link[s].state = "open"
               /\ \A n, k : Known(s, n, k) => Known(s, n, k)'

\* A counter that was right is right.
LEMMA NumbersKept ==
  ASSUME TypeOK, NumberInv, Kindred, NEW objects,
         \A n \in 1..MaxWindows : window'[n] = objects[n] \/ window'[n] = FreeWindow,
         \A n \in 1..MaxWindows :
             \/ /\ objects[n].session = window[n].session /\ objects[n].key = window[n].key
                /\ objects[n].counter = window[n].counter
             \/ Numbered(objects[n])'
  PROVE  NumberInv'
  <1>1. ASSUME NEW n \in 1..MaxWindows, NEW w, w = window'[n]
        PROVE  Numbered(w)'
    <2>1. CASE w = FreeWindow
      BY <2>1 DEF FreeWindow, Numbered
    <2>2. CASE /\ w.session = window[n].session /\ w.key = window[n].key
               /\ w.counter = window[n].counter
      <3>1. CASE w.session = 0
        BY <3>1 DEF Numbered
      <3>2. CASE w.session # 0
        <4>1. window[n] \in WindowRecord
          BY DEF TypeOK, SharedOK
        <4>2. w.session \in SessionIds
          BY <4>1, <3>2, <2>2 DEF WindowRecord, SessionIds
        <4>3. Numbered(window[n])
          BY DEF NumberInv
        <4>. QED
          BY <4>2, <4>3, <3>2, <2>2 DEF Numbered, Kindred
      <3>. QED
        BY <3>1, <3>2
    <2>. QED
      BY <1>1, <2>1, <2>2
  <1>. QED
    BY <1>1 DEF NumberInv

\* So is one of a call.
LEMMA ChargesKept ==
  ASSUME TypeOK, ChargeInv, Kindred, NEW c \in Callers,
         \A d \in Callers \ {c} : caller'[d] = caller[d],
         NEW r, r = caller'[c],
         \/ /\ r.session = caller[c].session /\ r.endpoint = caller[c].endpoint
            /\ r.want = caller[c].want /\ r.counters = caller[c].counters
         \/ Charged(r)'
  PROVE  ChargeInv'
  <1>1. ASSUME NEW d \in Callers, NEW q, q = caller'[d]
        PROVE  Charged(q)'
    <2>1. CASE /\ q.session = caller[d].session /\ q.endpoint = caller[d].endpoint
               /\ q.want = caller[d].want /\ q.counters = caller[d].counters
      <3>1. CASE q.session = 0
        BY <3>1 DEF Charged
      <3>2. CASE q.session # 0
        <4>1. caller[d] \in CallerRecord
          BY DEF TypeOK, CallersOK
        <4>2. q.session \in SessionIds
          BY <4>1, <3>2, <2>1 DEF CallerRecord, SessionIds
        <4>3. Charged(caller[d])
          BY DEF ChargeInv
        <4>. QED
          BY <4>2, <4>3, <3>2, <2>1 DEF Charged, Kindred
      <3>. QED
        BY <3>1, <3>2
    <2>. QED
      BY <1>1, <2>1
  <1>. QED
    BY <1>1 DEF ChargeInv

LEMMA CounterStep == TypeOK /\ KeyInv /\ StrayInv /\ NumberInv /\ ChargeInv /\ [Next]_vars => NumberInv' /\ ChargeInv'
  <1>1. SUFFICES ASSUME TypeOK, KeyInv, StrayInv, NumberInv, ChargeInv, [Next]_vars PROVE NumberInv' /\ ChargeInv'
    OBVIOUS
  <1>2. CallersOK /\ link \in [SessionIds -> LinkRecord] /\ window \in [1..MaxWindows -> WindowRecord]
        /\ announced \in [SessionIds -> Seq(Carried)]
    BY <1>1 DEF TypeOK, SharedOK
  <1>3. /\ UNCHANGED <<link, announced, crossed>> => Kindred
        /\ \A s : Fail(s) => Kindred
    <2>1. \A s : Fail(s) => Kindred
      BY <1>2 DEF Fail, Kindred, Known, Heard, LinkRecord
    <2>2. UNCHANGED <<link, announced, crossed>> => Kindred
      BY DEF Kindred, Known, Heard
    <2>. QED
      BY <2>1, <2>2
  <1>4. ASSUME Kindred, NEW objects,
               window' = objects \/ window' = Kept(objects, windows', caller'),
               \A n \in 1..MaxWindows : /\ objects[n].session = window[n].session
                                        /\ objects[n].key = window[n].key
                                        /\ objects[n].counter = window[n].counter
        PROVE  NumberInv'
    <2>1. \A n \in 1..MaxWindows : window'[n] = objects[n] \/ window'[n] = FreeWindow
      BY <1>4 DEF Kept
    <2>. QED
      BY <2>1, <1>1, <1>4, NumbersKept
  <1>5. Kindred /\ window' = window => NumberInv'
    BY <1>4
  \* The calls: one has no session, goes on, has found a session, or ends.
  <1>6. ASSUME Kindred, NEW c \in Callers, \A d \in Callers \ {c} : caller'[d] = caller[d],
               caller'[c].session = 0
        PROVE  ChargeInv'
    <2>1. PICK r : r = caller'[c]
      OBVIOUS
    <2>2. Charged(r)'
      BY <2>1, <1>6 DEF Charged
    <2>. QED
      BY <2>1, <2>2, <1>1, <1>6, ChargesKept
  <1>7. ASSUME Kindred, NEW c \in Callers, NEW to, Goto(c, to)
        PROVE  ChargeInv'
    BY <1>1, <1>2, <1>7, GotoMoves, ChargesKept
  <1>8. ASSUME Kindred, NEW c \in Callers, caller[c].at \in Bound, NEW s, Take(c, s), link'[s].state = "open"
        PROVE  ChargeInv'
    <2>1. caller[c].counters = <<>>
      BY <1>2, <1>8 DEF CallersOK, Stage, Bound, InSession, Preparing
    <2>2. PICK r : r = caller'[c]
      OBVIOUS
    <2>3. r.session = s /\ r.counters = <<>> /\ \A d \in Callers \ {c} : caller'[d] = caller[d]
      BY <2>1, <2>2, <1>2, <1>8, TakeMoves
    <2>4. Charged(r)'
      BY <2>3, <1>8 DEF Charged
    <2>. QED
      BY <2>2, <2>3, <2>4, <1>1, <1>8, ChargesKept
  <1>9. ASSUME Kindred, NEW c \in Callers, Finish(c)
        PROVE  ChargeInv'
    BY <1>2, <1>6, <1>9, FinishMoves, IdleRecord
  \* A counter the server has for what is wanted.
  <1>14. ASSUME Kindred, NEW c \in Callers, caller[c].at \in Preparing, NEW counter, Prepared(c, counter),
                NEW k, k = Asks(Current(c)), NEW s, s = caller[c].session,
                (link[s].state = "open" => Known(s, counter, k))'
         PROVE  ChargeInv'
    <2>1. \A d \in Callers \ {c} : caller'[d] = caller[d]
      BY <1>2, <1>14, PreparedMoves
    <2>2. PICK r : r = caller'[c]
      OBVIOUS
    <2>3. CASE r = Idle
      BY <2>1, <2>2, <2>3, <1>6, <1>14, IdleRecord
    <2>4. CASE r # Idle
      <3> DEFINE old == caller[c].counters
      <3>1. /\ r.want = caller[c].want /\ r.endpoint = caller[c].endpoint
            /\ r.session = s /\ r.counters = Append(old, counter)
        BY <2>2, <2>4, <1>2, <1>14, PreparedMoves
      <3>2. caller[c] \in CallerRecord /\ old \in Seq(Nat) /\ s \in SessionIds
        BY <1>2, <1>14 DEF CallersOK, Stage, InSession, CallerRecord, SessionIds
      <3>3. Charged(caller[c]) /\ link'[s].state # "unused"
        <4>1. Charged(caller[c])
          BY <1>1 DEF ChargeInv
        <4>2. link[s].state # "unused"
          BY <3>2, <4>1, <1>14 DEF Charged, SessionIds
        <4>3. QED
          BY <3>2, <4>1, <4>2, <1>14 DEF Kindred
      <3>4. ASSUME link'[s].state = "open", NEW i \in DOMAIN r.counters
            PROVE  Known(s, r.counters[i], Asks(r.want[i]))'
        <4>1. CASE i = Len(old) + 1
          <5>1. r.counters[i] = counter
            BY <4>1, <3>1, <3>2
          <5>2. k = Asks(r.want[i])
            BY <4>1, <3>1, <1>14 DEF Current
          <5>. QED
            BY <5>1, <5>2, <3>4, <1>14 DEF Asks
        <4>2. CASE i # Len(old) + 1
          <5>1. i \in DOMAIN old /\ r.counters[i] = old[i]
            BY <4>2, <3>1, <3>2, <3>4
          <5>2. Known(s, old[i], Asks(r.want[i]))
            <6>1. s # 0 /\ link[s].state = "open"
              BY <3>2, <3>3, <3>4, <1>14 DEF Charged, Kindred, SessionIds
            <6>. QED
              BY <5>1, <6>1, <3>1, <3>3, <1>14 DEF Charged
          <5>. QED
            BY <5>1, <5>2, <3>2, <3>3, <3>4, <1>14 DEF Charged, Kindred, SessionIds, Asks
        <4>. QED
          BY <4>1, <4>2
      <3>5. Charged(r)'
        BY <3>1, <3>3, <3>4 DEF Charged
      <3>. QED
        BY <2>1, <2>2, <3>5, <1>1, <1>14, ChargesKept
    <2>. QED
      BY <2>3, <2>4
  \* The counter of a window that was announced on the session of the call.
  <1>15. ASSUME NEW c \in Callers, caller[c].at \in Holding, Initialized(c, caller[c].object),
                UNCHANGED <<link, announced, crossed>>, Prepared(c, window[caller[c].object].counter)
         PROVE  ChargeInv'
    <2> DEFINE n == caller[c].object
               s == caller[c].session
    <2>1. n \in 1..MaxWindows /\ s # 0 /\ window[n].session = s
      BY <1>2, <1>15, ManagerAssumption DEF CallersOK, Stage, InSession, Preparing, Holding, CallerRecord, Initialized
    <2>2. link[s].state = "open" => Known(s, window[n].counter, Asks(Current(c)))
      <3>1. window[n].key = KeyOf(c, Current(c))
        BY <1>1, <1>15 DEF KeyInv
      <3>2. Asks(window[n].key) = Asks(Current(c))
        BY <3>1 DEF KeyOf, Asks
      <3>. QED
        BY <2>1, <3>2, <1>1 DEF NumberInv, Numbered
    <2>3. PICK k, t, x : k = Asks(Current(c)) /\ t = s /\ x = window[n].counter
      OBVIOUS
    <2>4. (link[t].state = "open" => Known(t, x, k))'
      BY <2>2, <2>3, <1>15 DEF Known, Heard
    <2>. QED
      BY <2>3, <2>4, <1>3, <1>14, <1>15 DEF Holding, Preparing
  <1>16. \A n, h : \A m \in 1..MaxWindows :
            LET object == [window EXCEPT ![n].holder = h][m]
            IN  object.session = window[m].session /\ object.key = window[m].key /\ object.counter = window[m].counter
    BY <1>2 DEF WindowRecord
  <1>10. ASSUME NEW c \in Callers, Advance(c)
        PROVE  NumberInv' /\ ChargeInv'
    <2>1. CASE Bind(c)
      <3>1. \A d \in Callers \ {c} : caller'[d] = caller[d]
        BY <2>1, <1>2 DEF Bind, CallersOK
      <3>2. caller'[c].session = 0
        BY <2>1, <1>2, ZenonT(30) DEF Bind, At, CallersOK, CallerRecord, Stage, InSession, Preparing
      <3>. QED
        BY <3>1, <3>2, <2>1, <1>3, <1>5, <1>6 DEF Bind
    <2>2. CASE FindSession(c)
      <3>1. UNCHANGED <<link, announced, crossed, window>>
        BY <2>2 DEF FindSession
      <3>2. CASE Goto(c, "lock")
        BY <3>1, <3>2, <1>2, <1>3, <1>5, <1>7
      <3>3. CASE Usable(sessions[caller[c].endpoint]) /\ Take(c, sessions[caller[c].endpoint])
        <4>1. PICK s : Take(c, s) /\ link'[s].state = "open"
          BY <3>1, <3>3 DEF Usable
        <4>. QED
          BY <3>1, <4>1, <2>2, <1>3, <1>5, <1>8 DEF FindSession, At, Bound
      <3>. QED
        BY <3>2, <3>3, <2>2, Zenon DEF FindSession
    <2>3. CASE LockConnect(c)
      <3>1. UNCHANGED <<link, announced, crossed, window>>
        BY <2>3 DEF LockConnect
      <3>2. CASE Goto(c, "connect")
        BY <3>1, <3>2, <1>2, <1>3, <1>5, <1>7
      <3>3. CASE Usable(sessions[caller[c].endpoint]) /\ Take(c, sessions[caller[c].endpoint])
        <4>1. PICK s : Take(c, s) /\ link'[s].state = "open"
          BY <3>1, <3>3 DEF Usable
        <4>. QED
          BY <3>1, <4>1, <2>3, <1>3, <1>5, <1>8 DEF LockConnect, At, Bound
      <3>. QED
        BY <3>2, <3>3, <2>3, Zenon DEF LockConnect
    <2>4. CASE Connect(c)
      <3>1. PICK n \in SessionIds :
              /\ link[n].state = "unused"
              /\ link' = [link EXCEPT ![n] = [endpoint |-> caller[c].endpoint, state |-> "open"]]
              /\ Take(c, n) /\ UNCHANGED <<window, announced, crossed>>
        BY <2>4 DEF Connect
      <3>2. Kindred
        BY <3>1, <1>2 DEF Kindred, Known, Heard
      <3>3. link'[n].state = "open"
        BY <3>1, <1>2
      <3>. QED
        BY <3>1, <3>2, <3>3, <2>4, <1>2, <1>5, <1>8 DEF Connect, At, Bound, Usable, SessionIds
    <2>5. CASE ConnectFails(c)
      BY <2>5, <1>3, <1>5, <1>9 DEF ConnectFails
    <2>6. CASE RemoveStale(c)
      <3>1. Kindred /\ NumberInv'
        BY <2>6, <1>3, <1>4 DEF RemoveStale
      <3>. QED
        BY <3>1, <2>6, <1>7 DEF RemoveStale
    <2>7. CASE EnterWindow(c)
      <3>1. /\ \A d \in Callers \ {c} : caller'[d] = caller[d]
            /\ caller'[c].session = caller[c].session /\ caller'[c].endpoint = caller[c].endpoint
            /\ caller'[c].want = caller[c].want /\ caller'[c].counters = caller[c].counters
        BY <2>7, <1>2 DEF EnterWindow, CallersOK, CallerRecord
      <3>2. ChargeInv'
        BY <3>1, <2>7, <1>1, <1>3, ChargesKept DEF EnterWindow
      <3>3. PICK objects : objects = window'
        OBVIOUS
      <3>4. \A n \in 1..MaxWindows : objects[n] = window[n] \/ objects[n].session = 0
        BY <3>3, <2>7, <1>2 DEF EnterWindow, FreeWindow
      <3>5. NumberInv'
        BY <3>3, <3>4, <2>7, <1>1, <1>3, NumbersKept DEF EnterWindow, Numbered
      <3>. QED
        BY <3>2, <3>5
    <2>8. CASE EnsureWindow(c)
      <3>1. Kindred /\ NumberInv'
        BY <2>8, <1>3, <1>4 DEF EnsureWindow
      <3>. QED
        BY <3>1, <2>8, <1>7, <1>15 DEF EnsureWindow, At, Holding
    <2>9. CASE LockWindow(c)
      <3>1. PICK objects : /\ objects = window \/ objects = [window EXCEPT ![caller[c].object].holder = c]
                           /\ window' = objects \/ window' = Kept(objects, windows', caller')
        BY <2>9 DEF LockWindow
      <3>3. \A m \in 1..MaxWindows : /\ objects[m].session = window[m].session
                                     /\ objects[m].key = window[m].key /\ objects[m].counter = window[m].counter
        <4>1. CASE objects = window
          BY <4>1
        <4>2. CASE objects = [window EXCEPT ![caller[c].object].holder = c]
          BY <4>2, <1>16
        <4>. QED
          BY <3>1, <4>1, <4>2
      <3>2. Kindred /\ NumberInv'
        BY <3>1, <3>3, <2>9, <1>3, <1>4 DEF LockWindow
      <3>. QED
        BY <3>2, <2>9, <1>7, <1>15 DEF LockWindow, At, Holding
    <2>10. CASE NoTotals(c)
      <3>1. PICK objects : /\ objects = [window EXCEPT ![caller[c].object].holder = "nobody"]
                           /\ window' = Kept(objects, windows', caller')
        BY <2>10 DEF NoTotals
      <3>2. Kindred
        BY <2>10, <1>3 DEF NoTotals
      <3>4. \A m \in 1..MaxWindows : /\ objects[m].session = window[m].session
                                     /\ objects[m].key = window[m].key /\ objects[m].counter = window[m].counter
        BY <3>1, <1>16
      <3>3. NumberInv'
        BY <3>1, <3>2, <3>4, <1>4
      <3>. QED
        BY <3>2, <3>3, <2>10, <1>9 DEF NoTotals
    <2>11. CASE Announce(c)
      <3>1. PICK n, s, k, left :
              /\ n = caller[c].object /\ s = caller[c].session /\ k = Asks(Current(c))
              /\ left = [window EXCEPT ![n].holder = "nobody"]
        OBVIOUS
      <3>2. n \in 1..MaxWindows /\ s \in SessionIds /\ k \in Carried /\ Asks(window[n].key) = k
        <4>1. caller[c].at = "announce" /\ caller[c] \in CallerRecord /\ Stage(caller[c])
          BY <2>11, <1>2 DEF Announce, At, CallersOK
        <4>2. n # 0 /\ n \in 0..MaxWindows /\ s # 0 /\ s \in 0..MaxSessions
          BY <4>1, <3>1 DEF CallerRecord, Stage, InSession, Preparing, Holding
        <4>3. window[n].key = KeyOf(c, Current(c))
          BY <4>1, <3>1, <1>1 DEF KeyInv, Holding
        <4>4. k \in Carried
          BY <4>1, <3>1, <1>1, CurrentKey DEF Preparing
        <4>. QED
          BY <4>2, <4>3, <4>4, <3>1, ManagerAssumption DEF SessionIds, KeyOf, Asks
      <3>10. PICK own \in {Refused, Number(s, k)} :
              /\ Hears(s, k, own) /\ stray' = Behind(s, own) /\ First(s, own).cmd = "init"
              /\ IF First(s, own) = Refused
                 THEN Finish(c) /\ window' = Kept(left, windows, caller')
                 ELSE /\ Prepared(c, First(s, own).counter)
                      /\ window' = Kept([left EXCEPT ![n].session = s, ![n].counter = First(s, own).counter],
                                        windows, caller')
        BY <2>11, <3>1, Zenon DEF Announce
      <3>3. PICK answer :
              /\ answer = First(s, own) /\ Hears(s, k, own) /\ stray' = Behind(s, own)
              /\ answer.cmd = "init"
              /\ \/ Finish(c) /\ window' = Kept(left, windows, caller')
                 \/ /\ answer # Refused /\ Prepared(c, answer.counter)
                    /\ window' = Kept([left EXCEPT ![n].session = s, ![n].counter = answer.counter], windows, caller')
              /\ UNCHANGED <<windows, link>> /\ crossed' = IF stray[s] = <<>> THEN crossed ELSE crossed \cup {s}
        BY <2>11, <3>1, <3>10 DEF Announce
      <3>4. /\ \A t \in SessionIds \ {s} : announced'[t] = announced[t]
            /\ DOMAIN announced[s] \subseteq DOMAIN announced'[s]
            /\ \A j : Heard(s, j) \subseteq Heard(s, j)'
            /\ own # Refused => own.counter \in Heard(s, k)' /\ own = [cmd |-> "init", counter |-> own.counter]
        BY <3>2, <3>3, <1>2, NumberHeard
      <3>5. Kindred
        <4>1. \A t \in SessionIds : \A i, j : Known(t, i, j) => Known(t, i, j)'
          BY <3>3, <3>4 DEF Known, Heard
        <4>. QED
          BY <4>1, <3>3 DEF Kindred
      <3>6. \A m \in 1..MaxWindows : /\ left[m].session = window[m].session
                                      /\ left[m].key = window[m].key /\ left[m].counter = window[m].counter
        BY <3>1, <1>16
      <3>9. left \in [1..MaxWindows -> WindowRecord]
        <4>1. [window[n] EXCEPT !.holder = "nobody"] \in WindowRecord
          BY <3>2, <1>2, ManagerAssumption DEF WindowRecord
        <4>. QED
          BY <4>1, <3>1, <3>2, <1>2
      <3>7. CASE Finish(c) /\ window' = Kept(left, windows, caller')
        BY <3>3, <3>5, <3>6, <3>7, <1>4, <1>9
      <3>8. CASE /\ answer # Refused /\ Prepared(c, answer.counter)
                 /\ window' = Kept([left EXCEPT ![n].session = s, ![n].counter = answer.counter], windows, caller')
        <4>1. PICK counter : counter = answer.counter
          OBVIOUS
        <4>2. Known(s, counter, k)'
          <5>1. CASE stray[s] = <<>>
            BY <5>1, <4>1, <3>3, <3>4, <3>8 DEF First, Known, Heard
          <5>2. CASE stray[s] # <<>>
            <6>1. stray[s] \in Seq(Given(s)) /\ answer = Head(stray[s])
              BY <5>2, <3>2, <3>3, <1>1 DEF StrayInv, First
            <6>2. answer \in Given(s)
              BY <5>2, <6>1
            <6>3. counter \in DOMAIN announced[s]
              BY <6>2, <4>1, <3>3, <3>8 DEF Given, Reserved
            <6>. QED
              BY <5>2, <6>3, <3>3, <3>4 DEF Known
          <5>. QED
            BY <5>1, <5>2
        <4>3. PICK objects : objects = [left EXCEPT ![n].session = s, ![n].counter = counter]
          OBVIOUS
        <4>4. objects[n].session = s /\ objects[n].counter = counter /\ Asks(objects[n].key) = k
              /\ \A m \in 1..MaxWindows : m # n => objects[m] = left[m]
          <5>1. PICK o : o = [left[n] EXCEPT !.session = s, !.counter = counter]
            OBVIOUS
          <5>2. o.session = s /\ o.counter = counter /\ o.key = window[n].key
            BY <5>1, <3>2, <3>6, <3>9 DEF WindowRecord
          <5>3. objects = [left EXCEPT ![n] = o]
            BY <4>3, <3>2, <3>6, <3>9, <5>1
          <5>. QED
            BY <5>2, <5>3, <3>2, <3>6, <3>9
        <4>5. link'[s].state # "unused"
          <5>1. Charged(caller[c]) /\ s # 0
            BY <3>2, <1>1 DEF ChargeInv, SessionIds
          <5>. QED
            BY <5>1, <3>1, <3>3 DEF Charged
        <4>6. Numbered(objects[n])'
          BY <4>2, <4>4, <4>5 DEF Numbered, Asks
        <4>7. \A m \in 1..MaxWindows : window'[m] = objects[m] \/ window'[m] = FreeWindow
          BY <4>1, <4>3, <3>8 DEF Kept
        <4>8. NumberInv'
          BY <4>4, <4>6, <4>7, <3>5, <3>6, <1>1, NumbersKept
        <4>9. ChargeInv'
          BY <4>1, <4>2, <3>1, <3>5, <3>8, <2>11, <1>14 DEF Announce, At, Preparing
        <4>. QED
          BY <4>8, <4>9
      <3>. QED
        BY <3>3, <3>7, <3>8
    <2>12. CASE AnnounceFails(c)
      <3>1. PICK objects : /\ objects = [window EXCEPT ![caller[c].object].holder = "nobody"]
                           /\ window' = Kept(objects, windows', caller')
        BY <2>12 DEF AnnounceFails
      <3>2. Kindred
        BY <2>12, <1>3 DEF AnnounceFails
      <3>4. \A m \in 1..MaxWindows : /\ objects[m].session = window[m].session
                                     /\ objects[m].key = window[m].key /\ objects[m].counter = window[m].counter
        BY <3>1, <1>16
      <3>3. NumberInv'
        BY <3>1, <3>2, <3>4, <1>4
      <3>. QED
        BY <3>2, <3>3, <2>12, <1>9 DEF AnnounceFails
    <2>13. CASE KeepClock(c)
      BY <2>13, <1>3, <1>5, <1>7 DEF KeepClock
    <2>14. CASE LockClock(c)
      BY <2>14, <1>3, <1>5, <1>7 DEF LockClock
    <2>15. CASE Adjusted(c)
      BY <2>15, <1>3, <1>5, <1>7 DEF Adjusted
    <2>16. CASE Reserve(c)
      <3>1. Kindred
        BY <2>16, <1>3 DEF Reserve
      <3>. QED
        BY <3>1, <2>16, <1>5, <1>9 DEF Reserve
    <2>. QED
      BY <1>10, <2>1, <2>2, <2>3, <2>4, <2>5, <2>6, <2>7, <2>8, <2>9, <2>10, <2>11, <2>12, <2>13, <2>14, <2>15, <2>16 DEF Advance
  <1>11. ASSUME NEW c \in Callers, NEW q \in Requests, NEW view \in Views, Begin(c, q, view)
        PROVE  NumberInv' /\ ChargeInv'
    <2>1. \A d \in Callers \ {c} : caller'[d] = caller[d]
      BY <1>11, <1>2 DEF Begin, CallersOK
    <2>2. caller'[c].session = 0
      BY <1>11, <1>2 DEF Begin, CallersOK, Idle
    <2>. QED
      BY <2>1, <2>2, <1>11, <1>3, <1>5, <1>6 DEF Begin
  <1>12. ASSUME NEW s \in SessionIds, Lose(s)
        PROVE  NumberInv' /\ ChargeInv'
    <2>1. Kindred
      BY <1>12, <1>3 DEF Lose
    <2>2. ChargeInv'
      BY <2>1, <1>1, <1>12, ChargesKept DEF Lose, ChargeInv, Kindred
    <2>. QED
      BY <2>1, <2>2, <1>12, <1>5 DEF Lose
  <1>13. CASE UNCHANGED vars
    BY <1>1, <1>13 DEF vars, NumberInv, Numbered, ChargeInv, Charged, Known, Heard
  <1>17. ASSUME NEW s \in SessionIds, Discard(s)
         PROVE  NumberInv' /\ ChargeInv'
    BY <1>1, <1>17 DEF Discard, NumberInv, Numbered, ChargeInv, Charged, Known, Heard
  <1>18. ASSUME NEW c \in Callers, LetGo(c), Kindred
         PROVE  NumberInv' /\ ChargeInv'
    <2> DEFINE released == [n \in 1..MaxWindows |-> IF window[n].holder = c THEN [window[n] EXCEPT !.holder = "nobody"]
                                                   ELSE window[n]]
    <2>1. \A n \in 1..MaxWindows : /\ released[n].session = window[n].session
                                    /\ released[n].key = window[n].key /\ released[n].counter = window[n].counter
      BY <1>2 DEF WindowRecord
    <2>2. window' = Kept(released, windows', caller')
      BY <1>18 DEF LetGo
    <2> HIDE DEF released
    <2>. QED
      BY <2>1, <2>2, <1>18, <1>4, <1>9 DEF LetGo
  <1>19. ASSUME NEW c \in Callers, DropUnsent(c)
         PROVE  NumberInv' /\ ChargeInv'
    BY <1>19, <1>3, <1>18 DEF DropUnsent, LetGo
  <1>20. ASSUME NEW c \in Callers, DropSent(c)
         PROVE  NumberInv' /\ ChargeInv'
    <2>1. Kindred
      <3>1. CASE UNCHANGED announced
        BY <3>1, <1>20, <1>3 DEF DropSent, LetGo
      <3>2. ASSUME At(c, "announce"), NEW own \in {Refused, Number(caller[c].session, Asks(Current(c)))},
                   Hears(caller[c].session, Asks(Current(c)), own)
            PROVE  Kindred
        <4>1. caller[c].session \in SessionIds /\ Asks(Current(c)) \in Carried
          BY <3>2, <1>1, <1>2, <1>20, CurrentKey DEF DropSent, CallersOK, CallerRecord, SessionIds, At, Preparing
        <4>4. PICK s, asked : s = caller[c].session /\ asked = Asks(Current(c))
          OBVIOUS
        <4>5. /\ \A t \in SessionIds \ {s} : announced'[t] = announced[t]
              /\ DOMAIN announced[s] \subseteq DOMAIN announced'[s]
              /\ \A k : Heard(s, k) \subseteq Heard(s, k)'
          BY <3>2, <4>1, <4>4, <1>2, NumberHeard
        <4>2. \A t \in SessionIds : /\ DOMAIN announced[t] \subseteq DOMAIN announced'[t]
                                     /\ \A k : Heard(t, k) \subseteq Heard(t, k)'
          BY <4>5 DEF Heard
        <4>3. UNCHANGED <<link, crossed>>
          BY <1>20 DEF DropSent, LetGo
        <4>. QED
          BY <4>2, <4>3 DEF Kindred, Known
      <3>. QED
        BY <3>1, <3>2, <1>20 DEF DropSent
    <2>. QED
      BY <2>1, <1>18, <1>20 DEF DropSent
  <1>. QED
    BY <1>1, <1>10, <1>11, <1>12, <1>13, <1>17, <1>19, <1>20 DEF Next

\* The strays of a session tell of its counters.
LEMMA StrayStep == TypeOK /\ StrayInv /\ [Next]_vars => StrayInv'
  <1>1. SUFFICES ASSUME TypeOK, StrayInv, [Next]_vars PROVE StrayInv'
    OBVIOUS
  <1>2. /\ announced \in [SessionIds -> Seq(Carried)] /\ stray \in [SessionIds -> Seq(Answered)]
        /\ CallersOK
    BY <1>1 DEF TypeOK, SharedOK
  <1>3. UNCHANGED <<announced, stray>> => StrayInv'
    BY <1>1 DEF StrayInv, Given
  <1>4. \A s : Fail(s) => StrayInv'
    <2>1. \A A : <<>> \in Seq(A)
      OBVIOUS
    <2>. QED
      BY <2>1, <1>1, <1>2 DEF Fail, StrayInv, Given
  \* More answers, or one less, and more counters.
  <1>5. ASSUME NEW s \in SessionIds, \A t \in SessionIds \ {s} : announced'[t] = announced[t] /\ stray'[t] = stray[t],
               DOMAIN announced[s] \subseteq DOMAIN announced'[s],
               NEW own, NEW G, G = Given(s)', own \in G,
               stray'[s] \in {IF stray[s] = <<>> THEN <<>> ELSE Append(Tail(stray[s]), own), Append(stray[s], own)}
        PROVE  StrayInv'
    <2>2. Given(s) \subseteq G
      BY <1>5 DEF Given
    <2>3. stray[s] \in Seq(G)
      BY <2>2, <1>1, <1>5 DEF StrayInv
    <2>4. stray'[s] \in Seq(G)
      <3>1. /\ (IF stray[s] = <<>> THEN <<>> ELSE Append(Tail(stray[s]), own)) \in Seq(G)
            /\ Append(stray[s], own) \in Seq(G)
        BY <2>3, <1>5, Taken
      <3>. QED
        BY <3>1, <1>5, Zenon
    <2>5. \A t \in SessionIds \ {s} : stray'[t] \in Seq(Given(t)')
      BY <1>1, <1>5 DEF StrayInv, Given
    <2>. QED
      BY <2>4, <2>5, <1>5 DEF StrayInv
  \* A session is told of a target, and answers who asks or leaves a stray.
  <1>6. ASSUME NEW c \in Callers, At(c, "announce"), NEW own \in {Refused, Number(caller[c].session, Asks(Current(c)))},
               Hears(caller[c].session, Asks(Current(c)), own),
               \/ stray' = Behind(caller[c].session, own)
               \/ stray' = [stray EXCEPT ![caller[c].session] = Append(@, own)]
        PROVE  StrayInv'
    <2>5. PICK s, asked : s = caller[c].session /\ asked = Asks(Current(c))
      OBVIOUS
    <2>1. s \in SessionIds /\ asked \in Carried
      BY <2>5, <1>6, <1>1, <1>2, CurrentKey
         DEF CallersOK, CallerRecord, SessionIds, At, Stage, InSession, Preparing
    <2>2. /\ \A t \in SessionIds \ {s} : announced'[t] = announced[t]
          /\ DOMAIN announced[s] \subseteq DOMAIN announced'[s]
          /\ own # Refused => own.counter \in Heard(s, asked)' /\ own = [cmd |-> "init", counter |-> own.counter]
      BY <2>1, <2>5, <1>6, <1>2, NumberHeard
    <2>6. PICK G : G = Given(s)'
      OBVIOUS
    <2>3. own \in G
      BY <2>2, <2>6 DEF Given, Heard
    <2>4. /\ \A t \in SessionIds \ {s} : stray'[t] = stray[t]
          /\ stray'[s] \in {IF stray[s] = <<>> THEN <<>> ELSE Append(Tail(stray[s]), own), Append(stray[s], own)}
      BY <2>1, <2>5, <1>6, <1>2 DEF Behind
    <2>. QED
      BY <2>1, <2>2, <2>3, <2>4, <2>6, <1>5
  <1>7. ASSUME NEW s \in SessionIds, UNCHANGED announced,
               \/ stray' = Behind(s, Reserved)
               \/ stray' = [stray EXCEPT ![s] = Append(@, Reserved)]
        PROVE  StrayInv'
    <2>1. PICK G : G = Given(s)' /\ Reserved \in G
      BY DEF Given
    <2>2. /\ \A t \in SessionIds \ {s} : stray'[t] = stray[t]
          /\ stray'[s] \in {IF stray[s] = <<>> THEN <<>> ELSE Append(Tail(stray[s]), Reserved), Append(stray[s], Reserved)}
      BY <1>7, <1>2 DEF Behind
    <2>. QED
      BY <2>1, <2>2, <1>5, <1>7
  <1>8. ASSUME NEW c \in Callers, Advance(c)
        PROVE  StrayInv'
    <2>1. CASE Announce(c)
      BY <2>1, <1>6, Zenon DEF Announce
    <2>2. CASE AnnounceFails(c)
      BY <2>2, <1>4 DEF AnnounceFails
    <2>3. CASE Reserve(c)
      <3>1. caller[c].session \in SessionIds
        BY <2>3, <1>2 DEF Reserve, At, CallersOK, CallerRecord, Stage, InSession, SessionIds
      <3>. QED
        BY <3>1, <2>3, <1>4, <1>7 DEF Reserve
    <2>4. CASE ~(Announce(c) \/ AnnounceFails(c) \/ Reserve(c))
      BY <2>4, <1>3, <1>8 DEF Advance, Bind, FindSession, LockConnect, Connect, ConnectFails, RemoveStale, EnterWindow,
           EnsureWindow, LockWindow, NoTotals, KeepClock, LockClock, Adjusted
    <2>. QED
      BY <2>1, <2>2, <2>3, <2>4
  <1>9. ASSUME NEW c \in Callers, DropSent(c)
        PROVE  StrayInv'
    <2>1. caller[c].session \in SessionIds
      BY <1>9, <1>2 DEF DropSent, CallersOK, CallerRecord, SessionIds
    <2>. QED
      BY <2>1, <1>9, <1>6, <1>7 DEF DropSent
  <1>10. ASSUME NEW s \in SessionIds, Discard(s)
         PROVE  StrayInv'
    <2>1. stray' = [stray EXCEPT ![s] = Tail(@)] /\ UNCHANGED announced /\ stray[s] # <<>>
      BY <1>10 DEF Discard
    <2>2. Tail(stray[s]) \in Seq(Given(s))
      BY <2>1, <1>1, <1>10 DEF StrayInv
    <2>3. \A t \in SessionIds : Given(t)' = Given(t)
      BY <2>1 DEF Given
    <2>. QED
      BY <2>1, <2>2, <2>3, <1>1, <1>2 DEF StrayInv
  <1>11. ASSUME NEW c \in Callers, NEW q \in Requests, NEW view \in Views, Begin(c, q, view)
         PROVE  StrayInv'
    BY <1>3, <1>11 DEF Begin
  <1>12. ASSUME NEW c \in Callers, DropUnsent(c)
         PROVE  StrayInv'
    BY <1>3, <1>12 DEF DropUnsent
  <1>13. ASSUME NEW s \in SessionIds, Lose(s)
         PROVE  StrayInv'
    BY <1>4, <1>13 DEF Lose
  <1>14. CASE UNCHANGED vars
    BY <1>3, <1>14 DEF vars
  <1>. QED
    BY <1>1, <1>8, <1>9, <1>10, <1>11, <1>12, <1>13, <1>14 DEF Next

\* Every counter a reservation names is one the server has on the session it
\* is sent on: a window's number is good for its own session only, and is asked
\* for again on the next.  It is that of what the Init of the want asks for,
\* whatever calls are dropped, unless an Init of the session has taken the
\* answer to a dropped call's.
THEOREM OwnCounters == Spec => []ChargesOwnCounters
  <1>1. Init => KeyInv /\ NumberInv /\ ChargeInv /\ StrayInv
    <2>1. \A A : <<>> \in Seq(A)
      OBVIOUS
    <2>. QED
      BY <2>1, ManagerAssumption, IdleRecord
         DEF Init, KeyInv, NumberInv, Numbered, ChargeInv, Charged, FreeWindow, Holding, StrayInv
  <1>2. ChargeInv => ChargesOwnCounters
    BY DEF ChargeInv, Charged, ChargesOwnCounters, Charges, Known
  <1>. QED
    BY <1>1, <1>2, KeyStep, StrayStep, CounterStep, TypeCorrect, PTL DEF Spec

-----------------------------------------------------------------------------
(***************************************************************************)
(* The session a reservation is sent on                                    *)
(*                                                                         *)
(* The manager takes from a session that a round trip is answered or fails *)
(* with the session.  What follows is about the stream itself, for any set *)
(* of calls, any channel capacity and any interleaving of the calls with   *)
(* the reader and the transport.                                           *)
(***************************************************************************)

\* Every step of round_trip and of the reader keeps the types of the
\* session's state: queues hold calls, slots hold a call or an error.
THEOREM SessionTypeCorrect == SessionSpec => []SessionTypeOK
  <1>0. <<>> \in Seq(Calls)
    OBVIOUS
  <1>1. SessionInit => SessionTypeOK
    BY <1>0, SessionAssumption DEF SessionInit, SessionTypeOK
  <1>2. SessionTypeOK /\ [SessionNext]_sessionVars => SessionTypeOK'
    <2>1. SUFFICES ASSUME SessionTypeOK, [SessionNext]_sessionVars
                   PROVE  SessionTypeOK'
      OBVIOUS
    <2>2. USE <2>1, SessionAssumption, <1>0 DEF channel
    <2>3. ASSUME NEW c \in Calls, RoundTrip(c)
          PROVE  SessionTypeOK'
      <3>1. CASE Start(c)
        BY <3>1 DEF Start, SessionTypeOK
      <3>2. CASE Admit(c)
        BY <3>2 DEF Admit, SessionAvailable, SessionTypeOK
      <3>3. CASE Refuse(c)
        BY <3>3 DEF Refuse, Return, SessionAvailable, SessionTypeOK
      <3>4. CASE Register(c)
        BY <3>4 DEF Register, SessionTypeOK
      <3>5. CASE Send(c)
        BY <3>5 DEF Send, SessionTypeOK
      <3>6. CASE SendFails(c)
        BY <3>6 DEF SendFails, BeginFailure, SessionTypeOK
      <3>7. CASE Accept(c)
        BY <3>7 DEF Accept, Return, SessionTypeOK
      <3>8. CASE OutOfOrder(c)
        BY <3>8 DEF OutOfOrder, BeginFailure, SessionTypeOK
      <3>9. CASE ReceiveError(c)
        BY <3>9 DEF ReceiveError, Return, SessionTypeOK
      <3>10. CASE Timeout(c)
        BY <3>10 DEF Timeout, BeginFailure, SessionTypeOK
      <3>11. CASE EndFailure(c)
        BY <3>11 DEF EndFailure, TakePending, Return, SessionTypeOK
      <3>12. CASE Drop(c)
        BY <3>12 DEF Drop, Return, SessionTypeOK
      <3>13. QED
        BY <2>3, <3>1, <3>2, <3>3, <3>4, <3>5, <3>6, <3>7, <3>8, <3>9, <3>10, <3>11, <3>12 DEF RoundTrip
    <2>4. CASE Deliver
      BY <2>4 DEF Deliver, TakePending, SessionTypeOK
    <2>5. CASE StreamEnds
      BY <2>5 DEF StreamEnds, SessionTypeOK
    <2>6. CASE ReaderStops
      BY <2>6 DEF ReaderStops, TakePending, SessionTypeOK
    <2>7. CASE Answer
      BY <2>7 DEF Answer, SessionTypeOK
    <2>8. CASE TransportCloses
      BY <2>8 DEF TransportCloses, SessionTypeOK
    <2>9. CASE UNCHANGED sessionVars
      BY <2>9 DEF sessionVars, SessionTypeOK
    <2>10. QED
      BY <2>3, <2>4, <2>5, <2>6, <2>7, <2>8, <2>9 DEF SessionNext, Environment
  <1>3. QED
    BY <1>1, <1>2, PTL DEF SessionSpec

-----------------------------------------------------------------------------
\* The calls between taking the request lock and releasing it.
InService == {"admitted", "registered", "waiting", "failing"}

\* The lock is held by the one call in service.
LockHeld == \A c \in Calls: pc[c] \in InService <=> holder = c

\* A registered call is pending unless mark_failed has already answered it.
RegisteredIsPending == \A c \in Calls:
    pc[c] = "registered" /\ slot[c] = Nothing => pending = c

LockInv == LockHeld /\ RegisteredIsPending /\ WaiterIsPending

\* A call that waits with nothing received can be reached through `pending`,
\* even when other futures were dropped: the lock makes it the only one to
\* write the slot, and whoever empties the slot sends to it.
THEOREM WaiterReachable == SessionSpec => []WaiterIsPending
  <1>1. SessionInit => LockInv
    BY SessionAssumption DEF SessionInit, LockInv, LockHeld, InService, RegisteredIsPending, WaiterIsPending
  <1>2. LockInv /\ SessionTypeOK /\ [SessionNext]_sessionVars => LockInv'
    <2>1. SUFFICES ASSUME LockInv, SessionTypeOK, [SessionNext]_sessionVars
                   PROVE  LockInv'
      OBVIOUS
    <2>2. USE <2>1, SessionAssumption DEF channel
    <2>3. ASSUME NEW c \in Calls, RoundTrip(c)
          PROVE  LockInv'
      <3>1. CASE Start(c)
        BY <3>1 DEF Start, SessionTypeOK, LockInv, LockHeld, InService, RegisteredIsPending, WaiterIsPending
      <3>2. CASE Admit(c)
        BY <3>2 DEF Admit, SessionAvailable, SessionTypeOK, LockInv, LockHeld, InService, RegisteredIsPending, WaiterIsPending
      <3>3. CASE Refuse(c)
        BY <3>3 DEF Refuse, Return, SessionAvailable, SessionTypeOK, LockInv, LockHeld, InService, RegisteredIsPending, WaiterIsPending
      <3>4. CASE Register(c)
        BY <3>4 DEF Register, SessionTypeOK, LockInv, LockHeld, InService, RegisteredIsPending, WaiterIsPending
      <3>5. CASE Send(c)
        BY <3>5 DEF Send, SessionTypeOK, LockInv, LockHeld, InService, RegisteredIsPending, WaiterIsPending
      <3>6. CASE SendFails(c)
        BY <3>6 DEF SendFails, BeginFailure, SessionTypeOK, LockInv, LockHeld, InService, RegisteredIsPending, WaiterIsPending
      <3>7. CASE Accept(c)
        BY <3>7 DEF Accept, Return, SessionTypeOK, LockInv, LockHeld, InService, RegisteredIsPending, WaiterIsPending
      <3>8. CASE OutOfOrder(c)
        BY <3>8 DEF OutOfOrder, BeginFailure, SessionTypeOK, LockInv, LockHeld, InService, RegisteredIsPending, WaiterIsPending
      <3>9. CASE ReceiveError(c)
        BY <3>9 DEF ReceiveError, Return, SessionTypeOK, LockInv, LockHeld, InService, RegisteredIsPending, WaiterIsPending
      <3>10. CASE Timeout(c)
        BY <3>10 DEF Timeout, BeginFailure, SessionTypeOK, LockInv, LockHeld, InService, RegisteredIsPending, WaiterIsPending
      <3>11. CASE EndFailure(c)
        BY <3>11 DEF EndFailure, TakePending, Return, SessionTypeOK, LockInv, LockHeld, InService, RegisteredIsPending, WaiterIsPending
      <3>12. CASE Drop(c)
        BY <3>12 DEF Drop, Return, SessionTypeOK, LockInv, LockHeld, InService, RegisteredIsPending, WaiterIsPending
      <3>13. QED
        BY <2>3, <3>1, <3>2, <3>3, <3>4, <3>5, <3>6, <3>7, <3>8, <3>9, <3>10, <3>11, <3>12 DEF RoundTrip
    <2>4. CASE Deliver
      BY <2>4 DEF Deliver, TakePending, SessionTypeOK, LockInv, LockHeld, InService, RegisteredIsPending, WaiterIsPending
    <2>5. CASE StreamEnds
      BY <2>5 DEF StreamEnds, SessionTypeOK, LockInv, LockHeld, InService, RegisteredIsPending, WaiterIsPending
    <2>6. CASE ReaderStops
      BY <2>6 DEF ReaderStops, TakePending, SessionTypeOK, LockInv, LockHeld, InService, RegisteredIsPending, WaiterIsPending
    <2>7. CASE Answer
      BY <2>7 DEF Answer, SessionTypeOK, LockInv, LockHeld, InService, RegisteredIsPending, WaiterIsPending
    <2>8. CASE TransportCloses
      BY <2>8 DEF TransportCloses, SessionTypeOK, LockInv, LockHeld, InService, RegisteredIsPending, WaiterIsPending
    <2>9. CASE UNCHANGED sessionVars
      BY <2>9 DEF sessionVars, SessionTypeOK, LockInv, LockHeld, InService, RegisteredIsPending, WaiterIsPending
    <2>10. QED
      BY <2>3, <2>4, <2>5, <2>6, <2>7, <2>8, <2>9 DEF SessionNext, Environment
  <1>3. LockInv => WaiterIsPending
    BY DEF LockInv
  <1>4. QED
    BY <1>1, <1>2, <1>3, SessionTypeCorrect, PTL DEF SessionSpec

-----------------------------------------------------------------------------
\* No call succeeds with a response of another kind than its request, even
\* when dropped futures have shifted the responses.
THEOREM KindSafety == SessionSpec => []KindMatches
  <1>1. SessionInit => KindMatches
    BY SessionAssumption DEF SessionInit, KindMatches
  <1>2. KindMatches /\ SessionTypeOK /\ [SessionNext]_sessionVars => KindMatches'
    <2>1. SUFFICES ASSUME KindMatches, SessionTypeOK, [SessionNext]_sessionVars
                   PROVE  KindMatches'
      OBVIOUS
    <2>2. USE <2>1, SessionAssumption DEF channel
    <2>3. ASSUME NEW c \in Calls, RoundTrip(c)
          PROVE  KindMatches'
      <3>1. CASE Start(c)
        BY <3>1 DEF Start, SessionTypeOK, KindMatches
      <3>2. CASE Admit(c)
        BY <3>2 DEF Admit, SessionAvailable, SessionTypeOK, KindMatches
      <3>3. CASE Refuse(c)
        BY <3>3 DEF Refuse, Return, SessionAvailable, SessionTypeOK, KindMatches
      <3>4. CASE Register(c)
        BY <3>4 DEF Register, SessionTypeOK, KindMatches
      <3>5. CASE Send(c)
        BY <3>5 DEF Send, SessionTypeOK, KindMatches
      <3>6. CASE SendFails(c)
        BY <3>6 DEF SendFails, BeginFailure, SessionTypeOK, KindMatches
      <3>7. CASE Accept(c)
        BY <3>7 DEF Accept, Return, SessionTypeOK, KindMatches
      <3>8. CASE OutOfOrder(c)
        BY <3>8 DEF OutOfOrder, BeginFailure, SessionTypeOK, KindMatches
      <3>9. CASE ReceiveError(c)
        BY <3>9 DEF ReceiveError, Return, SessionTypeOK, KindMatches
      <3>10. CASE Timeout(c)
        BY <3>10 DEF Timeout, BeginFailure, SessionTypeOK, KindMatches
      <3>11. CASE EndFailure(c)
        BY <3>11 DEF EndFailure, TakePending, Return, SessionTypeOK, KindMatches
      <3>12. CASE Drop(c)
        BY <3>12 DEF Drop, Return, SessionTypeOK, KindMatches
      <3>13. QED
        BY <2>3, <3>1, <3>2, <3>3, <3>4, <3>5, <3>6, <3>7, <3>8, <3>9, <3>10, <3>11, <3>12 DEF RoundTrip
    <2>4. CASE Deliver
      BY <2>4 DEF Deliver, TakePending, SessionTypeOK, KindMatches
    <2>5. CASE StreamEnds
      BY <2>5 DEF StreamEnds, SessionTypeOK, KindMatches
    <2>6. CASE ReaderStops
      BY <2>6 DEF ReaderStops, TakePending, SessionTypeOK, KindMatches
    <2>7. CASE Answer
      BY <2>7 DEF Answer, SessionTypeOK, KindMatches
    <2>8. CASE TransportCloses
      BY <2>8 DEF TransportCloses, SessionTypeOK, KindMatches
    <2>9. CASE UNCHANGED sessionVars
      BY <2>9 DEF sessionVars, SessionTypeOK, KindMatches
    <2>10. QED
      BY <2>3, <2>4, <2>5, <2>6, <2>7, <2>8, <2>9 DEF SessionNext, Environment
  <1>3. QED
    BY <1>1, <1>2, SessionTypeCorrect, PTL DEF SessionSpec

-----------------------------------------------------------------------------
\* No message is under way.
Quiet == Len(outgoing) = 0 /\ Len(incoming) = 0

\* Every message under way belongs to c.
OnlyFrom(c) ==
    /\ \A i \in 1..Len(outgoing): outgoing[i] = c
    /\ \A i \in 1..Len(incoming): incoming[i] = c

\* The pending call is past registration and has received nothing.
PendingInv == pending # Nothing =>
    pc[pending] \in {"registered", "waiting", "failing"} /\ slot[pending] = Nothing

\* What is under way, by the phase of the call in service.
WireInv ==
    /\ Len(outgoing) + Len(incoming) <= 1
    /\ healthy /\ holder = Nothing => Quiet
    /\ \A c \in Calls:
        /\ pc[c] \in {"admitted", "registered"} => Quiet
        /\ pc[c] = "waiting" /\ slot[c] = Nothing => OnlyFrom(c)
        /\ pc[c] = "waiting" /\ slot[c] \in Calls => slot[c] = c /\ Quiet

\* An error, once sent or being raised, comes with an unhealthy session.
ErrorInv ==
    /\ reader # "reading" => ~healthy
    /\ \A c \in Calls:
        /\ pc[c] \in {"idle", "queued", "admitted"} => slot[c] = Nothing
        /\ pc[c] = "registered" => slot[c] \notin Calls
        /\ pc[c] \in {"registered", "waiting"} /\ slot[c] = Failure => ~healthy
        /\ pc[c] = "failing" => ~healthy

TurnInv == LockHeld /\ PendingInv /\ WireInv /\ ErrorInv /\ OwnResponses

\* No call is being served at first.
LEMMA TurnInit == SessionInit => TurnInv
  BY SessionAssumption DEF SessionInit, TurnInv, LockHeld, InService, PendingInv, WireInv, Quiet, OnlyFrom, ErrorInv, OwnResponses

\* Without dropped futures the calls take turns on the stream: the next call
\* is admitted only when the stream carries nothing of the one before.
LEMMA TurnStep ==
  ASSUME NoneDropped', SessionTypeOK, TurnInv, [SessionNext]_sessionVars
  PROVE  TurnInv'
  <1>1. USE SessionAssumption DEF channel
  <1>2. ASSUME NEW c \in Calls, RoundTrip(c)
        PROVE  TurnInv'
    <2>1. CASE Start(c)
      BY <2>1 DEF Start, SessionTypeOK, TurnInv, LockHeld, InService, PendingInv, WireInv, Quiet, OnlyFrom, ErrorInv, OwnResponses
    <2>2. CASE Admit(c)
      BY <2>2 DEF Admit, SessionAvailable, SessionTypeOK, TurnInv, LockHeld, InService, PendingInv, WireInv, Quiet, OnlyFrom, ErrorInv, OwnResponses
    <2>3. CASE Refuse(c)
      BY <2>3 DEF Refuse, Return, SessionAvailable, SessionTypeOK, TurnInv, LockHeld, InService, PendingInv, WireInv, Quiet, OnlyFrom, ErrorInv, OwnResponses
    <2>4. CASE Register(c)
      BY <2>4 DEF Register, SessionTypeOK, TurnInv, LockHeld, InService, PendingInv, WireInv, Quiet, OnlyFrom, ErrorInv, OwnResponses
    <2>5. CASE Send(c)
      BY <2>5 DEF Send, SessionTypeOK, TurnInv, LockHeld, InService, PendingInv, WireInv, Quiet, OnlyFrom, ErrorInv, OwnResponses
    <2>6. CASE SendFails(c)
      BY <2>6 DEF SendFails, BeginFailure, SessionTypeOK, TurnInv, LockHeld, InService, PendingInv, WireInv, Quiet, OnlyFrom, ErrorInv, OwnResponses
    <2>7. CASE Accept(c)
      BY <2>7 DEF Accept, Return, SessionTypeOK, TurnInv, LockHeld, InService, PendingInv, WireInv, Quiet, OnlyFrom, ErrorInv, OwnResponses
    <2>8. CASE OutOfOrder(c)
      BY <2>8 DEF OutOfOrder, BeginFailure, SessionTypeOK, TurnInv, LockHeld, InService, PendingInv, WireInv, Quiet, OnlyFrom, ErrorInv, OwnResponses
    <2>9. CASE ReceiveError(c)
      BY <2>9 DEF ReceiveError, Return, SessionTypeOK, TurnInv, LockHeld, InService, PendingInv, WireInv, Quiet, OnlyFrom, ErrorInv, OwnResponses
    <2>10. CASE Timeout(c)
      BY <2>10 DEF Timeout, BeginFailure, SessionTypeOK, TurnInv, LockHeld, InService, PendingInv, WireInv, Quiet, OnlyFrom, ErrorInv, OwnResponses
    <2>11. CASE EndFailure(c)
      BY <2>11 DEF EndFailure, TakePending, Return, SessionTypeOK, TurnInv, LockHeld, InService, PendingInv, WireInv, Quiet, OnlyFrom, ErrorInv, OwnResponses
    <2>12. CASE Drop(c)
      BY <2>12 DEF Drop, Return, SessionTypeOK, NoneDropped
    <2>13. QED
      BY <1>2, <2>1, <2>2, <2>3, <2>4, <2>5, <2>6, <2>7, <2>8, <2>9, <2>10, <2>11, <2>12 DEF RoundTrip
  <1>3. CASE Deliver
    \* The one message under way is taken by the one call it belongs to.
    <2>1. Len(incoming) = 1 /\ Len(outgoing) = 0
      <3>1. incoming \in Seq(Calls) /\ incoming # <<>> /\ outgoing \in Seq(Calls)
        BY <1>3 DEF Deliver, SessionTypeOK
      <3>2. Len(incoming) \in Nat \ {0} /\ Len(outgoing) \in Nat
        BY <3>1
      <3>3. Len(outgoing) + Len(incoming) <= 1
        BY DEF TurnInv, WireInv
      <3>4. \A m \in Nat \ {0}, n \in Nat: n + m <= 1 => m = 1 /\ n = 0
        OBVIOUS
      <3>5. QED
        BY <3>2, <3>3, <3>4, Zenon
    <2>2. Quiet'
      BY <1>3, <2>1 DEF Deliver, SessionTypeOK, Quiet
    <2>3. Head(incoming) \in Calls /\ Head(incoming) = incoming[1]
      BY <1>3, <2>1 DEF Deliver, SessionTypeOK
    <2>4. ~Quiet
      BY <2>1 DEF Quiet
    <2>5. ASSUME pending # Nothing, pc[pending] = "waiting"
          PROVE  Head(incoming) = pending
      BY <2>1, <2>3, <2>5 DEF SessionTypeOK, TurnInv, PendingInv, WireInv, OnlyFrom
    <2>6. LockHeld' /\ PendingInv' /\ OwnResponses'
      BY <1>3 DEF Deliver, TakePending, TurnInv, LockHeld, PendingInv, OwnResponses
    <2>7. pending # Nothing => pc[pending] \in {"waiting", "failing"}
      BY <2>4 DEF SessionTypeOK, TurnInv, PendingInv, WireInv
    <2>8. WireInv'
      <3>1. \A c \in Calls: pc[c] # "waiting" \/ slot'[c] # Nothing \/ OnlyFrom(c)'
        BY <2>2 DEF Quiet, OnlyFrom
      <3>2. ASSUME NEW c \in Calls, pc[c] = "waiting", slot'[c] \in Calls
            PROVE  slot'[c] = c
        BY <1>3, <2>5, <3>2 DEF Deliver, TakePending, SessionTypeOK, TurnInv, WireInv
      <3>3. (Len(outgoing) + Len(incoming) <= 1)'
        BY <2>2 DEF Quiet
      <3>4. QED
        BY <1>3, <2>2, <3>1, <3>2, <3>3 DEF Deliver, WireInv
    <2>9. ErrorInv'
      BY <1>3, <2>3, <2>7 DEF Deliver, TakePending, SessionTypeOK, TurnInv, ErrorInv
    <2>10. QED
      BY <2>6, <2>8, <2>9 DEF TurnInv
  <1>4. CASE StreamEnds
    BY <1>4 DEF StreamEnds, SessionTypeOK, TurnInv, LockHeld, InService, PendingInv, WireInv, Quiet, OnlyFrom, ErrorInv, OwnResponses
  <1>5. CASE ReaderStops
    BY <1>5 DEF ReaderStops, TakePending, SessionTypeOK, TurnInv, LockHeld, InService, PendingInv, WireInv, Quiet, OnlyFrom, ErrorInv, OwnResponses
  <1>6. CASE Answer
    BY <1>6 DEF Answer, SessionTypeOK, TurnInv, LockHeld, InService, PendingInv, WireInv, Quiet, OnlyFrom, ErrorInv, OwnResponses
  <1>7. CASE TransportCloses
    BY <1>7 DEF TransportCloses, SessionTypeOK, TurnInv, LockHeld, InService, PendingInv, WireInv, Quiet, OnlyFrom, ErrorInv, OwnResponses
  <1>8. CASE UNCHANGED sessionVars
    BY <1>8 DEF sessionVars, SessionTypeOK, TurnInv, LockHeld, InService, PendingInv, WireInv, Quiet, OnlyFrom, ErrorInv, OwnResponses
  <1>9. QED
    BY <1>2, <1>3, <1>4, <1>5, <1>6, <1>7, <1>8 DEF SessionNext, Environment

\* A call that has a result has returned, and keeps it.
HasReturned == \A c \in Calls: result[c] # Nothing => pc[c] = "returned"

\* No step takes a result back.
LEMMA ResultIsFinal ==
  ASSUME SessionTypeOK, HasReturned, [SessionNext]_sessionVars
  PROVE  /\ HasReturned'
         /\ \A c \in Calls: result[c] # Nothing => result'[c] = result[c]
  <1>1. USE SessionAssumption DEF channel, HasReturned
  <1>2. ASSUME NEW c \in Calls, RoundTrip(c)
        PROVE  /\ HasReturned'
               /\ \A d \in Calls: result[d] # Nothing => result'[d] = result[d]
    <2>1. CASE Start(c) \/ Admit(c) \/ Register(c) \/ Send(c)
      BY <2>1 DEF Start, Admit, Register, Send, SessionTypeOK
    <2>2. CASE SendFails(c) \/ OutOfOrder(c) \/ Timeout(c)
      BY <2>2 DEF SendFails, OutOfOrder, Timeout, BeginFailure, SessionTypeOK
    <2>3. CASE Refuse(c) \/ Accept(c) \/ ReceiveError(c) \/ EndFailure(c) \/ Drop(c)
      BY <2>3 DEF Refuse, Accept, ReceiveError, EndFailure, Drop, Return, SessionTypeOK
    <2>4. QED
      BY <1>2, <2>1, <2>2, <2>3 DEF RoundTrip
  <1>3. CASE Environment
    BY <1>3 DEF Environment, Deliver, StreamEnds, ReaderStops, Answer, TransportCloses
  <1>4. CASE UNCHANGED sessionVars
    BY <1>4 DEF sessionVars
  <1>5. QED
    BY <1>2, <1>3, <1>4 DEF SessionNext

\* The inductive invariant: results are final, and calls have taken turns for
\* as long as no future was dropped.
TurnsUntilDrop == HasReturned /\ (NoneDropped => TurnInv)

\* It holds in every reachable state.
LEMMA TurnsInvariant == SessionSpec => [](SessionTypeOK /\ TurnsUntilDrop)
  <1>1. SessionInit => TurnsUntilDrop
    BY TurnInit DEF SessionInit, TurnsUntilDrop, HasReturned
  <1>2. SessionTypeOK /\ TurnsUntilDrop /\ [SessionNext]_sessionVars => TurnsUntilDrop'
    <2>1. SUFFICES ASSUME SessionTypeOK, TurnsUntilDrop, [SessionNext]_sessionVars
                   PROVE  TurnsUntilDrop'
      OBVIOUS
    <2>2. HasReturned' /\ (NoneDropped' => NoneDropped)
      BY <2>1, SessionAssumption, ResultIsFinal DEF TurnsUntilDrop, NoneDropped
    <2>3. ASSUME NoneDropped'
          PROVE  TurnInv'
      BY <2>1, <2>2, <2>3, TurnStep DEF TurnsUntilDrop
    <2>4. QED
      BY <2>2, <2>3 DEF TurnsUntilDrop
  <1>3. QED
    BY <1>1, <1>2, SessionTypeCorrect, PTL DEF SessionSpec

\* As long as no future was dropped, no call returns the response to another.
THEOREM OwnAnswers == SessionSpec => []AnswersOwnCall
  <1>1. TurnsUntilDrop => AnswersOwnCall
    BY DEF TurnsUntilDrop, TurnInv, AnswersOwnCall
  <1>2. QED
    BY <1>1, TurnsInvariant, PTL

\* As long as no future was dropped, the stream carries at most one request or
\* response, so the bounded request channel is never full.
THEOREM SingleFlight == SessionSpec => []OneInFlight
  <1>1. SessionTypeOK /\ TurnsUntilDrop => OneInFlight
    BY DEF SessionTypeOK, TurnsUntilDrop, TurnInv, WireInv, Quiet, OneInFlight
  <1>2. QED
    BY <1>1, TurnsInvariant, PTL
=============================================================================
