-------------------------- MODULE QuotaLease_proof --------------------------
(***************************************************************************)
(* Proofs about QuotaLease, for any resources, amounts and triggers, any   *)
(* number of operations and any interleaving of the lease with its         *)
(* counters, the stream and the server.                                    *)
(***************************************************************************)
EXTENDS QuotaLease, TLAPS

\* The backends that are local counters, and the lease each of them holds.
LocalIndices == {i \in DOMAIN backends: backends[i] \in Resources}
Held(i) == local[backends[i]]

-----------------------------------------------------------------------------
(* The inductive invariant                                                 *)

\* The server is asked first, and each resource has one backend; the lease
\* held at the server is another's only where an answer was taken.
BackendsInv ==
    /\ leaseId = "own" \/ crossed
    /\ \A i \in DOMAIN backends: backends[i] = "remote" => i = 1
    /\ \A i, j \in DOMAIN backends: backends[i] = backends[j] => i = j
    /\ \A i \in DOMAIN backends: backends[i] \notin todo

\* What each phase knows; a settlement is sent for a lease that was granted.
PhaseInv ==
    /\ phase = "asking" => backends = <<>> /\ settler = NoSettlement
    /\ phase \in {"asking", "granting", "refused"} =>
          op = NoOp /\ sequence = 0 /\ ~finished /\ confirmed = InitialTotal
    /\ phase = "dropped" => op = NoOp
    /\ finished => op = NoOp
    /\ settler # NoSettlement =>
          HasRemote /\ settler.cmd = "Settle" /\ settler.sequence <= sequence + 1

\* An operation is the next one, and does not take back what was confirmed.
OpInv == op # NoOp =>
    /\ op.sequence = sequence + 1
    /\ op.at \in 1..Len(backends) + 1
    /\ \A r \in Resources: confirmed[r] <= op.totals[r]

\* What this lease has under way on the stream.
NothingOwn(s) == \A i \in DOMAIN s: s[i] = Foreign
OneOwn(s) == \A i, j \in DOMAIN s: s[i] # Foreign /\ s[j] # Foreign => i = j

\* Only the first backend waits; a reservation has one message on the stream.
AwaitInv ==
    /\ awaiting.by = "reserve" => phase = "asking" /\ awaiting.request.cmd = "Reserve"
    /\ phase = "asking" => awaiting \in {NoCall, Others} \/ awaiting.by = "reserve"
    /\ awaiting.by = "lease" =>
          /\ op # NoOp /\ HasRemote /\ op.at = 1
          /\ awaiting.request = Msg(RemoteCmd, op.totals, op.sequence)
    /\ ~crossed /\ phase = "asking" =>
          /\ awaiting.by # "reserve" => NothingOwn(requests) /\ NothingOwn(responses)
          /\ OneOwn(requests) /\ OneOwn(responses)
          /\ NothingOwn(requests) \/ NothingOwn(responses)

\* No local lease is charged less than what was confirmed.
LocalsCharged == \A i \in LocalIndices: Held(i).consumed >= confirmed[backends[i]]

\* A local lease ends after those granted before it.
EndInOrder == \A i, j \in LocalIndices:
    i < j /\ Held(j).status # "live" => Held(i).status # "live"

\* A live local lease that no operation has passed is at the confirmed state.
LiveInStep == \A i \in LocalIndices: Held(i).status = "live" =>
    /\ phase \notin {"refused", "dropped"}
    /\ op = NoOp \/ op.at <= i =>
          Held(i).sequence = sequence /\ Held(i).consumed = confirmed[backends[i]]

\* One that an operation has passed is where the operation leads.
PassedInStep == op # NoOp => \A i \in LocalIndices: i < op.at =>
    /\ Held(i).consumed = op.totals[backends[i]]
    /\ Held(i).status = "live" => op.kind = "update" /\ Held(i).sequence = op.sequence
    /\ op.kind = "finish" => Held(i).status \in {"settled", "forgotten"}

\* After a finish they are settled with the totals of the lease.
LocalsFinished == finished => \A i \in LocalIndices:
    Held(i).status \in {"settled", "forgotten"} /\ Held(i).consumed = confirmed[backends[i]]

LocalsInv == LocalsCharged /\ EndInOrder /\ LiveInStep /\ PassedInStep /\ LocalsFinished

\* What is known of the server holds as long as no answer to another's call
\* was taken.  Without a distributed backend it has only been asked to reserve.
AloneInv == ~crossed /\ ~HasRemote =>
    /\ server.sequence = 0 /\ server.status # "settled"
    /\ \A i \in DOMAIN requests: requests[i] # Foreign => requests[i].cmd = "Reserve"
    /\ \A i \in DOMAIN responses: responses[i] # Foreign => responses[i].cmd = "Reserve"

\* The server is at the confirmed operation or one ahead; where an operation
\* has passed it, it is where the operation leads.
ServerInv == ~crossed /\ HasRemote =>
    /\ server.sequence \in {sequence, sequence + 1}
    /\ sequence > 0 /\ server.sequence = sequence =>
          \A r \in Distributed: server.consumed[r] = confirmed[r]
    /\ sequence > 0 => \A r \in Distributed: server.consumed[r] >= confirmed[r]
    /\ server.status = "settled" => server.sequence = IF finished THEN sequence ELSE sequence + 1
    /\ op # NoOp /\ op.at > 1 =>
          /\ server.sequence = op.sequence /\ server.consumed = op.totals
          /\ server.status = "settled" <=> op.kind = "finish"
    /\ finished => /\ server.status = "settled"
                   /\ \A r \in Distributed: server.consumed[r] = confirmed[r]

\* Requests are at most one operation ahead of the lease.
RequestsInv == ~crossed /\ HasRemote => \A i \in DOMAIN requests: requests[i] # Foreign =>
    requests[i].cmd # "Reserve" /\ requests[i].sequence <= sequence + 1

\* What a response says of the server is still so, or an update came after it.
SaysOfServer(m) ==
    /\ m.cmd # "Reserve"
    /\ m.ok /\ m.cmd = "Settle" => server.status = "settled" /\ server.consumed = m.totals
    /\ m.ok /\ m.cmd = "Update" =>
          \/ server.sequence > m.sequence
          \/ /\ server.sequence = m.sequence /\ server.status # "settled"
             /\ server.consumed = m.totals
ResponsesInv == ~crossed /\ HasRemote => \A i \in DOMAIN responses:
    responses[i] # Foreign => SaysOfServer(responses[i])

LeaseInv ==
    /\ TypeOK /\ BackendsInv /\ PhaseInv /\ OpInv /\ AwaitInv
    /\ LocalsInv /\ AloneInv /\ ServerInv /\ RequestsInv /\ ResponsesInv

-----------------------------------------------------------------------------
(* Facts about the data                                                    *)

LEMMA TotalsFacts ==
    /\ \A t \in Totals: t \in [Resources -> Nat] /\ \A r \in Resources: t[r] <= Amount[r]
    /\ \A t \in [Resources -> Nat]: (\A r \in Resources: t[r] <= Amount[r]) => t \in Totals
  <1>. USE LeaseAssumption
  <1>1. UNION {0..Amount[r]: r \in Resources} \subseteq Nat
    OBVIOUS
  <1>2. ASSUME NEW t \in [Resources -> Nat], \A r \in Resources: t[r] <= Amount[r]
        PROVE  t \in [Resources -> UNION {0..Amount[r]: r \in Resources}]
    BY <1>2
  <1>3. QED
    BY <1>1, <1>2 DEF Totals

LEMMA AppendFacts ==
    ASSUME NEW S, NEW s \in Seq(S), NEW x \in S
    PROVE  /\ Append(s, x) \in Seq(S) /\ Len(Append(s, x)) = Len(s) + 1
           /\ DOMAIN Append(s, x) = 1..Len(s) + 1 /\ DOMAIN s = 1..Len(s)
           /\ \A i \in DOMAIN s: Append(s, x)[i] = s[i]
           /\ Append(s, x)[Len(s) + 1] = x
  OBVIOUS

LEMMA TailFacts ==
    ASSUME NEW S, NEW s \in Seq(S), s # <<>>
    PROVE  /\ Tail(s) \in Seq(S) /\ Len(Tail(s)) = Len(s) - 1
           /\ 1 \in DOMAIN s /\ Head(s) = s[1] /\ Head(s) \in S
           /\ \A i \in DOMAIN Tail(s): i + 1 \in DOMAIN s /\ Tail(s)[i] = s[i + 1]
  OBVIOUS

\* A message of another lease is not of this one's.
LEMMA OwnMessages == \A m \in Request \cup Response: m # Foreign
  BY DEF Request, Response, Cmd, Foreign

\* The stream after a message is put on it, or taken off it.
LEMMA OwnFacts ==
    ASSUME NEW S, NEW s \in Seq(S), NEW m \in S
    PROVE  /\ m = Foreign /\ NothingOwn(s) => NothingOwn(Append(s, m))
           /\ m = Foreign /\ OneOwn(s) => OneOwn(Append(s, m))
           /\ NothingOwn(s) => OneOwn(s) /\ OneOwn(Append(s, m))
           /\ s # <<>> /\ NothingOwn(s) => Head(s) = Foreign /\ NothingOwn(Tail(s))
           /\ s # <<>> /\ OneOwn(s) => OneOwn(Tail(s))
           /\ s # <<>> /\ OneOwn(s) /\ Head(s) # Foreign => NothingOwn(Tail(s))
           /\ NothingOwn(<<>>) /\ OneOwn(<<>>)
  <1>1. /\ DOMAIN Append(s, m) = 1..Len(s) + 1 /\ DOMAIN s = 1..Len(s) /\ Len(s) \in Nat
        /\ \A i \in DOMAIN s: Append(s, m)[i] = s[i]
        /\ Append(s, m)[Len(s) + 1] = m
    BY AppendFacts
  <1>2. \A i \in DOMAIN Append(s, m): i \in DOMAIN s \/ i = Len(s) + 1
    BY <1>1
  <1>3. s # <<>> => /\ 1 \in DOMAIN s /\ Head(s) = s[1]
                    /\ \A i \in DOMAIN Tail(s): /\ i \in Nat \ {0} /\ i + 1 \in DOMAIN s
                                                /\ Tail(s)[i] = s[i + 1]
    BY TailFacts
  <1>4. /\ m = Foreign /\ NothingOwn(s) => NothingOwn(Append(s, m))
        /\ m = Foreign /\ OneOwn(s) => OneOwn(Append(s, m))
        /\ NothingOwn(s) => OneOwn(s) /\ OneOwn(Append(s, m))
    BY <1>1, <1>2 DEF NothingOwn, OneOwn
  <1>5. /\ s # <<>> /\ NothingOwn(s) => Head(s) = Foreign /\ NothingOwn(Tail(s))
        /\ s # <<>> /\ OneOwn(s) => OneOwn(Tail(s))
        /\ s # <<>> /\ OneOwn(s) /\ Head(s) # Foreign => NothingOwn(Tail(s))
    BY <1>3 DEF NothingOwn, OneOwn
  <1>6. NothingOwn(<<>>) /\ OneOwn(<<>>)
    BY DEF NothingOwn, OneOwn
  <1>7. QED
    BY <1>4, <1>5, <1>6

-----------------------------------------------------------------------------
(* Every action keeps the invariant                                        *)

\* What is known of each local lease, between and during operations.
LEMMA LocalFacts == LeaseInv =>
    /\ \A i \in LocalIndices:
          /\ i \in 1..Len(backends) /\ backends[i] \in Resources /\ backends[i] # "remote"
          /\ Held(i) = local[backends[i]] /\ Held(i) \in LocalLease
          /\ Held(i).consumed \in Nat /\ Held(i).sequence \in Nat
          /\ confirmed[backends[i]] \in Nat /\ confirmed[backends[i]] <= Amount[backends[i]]
          /\ op # NoOp => /\ op.totals[backends[i]] \in Nat
                          /\ op.totals[backends[i]] <= Amount[backends[i]]
                          /\ confirmed[backends[i]] <= op.totals[backends[i]]
    /\ \A i, j \in LocalIndices: backends[i] = backends[j] => i = j
    /\ LocalBackends = {backends[i]: i \in LocalIndices}
    /\ \A i \in DOMAIN backends: i \notin LocalIndices => i = 1 /\ HasRemote
    /\ HasRemote => Len(backends) >= 1 /\ 1 \notin LocalIndices
  <1>. HAVE LeaseInv
  <1>. USE DEF LeaseInv
  <1>1. ASSUME NEW i \in LocalIndices
        PROVE  /\ i \in 1..Len(backends) /\ backends[i] \in Resources /\ backends[i] # "remote"
               /\ Held(i) = local[backends[i]] /\ Held(i) \in LocalLease
    BY LeaseAssumption DEF LocalIndices, Held, TypeOK
  <1>2. ASSUME NEW i \in LocalIndices
        PROVE  Held(i).consumed \in Nat /\ Held(i).sequence \in Nat
    BY <1>1, LeaseAssumption DEF LocalLease
  <1>3. ASSUME NEW i \in LocalIndices
        PROVE  confirmed[backends[i]] \in Nat /\ confirmed[backends[i]] <= Amount[backends[i]]
    BY <1>1, TotalsFacts DEF TypeOK
  <1>4. ASSUME NEW i \in LocalIndices, op # NoOp
        PROVE  /\ op.totals[backends[i]] \in Nat
               /\ op.totals[backends[i]] <= Amount[backends[i]]
               /\ confirmed[backends[i]] <= op.totals[backends[i]]
    <2>1. op.totals \in Totals
      BY <1>4 DEF TypeOK, Op
    <2>2. QED
      BY <1>1, <1>4, <2>1, TotalsFacts DEF OpInv
  <1>5. \A i, j \in LocalIndices: backends[i] = backends[j] => i = j
    BY DEF LocalIndices, BackendsInv
  <1>6. LocalBackends = {backends[i]: i \in LocalIndices}
    BY LeaseAssumption DEF LocalBackends, LocalIndices, TypeOK
  <1>7. \A i \in DOMAIN backends: i \notin LocalIndices => i = 1 /\ HasRemote
    BY DEF LocalIndices, BackendsInv, HasRemote, TypeOK
  <1>8. HasRemote => Len(backends) >= 1 /\ 1 \notin LocalIndices
    BY LeaseAssumption DEF HasRemote, BackendsInv, LocalIndices, TypeOK
  <1>9. QED
    BY <1>1, <1>2, <1>3, <1>4, <1>5, <1>6, <1>7, <1>8

\* An operation that stops has passed no live local lease, so all of them are
\* still at the confirmed state: it stopped at the first backend, or at one
\* that has ended, after those before it.
LEMMA StoppingKeepsLocals ==
    ASSUME LeaseInv, UNCHANGED <<phase, backends, local, confirmed, sequence, finished>>,
           op' = NoOp,
           op # NoOp => \A i \in LocalIndices: i < op.at => Held(i).status # "live"
    PROVE  LocalsInv'
  <1>1. LocalIndices' = LocalIndices /\ \A i: Held(i)' = Held(i)
    BY DEF LocalIndices, Held
  <1>2. op \in Op \/ op = NoOp
    BY DEF LeaseInv, TypeOK
  <1>3. LiveInStep'
    BY <1>1, <1>2, LocalFacts DEF LeaseInv, LocalsInv, LiveInStep, Op
  <1>4. QED
    BY <1>1, <1>3 DEF LeaseInv, LocalsInv, LocalsCharged, EndInOrder, PassedInStep, LocalsFinished

\* A call that fails, times out or is dropped leaves the lease as it was.
LEMMA EndedCallKeeps ==
    ASSUME LeaseInv, awaiting \notin {NoCall, Others}, awaiting' = NoCall, phase' # "asking",
           phase' = phase \/ (awaiting.by = "reserve" /\ phase' \in {"granting", "refused"}),
           op' = IF awaiting.by = "lease" THEN NoOp ELSE op,
           todo' = todo \/ awaiting.by = "reserve",
           leaseId' = leaseId, crossed => crossed',
           UNCHANGED <<backends, leaseState, local, settler>>
    PROVE  BackendsInv' /\ PhaseInv' /\ OpInv' /\ AwaitInv' /\ LocalsInv'
  <1>. USE DEF LeaseInv, leaseState
  <1>1. awaiting \in Call
    BY DEF TypeOK
  <1>2. CASE awaiting.by = "reserve"
    <2>1. phase = "asking" /\ backends = <<>> /\ op = NoOp /\ settler = NoSettlement
      BY <1>2 DEF AwaitInv, PhaseInv
    <2>2. op' = NoOp /\ backends' = <<>> /\ LocalIndices' = {}
      BY <2>1 DEF LocalIndices
    <2>3. BackendsInv' /\ LocalsInv'
      BY <2>2 DEF BackendsInv, LocalsInv, LocalsCharged, EndInOrder, LiveInStep,
          PassedInStep, LocalsFinished
    <2>4. QED
      BY <2>1, <2>2, <2>3 DEF PhaseInv, OpInv, AwaitInv, NoCall
  <1>3. CASE awaiting.by # "reserve"
    <2>1. phase' = phase /\ todo' = todo /\ phase # "asking"
      BY <1>3
    <2>2. LocalsInv'
      <3>1. CASE awaiting.by = "lease"
        <4>1. op' = NoOp /\ op.at = 1
          BY <3>1 DEF AwaitInv
        <4>2. \A i \in LocalIndices: ~(i < op.at)
          BY <4>1, LocalFacts
        <4>3. UNCHANGED <<phase, backends, local, confirmed, sequence, finished>>
          BY <2>1
        <4>4. QED
          BY <4>1, <4>2, <4>3, StoppingKeepsLocals
      <3>2. CASE awaiting.by # "lease"
        BY <2>1, <3>2 DEF LocalsInv, LocalsCharged, EndInOrder, LiveInStep, PassedInStep,
            LocalsFinished, LocalIndices, Held
      <3>3. QED
        BY <3>1, <3>2
    <2>3. QED
      BY <2>1, <2>2 DEF BackendsInv, PhaseInv, OpInv, AwaitInv, NoCall, HasRemote
  <1>4. QED
    BY <1>2, <1>3

\* Neither does the end of a call of another lease touch it.
LEMMA OthersCallKeeps ==
    ASSUME LeaseInv, awaiting \in {NoCall, Others}, awaiting' \in {NoCall, Others},
           UNCHANGED <<phase, todo, backends, leaseState, taken, op, local, settler>>,
           NothingOwn(requests) => NothingOwn(requests'),
           NothingOwn(responses) => NothingOwn(responses'),
           NothingOwn(requests') => OneOwn(requests'),
           NothingOwn(responses') => OneOwn(responses')
    PROVE  BackendsInv' /\ PhaseInv' /\ OpInv' /\ AwaitInv' /\ LocalsInv'
  <1>. USE DEF LeaseInv, leaseState, taken
  <1>1. BackendsInv' /\ PhaseInv' /\ OpInv' /\ LocalsInv'
    BY DEF BackendsInv, PhaseInv, HasRemote, OpInv, LocalsInv, LocalsCharged, EndInOrder,
        LiveInStep, PassedInStep, LocalsFinished, LocalIndices, Held
  <1>2. AwaitInv'
    BY DEF AwaitInv, NoCall, Others
  <1>3. QED
    BY <1>1, <1>2

\* A call of the lease sends its own message, unless the lease it was granted
\* is another's.
LEMMA SendForFacts ==
    ASSUME LeaseInv, NEW by \in {"reserve", "lease", "settler"}, NEW q \in Request, SendFor(by, q)
    PROVE  \E m \in {q, Foreign}:
              /\ ~crossed => m = q
              /\ m \in Request \cup {Foreign} /\ requests' = Append(requests, m)
              /\ requests' \in Seq(Request \cup {Foreign}) /\ responses' = responses
              /\ awaiting = NoCall /\ awaiting' = [by |-> by, request |-> q] /\ awaiting' \in Call
  <1>1. /\ awaiting = NoCall /\ awaiting' = [by |-> by, request |-> q] /\ responses' = responses
        /\ requests' = Append(requests, IF leaseId = "own" THEN q ELSE Foreign)
    BY DEF SendFor, Send
  <1>2. [by |-> by, request |-> q] \in Call
    BY DEF Call
  <1>3. ~crossed => leaseId = "own"
    BY DEF LeaseInv, BackendsInv
  <1>4. requests \in Seq(Request \cup {Foreign})
    BY DEF LeaseInv, TypeOK
  <1>5. CASE leaseId = "own"
    BY <1>1, <1>2, <1>4, <1>5
  <1>6. CASE leaseId # "own"
    BY <1>1, <1>2, <1>3, <1>4, <1>6
  <1>7. QED
    BY <1>5, <1>6

LEMMA AskServerKeeps == LeaseInv /\ AskServer => LeaseInv'
  <1>. SUFFICES ASSUME LeaseInv, AskServer
                PROVE  LeaseInv'
    OBVIOUS
  <1>. USE DEF LeaseInv, wire, leaseState, taken
  <1>. DEFINE q == Msg("Reserve", confirmed, 0)
  <1>0. /\ phase = "asking" /\ SendFor("reserve", q)
        /\ UNCHANGED <<phase, todo, backends, leaseState, taken, op, local, server, healthy, settler>>
    BY DEF AskServer
  <1>a. q \in Request /\ q.cmd = "Reserve"
    BY LeaseAssumption DEF TypeOK, Msg, Request, Cmd
  <1>. HIDE DEF q
  <1>b. PICK m \in {q, Foreign}:
          /\ ~crossed => m = q
          /\ m \in Request \cup {Foreign} /\ requests' = Append(requests, m)
          /\ requests' \in Seq(Request \cup {Foreign}) /\ responses' = responses
          /\ awaiting = NoCall /\ awaiting' = [by |-> "reserve", request |-> q] /\ awaiting' \in Call
    BY <1>0, <1>a, SendForFacts
  <1>1. TypeOK'
    BY <1>0, <1>b DEF TypeOK
  <1>2. AwaitInv'
    <2>1. ~crossed => /\ NothingOwn(requests) /\ NothingOwn(responses)
                      /\ OneOwn(requests') /\ OneOwn(responses)
      BY <1>0, <1>b, OwnFacts DEF AwaitInv, NoCall, TypeOK
    <2>2. QED
      BY <1>0, <1>a, <1>b, <2>1 DEF AwaitInv
  <1>3. ~HasRemote
    BY <1>0 DEF PhaseInv, HasRemote
  <1>4. AloneInv'
    BY <1>0, <1>a, <1>b, <1>3, AppendFacts DEF AloneInv, HasRemote, TypeOK
  <1>5. RequestsInv' /\ ServerInv' /\ ResponsesInv'
    BY <1>0, <1>3 DEF RequestsInv, ServerInv, ResponsesInv, HasRemote
  <1>6. BackendsInv' /\ PhaseInv' /\ OpInv' /\ LocalsInv'
    BY <1>0 DEF BackendsInv, PhaseInv, HasRemote, OpInv, LocalsInv, LocalsCharged, EndInOrder,
        LiveInStep, PassedInStep, LocalsFinished, LocalIndices, Held
  <1>. QED
    BY <1>1, <1>2, <1>4, <1>5, <1>6

LEMMA AskFailsKeeps == LeaseInv /\ AskFails => LeaseInv'
  <1>. SUFFICES ASSUME LeaseInv, AskFails
                PROVE  LeaseInv'
    OBVIOUS
  <1>. USE DEF LeaseInv, wire, leaseState, taken
  <1>1. TypeOK'
    BY LeaseAssumption, TotalsFacts DEF AskFails, CallFails, Overflow, TypeOK, Op, NoOp,
        Request, NoSettlement, AwaitInv, OpInv, LocalLease, BackendLease, Response, Call,
        NoCall, BackendsInv
  <1>2. BackendsInv'
    BY LeaseAssumption, TotalsFacts DEF AskFails, CallFails, Overflow, TypeOK, BackendsInv,
        PhaseInv
  <1>3. PhaseInv'
    BY LeaseAssumption, TotalsFacts DEF AskFails, CallFails, Overflow, TypeOK, PhaseInv,
        HasRemote, AwaitInv, OpInv, NoOp, NoSettlement, NoCall
  <1>4. OpInv'
    BY LeaseAssumption, TotalsFacts DEF AskFails, CallFails, Overflow, TypeOK, Op, NoOp,
        OpInv, AwaitInv
  <1>5. AwaitInv'
    BY LeaseAssumption, TotalsFacts DEF AskFails, CallFails, Overflow, TypeOK, AwaitInv,
        PhaseInv, OpInv, BackendsInv, Op, NoOp, Call, NoCall, HasRemote, RemoteCmd, Msg
  <1>6. LocalsInv'
    BY LeaseAssumption, TotalsFacts DEF AskFails, CallFails, Overflow, TypeOK, LocalsInv,
        LocalsCharged, EndInOrder, LiveInStep, PassedInStep, LocalsFinished, LocalIndices,
        Held, BackendsInv, PhaseInv, OpInv, AwaitInv, Op, NoOp, LocalLease
  <1>7. ServerInv'
    BY LeaseAssumption, TotalsFacts DEF AskFails, CallFails, Overflow, TypeOK, ServerInv,
        HasRemote, OpInv, PhaseInv, BackendsInv, AwaitInv, AloneInv, Op, NoOp
  <1>8. AloneInv' /\ RequestsInv' /\ ResponsesInv'
    BY DEF AskFails, CallFails, Overflow, AloneInv, HasRemote, RequestsInv, ResponsesInv,
        SaysOfServer
  <1>. QED
    BY <1>1, <1>2, <1>3, <1>4, <1>5, <1>6, <1>7, <1>8

LEMMA ReserveLocalKeeps == LeaseInv /\ ReserveLocal => LeaseInv'
  <1>. SUFFICES ASSUME LeaseInv, ReserveLocal
                PROVE  LeaseInv'
    OBVIOUS
  <1>. USE DEF LeaseInv, wire, leaseState, taken
  <1>0. PICK r \in todo:
            /\ todo' = todo \ {r}
            /\ \/ backends' = Append(backends, r) /\ local' = [local EXCEPT ![r] = Granted(r)]
               \/ UNCHANGED <<backends, local>>
    BY DEF ReserveLocal
  <1>a. /\ r \in Resources /\ r # "remote" /\ InitialTotal[r] \in Nat
        /\ backends \in Seq(Resources \cup {"remote"})
        /\ UNCHANGED <<phase, leaseState, taken, op, server, healthy, awaiting,
                      settler, requests, responses>>
        /\ phase = "granting"
    BY LeaseAssumption DEF ReserveLocal, TypeOK
  <1>b. /\ backends' \in Seq(Resources \cup {"remote"})
        /\ DOMAIN backends \subseteq DOMAIN backends'
        /\ \A i \in DOMAIN backends: backends'[i] = backends[i]
        /\ \A i \in DOMAIN backends' \ DOMAIN backends:
              /\ backends'[i] = r /\ local' = [local EXCEPT ![r] = Granted(r)]
              /\ \A j \in DOMAIN backends: j < i
              /\ DOMAIN backends' = DOMAIN backends \cup {i}
    <2>1. r \in Resources \cup {"remote"}
      BY <1>a
    <2>2. CASE UNCHANGED <<backends, local>>
      BY <1>a, <2>2
    <2>3. CASE backends' = Append(backends, r) /\ local' = [local EXCEPT ![r] = Granted(r)]
      <3>1. /\ backends' \in Seq(Resources \cup {"remote"})
            /\ DOMAIN backends' = 1..Len(backends) + 1 /\ DOMAIN backends = 1..Len(backends)
            /\ \A i \in DOMAIN backends: backends'[i] = backends[i]
            /\ backends'[Len(backends) + 1] = r /\ Len(backends) \in Nat
        BY <1>a, <2>1, <2>3, AppendFacts
      <3>2. QED
        BY <2>3, <3>1
    <2>4. QED
      BY <1>0, <2>2, <2>3
  <1>c. HasRemote' <=> HasRemote
    BY <1>a, <1>b DEF HasRemote
  <1>d. Granted(r) \in LocalLease
    BY <1>a, LeaseAssumption DEF Granted, LocalLease
  <1>1. TypeOK'
    BY <1>0, <1>a, <1>b, <1>d DEF TypeOK
  <1>2. BackendsInv'
    <2>1. \A i \in DOMAIN backends: backends[i] # r
      BY DEF BackendsInv
    <2>2. \A i \in DOMAIN backends': 
            \/ i \in DOMAIN backends /\ backends'[i] = backends[i]
            \/ i \notin DOMAIN backends /\ backends'[i] = r
      BY <1>b
    <2>3. \A i, j \in DOMAIN backends' \ DOMAIN backends: i = j
      BY <1>b
    <2>4. \A i, j \in DOMAIN backends': backends'[i] = backends'[j] => i = j
      BY <2>1, <2>2, <2>3 DEF BackendsInv
    <2>5. \A i \in DOMAIN backends': backends'[i] \notin todo' /\ (backends'[i] = "remote" => i = 1)
      BY <1>0, <1>a, <2>2 DEF BackendsInv
    <2>6. QED
      BY <1>a, <2>4, <2>5 DEF BackendsInv
  <1>3. PhaseInv'
    BY <1>a, <1>c DEF PhaseInv
  <1>4. OpInv'
    BY <1>a DEF OpInv, PhaseInv
  <1>5. AwaitInv'
    BY <1>a, <1>c DEF AwaitInv, RemoteCmd, PhaseInv
  <1>6. LocalsInv'
    <2>1. \A i \in LocalIndices: i \in LocalIndices' /\ Held(i)' = Held(i)
      BY <1>0, <1>a, <1>b DEF LocalIndices, Held, BackendsInv, TypeOK
    <2>2. \A i \in LocalIndices' \ LocalIndices:
            /\ backends'[i] = r /\ Held(i)' = Granted(r)
            /\ \A j \in LocalIndices: j < i
            /\ LocalIndices' = LocalIndices \cup {i} /\ i \in Nat
      BY <1>0, <1>a, <1>b DEF LocalIndices, Held, TypeOK
    <2>3. \A i \in LocalIndices: backends'[i] = backends[i] /\ i \in Nat
      BY <1>a, <1>b DEF LocalIndices
    <2>4. op = NoOp /\ sequence = 0 /\ ~finished /\ confirmed = InitialTotal
      BY <1>a DEF PhaseInv
    <2>5. LocalsCharged'
      BY <1>a, <2>1, <2>2, <2>3, <2>4 DEF LocalsInv, LocalsCharged, Granted
    <2>6. EndInOrder'
      <3>1. SUFFICES ASSUME NEW i \in LocalIndices', NEW j \in LocalIndices', i < j,
                            Held(j)'.status # "live"
                     PROVE  Held(i)'.status # "live"
        BY DEF EndInOrder
      <3>2. j \in LocalIndices
        BY <2>2, <3>1 DEF Granted
      <3>3. i \in LocalIndices
        BY <2>2, <2>3, <3>1, <3>2
      <3>4. QED
        BY <2>1, <3>1, <3>2, <3>3 DEF LocalsInv, EndInOrder
    <2>7. LiveInStep'
      BY <1>a, <2>1, <2>2, <2>3, <2>4 DEF LocalsInv, LiveInStep, Granted
    <2>8. PassedInStep' /\ LocalsFinished'
      BY <1>a, <2>4 DEF PassedInStep, LocalsFinished
    <2>9. QED
      BY <2>5, <2>6, <2>7, <2>8 DEF LocalsInv
  <1>7. AloneInv'
    BY <1>a, <1>c DEF AloneInv
  <1>8. ServerInv'
    BY <1>a, <1>c DEF ServerInv
  <1>9. RequestsInv'
    BY <1>a, <1>c DEF RequestsInv
  <1>10. ResponsesInv'
    BY <1>a, <1>c DEF ResponsesInv, SaysOfServer
  <1>. QED
    BY <1>1, <1>2, <1>3, <1>4, <1>5, <1>6, <1>7, <1>8, <1>9, <1>10

LEMMA RollBackKeeps == LeaseInv /\ RollBack => LeaseInv'
  <1>. SUFFICES ASSUME LeaseInv, RollBack
                PROVE  LeaseInv'
    OBVIOUS
  <1>. USE DEF LeaseInv, wire, leaseState, taken
  <1>0. /\ LocalBackends = {backends[i]: i \in LocalIndices}
        /\ UNCHANGED <<todo, backends, leaseState, taken, op, server, healthy,
                      awaiting, requests, responses>>
    BY LocalFacts DEF RollBack
  <1>1. TypeOK'
    <2>1. Msg("Settle", confirmed, 1) \in Request
      BY LeaseAssumption DEF TypeOK, Msg, Request, Cmd
    <2>2. \A r \in Resources: confirmed[r] \in Nat /\ Settled(r, confirmed[r], 1) \in LocalLease
      BY LeaseAssumption, TotalsFacts DEF TypeOK, Settled, LocalLease
    <2>3. settler' \in Request \cup {NoSettlement} /\ local' \in [Resources -> LocalLease]
      BY <2>1, <2>2 DEF RollBack, Abandon, TypeOK
    <2>4. QED
      BY <1>0, <2>3 DEF RollBack, TypeOK
  <1>2. PhaseInv'
    BY LeaseAssumption, TotalsFacts DEF RollBack, Abandon, LocalBackends, Settled, Valid,
        Within, Msg, TypeOK, PhaseInv, HasRemote, AwaitInv, OpInv, NoOp, NoSettlement,
        NoCall
  <1>3. AwaitInv'
    BY LeaseAssumption, TotalsFacts DEF RollBack, Abandon, LocalBackends, Settled, Valid,
        Within, Msg, TypeOK, AwaitInv, PhaseInv, OpInv, BackendsInv, Op, NoOp, Call, NoCall,
        HasRemote, RemoteCmd
  <1>4. LocalsInv'
    <2>1. ASSUME NEW i \in LocalIndices
          PROVE  /\ Held(i)'.status # "live" /\ Held(i)'.consumed = Held(i).consumed
      <3>1. Held(i)' = Settled(backends[i], confirmed[backends[i]], 1)
        BY <1>0 DEF RollBack, Abandon, LocalIndices, Held, TypeOK
      <3>2. /\ op = NoOp /\ sequence = 0 /\ confirmed[backends[i]] \in Nat
            /\ confirmed[backends[i]] <= Amount[backends[i]]
        BY TotalsFacts DEF RollBack, PhaseInv, LocalIndices, TypeOK
      <3>3. Held(i).status = "live" => Valid(backends[i], confirmed[backends[i]], 1)
                                       /\ Held(i).consumed = confirmed[backends[i]]
        BY <3>2, LocalFacts DEF LocalsInv, LiveInStep, Valid, Within
      <3>4. QED
        BY <3>1, <3>3 DEF Settled, Held, Valid, Within
    <2>2. LocalIndices' = LocalIndices /\ op' = NoOp /\ ~finished'
      BY <1>0 DEF RollBack, LocalIndices, PhaseInv
    <2>3. QED
      BY <1>0, <2>1, <2>2 DEF LocalsInv, LocalsCharged, EndInOrder, LiveInStep,
          PassedInStep, LocalsFinished
  <1>5. BackendsInv' /\ OpInv' /\ AloneInv' /\ ServerInv' /\ RequestsInv' /\ ResponsesInv'
    BY DEF RollBack, Abandon, LocalBackends, Settled, Valid, Within, Msg, BackendsInv,
        OpInv, AloneInv, HasRemote, ServerInv, RequestsInv, ResponsesInv, SaysOfServer
  <1>. QED
    BY <1>1, <1>2, <1>3, <1>4, <1>5

LEMMA OpenKeeps == LeaseInv /\ Open => LeaseInv'
  <1>. SUFFICES ASSUME LeaseInv, Open
                PROVE  LeaseInv'
    OBVIOUS
  <1>. USE DEF LeaseInv, wire, leaseState, taken
  <1>1. TypeOK'
    BY LeaseAssumption, TotalsFacts DEF Open, TypeOK, Op, NoOp, Request, NoSettlement,
        AwaitInv, OpInv, LocalLease, BackendLease, Response, Call, NoCall, BackendsInv
  <1>2. PhaseInv'
    BY LeaseAssumption, TotalsFacts DEF Open, TypeOK, PhaseInv, HasRemote, AwaitInv, OpInv,
        NoOp, NoSettlement, NoCall
  <1>3. AwaitInv'
    BY LeaseAssumption, TotalsFacts DEF Open, TypeOK, AwaitInv, PhaseInv, OpInv,
        BackendsInv, Op, NoOp, Call, NoCall, HasRemote, RemoteCmd, Msg
  <1>4. LocalsInv'
    BY LeaseAssumption, TotalsFacts DEF Open, TypeOK, LocalsInv, LocalsCharged, EndInOrder,
        LiveInStep, PassedInStep, LocalsFinished, LocalIndices, Held, BackendsInv, PhaseInv,
        OpInv, AwaitInv, Op, NoOp, LocalLease
  <1>5. BackendsInv' /\ OpInv' /\ AloneInv' /\ ServerInv' /\ RequestsInv' /\ ResponsesInv'
    BY DEF Open, BackendsInv, OpInv, AloneInv, HasRemote, ServerInv, RequestsInv,
        ResponsesInv, SaysOfServer
  <1>. QED
    BY <1>1, <1>2, <1>3, <1>4, <1>5

LEMMA BeginUpdateKeeps == LeaseInv /\ BeginUpdate => LeaseInv'
  <1>. SUFFICES ASSUME LeaseInv, BeginUpdate
                PROVE  LeaseInv'
    OBVIOUS
  <1>. USE DEF LeaseInv, wire, leaseState, taken
  <1>0. PICK t \in NextTotals: Begin("update", t)
    BY DEF BeginUpdate
  <1>a. /\ t \in Totals /\ \A r \in Resources: confirmed[r] <= t[r]
        /\ phase = "open" /\ op = NoOp /\ ~finished /\ sequence < MaxSequence
        /\ op' = [kind |-> "update", totals |-> t, sequence |-> sequence + 1, at |-> 1]
        /\ UNCHANGED <<phase, todo, backends, leaseState, taken, local, server,
                      healthy, awaiting, settler, requests, responses>>
    BY <1>0 DEF Begin, NextTotals
  <1>b. op' # NoOp
    BY <1>a DEF NoOp
  <1>1. TypeOK'
    <2>1. op' \in Op
      BY <1>a, LeaseAssumption DEF Op, TypeOK
    <2>2. QED
      BY <1>a, <2>1 DEF TypeOK
  <1>2. PhaseInv'
    BY <1>a DEF PhaseInv, HasRemote
  <1>3. OpInv'
    BY <1>a, <1>b, AppendFacts DEF OpInv, TypeOK
  <1>4. AwaitInv'
    BY <1>a, <1>b DEF AwaitInv, HasRemote
  <1>5. LocalsInv'
    BY <1>a, <1>b DEF TypeOK, LocalsInv, LocalsCharged, EndInOrder, LiveInStep,
        PassedInStep, LocalsFinished, LocalIndices, Held
  <1>6. ServerInv'
    BY <1>a, <1>b DEF ServerInv, HasRemote
  <1>7. BackendsInv' /\ AloneInv' /\ RequestsInv' /\ ResponsesInv'
    BY <1>a DEF BackendsInv, AloneInv, RequestsInv, ResponsesInv, SaysOfServer, HasRemote
  <1>. QED
    BY <1>1, <1>2, <1>3, <1>4, <1>5, <1>6, <1>7

LEMMA BeginFinishKeeps == LeaseInv /\ BeginFinish => LeaseInv'
  <1>. SUFFICES ASSUME LeaseInv, BeginFinish
                PROVE  LeaseInv'
    OBVIOUS
  <1>. USE DEF LeaseInv, wire, leaseState, taken
  <1>0. PICK t \in NextTotals: Begin("finish", t)
    BY DEF BeginFinish
  <1>a. /\ t \in Totals /\ \A r \in Resources: confirmed[r] <= t[r]
        /\ phase = "open" /\ op = NoOp /\ ~finished /\ sequence < MaxSequence
        /\ op' = [kind |-> "finish", totals |-> t, sequence |-> sequence + 1, at |-> 1]
        /\ UNCHANGED <<phase, todo, backends, leaseState, taken, local, server,
                      healthy, awaiting, settler, requests, responses>>
    BY <1>0 DEF Begin, NextTotals
  <1>b. op' # NoOp
    BY <1>a DEF NoOp
  <1>1. TypeOK'
    <2>1. op' \in Op
      BY <1>a, LeaseAssumption DEF Op, TypeOK
    <2>2. QED
      BY <1>a, <2>1 DEF TypeOK
  <1>2. PhaseInv'
    BY <1>a DEF PhaseInv, HasRemote
  <1>3. OpInv'
    BY <1>a, <1>b, AppendFacts DEF OpInv, TypeOK
  <1>4. AwaitInv'
    BY <1>a, <1>b DEF AwaitInv, HasRemote
  <1>5. LocalsInv'
    BY <1>a, <1>b DEF TypeOK, LocalsInv, LocalsCharged, EndInOrder, LiveInStep,
        PassedInStep, LocalsFinished, LocalIndices, Held
  <1>6. ServerInv'
    BY <1>a, <1>b DEF ServerInv, HasRemote
  <1>7. BackendsInv' /\ AloneInv' /\ RequestsInv' /\ ResponsesInv'
    BY <1>a DEF BackendsInv, AloneInv, RequestsInv, ResponsesInv, SaysOfServer, HasRemote
  <1>. QED
    BY <1>1, <1>2, <1>3, <1>4, <1>5, <1>6, <1>7

LEMMA LocalUpdateKeeps == LeaseInv /\ LocalUpdate => LeaseInv'
  <1>. SUFFICES ASSUME LeaseInv, LocalUpdate
                PROVE  LeaseInv'
    OBVIOUS
  <1>. USE DEF LeaseInv, wire, leaseState, taken
  <1>0. PICK k \in LocalIndices, r \in Resources:
        /\ op # NoOp /\ op \in Op /\ op.kind = "update" /\ op.at = k
        /\ r = backends[k] /\ op.totals[r] \in Nat
        /\ UpdateAccepted(r, op.totals[r], op.sequence)
        /\ local' = [local EXCEPT ![r] =
                        [status |-> "live", consumed |-> op.totals[r], sequence |-> op.sequence]]
        /\ op' = [op EXCEPT !.at = @ + 1]
        /\ UNCHANGED <<phase, todo, backends, leaseState, taken, server, healthy,
                      awaiting, settler, requests, responses>>
    <2>1. op # NoOp /\ op \in Op /\ op.at \in LocalIndices
      BY DEF LocalUpdate, AtBackend, Current, OpInv, LocalIndices, TypeOK, Op
    <2>2. QED
      BY <2>1, LocalFacts DEF LocalUpdate, Current
  <1>a. /\ op' \in Op /\ op' # NoOp /\ op'.at = op.at + 1 /\ op'.kind = op.kind
        /\ op'.totals = op.totals /\ op'.sequence = op.sequence
    BY <1>0 DEF Op, NoOp
  <1>b. /\ LocalIndices' = LocalIndices
        /\ \A i \in LocalIndices: i # k => Held(i)' = Held(i)
        /\ Held(k)' = [status |-> "live", consumed |-> op.totals[r], sequence |-> op.sequence]
        /\ Held(k) = local[r]
    <2>1. \A i \in LocalIndices: backends[i] \in Resources /\ (i # k => backends[i] # r)
      BY <1>0, LocalFacts
    <2>2. local \in [Resources -> LocalLease] /\ backends' = backends
      BY <1>0 DEF TypeOK
    <2>3. QED
      BY <1>0, <2>1, <2>2 DEF LocalIndices, Held
  <1>c. /\ [status |-> "live", consumed |-> op.totals[r], sequence |-> op.sequence] \in LocalLease
        /\ Held(k).status = "live"
        /\ Held(k)'.consumed = op.totals[r]
        /\ Held(k)'.sequence = op.sequence
        /\ Held(k)'.status = "live"
    <2>1. op.sequence \in 0..MaxSequence + 1
      BY <1>0, LeaseAssumption DEF Op
    <2>2. [status |-> "live", consumed |-> op.totals[r], sequence |-> op.sequence] \in LocalLease
      BY <1>0, <2>1 DEF LocalLease
    <2>3. local[r].status = "live"
      BY <1>0 DEF UpdateAccepted, Valid
    <2>4. QED
      BY <1>b, <2>2, <2>3
  <1>1. TypeOK'
    BY <1>0, <1>a, <1>c, LocalFacts DEF TypeOK
  <1>2. PhaseInv'
    BY <1>0, <1>a DEF PhaseInv, HasRemote
  <1>3. OpInv'
    BY <1>0, <1>a, LocalFacts DEF OpInv, Op
  <1>4. AwaitInv'
    BY <1>0, <1>a, LocalFacts DEF AwaitInv, HasRemote
  <1>5. LocalsInv'
    <2>1. LocalsCharged'
      BY <1>0, <1>b, <1>c, LocalFacts DEF LocalsInv, LocalsCharged
    <2>2. EndInOrder'
      <3>1. \A i \in LocalIndices: Held(i)'.status = "live" <=> Held(i).status = "live"
        BY <1>b, <1>c
      <3>2. QED
        BY <1>b, <3>1 DEF LocalsInv, EndInOrder
    <2>3. LiveInStep'
      <3>1. phase' = phase /\ phase \notin {"refused", "dropped"} /\ k \in Nat
        BY <1>0, LocalFacts DEF PhaseInv
      <3>2. op' # NoOp /\ op'.at = k + 1
        BY <1>0, <1>a
      <3>3. ASSUME NEW i \in LocalIndices, k + 1 <= i
            PROVE  i # k /\ op.at <= i
        BY <1>0, <3>1, <3>3, LocalFacts
      <3>4. QED
        BY <1>0, <1>b, <3>1, <3>2, <3>3 DEF LocalsInv, LiveInStep
    <2>4. PassedInStep'
      BY <1>0, <1>a, <1>b, <1>c, LocalFacts DEF LocalsInv, PassedInStep, Op
    <2>5. LocalsFinished'
      BY <1>0 DEF LocalsFinished, PhaseInv
    <2>6. QED
      BY <2>1, <2>2, <2>3, <2>4, <2>5 DEF LocalsInv
  <1>6. ServerInv'
    <2>1. HasRemote => k > 1
      BY <1>0, LocalFacts
    <2>2. QED
      BY <1>0, <1>a, <2>1 DEF ServerInv, HasRemote
  <1>7. BackendsInv' /\ AloneInv' /\ RequestsInv' /\ ResponsesInv'
    BY DEF LocalUpdate, AtBackend, Current, UpdateAccepted, Valid, Within, Same,
        BackendsInv, AloneInv, HasRemote, RequestsInv, ResponsesInv, SaysOfServer
  <1>. QED
    BY <1>1, <1>2, <1>3, <1>4, <1>5, <1>6, <1>7

LEMMA LocalFinishKeeps == LeaseInv /\ LocalFinish => LeaseInv'
  <1>. SUFFICES ASSUME LeaseInv, LocalFinish
                PROVE  LeaseInv'
    OBVIOUS
  <1>. USE DEF LeaseInv, wire, leaseState, taken
  <1>0. PICK k \in LocalIndices, r \in Resources:
        /\ op # NoOp /\ op \in Op /\ op.kind = "finish" /\ op.at = k
        /\ r = backends[k] /\ op.totals[r] \in Nat
        /\ FinishAccepted(r, op.totals[r], op.sequence)
        /\ local' = [local EXCEPT ![r] = Settled(r, op.totals[r], op.sequence)]
        /\ op' = [op EXCEPT !.at = @ + 1]
        /\ UNCHANGED <<phase, todo, backends, leaseState, taken, server, healthy,
                      awaiting, settler, requests, responses>>
    <2>1. op # NoOp /\ op \in Op /\ op.at \in LocalIndices
      BY DEF LocalFinish, AtBackend, Current, OpInv, LocalIndices, TypeOK, Op
    <2>2. QED
      BY <2>1, LocalFacts DEF LocalFinish, Current
  <1>a. /\ op' \in Op /\ op' # NoOp /\ op'.at = op.at + 1 /\ op'.kind = op.kind
        /\ op'.totals = op.totals /\ op'.sequence = op.sequence
    BY <1>0 DEF Op, NoOp
  <1>b. /\ LocalIndices' = LocalIndices
        /\ \A i \in LocalIndices: i # k => Held(i)' = Held(i)
        /\ Held(k)' = Settled(r, op.totals[r], op.sequence)
        /\ Held(k) = local[r]
    <2>1. \A i \in LocalIndices: backends[i] \in Resources /\ (i # k => backends[i] # r)
      BY <1>0, LocalFacts
    <2>2. local \in [Resources -> LocalLease] /\ backends' = backends
      BY <1>0 DEF TypeOK
    <2>3. QED
      BY <1>0, <2>1, <2>2 DEF LocalIndices, Held
  <1>c. /\ Settled(r, op.totals[r], op.sequence) \in LocalLease
        /\ Held(k)'.consumed = op.totals[r]
        /\ Held(k)'.sequence = op.sequence
        /\ Held(k)'.status = "settled"
    BY <1>0, <1>b, LocalFacts, LeaseAssumption DEF FinishAccepted, Settled, Valid, Same,
        LocalLease, Op
  <1>1. TypeOK'
    BY <1>0, <1>a, <1>c, LocalFacts DEF TypeOK
  <1>2. PhaseInv'
    BY <1>0, <1>a DEF PhaseInv, HasRemote
  <1>3. OpInv'
    BY <1>0, <1>a, LocalFacts DEF OpInv, Op
  <1>4. AwaitInv'
    BY <1>0, <1>a, LocalFacts DEF AwaitInv, HasRemote
  <1>5. LocalsInv'
    <2>1. LocalsCharged'
      BY <1>0, <1>b, <1>c, LocalFacts DEF LocalsInv, LocalsCharged
    <2>2. EndInOrder'
      \* Those before it have been finished by this operation.
      <3>1. \A i \in LocalIndices: i < k => Held(i).status # "live"
        BY <1>0 DEF LocalsInv, PassedInStep
      <3>2. \A i \in LocalIndices: i # k => Held(i)' = Held(i)
        BY <1>b
      <3>3. QED
        BY <1>b, <1>c, <3>1, <3>2, LocalFacts DEF LocalsInv, EndInOrder
    <2>3. LiveInStep'
      <3>1. phase' = phase /\ phase \notin {"refused", "dropped"} /\ k \in Nat
        BY <1>0, LocalFacts DEF PhaseInv
      <3>2. op' # NoOp /\ op'.at = k + 1
        BY <1>0, <1>a
      <3>3. ASSUME NEW i \in LocalIndices, k + 1 <= i
            PROVE  i # k /\ op.at <= i
        BY <1>0, <3>1, <3>3, LocalFacts
      <3>4. QED
        BY <1>0, <1>b, <3>1, <3>2, <3>3 DEF LocalsInv, LiveInStep
    <2>4. PassedInStep'
      BY <1>0, <1>a, <1>b, <1>c, LocalFacts DEF LocalsInv, PassedInStep, Op
    <2>5. LocalsFinished'
      BY <1>0 DEF LocalsFinished, PhaseInv
    <2>6. QED
      BY <2>1, <2>2, <2>3, <2>4, <2>5 DEF LocalsInv
  <1>6. ServerInv'
    <2>1. HasRemote => k > 1
      BY <1>0, LocalFacts
    <2>2. QED
      BY <1>0, <1>a, <2>1 DEF ServerInv, HasRemote
  <1>7. BackendsInv' /\ AloneInv' /\ RequestsInv' /\ ResponsesInv'
    BY DEF LocalFinish, AtBackend, Current, FinishAccepted, Settled, Valid, Within, Same,
        BackendsInv, AloneInv, HasRemote, RequestsInv, ResponsesInv, SaysOfServer
  <1>. QED
    BY <1>1, <1>2, <1>3, <1>4, <1>5, <1>6, <1>7

LEMMA LocalRefusesKeeps == LeaseInv /\ LocalRefuses => LeaseInv'
  <1>. SUFFICES ASSUME LeaseInv, LocalRefuses
                PROVE  LeaseInv'
    OBVIOUS
  <1>. USE DEF LeaseInv, wire, leaseState, taken
  <1>1. TypeOK'
    <2>1. /\ op' = NoOp
          /\ UNCHANGED <<phase, todo, backends, leaseState, taken, local, server,
                        healthy, awaiting, settler, requests, responses>>
      BY DEF LocalRefuses
    <2>2. QED
      BY <2>1 DEF TypeOK
  <1>2. PhaseInv'
    BY LeaseAssumption, TotalsFacts DEF LocalRefuses, AtBackend, Current, UpdateAccepted,
        FinishAccepted, Valid, Within, Same, TypeOK, PhaseInv, HasRemote, AwaitInv, OpInv,
        NoOp, NoSettlement, NoCall
  <1>3. OpInv'
    BY LeaseAssumption, TotalsFacts DEF LocalRefuses, AtBackend, Current, UpdateAccepted,
        FinishAccepted, Valid, Within, Same, TypeOK, Op, NoOp, OpInv, AwaitInv
  <1>4. AwaitInv'
    BY LeaseAssumption, TotalsFacts DEF LocalRefuses, AtBackend, Current, UpdateAccepted,
        FinishAccepted, Valid, Within, Same, TypeOK, AwaitInv, PhaseInv, OpInv, BackendsInv,
        Op, NoOp, Call, NoCall, HasRemote, RemoteCmd, Msg
  <1>5. LocalsInv'
    <2>1. op # NoOp /\ op \in Op /\ op.at \in LocalIndices /\ Current = backends[op.at]
      BY DEF LocalRefuses, AtBackend, Current, OpInv, LocalIndices, TypeOK, Op
    <2>2. ~Valid(Current, op.totals[Current], op.sequence)
      BY DEF LocalRefuses, UpdateAccepted, FinishAccepted
    <2>3. Held(op.at).status # "live"
      BY <2>1, <2>2, LocalFacts DEF LocalsInv, LiveInStep, Valid, Within, OpInv, TypeOK
    <2>4. \A i \in LocalIndices: i < op.at => Held(i).status # "live"
      BY <2>1, <2>3 DEF LocalsInv, EndInOrder
    <2>5. QED
      BY <2>4, StoppingKeepsLocals DEF LocalRefuses
  <1>6. ServerInv'
    BY LeaseAssumption, TotalsFacts DEF LocalRefuses, AtBackend, Current, UpdateAccepted,
        FinishAccepted, Valid, Within, Same, TypeOK, ServerInv, HasRemote, OpInv, PhaseInv,
        BackendsInv, AwaitInv, AloneInv, Op, NoOp
  <1>7. BackendsInv' /\ AloneInv' /\ RequestsInv' /\ ResponsesInv'
    BY DEF LocalRefuses, AtBackend, Current, UpdateAccepted, FinishAccepted, Valid, Within,
        Same, BackendsInv, AloneInv, HasRemote, RequestsInv, ResponsesInv, SaysOfServer
  <1>. QED
    BY <1>1, <1>2, <1>3, <1>4, <1>5, <1>6, <1>7

LEMMA RemoteCallKeeps == LeaseInv /\ RemoteCall => LeaseInv'
  <1>. SUFFICES ASSUME LeaseInv, RemoteCall
                PROVE  LeaseInv'
    OBVIOUS
  <1>. USE DEF LeaseInv, wire, leaseState, taken
  <1>. DEFINE q == Msg(RemoteCmd, op.totals, op.sequence)
  <1>0. /\ op # NoOp /\ op \in Op /\ HasRemote /\ op.at = 1 /\ SendFor("lease", q)
        /\ UNCHANGED <<phase, todo, backends, leaseState, taken, op, local, server, healthy, settler>>
    BY DEF RemoteCall, AtBackend, Current, HasRemote, OpInv, BackendsInv, TypeOK, Op
  <1>a. q \in Request /\ q.cmd # "Reserve" /\ q.sequence = sequence + 1
    BY <1>0, LeaseAssumption DEF RemoteCmd, OpInv, Op, Msg, Request, Cmd
  <1>b. q' = q
    BY <1>0 DEF RemoteCmd
  <1>. HIDE DEF q
  <1>c. PICK m \in {q, Foreign}:
          /\ ~crossed => m = q
          /\ m \in Request \cup {Foreign} /\ requests' = Append(requests, m)
          /\ requests' \in Seq(Request \cup {Foreign}) /\ responses' = responses
          /\ awaiting = NoCall /\ awaiting' = [by |-> "lease", request |-> q] /\ awaiting' \in Call
    BY <1>0, <1>a, SendForFacts
  <1>1. TypeOK'
    BY <1>0, <1>c DEF TypeOK
  <1>2. AwaitInv'
    <2>1. phase # "asking"
      BY <1>0 DEF PhaseInv
    <2>2. awaiting'.request = Msg(RemoteCmd, op.totals, op.sequence)'
      BY <1>b, <1>c DEF q
    <2>3. QED
      BY <1>0, <1>c, <2>1, <2>2 DEF AwaitInv, HasRemote
  <1>3. RequestsInv'
    BY <1>0, <1>a, <1>c, AppendFacts DEF RequestsInv, HasRemote, TypeOK
  <1>4. AloneInv' /\ ServerInv' /\ ResponsesInv'
    BY <1>0, <1>c DEF AloneInv, ServerInv, ResponsesInv, SaysOfServer, HasRemote
  <1>5. BackendsInv' /\ PhaseInv' /\ OpInv' /\ LocalsInv'
    BY <1>0 DEF BackendsInv, PhaseInv, HasRemote, OpInv, LocalsInv, LocalsCharged, EndInOrder,
        LiveInStep, PassedInStep, LocalsFinished, LocalIndices, Held
  <1>. QED
    BY <1>1, <1>2, <1>3, <1>4, <1>5

\* A call of another lease is none of this one's, and nor is its message.
LEMMA OtherCallKeeps == LeaseInv /\ OtherCall => LeaseInv'
  <1>. SUFFICES ASSUME LeaseInv, OtherCall
                PROVE  LeaseInv'
    OBVIOUS
  <1>. USE DEF LeaseInv, wire, leaseState, taken
  <1>0. /\ awaiting = NoCall /\ awaiting' = Others
        /\ requests' = Append(requests, Foreign) /\ responses' = responses
        /\ UNCHANGED <<phase, todo, backends, leaseState, taken, op, local, server, healthy, settler>>
    BY DEF OtherCall, Send
  <1>1. /\ Foreign \in Request \cup {Foreign} /\ requests \in Seq(Request \cup {Foreign})
        /\ responses \in Seq(Response \cup {Foreign})
    BY DEF TypeOK
  <1>2. BackendsInv' /\ PhaseInv' /\ OpInv' /\ AwaitInv' /\ LocalsInv'
    <2>1. /\ NothingOwn(requests) => NothingOwn(requests')
          /\ NothingOwn(requests') => OneOwn(requests')
          /\ NothingOwn(responses') => OneOwn(responses')
      BY <1>0, <1>1, OwnFacts DEF NothingOwn, OneOwn
    <2>2. QED
      BY <1>0, <2>1, OthersCallKeeps
  <1>3. TypeOK'
    BY <1>0, <1>1 DEF TypeOK, Call
  <1>4. AloneInv' /\ RequestsInv'
    BY <1>0, <1>1, AppendFacts DEF AloneInv, RequestsInv, HasRemote
  <1>5. ServerInv' /\ ResponsesInv'
    BY <1>0 DEF ServerInv, ResponsesInv, SaysOfServer, HasRemote
  <1>. QED
    BY <1>2, <1>3, <1>4, <1>5

LEMMA RemoteUnavailableKeeps == LeaseInv /\ RemoteUnavailable => LeaseInv'
  <1>. SUFFICES ASSUME LeaseInv, RemoteUnavailable
                PROVE  LeaseInv'
    OBVIOUS
  <1>. USE DEF LeaseInv, wire, leaseState, taken
  <1>1. TypeOK'
    BY LeaseAssumption, TotalsFacts DEF RemoteUnavailable, AtBackend, Current, TypeOK, Op,
        NoOp, Request, NoSettlement, AwaitInv, OpInv, LocalLease, BackendLease, Response,
        Call, NoCall, BackendsInv
  <1>2. PhaseInv'
    BY LeaseAssumption, TotalsFacts DEF RemoteUnavailable, AtBackend, Current, TypeOK,
        PhaseInv, HasRemote, AwaitInv, OpInv, NoOp, NoSettlement, NoCall
  <1>3. OpInv'
    BY LeaseAssumption, TotalsFacts DEF RemoteUnavailable, AtBackend, Current, TypeOK, Op,
        NoOp, OpInv, AwaitInv
  <1>4. AwaitInv'
    BY LeaseAssumption, TotalsFacts DEF RemoteUnavailable, AtBackend, Current, TypeOK,
        AwaitInv, PhaseInv, OpInv, BackendsInv, Op, NoOp, Call, NoCall, HasRemote,
        RemoteCmd, Msg
  <1>5. LocalsInv'
    <2>1. op # NoOp /\ op.at \in DOMAIN backends /\ backends[op.at] = "remote" /\ op' = NoOp
      BY DEF RemoteUnavailable, AtBackend, Current, TypeOK, Op, OpInv
    <2>2. op.at = 1
      BY <2>1 DEF BackendsInv
    <2>3. \A i \in LocalIndices: ~(i < op.at)
      BY <2>2, LocalFacts
    <2>4. QED
      BY <2>1, <2>3, StoppingKeepsLocals DEF RemoteUnavailable
  <1>6. ServerInv'
    BY LeaseAssumption, TotalsFacts DEF RemoteUnavailable, AtBackend, Current, TypeOK,
        ServerInv, HasRemote, OpInv, PhaseInv, BackendsInv, AwaitInv, AloneInv, Op, NoOp
  <1>7. BackendsInv' /\ AloneInv' /\ RequestsInv' /\ ResponsesInv'
    BY DEF RemoteUnavailable, AtBackend, Current, BackendsInv, AloneInv, HasRemote,
        RequestsInv, ResponsesInv, SaysOfServer
  <1>. QED
    BY <1>1, <1>2, <1>3, <1>4, <1>5, <1>6, <1>7

LEMMA ConfirmKeeps == LeaseInv /\ Confirm => LeaseInv'
  <1>. SUFFICES ASSUME LeaseInv, Confirm
                PROVE  LeaseInv'
    OBVIOUS
  <1>. USE DEF LeaseInv, wire, leaseState, taken
  <1>0. /\ op \in Op /\ op # NoOp /\ op.at = Len(backends) + 1 /\ op' = NoOp
        /\ confirmed' = op.totals /\ sequence' = op.sequence /\ sequence' = sequence + 1
        /\ ~finished /\ phase = "open"
        /\ UNCHANGED <<phase, todo, backends, taken, local, server, healthy, awaiting, settler,
                      requests, responses>>
    BY DEF Confirm, TypeOK, Op, NoOp, OpInv, PhaseInv
  <1>a. finished' = (op.kind = "finish")
    BY DEF Confirm
  <1>b. /\ op.totals \in Totals /\ op.sequence \in 1..MaxSequence /\ sequence \in Nat
        /\ op.kind \in {"update", "finish"}
    <2>1. sequence \in Nat
      BY LeaseAssumption DEF TypeOK
    <2>2. op.totals \in Totals /\ op.sequence \in 1..MaxSequence /\ op.kind \in {"update", "finish"}
      BY <1>0 DEF Op
    <2>3. QED
      BY <2>1, <2>2
  <1>1. TypeOK'
    <2>1. confirmed' \in Totals /\ sequence' \in 0..MaxSequence
      BY <1>0, <1>b, LeaseAssumption
    <2>2. finished' \in BOOLEAN
      BY <1>a
    <2>3. QED
      BY <1>0, <2>1, <2>2 DEF TypeOK
  <1>2. PhaseInv'
    BY <1>0 DEF TypeOK, PhaseInv, HasRemote, Request
  <1>3. OpInv'
    BY <1>0 DEF OpInv
  <1>4. AwaitInv'
    BY <1>0, LocalFacts DEF AwaitInv, HasRemote
  <1>5. LocalsInv'
    <2>1. LocalIndices' = LocalIndices /\ \A i: Held(i)' = Held(i)
      BY <1>0 DEF LocalIndices, Held
    <2>2. \A i \in LocalIndices: i < op.at
      BY <1>0, LocalFacts
    <2>3. \A i \in LocalIndices:
            /\ Held(i).consumed = confirmed'[backends'[i]]
            /\ Held(i).status = "live" => op.kind = "update" /\ Held(i).sequence = sequence'
            /\ op.kind = "finish" => Held(i).status \in {"settled", "forgotten"}
      BY <1>0, <2>2 DEF LocalsInv, PassedInStep
    <2>4. LocalsCharged' /\ LiveInStep'
      BY <1>0, <2>1, <2>3, LocalFacts DEF LocalsInv, LocalsCharged, LiveInStep
    <2>5. LocalsFinished' /\ PassedInStep' /\ EndInOrder'
      BY <1>0, <1>a, <2>1, <2>3 DEF LocalsInv, LocalsFinished, PassedInStep, EndInOrder
    <2>6. QED
      BY <2>4, <2>5 DEF LocalsInv
  <1>6. ServerInv'
    <2>1. HasRemote' => HasRemote /\ op.at > 1
      BY <1>0, LocalFacts DEF HasRemote
    <2>2. op.totals \in [Resources -> Nat] /\ Distributed \subseteq Resources
      BY <1>b, TotalsFacts, LeaseAssumption
    <2>3. ASSUME HasRemote', ~crossed'
          PROVE  /\ server'.sequence = sequence' /\ server'.consumed = confirmed'
                 /\ server'.status = "settled" <=> op.kind = "finish"
      BY <1>0, <2>1, <2>3 DEF ServerInv
    <2>4. ASSUME HasRemote', ~crossed', NEW r \in Distributed
          PROVE  server'.consumed[r] = confirmed'[r] /\ server'.consumed[r] >= confirmed'[r]
      BY <1>0, <2>2, <2>3, <2>4
    <2>5. sequence' \in Nat
      BY <1>0, <1>b
    <2>6. finished' <=> op.kind = "finish"
      BY <1>a
    <2>7. QED
      BY <1>0, <2>3, <2>4, <2>5, <2>6 DEF ServerInv
  <1>7. RequestsInv'
    <2>1. requests \in Seq(Request \cup {Foreign})
      BY DEF TypeOK
    <2>2. \A n \in Request: n.sequence \in Nat
      BY LeaseAssumption DEF Request
    <2>3. QED
      BY <1>0, <1>b, <2>1, <2>2 DEF RequestsInv, HasRemote
  <1>8. BackendsInv' /\ AloneInv' /\ ResponsesInv'
    BY DEF Confirm, BackendsInv, AloneInv, HasRemote, ResponsesInv, SaysOfServer
  <1>. QED
    BY <1>1, <1>2, <1>3, <1>4, <1>5, <1>6, <1>7, <1>8

LEMMA CancelKeeps == LeaseInv /\ Cancel => LeaseInv'
  <1>. SUFFICES ASSUME LeaseInv, Cancel
                PROVE  LeaseInv'
    OBVIOUS
  <1>. USE DEF LeaseInv, wire, leaseState, taken
  <1>0. /\ awaiting # NoCall /\ awaiting' = NoCall
        /\ phase' = IF awaiting.by = "reserve" THEN "refused" ELSE phase
        /\ op' = IF awaiting.by = "lease" THEN NoOp ELSE op
        /\ UNCHANGED <<todo, backends, leaseState, taken, local, server, healthy, settler,
                       requests, responses>>
    BY DEF Cancel
  <1>1. BackendsInv' /\ PhaseInv' /\ OpInv' /\ AwaitInv' /\ LocalsInv'
    <2>1. CASE awaiting = Others
      <3>1. UNCHANGED <<phase, op>>
        BY <1>0, <2>1 DEF Others
      <3>2. /\ NothingOwn(requests) => OneOwn(requests)
            /\ NothingOwn(responses) => OneOwn(responses)
        BY DEF NothingOwn, OneOwn
      <3>3. QED
        BY <1>0, <2>1, <3>1, <3>2, OthersCallKeeps
    <2>2. CASE awaiting # Others
      <3>1. phase' # "asking"
        BY <1>0, <2>2 DEF AwaitInv
      <3>2. QED
        BY <1>0, <2>2, <3>1, EndedCallKeeps
    <2>3. QED
      BY <2>1, <2>2
  <1>2. TypeOK'
    BY <1>0 DEF TypeOK
  <1>3. ServerInv'
    BY <1>0 DEF ServerInv, HasRemote
  <1>4. AloneInv' /\ RequestsInv' /\ ResponsesInv'
    BY <1>0 DEF AloneInv, HasRemote, RequestsInv, ResponsesInv, SaysOfServer
  <1>. QED
    BY <1>1, <1>2, <1>3, <1>4

LEMMA CancelUnsentKeeps == LeaseInv /\ CancelUnsent => LeaseInv'
  <1>. SUFFICES ASSUME LeaseInv, CancelUnsent
                PROVE  LeaseInv'
    OBVIOUS
  <1>. USE DEF LeaseInv, wire, leaseState, taken
  <1>0. UNCHANGED <<todo, backends, leaseState, taken, local, server, healthy, awaiting, settler,
                    requests, responses>>
    BY DEF CancelUnsent
  <1>1. CASE AtBackend /\ Current = "remote" /\ awaiting.by # "lease" /\ op' = NoOp /\ UNCHANGED phase
    <2>1. op # NoOp /\ op.at \in DOMAIN backends /\ backends[op.at] = "remote"
      BY <1>1 DEF AtBackend, Current, TypeOK, Op, OpInv
    <2>2. op.at = 1 /\ \A i \in LocalIndices: ~(i < op.at)
      BY <2>1, LocalFacts DEF BackendsInv
    <2>3. LocalsInv'
      BY <1>0, <1>1, <2>2, StoppingKeepsLocals
    <2>4. TypeOK' /\ OpInv' /\ ServerInv'
      BY <1>0, <1>1 DEF TypeOK, OpInv, ServerInv, HasRemote
    <2>5. BackendsInv' /\ PhaseInv' /\ AwaitInv'
      BY <1>0, <1>1 DEF BackendsInv, PhaseInv, AwaitInv, HasRemote
    <2>6. AloneInv' /\ RequestsInv' /\ ResponsesInv'
      BY <1>0 DEF AloneInv, HasRemote, RequestsInv, ResponsesInv, SaysOfServer
    <2>7. QED
      BY <2>3, <2>4, <2>5, <2>6
  <1>2. CASE phase = "asking" /\ awaiting.by # "reserve" /\ phase' = "refused" /\ UNCHANGED op
    <2>1. /\ backends = <<>> /\ op = NoOp /\ LocalIndices = {} /\ LocalIndices' = {}
          /\ awaiting.by # "lease"
      BY <1>0, <1>2 DEF PhaseInv, LocalIndices, AwaitInv
    <2>2. LocalsInv'
      BY <1>0, <1>2, <2>1 DEF LocalsInv, LocalsCharged, EndInOrder, LiveInStep, PassedInStep,
          LocalsFinished
    <2>3. TypeOK' /\ OpInv' /\ ServerInv'
      BY <1>0, <1>2, <2>1 DEF TypeOK, OpInv, ServerInv, HasRemote
    <2>4. BackendsInv' /\ PhaseInv' /\ AwaitInv'
      BY <1>0, <1>2, <2>1 DEF BackendsInv, PhaseInv, AwaitInv, HasRemote
    <2>5. AloneInv' /\ RequestsInv' /\ ResponsesInv'
      BY <1>0 DEF AloneInv, HasRemote, RequestsInv, ResponsesInv, SaysOfServer
    <2>6. QED
      BY <2>2, <2>3, <2>4, <2>5
  <1>3. QED
    BY <1>1, <1>2 DEF CancelUnsent

LEMMA DropLeaseKeeps == LeaseInv /\ DropLease => LeaseInv'
  <1>. SUFFICES ASSUME LeaseInv, DropLease
                PROVE  LeaseInv'
    OBVIOUS
  <1>. USE DEF LeaseInv, wire, leaseState, taken
  <1>0. /\ LocalBackends = {backends[i]: i \in LocalIndices}
        /\ UNCHANGED <<todo, backends, leaseState, taken, op, server, healthy,
                      awaiting, requests, responses>>
    BY LocalFacts DEF DropLease
  <1>1. TypeOK'
    <2>1. Msg("Settle", confirmed, sequence + 1) \in Request
      BY LeaseAssumption DEF TypeOK, Msg, Request, Cmd
    <2>2. \A r \in Resources:
              confirmed[r] \in Nat /\ Settled(r, confirmed[r], sequence + 1) \in LocalLease
      BY LeaseAssumption, TotalsFacts DEF TypeOK, Settled, LocalLease
    <2>3. settler' \in Request \cup {NoSettlement} /\ local' \in [Resources -> LocalLease]
      BY <2>1, <2>2 DEF DropLease, Abandon, TypeOK
    <2>4. QED
      BY <1>0, <2>3 DEF DropLease, TypeOK
  <1>2. PhaseInv'
    BY LeaseAssumption, TotalsFacts DEF DropLease, Abandon, LocalBackends, Settled, Valid,
        Within, Msg, TypeOK, PhaseInv, HasRemote, AwaitInv, OpInv, NoOp, NoSettlement,
        NoCall
  <1>3. AwaitInv'
    BY LeaseAssumption, TotalsFacts DEF DropLease, Abandon, LocalBackends, Settled, Valid,
        Within, Msg, TypeOK, AwaitInv, PhaseInv, OpInv, BackendsInv, Op, NoOp, Call, NoCall,
        HasRemote, RemoteCmd
  <1>4. LocalsInv'
    <2>1. LocalIndices' = LocalIndices /\ op' = NoOp /\ op = NoOp /\ backends' = backends
      BY <1>0 DEF DropLease, LocalIndices
    <2>2. CASE finished
      <3>1. \A i \in LocalIndices: Held(i)' = Held(i)
        BY <1>0, <2>2 DEF DropLease, Held
      <3>2. QED
        BY <1>0, <2>1, <2>2, <3>1 DEF LocalsInv, LocalsCharged, EndInOrder, LiveInStep,
            PassedInStep, LocalsFinished
    <2>3. CASE ~finished
      <3>1. ASSUME NEW i \in LocalIndices
            PROVE  /\ Held(i)'.status # "live" /\ Held(i)'.consumed = Held(i).consumed
        <4>1. Held(i)' = Settled(backends[i], confirmed[backends[i]], sequence + 1)
          BY <1>0, <2>3 DEF DropLease, Abandon, LocalIndices, Held, TypeOK
        <4>2. confirmed[backends[i]] \in Nat /\ confirmed[backends[i]] <= Amount[backends[i]]
          BY TotalsFacts DEF LocalIndices, TypeOK
        <4>3. Held(i).status = "live" =>
                /\ Valid(backends[i], confirmed[backends[i]], sequence + 1)
                /\ Held(i).consumed = confirmed[backends[i]]
          BY <2>1, <4>2, LocalFacts DEF LocalsInv, LiveInStep, Valid, Within, TypeOK
        <4>4. QED
          BY <4>1, <4>3 DEF Settled, Held, Valid, Within
      <3>2. QED
        BY <1>0, <2>1, <2>3, <3>1 DEF LocalsInv, LocalsCharged, EndInOrder, LiveInStep,
            PassedInStep, LocalsFinished
    <2>4. QED
      BY <2>2, <2>3
  <1>5. BackendsInv' /\ OpInv' /\ AloneInv' /\ ServerInv' /\ RequestsInv' /\ ResponsesInv'
    BY DEF DropLease, Abandon, LocalBackends, Settled, Valid, Within, Msg, BackendsInv,
        OpInv, AloneInv, HasRemote, ServerInv, RequestsInv, ResponsesInv, SaysOfServer
  <1>. QED
    BY <1>1, <1>2, <1>3, <1>4, <1>5

LEMMA SettlerCallKeeps == LeaseInv /\ SettlerCall => LeaseInv'
  <1>. SUFFICES ASSUME LeaseInv, SettlerCall
                PROVE  LeaseInv'
    OBVIOUS
  <1>. USE DEF LeaseInv, wire, leaseState, taken
  <1>0. /\ settler # NoSettlement /\ SendFor("settler", settler) /\ settler' = NoSettlement
        /\ UNCHANGED <<phase, todo, backends, leaseState, taken, op, local, server, healthy>>
    BY DEF SettlerCall
  <1>a. /\ settler \in Request /\ settler.cmd = "Settle" /\ settler.sequence <= sequence + 1
        /\ HasRemote /\ phase # "asking"
    BY <1>0 DEF PhaseInv, TypeOK
  <1>b. PICK m \in {settler, Foreign}:
          /\ ~crossed => m = settler
          /\ m \in Request \cup {Foreign} /\ requests' = Append(requests, m)
          /\ requests' \in Seq(Request \cup {Foreign}) /\ responses' = responses
          /\ awaiting = NoCall /\ awaiting' = [by |-> "settler", request |-> settler]
          /\ awaiting' \in Call
    BY <1>0, <1>a, SendForFacts
  <1>1. TypeOK'
    BY <1>0, <1>b DEF TypeOK
  <1>2. PhaseInv' /\ AwaitInv'
    BY <1>0, <1>a, <1>b DEF PhaseInv, AwaitInv, HasRemote
  <1>3. RequestsInv'
    BY <1>0, <1>a, <1>b, AppendFacts DEF RequestsInv, HasRemote, TypeOK
  <1>4. AloneInv' /\ ServerInv' /\ ResponsesInv'
    BY <1>0, <1>a, <1>b DEF AloneInv, ServerInv, ResponsesInv, SaysOfServer, HasRemote
  <1>5. BackendsInv' /\ OpInv' /\ LocalsInv'
    BY <1>0 DEF BackendsInv, OpInv, LocalsInv, LocalsCharged, EndInOrder,
        LiveInStep, PassedInStep, LocalsFinished, LocalIndices, Held
  <1>. QED
    BY <1>1, <1>2, <1>3, <1>4, <1>5

LEMMA SettlerUnavailableKeeps == LeaseInv /\ SettlerUnavailable => LeaseInv'
  <1>. SUFFICES ASSUME LeaseInv, SettlerUnavailable
                PROVE  LeaseInv'
    OBVIOUS
  <1>. USE DEF LeaseInv, wire, leaseState, taken
  <1>1. TypeOK'
    BY LeaseAssumption, TotalsFacts DEF SettlerUnavailable, TypeOK, Op, NoOp, Request,
        NoSettlement, AwaitInv, OpInv, LocalLease, BackendLease, Response, Call, NoCall,
        BackendsInv
  <1>2. PhaseInv'
    BY LeaseAssumption, TotalsFacts DEF SettlerUnavailable, TypeOK, PhaseInv, HasRemote,
        AwaitInv, OpInv, NoOp, NoSettlement, NoCall
  <1>3. BackendsInv' /\ OpInv' /\ AwaitInv' /\ LocalsInv' /\ AloneInv' /\ ServerInv'
        /\ RequestsInv' /\ ResponsesInv'
    BY DEF SettlerUnavailable, BackendsInv, OpInv, AwaitInv, HasRemote, RemoteCmd, Msg,
        LocalsInv, LocalsCharged, EndInOrder, LiveInStep, PassedInStep, LocalsFinished,
        LocalIndices, Held, AloneInv, ServerInv, RequestsInv, ResponsesInv, SaysOfServer
  <1>. QED
    BY <1>1, <1>2, <1>3

\* When the session fails the call that waits fails with it, and what is on the
\* stream stays there or is lost.
LEMMA SessionFailsKeeps ==
    ASSUME LeaseInv, SessionFails,
           requests' \in {requests, <<>>}, responses' \in {responses, <<>>}
    PROVE  LeaseInv'
  <1>. USE DEF LeaseInv, wire, leaseState, taken
  <1>0. /\ healthy' = FALSE /\ awaiting' = NoCall
        /\ UNCHANGED <<backends, leaseState, taken, local, server, settler>>
        /\ IF awaiting = NoCall THEN UNCHANGED <<phase, todo, op>> ELSE CallFails(awaiting.by)
    BY DEF SessionFails
  <1>1. BackendsInv' /\ PhaseInv' /\ OpInv' /\ AwaitInv' /\ LocalsInv'
    <2>1. CASE awaiting \notin {NoCall, Others}
      <3>1. phase' # "asking"
        BY <1>0, <2>1 DEF CallFails, AwaitInv
      <3>2. QED
        BY <1>0, <2>1, <3>1, EndedCallKeeps DEF CallFails
    <2>2. CASE awaiting \in {NoCall, Others}
      <3>1. UNCHANGED <<phase, todo, op>>
        BY <1>0, <2>2 DEF CallFails, Others
      <3>2. /\ NothingOwn(requests) => NothingOwn(requests')
            /\ NothingOwn(responses) => NothingOwn(responses')
            /\ NothingOwn(requests') => OneOwn(requests')
            /\ NothingOwn(responses') => OneOwn(responses')
        BY DEF NothingOwn, OneOwn
      <3>3. QED
        BY <1>0, <2>2, <3>1, <3>2, OthersCallKeeps
    <2>3. QED
      BY <2>1, <2>2
  <1>2. TypeOK'
    <2>1. /\ requests' \in Seq(Request \cup {Foreign}) /\ responses' \in Seq(Response \cup {Foreign})
      <3>1. <<>> \in Seq(Response \cup {Foreign}) /\ <<>> \in Seq(Request \cup {Foreign})
        OBVIOUS
      <3>2. QED
        BY <3>1 DEF TypeOK
    <2>2. /\ todo' \subseteq Resources /\ op' \in Op \cup {NoOp}
          /\ phase' \in {"asking", "granting", "open", "refused", "dropped"}
      BY <1>0, LeaseAssumption DEF CallFails, Overflow, TypeOK
    <2>3. QED
      BY <1>0, <2>1, <2>2 DEF TypeOK
  <1>3. op' = NoOp \/ op' = op
    BY <1>0 DEF CallFails
  <1>4. AloneInv' /\ RequestsInv'
    BY <1>0 DEF AloneInv, RequestsInv, HasRemote
  <1>5. ServerInv'
    BY <1>0, <1>3 DEF ServerInv, HasRemote
  <1>6. ResponsesInv'
    BY <1>0 DEF ResponsesInv, SaysOfServer, HasRemote
  <1>. QED
    BY <1>1, <1>2, <1>4, <1>5, <1>6

LEMMA TimeoutKeeps == LeaseInv /\ Timeout => LeaseInv'
  BY SessionFailsKeeps DEF Timeout, wire

LEMMA StreamBreaksKeeps == LeaseInv /\ StreamBreaks => LeaseInv'
  BY SessionFailsKeeps DEF StreamBreaks

LEMMA ServerExpiresKeeps == LeaseInv /\ ServerExpires => LeaseInv'
  <1>. SUFFICES ASSUME LeaseInv, ServerExpires
                PROVE  LeaseInv'
    OBVIOUS
  <1>. USE DEF LeaseInv, wire, leaseState, taken
  <1>1. TypeOK'
    BY LeaseAssumption, TotalsFacts DEF ServerExpires, TypeOK, Op, NoOp, Request,
        NoSettlement, AwaitInv, OpInv, LocalLease, BackendLease, Response, Call, NoCall,
        BackendsInv
  <1>2. AloneInv'
    BY LeaseAssumption, TotalsFacts DEF ServerExpires, TypeOK, AloneInv, PhaseInv, AwaitInv,
        HasRemote, Call, NoCall, NoSettlement, Request, Response
  <1>3. ServerInv'
    BY LeaseAssumption, TotalsFacts DEF ServerExpires, TypeOK, ServerInv, HasRemote, OpInv,
        PhaseInv, BackendsInv, AwaitInv, AloneInv, Op, NoOp
  <1>4. ResponsesInv'
    <2>1. /\ server.status = "live" /\ server'.status = "expired"
          /\ server'.sequence = server.sequence /\ server'.consumed = server.consumed
      BY DEF ServerExpires, TypeOK, BackendLease
    <2>2. QED
      BY <2>1 DEF ServerExpires, ResponsesInv, SaysOfServer, HasRemote
  <1>5. BackendsInv' /\ PhaseInv' /\ OpInv' /\ AwaitInv' /\ LocalsInv' /\ RequestsInv'
    BY DEF ServerExpires, BackendsInv, PhaseInv, HasRemote, OpInv, AwaitInv, RemoteCmd, Msg,
        LocalsInv, LocalsCharged, EndInOrder, LiveInStep, PassedInStep, LocalsFinished,
        LocalIndices, Held, RequestsInv
  <1>. QED
    BY <1>1, <1>2, <1>3, <1>4, <1>5

\* A counter that lets go of a lease changes its status, and nothing else of it.
LEMMA StatusChanges ==
    ASSUME LeaseInv, NEW k \in LocalIndices, NEW s \in {"expired", "forgotten"},
           local' = [local EXCEPT ![backends[k]].status = s], backends' = backends
    PROVE  /\ local' \in [Resources -> LocalLease]
           /\ LocalIndices' = LocalIndices
           /\ \A i \in LocalIndices: i # k => Held(i)' = Held(i)
           /\ Held(k)'.status = s
           /\ Held(k)'.consumed = Held(k).consumed /\ Held(k)'.sequence = Held(k).sequence
  <1>. DEFINE r == backends[k]
              h == [local[r] EXCEPT !.status = s]
  <1>1. /\ r \in Resources /\ local \in [Resources -> LocalLease]
        /\ \A i \in LocalIndices: i # k => backends[i] # r
    BY LocalFacts DEF LeaseInv, TypeOK
  <1>2. /\ h \in LocalLease /\ h.status = s
        /\ h.consumed = local[r].consumed /\ h.sequence = local[r].sequence
    BY <1>1 DEF LocalLease
  <1>3. local' = [local EXCEPT ![r] = h]
    OBVIOUS
  <1>4. /\ LocalIndices' = LocalIndices
        /\ \A i: Held(i) = local[backends[i]] /\ Held(i)' = local'[backends[i]]
    BY DEF LocalIndices, Held
  <1>. HIDE DEF h, r
  <1>5. local' \in [Resources -> LocalLease] /\ local'[r] = h
    BY <1>1, <1>2, <1>3
  <1>6. \A i \in LocalIndices: i # k => local'[backends[i]] = local[backends[i]]
    BY <1>1, <1>3, LocalFacts
  <1>. QED
    BY <1>2, <1>4, <1>5, <1>6 DEF r

\* It lets go of the oldest live lease, or forgets one that was settled.
LEMMA LettingGoKeepsLocals ==
    ASSUME LeaseInv, NEW k \in LocalIndices, NEW s \in {"expired", "forgotten"},
           local' = [local EXCEPT ![backends[k]].status = s],
           s = "expired" => /\ Held(k).status = "live"
                            /\ \A j \in LocalIndices: j < k => Held(j).status # "live",
           s = "forgotten" => Held(k).status = "settled",
           UNCHANGED <<phase, backends, confirmed, sequence, finished, op>>
    PROVE  LocalsInv'
  <1>1. /\ LocalIndices' = LocalIndices
        /\ \A i \in LocalIndices: i # k => Held(i)' = Held(i)
        /\ Held(k)'.status = s /\ s # "live"
        /\ Held(k)'.consumed = Held(k).consumed /\ Held(k)'.sequence = Held(k).sequence
    BY StatusChanges
  <1>2. \A i \in LocalIndices: i \in Nat
    BY LocalFacts
  <1>3. \A i \in LocalIndices:
            Held(i)'.consumed = Held(i).consumed /\ Held(i)'.sequence = Held(i).sequence
    BY <1>1
  <1>4. \A i \in LocalIndices: Held(i)'.status = "live" => Held(i).status = "live"
    BY <1>1
  <1>5. LocalsCharged'
    BY <1>1, <1>3 DEF LeaseInv, LocalsInv, LocalsCharged
  <1>6. EndInOrder'
    BY <1>1, <1>2 DEF LeaseInv, LocalsInv, EndInOrder
  <1>7. LiveInStep'
    BY <1>1, <1>3, <1>4 DEF LeaseInv, LocalsInv, LiveInStep
  <1>8. \A i \in LocalIndices: Held(i).status \in {"settled", "forgotten"} =>
            Held(i)'.status \in {"settled", "forgotten"}
    BY <1>1
  <1>9. PassedInStep'
    BY <1>1, <1>3, <1>4, <1>8 DEF LeaseInv, LocalsInv, PassedInStep
  <1>10. LocalsFinished'
    BY <1>1, <1>3, <1>8 DEF LeaseInv, LocalsInv, LocalsFinished
  <1>. QED
    BY <1>5, <1>6, <1>7, <1>9, <1>10 DEF LocalsInv

LEMMA LocalExpiresKeeps == LeaseInv /\ LocalExpires => LeaseInv'
  <1>. SUFFICES ASSUME LeaseInv, LocalExpires
                PROVE  LeaseInv'
    OBVIOUS
  <1>. USE DEF LeaseInv, wire, leaseState, taken
  <1>1. PICK k \in LocalIndices:
            /\ Held(k).status = "live"
            /\ \A j \in LocalIndices: j < k => Held(j).status # "live"
            /\ local' = [local EXCEPT ![backends[k]].status = "expired"]
    <2>1. DOMAIN backends = 1..Len(backends)
      BY DEF TypeOK
    <2>2. PICK k \in DOMAIN backends:
            /\ backends[k] \in Resources /\ local[backends[k]].status = "live"
            /\ \A j \in 1..k - 1: backends[j] \in Resources => local[backends[j]].status # "live"
            /\ local' = [local EXCEPT ![backends[k]].status = "expired"]
      BY DEF LocalExpires
    <2>3. \A j \in LocalIndices: j < k => j \in 1..k - 1 /\ backends[j] \in Resources
      BY <2>1, <2>2 DEF LocalIndices
    <2>4. QED
      BY <2>2, <2>3 DEF LocalIndices, Held
  <1>2. UNCHANGED <<phase, todo, backends, leaseState, taken, op, server, healthy,
                    awaiting, settler, requests, responses>>
    BY DEF LocalExpires
  <1>3. TypeOK'
    BY <1>1, <1>2, StatusChanges DEF TypeOK
  <1>4. LocalsInv'
    BY <1>1, <1>2, LettingGoKeepsLocals
  <1>5. BackendsInv' /\ PhaseInv' /\ OpInv' /\ AwaitInv' /\ AloneInv' /\ ServerInv'
        /\ RequestsInv' /\ ResponsesInv'
    BY <1>2 DEF BackendsInv, PhaseInv, HasRemote, OpInv, AwaitInv, RemoteCmd, Msg,
        AloneInv, ServerInv, RequestsInv, ResponsesInv, SaysOfServer
  <1>. QED
    BY <1>3, <1>4, <1>5

LEMMA LocalForgetsKeeps == LeaseInv /\ LocalForgets => LeaseInv'
  <1>. SUFFICES ASSUME LeaseInv, LocalForgets
                PROVE  LeaseInv'
    OBVIOUS
  <1>. USE DEF LeaseInv, wire, leaseState, taken
  <1>1. PICK k \in LocalIndices:
            /\ Held(k).status = "settled"
            /\ local' = [local EXCEPT ![backends[k]].status = "forgotten"]
    <2>1. PICK r \in LocalBackends:
            /\ local[r].status = "settled"
            /\ local' = [local EXCEPT ![r].status = "forgotten"]
      BY DEF LocalForgets
    <2>2. PICK k \in LocalIndices: backends[k] = r
      BY <2>1, LocalFacts
    <2>3. QED
      BY <2>1, <2>2 DEF Held
  <1>2. UNCHANGED <<phase, todo, backends, leaseState, taken, op, server, healthy,
                    awaiting, settler, requests, responses>>
    BY DEF LocalForgets
  <1>3. TypeOK'
    BY <1>1, <1>2, StatusChanges DEF TypeOK
  <1>4. LocalsInv'
    BY <1>1, <1>2, LettingGoKeepsLocals
  <1>5. BackendsInv' /\ PhaseInv' /\ OpInv' /\ AwaitInv' /\ AloneInv' /\ ServerInv'
        /\ RequestsInv' /\ ResponsesInv'
    BY <1>2 DEF BackendsInv, PhaseInv, HasRemote, OpInv, AwaitInv, RemoteCmd, Msg,
        AloneInv, ServerInv, RequestsInv, ResponsesInv, SaysOfServer
  <1>. QED
    BY <1>3, <1>4, <1>5

\* The answer the waiting call takes, and what it does to it.
LEMMA AnsweredKeeps ==
    ASSUME LeaseInv, responses # <<>>, responses' = Tail(responses),
           awaiting \notin {NoCall, Others}, awaiting' = NoCall,
           NEW m \in Says(Head(responses)), Answered(m),
           UNCHANGED <<local, server, settler, requests>>
    PROVE  LeaseInv'
  <1>. USE DEF LeaseInv, wire, leaseState, taken
  <1>0. /\ m \in Response /\ 1 \in DOMAIN responses
        /\ Head(responses) # Foreign => m = responses[1]
        /\ responses' \in Seq(Response \cup {Foreign})
        /\ \A i \in DOMAIN responses': i + 1 \in DOMAIN responses /\ responses'[i] = responses[i + 1]
    <2>1. responses \in Seq(Response \cup {Foreign})
      BY DEF TypeOK
    <2>2. QED
      BY <2>1, TailFacts, OwnMessages DEF Says
  <1>1. awaiting \in Call /\ awaiting.by \in {"reserve", "lease", "settler"}
    BY DEF TypeOK, Call
  \* A response to another command fails the session.
  <1>2. CASE ~Accepts(m)
    <2>1. /\ healthy' = FALSE /\ CallFails(awaiting.by)
          /\ UNCHANGED <<backends, leaseState, taken>>
      BY <1>2 DEF Answered
    <2>2. phase' # "asking"
      BY <2>1 DEF CallFails, AwaitInv
    <2>3. BackendsInv' /\ PhaseInv' /\ OpInv' /\ AwaitInv' /\ LocalsInv'
      BY <2>1, <2>2, EndedCallKeeps DEF CallFails
    <2>4. TypeOK'
      BY <1>0, <2>1, LeaseAssumption DEF CallFails, Overflow, TypeOK
    <2>5. AloneInv' /\ ResponsesInv' /\ RequestsInv'
      BY <1>0, <2>1 DEF AloneInv, ResponsesInv, RequestsInv, SaysOfServer, HasRemote
    <2>6. ServerInv'
      BY <1>0, <2>1 DEF ServerInv, CallFails, HasRemote
    <2>7. QED
      BY <2>3, <2>4, <2>5, <2>6
  <1>3. CASE awaiting.by = "reserve" /\ Accepts(m)
    <2>1. /\ phase = "asking" /\ backends = <<>> /\ settler = NoSettlement
          /\ op = NoOp /\ sequence = 0 /\ ~finished /\ confirmed = InitialTotal /\ ~HasRemote
      BY <1>3 DEF AwaitInv, PhaseInv, HasRemote
    <2>2. /\ ServerDecides(m) /\ UNCHANGED healthy
          /\ crossed' = (crossed \/ Head(responses) = Foreign)
      BY <1>3 DEF Answered
    <2>3. ~crossed' => /\ ~crossed /\ responses[1] # Foreign
                       /\ NothingOwn(requests') /\ NothingOwn(responses')
      <3>1. responses \in Seq(Response \cup {Foreign}) /\ Head(responses) = responses[1]
        BY <1>0 DEF TypeOK
      <3>2. \E x: x \in Response \cup {Foreign}
        OBVIOUS
      <3>3. ASSUME ~crossed'
            PROVE  ~crossed /\ responses[1] # Foreign
        BY <2>2, <3>1, <3>3
      <3>4. ASSUME ~crossed'
            PROVE  NothingOwn(requests) /\ NothingOwn(Tail(responses))
        BY <1>0, <2>1, <3>1, <3>2, <3>3, <3>4, OwnFacts DEF AwaitInv
      <3>5. QED
        BY <3>3, <3>4
    <2>4. /\ backends' \in {<<>>, <<"remote">>} /\ LocalIndices' = {}
          /\ HasRemote' <=> backends' = <<"remote">>
      BY <2>1, <2>2, LeaseAssumption DEF ServerDecides, LocalIndices, HasRemote
    <2>5. /\ phase' \in {"granting", "refused"}
          /\ leaseId' \in {leaseId, "other"} /\ (leaseId' = "other" => leaseId = "other" \/ crossed')
          /\ UNCHANGED <<todo, leaseState, op, settler, server>>
      BY <2>2 DEF ServerDecides
    <2>6. TypeOK'
      <3>1. backends' \in Seq(Resources \cup {"remote"})
        <4>1. <<>> \in Seq(Resources \cup {"remote"})
          OBVIOUS
        <4>2. <<"remote">> \in Seq(Resources \cup {"remote"})
          OBVIOUS
        <4>3. QED
          BY <2>4, <4>1, <4>2
      <3>2. crossed' \in BOOLEAN /\ leaseId' \in {"own", "other"}
        BY <2>2, <2>5 DEF TypeOK
      <3>3. QED
        BY <1>0, <2>2, <2>5, <3>1, <3>2 DEF TypeOK
    <2>7. BackendsInv'
      BY <2>2, <2>4, <2>5, LeaseAssumption DEF BackendsInv, TypeOK
    <2>8. PhaseInv' /\ OpInv' /\ AwaitInv'
      BY <1>0, <2>1, <2>5 DEF PhaseInv, OpInv, AwaitInv, NoCall
    <2>9. LocalsInv'
      BY <2>1, <2>4, <2>5 DEF LocalsInv, LocalsCharged, EndInOrder, LiveInStep,
          PassedInStep, LocalsFinished
    <2>10. AloneInv' /\ ServerInv' /\ RequestsInv' /\ ResponsesInv'
      BY <2>1, <2>3, <2>5 DEF AloneInv, ServerInv, RequestsInv, ResponsesInv, NothingOwn
    <2>11. QED
      BY <2>6, <2>7, <2>8, <2>9, <2>10
  <1>4. CASE awaiting.by = "lease" /\ Accepts(m)
    <2>1. /\ op # NoOp /\ op \in Op /\ HasRemote /\ op.at = 1
          /\ awaiting.request = Msg(RemoteCmd, op.totals, op.sequence)
      BY <1>4 DEF AwaitInv, TypeOK
    <2>2. /\ UNCHANGED <<phase, todo, backends, leaseState, leaseId, healthy>>
          /\ crossed' = (crossed \/ Head(responses) = Foreign)
          /\ op' = IF Matches(m, awaiting.request) THEN [op EXCEPT !.at = @ + 1] ELSE NoOp
      BY <1>4 DEF Answered
    <2>a. ~crossed' => ~crossed /\ Head(responses) # Foreign
      BY <2>2
    <2>3. phase # "asking" /\ ~finished
      BY <2>1 DEF PhaseInv
    <2>4. AloneInv' /\ RequestsInv' /\ ResponsesInv' /\ BackendsInv'
      BY <1>0, <2>2, <2>a DEF AloneInv, RequestsInv, ResponsesInv, SaysOfServer, HasRemote, BackendsInv
    <2>b. crossed' \in BOOLEAN
      BY <2>2 DEF TypeOK
    <2>5. CASE Matches(m, awaiting.request)
      <3>1. /\ op' \in Op /\ op' # NoOp /\ op'.at = 2 /\ op'.kind = op.kind
            /\ op'.totals = op.totals /\ op'.sequence = op.sequence
        BY <2>1, <2>2, <2>5 DEF Op, NoOp
      <3>2. TypeOK'
        BY <1>0, <2>2, <2>b, <3>1 DEF TypeOK
      <3>3. PhaseInv' /\ OpInv' /\ AwaitInv'
        BY <1>0, <2>1, <2>2, <2>3, <3>1, LocalFacts DEF PhaseInv, OpInv, AwaitInv,
            HasRemote, NoCall
      <3>4. LocalsInv'
        <4>1. LocalIndices' = LocalIndices /\ \A i: Held(i)' = Held(i)
          BY <1>0, <2>2 DEF LocalIndices, Held
        <4>2. \A i \in LocalIndices: i > 1
          BY <2>1, LocalFacts
        <4>3. LocalsCharged' /\ EndInOrder' /\ LocalsFinished'
          BY <2>2, <4>1 DEF LocalsInv, LocalsCharged, EndInOrder, LocalsFinished
        <4>4. LiveInStep' /\ PassedInStep'
          BY <2>1, <2>2, <3>1, <4>1, <4>2, LocalFacts DEF LocalsInv, LiveInStep, PassedInStep
        <4>5. QED
          BY <4>3, <4>4 DEF LocalsInv
      <3>5. /\ m.ok /\ m.totals = op.totals
            /\ op.kind = "update" => m.cmd = "Update" /\ m.sequence = op.sequence
            /\ op.kind = "finish" => m.cmd = "Settle"
        BY <1>0, <1>4, <2>1, <2>5 DEF Accepts, Matches, Msg, RemoteCmd, Op
      \* Its own answer says what the server did.
      <3>6. ASSUME ~crossed'
            PROVE  /\ server.sequence = op.sequence /\ server.consumed = op.totals
                   /\ server.status = "settled" <=> op.kind = "finish"
        <4>1. /\ op.sequence = sequence + 1 /\ sequence \in Nat
              /\ server.sequence \in {sequence, sequence + 1}
          BY <2>1, <2>a, <3>6, LeaseAssumption DEF OpInv, ServerInv, TypeOK
        <4>2. SaysOfServer(m)
          <5>1. responses[1] # Foreign /\ m = responses[1]
            BY <1>0, <2>a, <3>6, TailFacts DEF TypeOK
          <5>2. QED
            BY <1>0, <2>1, <2>a, <3>6, <5>1 DEF ResponsesInv
        <4>3. CASE op.kind = "update"
          BY <3>5, <4>1, <4>2, <4>3 DEF SaysOfServer
        <4>4. CASE op.kind = "finish"
          BY <2>1, <2>3, <2>a, <3>5, <3>6, <4>1, <4>2, <4>4 DEF SaysOfServer, ServerInv
        <4>5. QED
          BY <2>1, <4>3, <4>4 DEF Op
      <3>7. ServerInv'
        BY <1>0, <2>1, <2>2, <2>a, <3>1, <3>6 DEF ServerInv, HasRemote
      <3>8. QED
        BY <2>4, <3>2, <3>3, <3>4, <3>7
    <2>6. CASE ~Matches(m, awaiting.request)
      <3>1. op' = NoOp
        BY <2>2, <2>6
      <3>2. PhaseInv' /\ OpInv' /\ AwaitInv' /\ LocalsInv'
        BY <1>0, <1>4, <2>1, <2>2, <2>3, <3>1, EndedCallKeeps
      <3>3. TypeOK'
        BY <1>0, <2>2, <2>b, <3>1 DEF TypeOK
      <3>4. ServerInv'
        BY <1>0, <2>2, <2>a, <3>1 DEF ServerInv, HasRemote
      <3>5. QED
        BY <2>4, <3>2, <3>3, <3>4
    <2>7. QED
      BY <2>5, <2>6
  <1>5. CASE awaiting.by = "settler" /\ Accepts(m)
    <2>1. /\ UNCHANGED <<phase, todo, backends, leaseState, leaseId, op, healthy>>
          /\ crossed' = (crossed \/ Head(responses) = Foreign)
      BY <1>5 DEF Answered
    <2>2. BackendsInv' /\ PhaseInv' /\ OpInv' /\ AwaitInv' /\ LocalsInv'
      BY <1>0, <1>5, <2>1, EndedCallKeeps DEF AwaitInv
    <2>3. TypeOK' /\ (crossed => crossed')
      BY <1>0, <2>1 DEF TypeOK
    <2>4. AloneInv' /\ ResponsesInv' /\ RequestsInv' /\ ServerInv'
      BY <1>0, <2>1, <2>3 DEF AloneInv, ResponsesInv, RequestsInv, ServerInv, SaysOfServer, HasRemote
    <2>5. QED
      BY <2>2, <2>3, <2>4
  <1>6. QED
    BY <1>1, <1>2, <1>3, <1>4, <1>5

\* A response that no call of the lease waits for changes nothing of it.
LEMMA DeliverKeeps == LeaseInv /\ Deliver => LeaseInv'
  <1>. SUFFICES ASSUME LeaseInv, Deliver
                PROVE  LeaseInv'
    OBVIOUS
  <1>. USE DEF LeaseInv, wire, leaseState, taken
  <1>0. /\ responses # <<>> /\ responses' = Tail(responses) /\ awaiting' = NoCall
        /\ UNCHANGED <<local, server, settler, requests>>
    BY DEF Deliver
  <1>1. CASE awaiting \notin {NoCall, Others}
    <2>1. PICK m \in Says(Head(responses)): Answered(m)
      BY <1>1 DEF Deliver
    <2>2. QED
      BY <1>0, <1>1, <2>1, AnsweredKeeps
  <1>2. CASE awaiting \in {NoCall, Others}
    <2>1. /\ UNCHANGED <<phase, todo, backends, leaseState, taken, op>> /\ healthy' \in BOOLEAN
      BY <1>2 DEF Deliver, TypeOK
    <2>2. /\ responses' \in Seq(Response \cup {Foreign})
          /\ \A i \in DOMAIN responses': i + 1 \in DOMAIN responses /\ responses'[i] = responses[i + 1]
      BY <1>0, TailFacts DEF TypeOK
    <2>3. BackendsInv' /\ PhaseInv' /\ OpInv' /\ AwaitInv' /\ LocalsInv'
      <3>1. /\ NothingOwn(requests) => OneOwn(requests)
            /\ NothingOwn(responses') => OneOwn(responses')
            /\ NothingOwn(responses) => NothingOwn(responses')
        BY <2>2 DEF NothingOwn, OneOwn
      <3>2. QED
        BY <1>0, <1>2, <2>1, <3>1, OthersCallKeeps
    <2>4. TypeOK'
      BY <1>0, <2>1, <2>2 DEF TypeOK
    <2>5. AloneInv' /\ ResponsesInv'
      BY <1>0, <2>1, <2>2 DEF AloneInv, ResponsesInv, SaysOfServer, HasRemote
    <2>6. ServerInv' /\ RequestsInv'
      BY <1>0, <2>1 DEF ServerInv, RequestsInv, HasRemote
    <2>7. QED
      BY <2>3, <2>4, <2>5, <2>6
  <1>3. QED
    BY <1>1, <1>2

\* The server takes one request; it moves only by the operation after its own.
LEMMA HandleKeeps ==
    ASSUME LeaseInv, Serve, Head(requests) # Foreign
    PROVE  LeaseInv'
  <1>. USE DEF LeaseInv, wire, leaseState, taken
  <1>0. PICK m \in Request:
        /\ m = Head(requests) /\ m = requests[1] /\ 1 \in DOMAIN requests
        /\ requests' \in Seq(Request \cup {Foreign}) /\ Len(requests') = Len(requests) - 1
        /\ \A i \in DOMAIN requests': i + 1 \in DOMAIN requests /\ requests'[i] = requests[i + 1]
        /\ UNCHANGED <<phase, todo, backends, leaseState, taken, op, local, healthy,
                       awaiting, settler>>
    BY TailFacts DEF Serve, TypeOK
  <1>1. /\ m.cmd \in Cmd /\ m.totals \in Totals /\ m.sequence \in 0..MaxSequence + 1
        /\ server.consumed \in Totals /\ server.sequence \in 0..MaxSequence + 1
        /\ sequence \in Nat /\ server.sequence \in Nat /\ m.sequence \in Nat
    BY <1>0, LeaseAssumption DEF Request, TypeOK, BackendLease
  \* What the server becomes and answers, by request.
  <1>3. PICK ok \in BOOLEAN, t \in Totals:
          /\ responses' = Append(responses, Reply(m, ok, t))
          /\ \/ /\ m.cmd = "Reserve"
                /\ \/ server' = server
                   \/ server' = [server EXCEPT !.status = "live"]
             \/ /\ m.cmd # "Reserve" /\ ServerAccepts(m) /\ ok /\ t = m.totals
                /\ server' = [status |-> IF m.cmd = "Settle" THEN "settled" ELSE "live",
                              consumed |-> m.totals, sequence |-> m.sequence]
             \/ /\ m.cmd = "Settle" /\ server.status = "settled" /\ ok /\ t = server.consumed
                /\ server' = server
             \/ m.cmd # "Reserve" /\ ~ok /\ server' = server
    <2>1. CASE /\ m.cmd = "Reserve"
               /\ \E ok \in BOOLEAN:
                     /\ server' = IF ok THEN [server EXCEPT !.status = "live"] ELSE server
                     /\ responses' = Append(responses, Reply(m, ok, m.totals))
      BY <1>1, <2>1
    <2>2. CASE /\ m.cmd # "Reserve" /\ ServerAccepts(m)
               /\ server' = [status |-> IF m.cmd = "Settle" THEN "settled" ELSE "live",
                             consumed |-> m.totals, sequence |-> m.sequence]
               /\ responses' = Append(responses, Reply(m, TRUE, m.totals))
      BY <1>1, <2>2
    <2>3. CASE /\ m.cmd = "Settle" /\ server.status = "settled" /\ server' = server
               /\ responses' = Append(responses, Reply(m, TRUE, server.consumed))
      BY <1>1, <2>3
    <2>4. CASE /\ m.cmd # "Reserve" /\ server' = server
               /\ responses' = Append(responses, Reply(m, FALSE, m.totals))
      BY <1>1, <2>4
    <2>5. Handle(m)
      BY <1>0 DEF Serve
    <2>6. QED
      BY <2>1, <2>2, <2>3, <2>4, <2>5, Zenon DEF Handle
  <1>4. /\ Reply(m, ok, t) \in Response /\ Reply(m, ok, t).cmd = m.cmd
        /\ Reply(m, ok, t).ok = ok /\ Reply(m, ok, t).totals = t
        /\ Reply(m, ok, t).sequence = m.sequence
    BY <1>1 DEF Reply, Response
  <1>5. /\ responses' \in Seq(Response \cup {Foreign}) /\ Len(responses') = Len(responses) + 1
        /\ \A i \in DOMAIN responses': \/ i \in DOMAIN responses /\ responses'[i] = responses[i]
                                       \/ responses'[i] = Reply(m, ok, t)
    BY <1>3, <1>4, AppendFacts DEF TypeOK
  <1>6. server' \in BackendLease
    <2>1. server \in BackendLease
      BY DEF TypeOK
    <2>2. QED
      BY <1>1, <1>3, <2>1 DEF BackendLease
  <1>7. TypeOK'
    BY <1>0, <1>5, <1>6 DEF TypeOK
  <1>8. BackendsInv' /\ PhaseInv' /\ OpInv' /\ LocalsInv'
    BY <1>0 DEF BackendsInv, PhaseInv, OpInv, HasRemote, LocalsInv, LocalsCharged,
        EndInOrder, LiveInStep, PassedInStep, LocalsFinished, LocalIndices, Held
  <1>9. AwaitInv'
    <2>1. requests \in Seq(Request \cup {Foreign}) /\ responses \in Seq(Response \cup {Foreign})
      BY DEF TypeOK
    <2>2. requests # <<>> /\ requests' = Tail(requests) /\ Head(requests) # Foreign
      BY DEF Serve
    <2>3. Reply(m, ok, t) \in Response \cup {Foreign} /\ m \in Request \cup {Foreign}
      BY <1>4
    <2>4. ASSUME ~crossed, phase = "asking"
          PROVE  /\ awaiting.by = "reserve" /\ NothingOwn(responses)
                 /\ NothingOwn(requests') /\ OneOwn(requests') /\ OneOwn(responses')
      <3>1. awaiting.by = "reserve"  /\ OneOwn(requests) /\ NothingOwn(responses)
        BY <2>1, <2>2, <2>3, <2>4, OwnFacts DEF AwaitInv
      <3>2. NothingOwn(requests')
        BY <2>1, <2>2, <2>3, <3>1, OwnFacts
      <3>3. OneOwn(requests')
        BY <3>2 DEF NothingOwn, OneOwn
      <3>4. OneOwn(responses')
        BY <1>3, <2>1, <2>3, <3>1, OwnFacts
      <3>5. QED
        BY <3>1, <3>2, <3>3, <3>4
    <2>5. QED
      BY <1>0, <2>4 DEF AwaitInv, HasRemote, RemoteCmd
  <1>10. RequestsInv'
    BY <1>0 DEF RequestsInv, HasRemote
  <1>a. CASE crossed
    <2>1. AloneInv' /\ ServerInv' /\ ResponsesInv'
      BY <1>0, <1>a DEF AloneInv, ServerInv, ResponsesInv
    <2>2. QED
      BY <1>7, <1>8, <1>9, <1>10, <2>1
  <1>11. CASE ~crossed /\ ~HasRemote
    <2>1. m.cmd = "Reserve"
      BY <1>0, <1>11 DEF AloneInv
    <2>2. server'.sequence = 0 /\ server'.status # "settled"
      BY <1>3, <1>11, <2>1 DEF AloneInv, TypeOK, BackendLease
    <2>3. AloneInv'
      BY <1>0, <1>4, <1>5, <1>11, <2>1, <2>2 DEF AloneInv, HasRemote
    <2>4. ServerInv' /\ ResponsesInv'
      BY <1>0, <1>11 DEF ServerInv, ResponsesInv, HasRemote
    <2>5. QED
      BY <1>7, <1>8, <1>9, <1>10, <2>3, <2>4
  <1>12. CASE ~crossed /\ HasRemote
    <2>1. m.cmd # "Reserve" /\ m.sequence <= sequence + 1
      BY <1>0, <1>12 DEF RequestsInv
    <2>2. AloneInv'
      BY <1>0, <1>12 DEF AloneInv, HasRemote
    <2>3. CASE server' = server
      <3>1. ServerInv'
        BY <1>0, <2>3 DEF ServerInv, HasRemote
      <3>2. SaysOfServer(Reply(m, ok, t))'
        BY <1>3, <1>4, <2>1, <2>3 DEF SaysOfServer, ServerAccepts
      <3>3. ASSUME NEW n \in Response, SaysOfServer(n)
            PROVE  SaysOfServer(n)'
        BY <2>3, <3>3 DEF SaysOfServer
      <3>4. ResponsesInv'
        BY <1>0, <1>5, <1>12, <3>2, <3>3 DEF ResponsesInv, HasRemote, TypeOK
      <3>5. QED
        BY <1>7, <1>8, <1>9, <1>10, <2>2, <3>1, <3>4
    <2>4. CASE /\ ServerAccepts(m) /\ ok /\ t = m.totals
               /\ server' = [status |-> IF m.cmd = "Settle" THEN "settled" ELSE "live",
                             consumed |-> m.totals, sequence |-> m.sequence]
      <3>1. /\ server'.status = IF m.cmd = "Settle" THEN "settled" ELSE "live"
            /\ server'.consumed = m.totals /\ server'.sequence = m.sequence
            /\ server.status = "live" /\ m.sequence = server.sequence + 1
            /\ server.sequence = sequence /\ m.sequence = sequence + 1
            /\ \A r \in Distributed: server.consumed[r] <= m.totals[r]
        BY <1>1, <1>12, <2>1, <2>4 DEF ServerAccepts, ServerInv
      <3>2. ServerInv'
        <4>1. ~(op # NoOp /\ op.at > 1) /\ ~finished
          BY <1>1, <1>12, <3>1 DEF ServerInv, OpInv
        <4>2. sequence > 0 => \A r \in Distributed: server.consumed[r] = confirmed[r]
          BY <1>12, <3>1 DEF ServerInv
        <4>3. QED
          BY <1>0, <1>1, <3>1, <4>1, <4>2 DEF ServerInv, HasRemote
      <3>3. SaysOfServer(Reply(m, ok, t))'
        BY <1>1, <1>4, <2>1, <2>4, <3>1 DEF SaysOfServer
      <3>4. ASSUME NEW n \in Response, SaysOfServer(n)
            PROVE  SaysOfServer(n)'
        <4>1. n.sequence \in Nat
          BY LeaseAssumption DEF Response
        <4>2. QED
          BY <1>1, <3>1, <3>4, <4>1 DEF SaysOfServer
      <3>5. ResponsesInv'
        BY <1>0, <1>5, <1>12, <3>3, <3>4 DEF ResponsesInv, HasRemote, TypeOK
      <3>6. QED
        BY <1>7, <1>8, <1>9, <1>10, <2>2, <3>2, <3>5
    <2>5. QED
      BY <1>3, <2>1, <2>3, <2>4
  <1>13. QED
    BY <1>a, <1>11, <1>12

\* It answers another's as it likes.
LEMMA ServeKeeps == LeaseInv /\ Serve => LeaseInv'
  <1>. SUFFICES ASSUME LeaseInv, Serve, Head(requests) = Foreign
                PROVE  LeaseInv'
    BY HandleKeeps
  <1>. USE DEF LeaseInv, wire, leaseState, taken
  <1>0. /\ requests # <<>> /\ requests' = Tail(requests) /\ responses' = Append(responses, Foreign)
        /\ UNCHANGED <<phase, todo, backends, leaseState, taken, op, local, server, healthy,
                       awaiting, settler>>
    BY DEF Serve
  <1>1. /\ requests \in Seq(Request \cup {Foreign}) /\ responses \in Seq(Response \cup {Foreign})
        /\ Foreign \in Request \cup {Foreign} /\ Foreign \in Response \cup {Foreign}
    BY DEF TypeOK
  <1>2. /\ requests' \in Seq(Request \cup {Foreign})
        /\ \A i \in DOMAIN requests': i + 1 \in DOMAIN requests /\ requests'[i] = requests[i + 1]
    BY <1>0, <1>1, TailFacts
  <1>3. /\ responses' \in Seq(Response \cup {Foreign})
        /\ \A i \in DOMAIN responses': \/ i \in DOMAIN responses /\ responses'[i] = responses[i]
                                       \/ responses'[i] = Foreign
    BY <1>0, <1>1, AppendFacts
  <1>4. TypeOK'
    BY <1>0, <1>2, <1>3 DEF TypeOK
  <1>5. AwaitInv'
    <2>1. /\ NothingOwn(requests) => NothingOwn(requests')
          /\ NothingOwn(responses) => NothingOwn(responses')
      BY <1>2, <1>3 DEF NothingOwn
    <2>2. /\ OneOwn(requests) => OneOwn(requests')
          /\ OneOwn(responses) => OneOwn(responses')
      BY <1>0, <1>1, OwnFacts
    <2>3. QED
      BY <1>0, <2>1, <2>2 DEF AwaitInv, HasRemote, RemoteCmd
  <1>6. AloneInv' /\ RequestsInv' /\ ResponsesInv'
    BY <1>0, <1>2, <1>3 DEF AloneInv, RequestsInv, ResponsesInv, SaysOfServer, HasRemote
  <1>7. BackendsInv' /\ PhaseInv' /\ OpInv' /\ LocalsInv' /\ ServerInv'
    BY <1>0 DEF BackendsInv, PhaseInv, OpInv, HasRemote, LocalsInv, LocalsCharged,
        EndInOrder, LiveInStep, PassedInStep, LocalsFinished, LocalIndices, Held, ServerInv
  <1>. QED
    BY <1>4, <1>5, <1>6, <1>7

-----------------------------------------------------------------------------
(* The theorems                                                            *)

LEMMA InitialFacts == InitialTotal \in Totals /\ InitialTotal = [r \in Resources |-> InitialTotal[r]]
  <1>1. ASSUME NEW r \in Resources
        PROVE  InitialTotal[r] \in Nat /\ InitialTotal[r] <= Amount[r]
    <2>1. InitialTotal[r] = 0 \/ InitialTotal[r] = 1
      BY LeaseAssumption
    <2>2. Amount[r] \in Nat /\ Amount[r] # 0
      BY LeaseAssumption
    <2>3. QED
      BY <2>1, <2>2
  <1>2. InitialTotal \in [Resources -> Nat]
    BY <1>1, LeaseAssumption
  <1>3. QED
    BY <1>1, <1>2, TotalsFacts

LEMMA InitKeeps == Init => LeaseInv
  <1>. SUFFICES ASSUME Init
                PROVE  LeaseInv
    OBVIOUS
  <1>. USE DEF Init
  <1>1. confirmed = InitialTotal /\ confirmed \in Totals
    BY InitialFacts
  <1>2. server \in BackendLease
    <2>1. [r \in Resources |-> 0] \in Totals
      BY TotalsFacts, LeaseAssumption
    <2>2. QED
      BY <2>1, LeaseAssumption DEF BackendLease
  <1>3. local \in [Resources -> LocalLease]
    BY LeaseAssumption DEF LocalLease
  <1>4. TypeOK
    <2>1. LocalQuotas \subseteq Resources
      BY LeaseAssumption DEF LocalQuotas, Requested
    <2>2. /\ <<>> \in Seq(Resources \cup {"remote"}) /\ <<>> \in Seq(Request \cup {Foreign})
          /\ <<>> \in Seq(Response \cup {Foreign}) /\ 0 \in 0..MaxSequence
      BY LeaseAssumption
    <2>3. QED
      BY <1>1, <1>2, <1>3, <2>1, <2>2 DEF TypeOK
  <1>5. LocalIndices = {} /\ ~HasRemote
    BY DEF LocalIndices, HasRemote
  <1>6. BackendsInv /\ PhaseInv /\ OpInv /\ AwaitInv
    BY <1>1 DEF BackendsInv, PhaseInv, OpInv, AwaitInv, NoCall, NothingOwn, OneOwn
  <1>7. LocalsInv
    BY <1>5 DEF LocalsInv, LocalsCharged, EndInOrder, LiveInStep, PassedInStep, LocalsFinished
  <1>8. AloneInv /\ ServerInv /\ RequestsInv /\ ResponsesInv
    BY <1>5 DEF AloneInv, ServerInv, RequestsInv, ResponsesInv
  <1>9. QED
    BY <1>4, <1>6, <1>7, <1>8 DEF LeaseInv

LEMMA LeaseStep == LeaseInv /\ [Next]_vars => LeaseInv'
  <1>1. LeaseInv /\ Reserving => LeaseInv'
    BY AskServerKeeps, AskFailsKeeps, ReserveLocalKeeps, RollBackKeeps, OpenKeeps DEF Reserving
  <1>2. LeaseInv /\ Operating => LeaseInv'
    BY BeginUpdateKeeps, BeginFinishKeeps, LocalUpdateKeeps, LocalFinishKeeps, LocalRefusesKeeps,
       RemoteCallKeeps, RemoteUnavailableKeeps, ConfirmKeeps, CancelKeeps,
       CancelUnsentKeeps DEF Operating
  <1>3. LeaseInv /\ Ending => LeaseInv'
    BY DropLeaseKeeps, SettlerCallKeeps, SettlerUnavailableKeeps DEF Ending
  <1>4. LeaseInv /\ Streaming => LeaseInv'
    BY OtherCallKeeps, DeliverKeeps, TimeoutKeeps, StreamBreaksKeeps DEF Streaming
  <1>5. LeaseInv /\ Elsewhere => LeaseInv'
    BY ServeKeeps, ServerExpiresKeeps, LocalExpiresKeeps, LocalForgetsKeeps DEF Elsewhere
  <1>6. LeaseInv /\ UNCHANGED vars => LeaseInv'
    BY DEF LeaseInv, vars, leaseState, wire, taken, TypeOK, BackendsInv, PhaseInv, OpInv, AwaitInv, LocalsInv,
       LocalsCharged, EndInOrder, LiveInStep, PassedInStep, LocalsFinished, LocalIndices, Held, AloneInv,
       ServerInv, RequestsInv, ResponsesInv, SaysOfServer, HasRemote, RemoteCmd, Msg
  <1>7. QED
    BY <1>1, <1>2, <1>3, <1>4, <1>5, <1>6 DEF Next

LEMMA LeaseAlways == Spec => []LeaseInv
  BY InitKeeps, LeaseStep, PTL DEF Spec

\* Every step of a lease, its backends, the stream and the server keeps the
\* types: messages are requests and responses, an operation is one of the
\* sequence, totals stay within the amounts reserved.
THEOREM TypeCorrect == Spec => []TypeOK
  <1>1. LeaseInv => TypeOK
    BY DEF LeaseInv
  <1>2. QED
    BY <1>1, LeaseAlways, PTL

\* Giving up a reservation and dropping a lease settle every live local lease,
\* at the sequence its counter expects, whatever had failed before.
THEOREM GivenBack == Spec => []NothingLeftLive
  <1>1. LeaseInv => NothingLeftLive
    BY LocalFacts DEF LeaseInv, LocalsInv, LiveInStep, NothingLeftLive
  <1>2. QED
    BY <1>1, LeaseAlways, PTL

\* Between operations the live local leases are at the confirmed sequence and
\* totals, and after a finish every backend has settled with the same totals,
\* however often operations failed, were dropped or met leases that had ended;
\* the local ones also where an answer to another lease's call was taken for
\* this one's, the server where none was.
THEOREM BackendsInAgreement == Spec => []BackendsAgree
  <1>1. LeaseInv => LocalsInStep
    BY LocalFacts DEF LeaseInv, LocalsInv, LiveInStep, LocalsInStep
  <1>2. LeaseInv => FinishAgrees
    BY LocalFacts DEF LeaseInv, LocalsInv, LocalsFinished, ServerInv, FinishAgrees
  <1>3. QED
    BY <1>1, <1>2, LeaseAlways, PTL DEF BackendsAgree

\* No local backend charges less than was confirmed to the caller, whatever was
\* answered on the shared stream; nor does the server, which is at most the one
\* operation ahead whose answer was lost, as long as the calls of the lease
\* have taken their own answers only.
THEOREM ServerInAgreement == Spec => []ServerAgrees
  <1>1. LeaseInv => LocalsCharge
    BY LocalFacts DEF LeaseInv, LocalsInv, LocalsCharged, LocalsCharge
  <1>2. LeaseInv /\ ~crossed => ServerCharges
    BY DEF LeaseInv, ServerInv, ServerCharges
  <1>3. LeaseInv /\ ~crossed => ServerOneAhead
    BY DEF LeaseInv, ServerInv, ServerOneAhead
  <1>4. QED
    BY <1>1, <1>2, <1>3, LeaseAlways, PTL DEF ServerAgrees

=============================================================================
