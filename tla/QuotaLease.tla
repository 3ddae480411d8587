----------------------------- MODULE QuotaLease -----------------------------
(***************************************************************************)
(* The life of one QuotaLease (traffic/ratelimit/api.rs) over the          *)
(* CompositeLeaseBackend that DefaultRateLimitAPI::reserve assembles: at   *)
(* most one distributed backend, first, then one local backend for each    *)
(* resource counted in process.  Operations walk the backends in order and *)
(* may fail, time out, be dropped by the caller or meet an expired lease   *)
(* half way; the lease then promises that it kept its last confirmed state *)
(* and that a retry or the drop of the lease settles it.                   *)
(*                                                                         *)
(* The stream to the rate limit server is QuotaSession's: responses arrive *)
(* in the order of the requests and are handed to whoever awaits one.  The *)
(* leases of a server share it.  What the others send and are answered is  *)
(* Foreign, and can say anything: an answer carries no lease that the code *)
(* would look at, so that one to a dropped call of another lease can be    *)
(* taken for this one's.  The server is external: it accepts an operation  *)
(* with the next sequence, answers a repeated settlement with the first    *)
(* one, and lets a lease expire.  Counters are LocalQuotaCounter seen from *)
(* one lease: whether it grants is left open.                              *)
(***************************************************************************)
EXTENDS Naturals, Sequences

CONSTANTS Resources,    \* QuotaResource
          Quotas,       \* the resources of the request, in its order
          Amount,       \* the amount asked for of each resource
          InitialTotal, \* initial_consumptions: 1 for Qps, else 0
          Distributed,  \* the resources with a distributed trigger
          FailoverLocal,\* those of them whose trigger fails over to local
          MaxSequence,  \* bound: operations confirmed on the lease
          MaxInFlight   \* bound: messages of other and of abandoned calls under way

ASSUME LeaseAssumption ==
    /\ Quotas \in Seq(Resources)
    /\ \A i, j \in DOMAIN Quotas: Quotas[i] = Quotas[j] => i = j  \* check_valid
    /\ Amount \in [Resources -> Nat \ {0}]
    /\ InitialTotal \in [Resources -> {0, 1}]
    /\ FailoverLocal \subseteq Distributed
    /\ Distributed \subseteq Resources
    /\ "remote" \notin Resources
    /\ MaxSequence \in Nat /\ MaxInFlight \in Nat

VARIABLES
    phase,      \* reserving (asking the server, granting locally) and after
    todo,       \* the resources still to be reserved locally
    backends,   \* CompositeLeaseBackend.backends: "remote" or a resource
    confirmed,  \* QuotaLeaseState.consumptions
    sequence,   \* QuotaLeaseState.sequence
    finished,   \* QuotaLeaseState.finished
    op,         \* the update or finish that holds the lease's mutex
    local,      \* the lease each local backend names in LocalQuotaCounter
    leaseId,    \* DistributedLeaseBackend.lease_id: the lease granted, or another's
    server,     \* the lease on the rate limit server
    healthy,    \* QuotaSession.healthy
    awaiting,   \* the call that waits for a response, and for whom
    settler,    \* the settlement abandon() spawned and that has not been sent
    requests,   \* requests the server has not handled
    responses,  \* responses the client has not received
    crossed     \* history: a call of this lease accepted an answer to another's

vars == <<phase, todo, backends, confirmed, sequence, finished, op, local,
          leaseId, server, healthy, awaiting, settler, requests, responses, crossed>>

\* What the lease object keeps, what the stream keeps, and whose answers it
\* has taken.
leaseState == <<confirmed, sequence, finished>>
wire == <<requests, responses>>
taken == <<leaseId, crossed>>

-----------------------------------------------------------------------------
Totals == {t \in [Resources -> UNION {0..Amount[r]: r \in Resources}]:
              \A r \in Resources: t[r] <= Amount[r]}

Cmd == {"Reserve", "Update", "Settle"}
Request == [cmd: Cmd, totals: Totals, sequence: 0..MaxSequence + 1]
Response == [cmd: Cmd, ok: BOOLEAN, totals: Totals, sequence: 0..MaxSequence + 1]

\* A request of another lease, or to it, and the response, which can be any.
Foreign == [cmd |-> "Foreign"]
Says(m) == IF m = Foreign THEN Response ELSE {m}

NoOp == [kind |-> "none"]
Op == [kind: {"update", "finish"}, totals: Totals, sequence: 1..MaxSequence,
       at: Nat]

NoCall == [by |-> "none"]
Others == [by |-> "other"]
Call == [by: {"reserve", "lease", "settler"}, request: Request] \cup {Others}

NoSettlement == [cmd |-> "none"]

BackendLease == [status: {"none", "live", "settled", "forgotten", "expired"},
                 consumed: Totals, sequence: 0..MaxSequence + 1]
LocalLease == [status: {"none", "live", "settled", "forgotten", "expired"},
               consumed: Nat, sequence: 0..MaxSequence + 1]

Msg(c, t, s) == [cmd |-> c, totals |-> t, sequence |-> s]
Reply(m, ok, t) == [cmd |-> m.cmd, ok |-> ok, totals |-> t, sequence |-> m.sequence]

\* What local counters are asked for, and what more when the server cannot be.
Requested == {Quotas[i]: i \in DOMAIN Quotas}
LocalQuotas == Requested \ Distributed
Overflow == Requested \cap FailoverLocal

\* The order of the two loops: failovers first, each in the order of Quotas.
Precedes(r, s) ==
    \/ r \in Distributed /\ s \notin Distributed
    \/ /\ r \in Distributed <=> s \in Distributed
       /\ \E i, j \in DOMAIN Quotas: i < j /\ Quotas[i] = r /\ Quotas[j] = s

HasDistributed == Requested \cap Distributed # {}

LocalBackends == {backends[i]: i \in DOMAIN backends} \ {"remote"}
HasRemote == \E i \in DOMAIN backends: backends[i] = "remote"

Init ==
    /\ phase = IF HasDistributed THEN "asking" ELSE "granting"
    /\ todo = LocalQuotas
    /\ backends = <<>>
    /\ confirmed = [r \in Resources |-> InitialTotal[r]]
    /\ sequence = 0
    /\ finished = FALSE
    /\ op = NoOp
    /\ local = [r \in Resources |-> [status |-> "none", consumed |-> 0, sequence |-> 0]]
    /\ leaseId = "own" /\ crossed = FALSE
    /\ server = [status |-> "none", consumed |-> [r \in Resources |-> 0], sequence |-> 0]
    /\ healthy = TRUE
    /\ awaiting = NoCall
    /\ settler = NoSettlement
    /\ requests = <<>>
    /\ responses = <<>>

-----------------------------------------------------------------------------
(* LocalQuotaCounter, as one lease sees it.                                *)

Within(r, l, total) == l.consumed <= total /\ total <= Amount[r]

\* validate_local_operation on a live lease.
Valid(r, total, seq) ==
    /\ local[r].status = "live"
    /\ seq = local[r].sequence + 1
    /\ Within(r, local[r], total)

Same(r, total, seq) == local[r].sequence = seq /\ local[r].consumed = total

\* update_lease: a repetition is accepted and changes nothing.
UpdateAccepted(r, total, seq) ==
    Valid(r, total, seq) \/ (local[r].status = "live" /\ Same(r, total, seq))

\* finish_lease: so is the repetition of a settlement still remembered.
FinishAccepted(r, total, seq) ==
    Valid(r, total, seq) \/ (local[r].status = "settled" /\ Same(r, total, seq))

Settled(r, total, seq) ==
    IF Valid(r, total, seq) THEN [status |-> "settled", consumed |-> total, sequence |-> seq]
    ELSE local[r]

\* Leases are granted in order with one TTL, so they expire in that order.
LocalExpires == \E i \in DOMAIN backends:
    /\ backends[i] \in Resources
    /\ local[backends[i]].status = "live"
    /\ \A j \in 1..i - 1: backends[j] \in Resources => local[backends[j]].status # "live"
    /\ local' = [local EXCEPT ![backends[i]].status = "expired"]
    /\ UNCHANGED <<phase, todo, backends, leaseState, taken, op, server, healthy, awaiting, settler, wire>>

\* A settlement is remembered for a minute.
LocalForgets == \E r \in LocalBackends:
    /\ local[r].status = "settled"
    /\ local' = [local EXCEPT ![r].status = "forgotten"]
    /\ UNCHANGED <<phase, todo, backends, leaseState, taken, op, server, healthy, awaiting, settler, wire>>

-----------------------------------------------------------------------------
(* round_trip                                                              *)

\* The call takes the stream and puts a request on it.
Send(call, m) ==
    /\ awaiting = NoCall
    /\ healthy
    /\ awaiting' = call
    /\ requests' = Append(requests, m)
    /\ UNCHANGED responses

\* A request is about the lease whose id the backend has.
SendFor(by, m) == Send([by |-> by, request |-> m], IF leaseId = "own" THEN m ELSE Foreign)

\* A call of another lease.
OtherCall ==
    /\ Len(requests) + Len(responses) < MaxInFlight
    /\ Send(Others, Foreign)
    /\ UNCHANGED <<phase, todo, backends, leaseState, taken, op, local, server, healthy, settler>>

\* The call of `by` fails: reserve goes on with the failover of each trigger,
\* an operation of the lease returns the error, a settler only logs it.
CallFails(by) ==
    /\ phase' = IF by = "reserve" THEN "granting" ELSE phase
    /\ todo' = IF by = "reserve" THEN Overflow \cup todo ELSE todo
    /\ op' = IF by = "lease" THEN NoOp ELSE op

-----------------------------------------------------------------------------
(* DefaultRateLimitAPI::reserve                                            *)

\* reserve_many sends the one Reserve request of the distributed quotas.
AskServer ==
    /\ phase = "asking"
    /\ SendFor("reserve", Msg("Reserve", confirmed, 0))
    /\ UNCHANGED <<phase, todo, backends, leaseState, taken, op, local, server, healthy, settler>>

\* No instance, no connection, or an Init that fails.
AskFails ==
    /\ phase = "asking"
    /\ awaiting = NoCall
    /\ CallFails("reserve")
    /\ UNCHANGED <<backends, leaseState, taken, local, server, healthy, awaiting, settler, wire>>

\* Reserved: the distributed backend comes first, and has the id of the lease
\* that was granted.  Rejected: reserve returns.
ServerDecides(m) ==
    /\ phase' = IF m.ok THEN "granting" ELSE "refused"
    /\ leaseId' = IF m.ok /\ Head(responses) = Foreign THEN "other" ELSE leaseId
    /\ backends' = IF m.ok THEN Append(backends, "remote") ELSE backends
    /\ UNCHANGED <<todo, leaseState, op>>

\* CompositeLeaseBackend.abandon: a task settles the distributed lease later,
\* local leases settle at once; errors are ignored.
Abandon(totals, seq) ==
    /\ settler' = IF HasRemote THEN Msg("Settle", totals, seq) ELSE settler
    /\ local' = [r \in Resources |->
          IF r \in LocalBackends THEN Settled(r, totals[r], seq) ELSE local[r]]

Granted(r) == [status |-> "live", consumed |-> InitialTotal[r], sequence |-> 0]

\* Mutant: local backends are put before the distributed one.
ReserveLocal_InFront ==
    /\ phase = "granting"
    /\ \E r \in todo:
          /\ \A s \in todo \ {r}: Precedes(r, s)
          /\ todo' = todo \ {r}
          /\ backends' = <<r>> \o backends
          /\ local' = [local EXCEPT ![r] = Granted(r)]
    /\ UNCHANGED <<phase, leaseState, taken, op, server, healthy, awaiting, settler, wire>>

\* reserve_local: granted, or no counter is configured for the trigger.
ReserveLocal ==
    /\ phase = "granting"
    /\ \E r \in todo:
          /\ \A s \in todo \ {r}: Precedes(r, s)
          /\ todo' = todo \ {r}
          /\ \/ /\ backends' = Append(backends, r)
                /\ local' = [local EXCEPT ![r] = Granted(r)]
             \/ UNCHANGED <<backends, local>>
    /\ UNCHANGED <<phase, leaseState, taken, op, server, healthy, awaiting, settler, wire>>

\* Mutant: the rollback forgets that a settlement is the next operation.
RollBack_Unsequenced ==
    /\ phase = "granting" /\ todo # {}
    /\ phase' = "refused"
    /\ Abandon(confirmed, 0)
    /\ UNCHANGED <<todo, backends, leaseState, taken, op, server, healthy, awaiting, wire>>

\* reserve_local fails: rollback_reservations gives back what was granted.
RollBack ==
    /\ phase = "granting" /\ todo # {}
    /\ phase' = "refused"
    /\ Abandon(confirmed, 1)
    /\ UNCHANGED <<todo, backends, leaseState, taken, op, server, healthy, awaiting, wire>>

\* Every quota is reserved: the lease is returned.
Open ==
    /\ phase = "granting" /\ todo = {}
    /\ phase' = "open"
    /\ UNCHANGED <<todo, backends, leaseState, taken, op, local, server, healthy, awaiting, settler, wire>>

-----------------------------------------------------------------------------
(* QuotaLease                                                              *)

\* apply_consumption_updates: totals may not shrink nor exceed the amounts.
NextTotals == {t \in Totals: \A r \in Resources: confirmed[r] <= t[r]}

Begin(kind, t) ==
    /\ phase = "open"
    /\ op = NoOp
    /\ ~finished
    /\ sequence < MaxSequence
    /\ op' = [kind |-> kind, totals |-> t, sequence |-> sequence + 1, at |-> 1]
    /\ UNCHANGED <<phase, todo, backends, leaseState, taken, local, server, healthy, awaiting, settler, wire>>

\* update_consumptions returns at once when nothing changes.
BeginUpdate == \E t \in NextTotals \ {confirmed}: Begin("update", t)
BeginFinish == \E t \in NextTotals: Begin("finish", t)

\* The backend the operation has reached.
Current == backends[op.at]
AtBackend == op # NoOp /\ op.at <= Len(backends)

LocalUpdate ==
    /\ AtBackend /\ op.kind = "update" /\ Current \in Resources
    /\ UpdateAccepted(Current, op.totals[Current], op.sequence)
    /\ local' = [local EXCEPT ![Current] =
          [status |-> "live", consumed |-> op.totals[Current], sequence |-> op.sequence]]
    /\ op' = [op EXCEPT !.at = @ + 1]
    /\ UNCHANGED <<phase, todo, backends, leaseState, taken, server, healthy, awaiting, settler, wire>>

LocalFinish ==
    /\ AtBackend /\ op.kind = "finish" /\ Current \in Resources
    /\ FinishAccepted(Current, op.totals[Current], op.sequence)
    /\ local' = [local EXCEPT ![Current] = Settled(Current, op.totals[Current], op.sequence)]
    /\ op' = [op EXCEPT !.at = @ + 1]
    /\ UNCHANGED <<phase, todo, backends, leaseState, taken, server, healthy, awaiting, settler, wire>>

\* A local backend refuses: the remaining backends are not called.
LocalRefuses ==
    /\ AtBackend /\ Current \in Resources
    /\ LET total == op.totals[Current] IN
       IF op.kind = "update" THEN ~UpdateAccepted(Current, total, op.sequence)
       ELSE ~FinishAccepted(Current, total, op.sequence)
    /\ op' = NoOp
    /\ UNCHANGED <<phase, todo, backends, leaseState, taken, local, server, healthy, awaiting, settler, wire>>

RemoteCmd == IF op.kind = "update" THEN "Update" ELSE "Settle"

RemoteCall ==
    /\ AtBackend /\ Current = "remote"
    /\ SendFor("lease", Msg(RemoteCmd, op.totals, op.sequence))
    /\ UNCHANGED <<phase, todo, backends, leaseState, taken, op, local, server, healthy, settler>>

\* Mutant: the operation tries again for as long as the session is down.
RemoteUnavailable_TriesAgain ==
    /\ AtBackend /\ Current = "remote"
    /\ awaiting = NoCall
    /\ ~healthy
    /\ UNCHANGED vars

\* "rate limit stream is unavailable": the backend keeps the session it has.
RemoteUnavailable ==
    /\ AtBackend /\ Current = "remote"
    /\ awaiting = NoCall
    /\ ~healthy
    /\ op' = NoOp
    /\ UNCHANGED <<phase, todo, backends, leaseState, taken, local, server, healthy, awaiting, settler, wire>>

\* Mutant: the code is not looked at.
Matches_IgnoresCode(m, asked) ==
    m.totals = asked.totals /\ (m.cmd = "Update" => m.sequence = asked.sequence)

\* The response must repeat what was asked; a settlement names no sequence.
Matches(m, asked) ==
    /\ m.ok
    /\ m.totals = asked.totals
    /\ m.cmd = "Update" => m.sequence = asked.sequence

\* Every backend has accepted: the lease's state moves on.
Confirm ==
    /\ op # NoOp
    /\ op.at > Len(backends)
    /\ confirmed' = op.totals
    /\ sequence' = op.sequence
    /\ finished' = (op.kind = "finish")
    /\ op' = NoOp
    /\ UNCHANGED <<phase, todo, backends, taken, local, server, healthy, awaiting, settler, wire>>

\* The caller drops the future of update, finish or reserve_quota while it
\* waits for the server; a reservation in progress is then forgotten.  So may
\* the caller of another lease.
Cancel ==
    /\ awaiting # NoCall
    /\ awaiting.by # "settler"
    /\ Len(requests) + Len(responses) < MaxInFlight
    /\ awaiting' = NoCall
    /\ phase' = IF awaiting.by = "reserve" THEN "refused" ELSE phase
    /\ op' = IF awaiting.by = "lease" THEN NoOp ELSE op
    /\ UNCHANGED <<todo, backends, leaseState, taken, local, server, healthy, settler, wire>>

\* It is dropped before it has sent anything: another has the stream, or the
\* clock is adjusted.
CancelUnsent ==
    /\ \/ AtBackend /\ Current = "remote" /\ awaiting.by # "lease" /\ op' = NoOp /\ UNCHANGED phase
       \/ phase = "asking" /\ awaiting.by # "reserve" /\ phase' = "refused" /\ UNCHANGED op
    /\ UNCHANGED <<todo, backends, leaseState, taken, local, server, healthy, awaiting, settler, wire>>

\* Drop for QuotaLease; no operation borrows the lease any more.
DropLease ==
    /\ phase = "open"
    /\ op = NoOp
    /\ phase' = "dropped"
    /\ IF finished THEN UNCHANGED <<settler, local>> ELSE Abandon(confirmed, sequence + 1)
    /\ UNCHANGED <<todo, backends, leaseState, taken, op, server, healthy, awaiting, wire>>

\* The task spawned by DistributedLeaseBackend.abandon.
SettlerCall ==
    /\ settler # NoSettlement
    /\ SendFor("settler", settler)
    /\ settler' = NoSettlement
    /\ UNCHANGED <<phase, todo, backends, leaseState, taken, op, local, server, healthy>>

SettlerUnavailable ==
    /\ settler # NoSettlement
    /\ ~healthy
    /\ settler' = NoSettlement
    /\ UNCHANGED <<phase, todo, backends, leaseState, taken, op, local, server, healthy, awaiting, wire>>

-----------------------------------------------------------------------------
(* The stream                                                              *)

\* The waiting call gets the next response: another command than the one asked
\* for fails the session.  Nobody looks whose lease the response is about.
Accepts(m) == m.cmd = awaiting.request.cmd

Answered(m) ==
    \/ /\ ~Accepts(m)
       /\ healthy' = FALSE
       /\ CallFails(awaiting.by)
       /\ UNCHANGED <<backends, leaseState, taken>>
    \/ /\ Accepts(m)
       /\ crossed' = (crossed \/ Head(responses) = Foreign)
       /\ UNCHANGED healthy
       /\ \/ awaiting.by = "reserve" /\ ServerDecides(m)
          \/ /\ awaiting.by = "lease"
             /\ op' = IF Matches(m, awaiting.request) THEN [op EXCEPT !.at = @ + 1] ELSE NoOp
             /\ UNCHANGED <<phase, todo, backends, leaseState, leaseId>>
          \/ /\ awaiting.by = "settler"
             /\ UNCHANGED <<phase, todo, backends, leaseState, leaseId, op>>

Deliver ==
    /\ responses # <<>>
    /\ responses' = Tail(responses)
    /\ awaiting' = NoCall
    /\ \/ awaiting = NoCall /\ UNCHANGED healthy   \* an abandoned call's
       \/ awaiting = Others /\ healthy' \in {healthy, FALSE}
       \/ awaiting \notin {NoCall, Others}
    /\ IF awaiting \in {NoCall, Others}
       THEN UNCHANGED <<phase, todo, backends, leaseState, taken, op>>
       ELSE \E m \in Says(Head(responses)): Answered(m)
    /\ UNCHANGED <<local, server, settler, requests>>

\* No response in time, or the stream breaks: the session has failed.
SessionFails ==
    /\ healthy' = FALSE
    /\ awaiting' = NoCall
    /\ IF awaiting = NoCall THEN UNCHANGED <<phase, todo, op>> ELSE CallFails(awaiting.by)
    /\ UNCHANGED <<backends, leaseState, taken, local, server, settler>>

Timeout == awaiting # NoCall /\ SessionFails /\ UNCHANGED wire

StreamBreaks ==
    /\ healthy
    /\ SessionFails
    /\ responses' = <<>>
    /\ requests' \in {requests, <<>>}

-----------------------------------------------------------------------------
(* The rate limit server                                                   *)

ServerAccepts(m) ==
    /\ server.status = "live"
    /\ m.sequence = server.sequence + 1
    /\ \A r \in Distributed: server.consumed[r] <= m.totals[r]

Handle(m) ==
    /\ \/ \* a reservation is granted or not
          /\ m.cmd = "Reserve"
          /\ \E ok \in BOOLEAN:
                /\ server' = IF ok THEN [server EXCEPT !.status = "live"] ELSE server
                /\ responses' = Append(responses, Reply(m, ok, m.totals))
       \/ \* an update or a first settlement, in sequence
          /\ m.cmd # "Reserve"
          /\ ServerAccepts(m)
          /\ server' = [status |-> IF m.cmd = "Settle" THEN "settled" ELSE "live",
                        consumed |-> m.totals, sequence |-> m.sequence]
          /\ responses' = Append(responses, Reply(m, TRUE, m.totals))
       \/ \* a settlement that was already made is answered again
          /\ m.cmd = "Settle" /\ server.status = "settled"
          /\ responses' = Append(responses, Reply(m, TRUE, server.consumed))
          /\ UNCHANGED server
       \/ \* anything else is refused
          /\ m.cmd # "Reserve"
          /\ ~ServerAccepts(m)
          /\ ~(m.cmd = "Settle" /\ server.status = "settled")
          /\ responses' = Append(responses, Reply(m, FALSE, m.totals))
          /\ UNCHANGED server

Serve ==
    /\ requests # <<>>
    /\ requests' = Tail(requests)
    /\ IF Head(requests) = Foreign
       THEN responses' = Append(responses, Foreign) /\ UNCHANGED server
       ELSE Handle(Head(requests))
    /\ UNCHANGED <<phase, todo, backends, leaseState, taken, op, local, healthy, awaiting, settler>>

ServerExpires ==
    /\ server.status = "live"
    /\ server' = [server EXCEPT !.status = "expired"]
    /\ UNCHANGED <<phase, todo, backends, leaseState, taken, op, local, healthy, awaiting, settler, wire>>

-----------------------------------------------------------------------------
Reserving == AskServer \/ AskFails \/ ReserveLocal \/ RollBack \/ Open
Operating ==
    \/ BeginUpdate \/ BeginFinish \/ LocalUpdate \/ LocalFinish \/ LocalRefuses
    \/ RemoteCall \/ RemoteUnavailable \/ Confirm \/ Cancel \/ CancelUnsent
Ending == DropLease \/ SettlerCall \/ SettlerUnavailable
Streaming == OtherCall \/ Deliver \/ Timeout \/ StreamBreaks
Elsewhere == Serve \/ ServerExpires \/ LocalExpires \/ LocalForgets

Next == Reserving \/ Operating \/ Ending \/ Streaming \/ Elsewhere

Spec == Init /\ [][Next]_vars

\* The task that runs an operation makes progress and its timer fires; the
\* lock of the stream is first come, first served.
FairSpec ==
    /\ Spec
    /\ WF_vars(LocalUpdate \/ LocalFinish \/ LocalRefuses \/ Confirm)
    /\ SF_vars(RemoteCall \/ RemoteUnavailable)
    /\ WF_vars(Deliver \/ Timeout)

-----------------------------------------------------------------------------
(* Properties                                                              *)

TypeOK ==
    /\ phase \in {"asking", "granting", "open", "refused", "dropped"}
    /\ todo \subseteq Resources
    /\ backends \in Seq(Resources \cup {"remote"})
    /\ confirmed \in Totals
    /\ sequence \in 0..MaxSequence
    /\ finished \in BOOLEAN
    /\ op \in Op \cup {NoOp}
    /\ local \in [Resources -> LocalLease]
    /\ leaseId \in {"own", "other"}
    /\ server \in BackendLease
    /\ healthy \in BOOLEAN
    /\ awaiting \in Call \cup {NoCall}
    /\ settler \in Request \cup {NoSettlement}
    /\ requests \in Seq(Request \cup {Foreign})
    /\ responses \in Seq(Response \cup {Foreign})
    /\ crossed \in BOOLEAN

\* Between operations every local lease that is still live is exactly at the
\* last confirmed sequence and total, whatever failed or was dropped half
\* way: the distributed backend, the only one that waits, comes first, and
\* local leases expire together.  Only then are a retry and the drop accepted.
LocalsInStep == \A r \in LocalBackends:
    phase = "open" /\ op = NoOp /\ local[r].status = "live" =>
        /\ local[r].sequence = sequence
        /\ local[r].consumed = confirmed[r]

\* Dropping the lease, or giving up a reservation half way, leaves no local
\* lease holding quota until its TTL.
NothingLeftLive == phase \in {"dropped", "refused"} =>
    \A r \in LocalBackends: local[r].status # "live"

\* A finish that returned Ok settled every backend with the totals returned,
\* also when it was a retry and some backends had settled before: the local
\* ones whatever was answered, the server unless a call of the lease took the
\* answer to another lease's call for its own.
FinishAgrees == finished =>
    /\ \A r \in LocalBackends: /\ local[r].status \in {"settled", "forgotten"}
                               /\ local[r].consumed = confirmed[r]
    /\ HasRemote /\ ~crossed => /\ server.status = "settled"
                                /\ \A r \in Distributed: server.consumed[r] = confirmed[r]

\* The backends of a lease agree with each other and with its holder, between
\* operations and after a finish, however often one of them stopped half way.
BackendsAgree == LocalsInStep /\ FinishAgrees

\* No local backend charges less than the totals confirmed to the caller: what
\* an update confirmed survives failed retries, expiry and the drop.
LocalsCharge == phase \in {"open", "dropped"} =>
    \A r \in LocalBackends: local[r].consumed >= confirmed[r]

\* Neither does the server.
ServerCharges == phase \in {"open", "dropped"} /\ HasRemote /\ sequence > 0 =>
    \A r \in Distributed: server.consumed[r] >= confirmed[r]

\* The server is never more than one operation away from what the caller
\* knows, and agrees with it when it is not away at all.
ServerOneAhead == phase = "open" /\ HasRemote =>
    /\ server.sequence \in {sequence, sequence + 1}
    /\ server.sequence = sequence /\ sequence > 0 =>
          \A r \in Distributed: server.consumed[r] = confirmed[r]

\* What the caller was told is what is charged at least, and the server is at
\* most the one operation ahead whose answer was lost; this as long as no call
\* of the lease has taken the answer to another lease's call for its own.
ServerAgrees == LocalsCharge /\ (~crossed => ServerCharges /\ ServerOneAhead)

\* Every operation on a lease returns, whatever the server and the stream do.
OperationsReturn == op # NoOp ~> op = NoOp

\* "失败时租约保持可重试状态" (api.rs, finish): a finish that fails while the
\* leases are still held leaves a session on which it can be tried again.
FailedFinishIsRetryable == [][
    /\ op # NoOp /\ op.kind = "finish" /\ op' = NoOp /\ ~finished'
    /\ HasRemote /\ server.status = "live"
    => healthy']_vars
=============================================================================
