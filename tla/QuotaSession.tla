---------------------------- MODULE QuotaSession ----------------------------
(***************************************************************************)
(* One QuotaSession of traffic/ratelimit/distributed.rs: the bidirectional *)
(* stream to a rate limit server that every distributed quota operation of *)
(* one endpoint shares.  A response carries no request identifier, so      *)
(* `round_trip` pairs responses with requests by their order alone: the    *)
(* request lock keeps one request outstanding, the single `pending` slot   *)
(* names who waits for the next response, and a session that can no longer *)
(* tell whose response comes next is marked failed for good.               *)
(*                                                                         *)
(* An element of Calls is one invocation of `round_trip`.  A request and   *)
(* the response to it are represented by the call they belong to; the      *)
(* server, external to the repository, answers requests in order.  A call  *)
(* of Droppable may be dropped by its caller at any await.                 *)
(***************************************************************************)
EXTENDS Naturals, Sequences

CONSTANTS Calls,      \* the invocations of round_trip
          Droppable,  \* the calls whose future the caller may drop
          Cmds,       \* RateLimitCmd: Init, Reserve, Update, Settle
          Capacity,   \* the bound of the request channel (128 in the code)
          Nothing,    \* an empty slot: no call, no result
          Failure,    \* the Err a call returns or is sent
          Dropped     \* what remains of a call whose future was dropped

ASSUME SessionAssumption ==
    /\ Droppable \subseteq Calls
    /\ Capacity \in Nat \ {0}
    /\ {Nothing, Failure, Dropped} \cap Calls = {}
    /\ Nothing # Failure /\ Nothing # Dropped /\ Failure # Dropped

VARIABLES
    healthy,   \* QuotaSession.healthy
    closed,    \* sender.is_closed(): the transport dropped the receiver
    holder,    \* the call that holds request_lock
    pending,   \* QuotaSession.pending: the call whose oneshot sender it holds
    outgoing,  \* the request channel and the way to the server
    incoming,  \* the responses on their way to the reader
    reader,    \* the task spawned by connect
    pc,        \* where each call is in round_trip
    cmd,       \* the command of each call
    slot,      \* what the oneshot receiver of each call holds
    result     \* what each call returned

sessionVars == <<healthy, closed, holder, pending, outgoing, incoming, reader,
                 pc, cmd, slot, result>>

channel == <<outgoing, incoming>>

SessionInit ==
    /\ healthy = TRUE
    /\ closed = FALSE
    /\ holder = Nothing
    /\ pending = Nothing
    /\ outgoing = <<>>
    /\ incoming = <<>>
    /\ reader = "reading"
    /\ pc = [c \in Calls |-> "idle"]
    /\ cmd \in [Calls -> Cmds]
    /\ slot = [c \in Calls |-> Nothing]
    /\ result = [c \in Calls |-> Nothing]

-----------------------------------------------------------------------------
(* The request lock and the end of a call.                                 *)

\* Mutant: the lock is released on the paths that return, not by a guard.
Return_NoGuard(c, r) ==
    /\ pc' = [pc EXCEPT ![c] = "returned"]
    /\ result' = [result EXCEPT ![c] = r]
    /\ holder' = IF holder = c /\ r # Dropped THEN Nothing ELSE holder

\* A call returns r; dropping its _request_guard frees the lock.
Return(c, r) ==
    /\ pc' = [pc EXCEPT ![c] = "returned"]
    /\ result' = [result EXCEPT ![c] = r]
    /\ holder' = IF holder = c THEN Nothing ELSE holder

\* `pending.take()` followed by a send on what it held.
TakePending(message) ==
    /\ pending' = Nothing
    /\ slot' = IF pending = Nothing THEN slot
               ELSE [slot EXCEPT ![pending] = message]

\* Mutant: only the channel is looked at.
SessionAvailable_ChannelOnly == ~closed

\* Can a request still be put on the stream?
SessionAvailable == healthy /\ ~closed

-----------------------------------------------------------------------------
(* round_trip                                                              *)

\* An operation of the session calls round_trip and asks for the lock.
Start(c) ==
    /\ pc[c] = "idle"
    /\ pc' = [pc EXCEPT ![c] = "queued"]
    /\ UNCHANGED <<healthy, closed, holder, pending, channel, reader, cmd, slot, result>>

\* The lock is granted and the session is usable.  Tokio grants it in the
\* order of arrival; any order is allowed here.
Admit(c) ==
    /\ pc[c] = "queued"
    /\ holder = Nothing
    /\ SessionAvailable
    /\ holder' = c
    /\ pc' = [pc EXCEPT ![c] = "admitted"]
    /\ UNCHANGED <<healthy, closed, pending, channel, reader, cmd, slot, result>>

\* The lock is granted but the session has failed: the guard is dropped.
Refuse(c) ==
    /\ pc[c] = "queued"
    /\ holder = Nothing
    /\ ~SessionAvailable
    /\ Return(c, Failure)
    /\ UNCHANGED <<healthy, closed, pending, channel, reader, cmd, slot>>

\* Mutant: a sender left in the slot is kept.
Register_KeepsOld(c) ==
    /\ pc[c] = "admitted"
    /\ pending' = IF pending = Nothing THEN c ELSE pending
    /\ pc' = [pc EXCEPT ![c] = "registered"]
    /\ UNCHANGED <<healthy, closed, holder, channel, reader, cmd, slot, result>>

\* *pending = Some(sender), overwriting what a dropped call left there.
Register(c) ==
    /\ pc[c] = "admitted"
    /\ pending' = c
    /\ pc' = [pc EXCEPT ![c] = "registered"]
    /\ UNCHANGED <<healthy, closed, holder, channel, reader, cmd, slot, result>>

\* sender.send(request).await, which waits while the channel is full.
Send(c) ==
    /\ pc[c] = "registered"
    /\ ~closed
    /\ Len(outgoing) < Capacity
    /\ outgoing' = Append(outgoing, c)
    /\ pc' = [pc EXCEPT ![c] = "waiting"]
    /\ UNCHANGED <<healthy, closed, holder, pending, incoming, reader, cmd, slot, result>>

\* Mutant: a call that gives up leaves the session in use.
BeginFailure_StaysHealthy(c) ==
    /\ pc' = [pc EXCEPT ![c] = "failing"]
    /\ UNCHANGED <<healthy, closed, holder, pending, channel, reader, cmd, slot, result>>

\* mark_failed, first half: the session is unhealthy before the slot is taken.
BeginFailure(c) ==
    /\ healthy' = FALSE
    /\ pc' = [pc EXCEPT ![c] = "failing"]
    /\ UNCHANGED <<closed, holder, pending, channel, reader, cmd, slot, result>>

\* The receiver of the channel is gone.
SendFails(c) ==
    /\ pc[c] = "registered"
    /\ closed
    /\ BeginFailure(c)

\* The response handed over by the reader answers a request of this kind.
Accept(c) ==
    /\ pc[c] = "waiting"
    /\ slot[c] \in Calls
    /\ cmd[slot[c]] = cmd[c]
    /\ Return(c, slot[c])
    /\ UNCHANGED <<healthy, closed, pending, channel, reader, cmd, slot>>

\* "rate limit response command is out of order".
OutOfOrder(c) ==
    /\ pc[c] = "waiting"
    /\ slot[c] \in Calls
    /\ cmd[slot[c]] # cmd[c]
    /\ BeginFailure(c)

\* mark_failed sent the call an Err.
ReceiveError(c) ==
    /\ pc[c] = "waiting"
    /\ slot[c] = Failure
    /\ Return(c, Failure)
    /\ UNCHANGED <<healthy, closed, pending, channel, reader, cmd, slot>>

\* No response within request_timeout.
Timeout(c) ==
    /\ pc[c] = "waiting"
    /\ slot[c] = Nothing
    /\ BeginFailure(c)

\* mark_failed, second half, then the error is returned.
EndFailure(c) ==
    /\ pc[c] = "failing"
    /\ TakePending(Failure)
    /\ Return(c, Failure)
    /\ UNCHANGED <<healthy, closed, channel, reader, cmd>>

\* The caller drops the future at an await: the guard and the receiver are
\* dropped, the sender in `pending` and the request already sent are not.
Drop(c) ==
    /\ c \in Droppable
    /\ pc[c] \in {"queued", "admitted", "registered", "waiting", "failing"}
    /\ Return(c, Dropped)
    /\ UNCHANGED <<healthy, closed, pending, channel, reader, cmd, slot>>

-----------------------------------------------------------------------------
(* The reader task, the server and the transport.                          *)

\* Ok(Some(message)): whoever is pending gets the message, if anyone is.
Deliver ==
    /\ reader = "reading"
    /\ incoming # <<>>
    /\ TakePending(Head(incoming))
    /\ incoming' = Tail(incoming)
    /\ UNCHANGED <<healthy, closed, holder, outgoing, reader, pc, cmd, result>>

\* Ok(None) or Err: the reader enters mark_failed; nothing else will be read.
StreamEnds ==
    /\ reader = "reading"
    /\ reader' = "failing"
    /\ healthy' = FALSE
    /\ incoming' = <<>>
    /\ UNCHANGED <<closed, holder, pending, outgoing, pc, cmd, slot, result>>

\* The second half of the reader's mark_failed.
ReaderStops ==
    /\ reader = "failing"
    /\ reader' = "stopped"
    /\ TakePending(Failure)
    /\ UNCHANGED <<healthy, closed, holder, channel, pc, cmd, result>>

\* The server takes the oldest request and answers it.
Answer ==
    /\ outgoing # <<>>
    /\ outgoing' = Tail(outgoing)
    /\ incoming' = IF reader = "reading" THEN Append(incoming, Head(outgoing))
                   ELSE incoming
    /\ UNCHANGED <<healthy, closed, holder, pending, reader, pc, cmd, slot, result>>

\* The transport drops the receiver of the request channel with what it holds.
TransportCloses ==
    /\ ~closed
    /\ closed' = TRUE
    /\ outgoing' = <<>>
    /\ UNCHANGED <<healthy, holder, pending, incoming, reader, pc, cmd, slot, result>>

-----------------------------------------------------------------------------
RoundTrip(c) ==
    \/ Start(c) \/ Admit(c) \/ Refuse(c) \/ Register(c) \/ Send(c) \/ SendFails(c)
    \/ Accept(c) \/ OutOfOrder(c) \/ ReceiveError(c) \/ Timeout(c) \/ EndFailure(c)
    \/ Drop(c)

Environment == Deliver \/ StreamEnds \/ ReaderStops \/ Answer \/ TransportCloses

SessionNext == (\E c \in Calls: RoundTrip(c)) \/ Environment

SessionSpec == SessionInit /\ [][SessionNext]_sessionVars

\* The executor runs every task that can run, tokio's Mutex is fair and its
\* timer fires; neither the server nor the transport owes anything.
CallFairness(c) ==
    /\ SF_sessionVars(Admit(c) \/ Refuse(c))
    /\ WF_sessionVars(Register(c))
    /\ WF_sessionVars(Send(c) \/ SendFails(c))
    /\ WF_sessionVars(Accept(c) \/ OutOfOrder(c) \/ ReceiveError(c) \/ Timeout(c))
    /\ WF_sessionVars(EndFailure(c))

SessionFairSpec == SessionSpec /\ WF_sessionVars(ReaderStops) /\ \A c \in Calls: CallFairness(c)

-----------------------------------------------------------------------------
(* Properties                                                              *)

SessionTypeOK ==
    /\ healthy \in BOOLEAN
    /\ closed \in BOOLEAN
    /\ holder \in Calls \cup {Nothing}
    /\ pending \in Calls \cup {Nothing}
    /\ outgoing \in Seq(Calls)
    /\ incoming \in Seq(Calls)
    /\ reader \in {"reading", "failing", "stopped"}
    /\ pc \in [Calls -> {"idle", "queued", "admitted", "registered", "waiting",
                         "failing", "returned"}]
    /\ cmd \in [Calls -> Cmds]
    /\ slot \in [Calls -> Calls \cup {Nothing, Failure}]
    /\ result \in [Calls -> Calls \cup {Nothing, Failure, Dropped}]

NoneDropped == \A c \in Calls: result[c] # Dropped
OwnResponses == \A c \in Calls: result[c] \in Calls => result[c] = c

\* As long as no future was dropped, a call that succeeds returns the response
\* to its own request: timeouts, a broken stream and the late responses they
\* leave behind never hand one operation the answer of another.
AnswersOwnCall == NoneDropped => OwnResponses

\* Whatever was dropped, a successful call returns a response of the kind it
\* asked for, so the Option it unwraps next is the one the server filled.
KindMatches == \A c \in Calls: result[c] \in Calls => cmd[result[c]] = cmd[c]

\* A call that waits with nothing received is the one `pending` names, so its
\* oneshot is never canceled under it and mark_failed can always reach it.
WaiterIsPending == \A c \in Calls:
    pc[c] = "waiting" /\ slot[c] = Nothing => pending = c

\* As long as nobody dropped a future, at most one request or response is under
\* way, and while a call is being served it is that call's: sending never finds
\* the channel full, so the lock is never held longer than a request timeout.
OneInFlight == NoneDropped =>
    /\ Len(outgoing) + Len(incoming) <= 1
    /\ \A c \in Calls: pc[c] \in {"admitted", "registered"} => outgoing = <<>> /\ incoming = <<>>

\* Every call returns though the server never answers, the stream ends or the
\* session fails under the callers queueing for it.  One thing can keep calls for
\* ever: `send` is awaited outside the timeout with the request lock held, so when
\* dropped calls have filled the request channel and the transport neither reads it
\* nor drops it, the call that sends waits for ever and every call queued behind it
\* does.  The property is about the behaviors in which the channel always has
\* room again.
EveryCallReturns ==
    []<>(Len(outgoing) < Capacity) =>
        \A c \in Calls: pc[c] = "queued" ~> pc[c] = "returned"

\* What round_trip does not promise: a call returns however full the channel stays.
ReturnsThoughFull == \A c \in Calls: pc[c] = "queued" ~> pc[c] = "returned"

\* A reservation is adopted by the operation that requested it.
AdoptsOwnReservation == \A c \in Calls:
    cmd[c] = "Reserve" /\ result[c] \in Calls => result[c] = c
=============================================================================
