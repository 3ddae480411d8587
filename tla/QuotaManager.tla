---------------------------- MODULE QuotaManager -----------------------------
(***************************************************************************)
(* DistributedQuotaManager (traffic/ratelimit/distributed.rs): concurrent  *)
(* calls of reserve_many that share a session for each rate limit server,  *)
(* a window for each limit, and the locks that make a session be opened,   *)
(* and a window be announced to a server, once.  What one call of a        *)
(* session does on the stream is the subject of QuotaSession: here a round *)
(* trip is answered, or it fails and the session with it.  A call can be   *)
(* dropped wherever it waits.  It gives its locks back, but the request it *)
(* may have sent is answered all the same: the answer is a stray, and who  *)
(* asks next on the session may take it for its own.                       *)
(*                                                                         *)
(* A limit is one trigger of a rule for one set of labels.  A request      *)
(* wants [limit, revision]s; the revision is that of the rule it has read. *)
(* An Init does not carry it: the server knows a counter by the target and *)
(* the totals it is told.  It numbers the counters of a session in the     *)
(* order it is told of them: a number of an earlier session means nothing, *)
(* or something else.                                                      *)
(***************************************************************************)
EXTENDS Naturals, Sequences, FiniteSets

CONSTANTS
    Callers,        \* concurrent calls of reserve_many
    Servers,        \* the endpoints of the cluster, in order
    Requests,       \* what a call may want: sequences of [limit, revision]
    Bare,           \* the wants whose trigger declares no total above zero
    Carries,        \* Carries[<<limit, revision>>]: target and totals in an Init
    Views,          \* the sets of servers discovery may show it
    Hash,           \* Hash[a]: the first bytes of the digest of an affinity
    MaxCalls,       \* bound of the model: calls made
    MaxSessions,    \* bound of the model: sessions opened
    MaxWindows,     \* QuotaWindow objects that exist at a time
    MaxStrays       \* bound of the model: strays of a session at a time

Endpoints == {Servers[i] : i \in DOMAIN Servers}
Wanted == UNION {{q[i] : i \in DOMAIN q} : q \in Requests}
Affinity(q) == [i \in DOMAIN q |-> q[i].limit]

ASSUME ManagerAssumption ==
    /\ Servers \in Seq(Endpoints) /\ "none" \notin Endpoints
    /\ \A q \in Requests : q # <<>> /\ q \in Seq(Wanted) /\ Hash[Affinity(q)] \in Nat
    /\ \A v \in Views : v # {} /\ v \subseteq Endpoints
    /\ Bare \subseteq Wanted
    /\ MaxCalls \in Nat /\ MaxSessions \in Nat /\ MaxWindows \in Nat \ {0} /\ MaxStrays \in Nat
    /\ "nobody" \notin Callers

VARIABLES
    binding,      \* endpoint_bindings
    sessions,     \* sessions: an endpoint's session, or 0
    link,         \* a session: [endpoint, state]
    connecting,   \* who holds connect_lock
    windows,      \* windows: WindowKey -> the object, or 0
    window,       \* the objects: [key, session, counter, holder]
    caller,       \* [at, want, view, endpoint, session, done, object, counters]
    adjusting,    \* who holds the time_adjust_lock of a session
    calls,        \* calls made so far
    announced,    \* the server's counters of a session, by number
    stray,        \* the answers still to come on a session that nobody waits for
    crossed       \* history: sessions on which an Init took a stray for its answer

vars == <<binding, sessions, link, connecting, windows, window, caller, calls, adjusting, announced, stray, crossed>>
SessionIds == 1..MaxSessions
WindowKeys == [endpoint : Endpoints, limit : {w.limit : w \in Wanted}, revision : {w.revision : w \in Wanted}]
NoKey == [endpoint |-> "none", limit |-> "none", revision |-> 0]
FreeWindow == [key |-> NoKey, session |-> 0, counter |-> 0, holder |-> "nobody"]
Idle == [at |-> "idle", want |-> <<>>, view |-> {}, endpoint |-> "none", session |-> 0,
         object |-> 0, counters |-> <<>>]

At(c, label) == caller[c].at = label
Goto(c, label) == caller' = [caller EXCEPT ![c].at = label]
Finish(c) == caller' = [caller EXCEPT ![c] = Idle]
Usable(s) == s # 0 /\ link[s].state = "open"

\* The answers of the server: an Init is refused, or given a number.
Refused == [cmd |-> "init", counter |-> 0]
Reserved == [cmd |-> "reserve", counter |-> 0]

\* The want that is being prepared, and its window key.
Current(c) == caller[c].want[Len(caller[c].counters) + 1]
KeyOf(c, w) == [endpoint |-> caller[c].endpoint, limit |-> w.limit, revision |-> w.revision]

-----------------------------------------------------------------------------
(* Which server: endpoint_for                                              *)

\* available_grpc_endpoints: the places of the servers that can be used.
Available(view) == {i \in DOMAIN Servers : Servers[i] \in view}

\* select_endpoint_from_available: of those, the one the hash counts off.
Before(i, view) == {j \in Available(view) : j < i}
Chosen(view, q) == CHOOSE i \in Available(view) :
    Cardinality(Before(i, view)) = Hash[Affinity(q)] % Cardinality(Available(view))
Select(view, q) == Servers[Chosen(view, q)]

\* A binding is kept as long as the call sees its server.
Begin(c, q, view) ==
    /\ At(c, "idle") /\ calls < MaxCalls
    /\ calls' = calls + 1
    /\ LET bound == binding[Affinity(q)]
           to == IF bound \in view THEN "session" ELSE "bind"
       IN  caller' = [caller EXCEPT ![c] = [Idle EXCEPT !.at = to, !.want = q, !.view = view,
                                               !.endpoint = IF to = "session" THEN bound ELSE "none"]]
    /\ UNCHANGED <<binding, sessions, link, connecting, windows, window, adjusting, announced, stray, crossed>>

Bind(c) ==
    /\ At(c, "bind")
    /\ LET q == caller[c].want
           e == Select(caller[c].view, q)
       IN  /\ binding' = [binding EXCEPT ![Affinity(q)] = e]
           /\ caller' = [caller EXCEPT ![c].at = "session", ![c].endpoint = e]
    /\ UNCHANGED <<sessions, link, connecting, windows, window, calls, adjusting, announced, stray, crossed>>

-----------------------------------------------------------------------------
(* Its session: session_for                                                *)

Take(c, s) == caller' = [caller EXCEPT ![c].at = "stale", ![c].session = s, ![c].view = {}]

FindSession(c) ==
    /\ At(c, "session")
    /\ LET s == sessions[caller[c].endpoint]
       IN  IF Usable(s) THEN Take(c, s) ELSE Goto(c, "lock")
    /\ UNCHANGED <<binding, sessions, link, connecting, windows, window, calls, adjusting, announced, stray, crossed>>

\* Mutant: whoever gets the lock connects.
LockConnect_Once(c) ==
    /\ At(c, "lock") /\ connecting = "nobody"
    /\ connecting' = c
    /\ sessions' = [sessions EXCEPT ![caller[c].endpoint] = 0]
    /\ Goto(c, "connect")
    /\ UNCHANGED <<binding, link, windows, window, calls, adjusting, announced, stray, crossed>>

\* With the lock the call looks again.
LockConnect(c) ==
    /\ At(c, "lock") /\ connecting = "nobody"
    /\ LET s == sessions[caller[c].endpoint]
       IN  IF Usable(s)
           THEN Take(c, s) /\ UNCHANGED <<connecting, sessions>>
           ELSE /\ connecting' = c
                /\ sessions' = [sessions EXCEPT ![caller[c].endpoint] = 0]
                /\ Goto(c, "connect")
    /\ UNCHANGED <<binding, link, windows, window, calls, adjusting, announced, stray, crossed>>

\* QuotaSession::connect: the clock is adjusted, the stream is opened.
Connect(c) ==
    /\ At(c, "connect")
    /\ \E s \in SessionIds :
         /\ link[s].state = "unused" /\ \A t \in 1..(s - 1) : link[t].state # "unused"
         /\ link' = [link EXCEPT ![s] = [endpoint |-> caller[c].endpoint, state |-> "open"]]
         /\ sessions' = [sessions EXCEPT ![caller[c].endpoint] = s]
         /\ Take(c, s)
    /\ connecting' = "nobody"
    /\ UNCHANGED <<binding, windows, window, calls, adjusting, announced, stray, crossed>>

\* Mutant: a failure leaves the lock taken.
ConnectFails_Locked(c) ==
    /\ At(c, "connect")
    /\ Finish(c)
    /\ UNCHANGED <<binding, sessions, link, connecting, windows, window, calls, adjusting, announced, stray, crossed>>

ConnectFails(c) ==
    /\ At(c, "connect")
    /\ connecting' = "nobody"
    /\ Finish(c)
    /\ UNCHANGED <<binding, sessions, link, windows, window, calls, adjusting, announced, stray, crossed>>

-----------------------------------------------------------------------------
(* Its windows: remove_stale_windows, ensure_window                        *)

Fail(s) ==
    /\ link' = [link EXCEPT ![s].state = "failed"]
    /\ announced' = [announced EXCEPT ![s] = <<>>]
    /\ stray' = [stray EXCEPT ![s] = <<>>]
    /\ UNCHANGED crossed

\* Who asks takes the first answer that comes, and leaves its own behind.
First(s, own) == IF stray[s] = <<>> THEN own ELSE Head(stray[s])
Behind(s, own) == [stray EXCEPT ![s] = IF @ = <<>> THEN <<>> ELSE Append(Tail(@), own)]

\* An object that neither the map nor a call refers to is gone.
Free(n, map, users) == (\A k \in WindowKeys : map[k] # n) /\ (\A c \in Callers : users[c].object # n)
Kept(objects, map, users) == [n \in 1..MaxWindows |-> IF Free(n, map, users) THEN FreeWindow ELSE objects[n]]

\* Windows of other revisions, or other servers, of the limit are removed.
RemoveStale(c) ==
    /\ At(c, "stale")
    /\ LET k == KeyOf(c, Current(c))
       IN  windows' = [j \in WindowKeys |-> IF j.limit = k.limit /\ j # k THEN 0 ELSE windows[j]]
    /\ Goto(c, "enter")
    /\ window' = Kept(window, windows', caller')
    /\ UNCHANGED <<binding, sessions, link, connecting, calls, adjusting, announced, stray, crossed>>

EnterWindow(c) ==
    /\ At(c, "enter")
    /\ LET k == KeyOf(c, Current(c))
       IN  IF windows[k] # 0
           THEN /\ caller' = [caller EXCEPT ![c].at = "ensure", ![c].object = windows[k]]
                /\ UNCHANGED <<windows, window>>
           ELSE \E n \in 1..MaxWindows :
                  /\ Free(n, windows, caller) /\ \A m \in 1..(n - 1) : ~Free(m, windows, caller)
                  /\ windows' = [windows EXCEPT ![k] = n]
                  /\ window' = [window EXCEPT ![n] = [FreeWindow EXCEPT !.key = k]]
                  /\ caller' = [caller EXCEPT ![c].at = "ensure", ![c].object = n]
    /\ UNCHANGED <<binding, sessions, link, connecting, calls, adjusting, announced, stray, crossed>>

\* Mutant: a window that was announced once is not announced again.
Initialized_Ever(c, n) == window[n].session # 0

\* Was the window announced on the session of this call?
Initialized(c, n) == window[n].session = caller[c].session

\* The counter of the window is this call's; the next want is prepared, or
\* all are reserved.  Counters that are the same fail the call.
Prepared(c, counter) ==
    LET all == Append(caller[c].counters, counter)
    IN  IF counter \in {caller[c].counters[i] : i \in DOMAIN caller[c].counters}
        THEN Finish(c)
        ELSE caller' = [caller EXCEPT ![c].counters = all, ![c].object = 0,
                           ![c].at = IF Len(all) = Len(caller[c].want) THEN "adjust" ELSE "stale"]

EnsureWindow(c) ==
    /\ At(c, "ensure")
    /\ LET n == caller[c].object
       IN  IF Initialized(c, n) THEN Prepared(c, window[n].counter) ELSE Goto(c, "initialize")
    /\ window' = Kept(window, windows, caller')
    /\ UNCHANGED <<binding, sessions, link, connecting, windows, calls, adjusting, announced, stray, crossed>>

LockWindow(c) ==
    /\ At(c, "initialize")
    /\ LET n == caller[c].object
       IN  /\ window[n].holder = "nobody"
           /\ IF Initialized(c, n)
              THEN Prepared(c, window[n].counter) /\ window' = Kept(window, windows, caller')
              ELSE Goto(c, "announce") /\ window' = [window EXCEPT ![n].holder = c]
    /\ UNCHANGED <<binding, sessions, link, connecting, windows, calls, adjusting, announced, stray, crossed>>

\* The server's answer to an Init: an error, or the number of what it asks
\* for, which is kept as long as the session is there.
Asks(w) == Carries[<<w.limit, w.revision>>]
Heard(s, asked) == {i \in DOMAIN announced[s] : announced[s][i] = asked}
Number(s, asked) ==
    [cmd |-> "init",
     counter |-> IF Heard(s, asked) # {} THEN CHOOSE i \in Heard(s, asked) : TRUE ELSE Len(announced[s]) + 1]
Hears(s, asked, answer) ==
    announced' = IF answer = Refused \/ Heard(s, asked) # {} THEN announced
                 ELSE [announced EXCEPT ![s] = Append(@, asked)]

\* build_init_request: there is nothing to announce, and nothing is sent.
NoTotals(c) ==
    /\ At(c, "announce") /\ Current(c) \in Bare
    /\ Finish(c)
    /\ window' = Kept([window EXCEPT ![caller[c].object].holder = "nobody"], windows, caller')
    /\ UNCHANGED <<binding, sessions, link, connecting, windows, calls, adjusting, announced, stray, crossed>>

\* The window is given the number that the answer has, whoever asked for it.
Announce(c) ==
    /\ At(c, "announce") /\ Current(c) \notin Bare
    /\ LET n == caller[c].object
           s == caller[c].session
           asked == Asks(Current(c))
       IN  /\ link[s].state = "open"
           /\ crossed' = IF stray[s] = <<>> THEN crossed ELSE crossed \cup {s}
           /\ \E own \in {Refused, Number(s, asked)} :
                LET answer == First(s, own)
                    left == [window EXCEPT ![n].holder = "nobody"]
                IN  /\ Hears(s, asked, own)
                    /\ stray' = Behind(s, own)
                    /\ answer.cmd = "init"
                    /\ IF answer = Refused
                       THEN Finish(c) /\ window' = Kept(left, windows, caller')
                       ELSE /\ Prepared(c, answer.counter)
                            /\ window' = Kept([left EXCEPT ![n].session = s, ![n].counter = answer.counter],
                                              windows, caller')
    /\ UNCHANGED <<binding, sessions, link, connecting, windows, calls, adjusting>>

\* No answer comes, or that of another command, and the session fails.
AnnounceFails(c) ==
    /\ At(c, "announce") /\ Current(c) \notin Bare
    /\ Fail(caller[c].session)
    /\ Finish(c)
    /\ window' = Kept([window EXCEPT ![caller[c].object].holder = "nobody"], windows, caller')
    /\ UNCHANGED <<binding, sessions, connecting, windows, calls, adjusting>>

-----------------------------------------------------------------------------
(* The clock and the reservation: adjust_time_if_due, reserve              *)

\* Unless the interval since the last adjustment is over, and still is with
\* the lock, the clock is left alone.
KeepClock(c) ==
    /\ At(c, "adjust")
    /\ Goto(c, "reserve")
    /\ UNCHANGED <<binding, sessions, link, connecting, windows, window, calls, adjusting, announced, stray, crossed>>

LockClock(c) ==
    /\ At(c, "adjust")
    /\ adjusting[caller[c].session] = "nobody"
    /\ adjusting' = [adjusting EXCEPT ![caller[c].session] = c]
    /\ Goto(c, "adjusting")
    /\ UNCHANGED <<binding, sessions, link, connecting, windows, window, calls, announced, stray, crossed>>

\* Answered or not, the next adjustment is an interval later.
Adjusted(c) ==
    /\ At(c, "adjusting")
    /\ adjusting' = [adjusting EXCEPT ![caller[c].session] = "nobody"]
    /\ Goto(c, "reserve")
    /\ UNCHANGED <<binding, sessions, link, connecting, windows, window, calls, announced, stray, crossed>>

\* Granted or not, the call is over; or the session fails.  Whose grant it is
\* given is the subject of QuotaLease.
Reserve(c) ==
    /\ At(c, "reserve")
    /\ LET s == caller[c].session
       IN  \/ /\ link[s].state = "open" /\ First(s, Reserved).cmd = "reserve"
              /\ stray' = Behind(s, Reserved)
              /\ UNCHANGED <<link, announced, crossed>>
           \/ Fail(s)
    /\ Finish(c)
    /\ UNCHANGED <<binding, sessions, connecting, windows, window, calls, adjusting>>

-----------------------------------------------------------------------------
(* The environment                                                         *)

\* The stream of a session ends; as long as a server that is gone has not been
\* noticed, the session is as good as any whose next round trip will fail.
Lose(s) ==
    /\ link[s].state = "open"
    /\ Fail(s)
    /\ UNCHANGED <<binding, sessions, connecting, windows, window, caller, calls, adjusting>>

\* The future of a call is dropped where it waits: what it holds is released.
Waiting == {"lock", "connect", "ensure", "initialize", "announce", "adjust", "adjusting", "reserve"}
LetGo(c) ==
    /\ caller[c].at \in Waiting
    /\ connecting' = IF connecting = c THEN "nobody" ELSE connecting
    /\ adjusting' = [s \in SessionIds |-> IF adjusting[s] = c THEN "nobody" ELSE adjusting[s]]
    /\ Finish(c)
    /\ window' = Kept([n \in 1..MaxWindows |-> IF window[n].holder = c THEN [window[n] EXCEPT !.holder = "nobody"]
                                               ELSE window[n]], windows, caller')
    /\ UNCHANGED <<binding, sessions, link, windows, calls, crossed>>

\* Nothing was sent.
DropUnsent(c) == LetGo(c) /\ UNCHANGED <<announced, stray>>

\* The server has the request, and answers nobody.
DropSent(c) ==
    /\ LetGo(c)
    /\ LET s == caller[c].session
       IN  /\ s # 0 /\ link[s].state = "open" /\ Len(stray[s]) < MaxStrays
           /\ \/ /\ At(c, "announce") /\ Current(c) \notin Bare
                 /\ \E own \in {Refused, Number(s, Asks(Current(c)))} :
                      Hears(s, Asks(Current(c)), own) /\ stray' = [stray EXCEPT ![s] = Append(@, own)]
              \/ /\ At(c, "reserve")
                 /\ stray' = [stray EXCEPT ![s] = Append(@, Reserved)]
                 /\ UNCHANGED announced

\* A stray that comes while nobody waits is gone.
Discard(s) ==
    /\ stray[s] # <<>>
    /\ stray' = [stray EXCEPT ![s] = Tail(@)]
    /\ UNCHANGED <<binding, sessions, link, connecting, windows, window, caller, calls, adjusting, announced, crossed>>

Init ==
    /\ binding = [a \in {Affinity(q) : q \in Requests} |-> "none"]
    /\ sessions = [e \in Endpoints |-> 0]
    /\ link = [s \in SessionIds |-> [endpoint |-> "none", state |-> "unused"]]
    /\ connecting = "nobody"
    /\ windows = [k \in WindowKeys |-> 0]
    /\ window = [n \in 1..MaxWindows |-> FreeWindow]
    /\ caller = [c \in Callers |-> Idle] /\ calls = 0
    /\ adjusting = [s \in SessionIds |-> "nobody"]
    /\ announced = [s \in SessionIds |-> <<>>] /\ stray = announced /\ crossed = {}

Advance(c) ==
    \/ Bind(c)
    \/ FindSession(c) \/ LockConnect(c) \/ Connect(c) \/ ConnectFails(c)
    \/ RemoveStale(c) \/ EnterWindow(c)
    \/ EnsureWindow(c) \/ LockWindow(c) \/ NoTotals(c) \/ Announce(c) \/ AnnounceFails(c)
    \/ KeepClock(c) \/ LockClock(c) \/ Adjusted(c) \/ Reserve(c)

Next ==
    \/ \E c \in Callers : Advance(c) \/ \E q \in Requests, view \in Views : Begin(c, q, view)
    \/ \E c \in Callers : DropUnsent(c) \/ DropSent(c)
    \/ \E s \in SessionIds : Lose(s) \/ Discard(s)

Spec == Init /\ [][Next]_vars

\* Every request has a timeout, and the locks are first come, first served.
FairSpec == Spec /\ \A c \in Callers : SF_vars(Advance(c))

-----------------------------------------------------------------------------
(* Properties                                                              *)

\* Every counter a reservation names is one that the server has on the session
\* the reservation is sent on, as long as the server is there; and it is that
\* of the very target and totals that are wanted, unless an Init has taken the
\* answer to a dropped call's: whatever sessions were lost and opened, windows
\* announced, removed or shared, and calls dropped meanwhile.
Charges(c, i) ==
    LET s == caller[c].session
    IN  /\ caller[c].counters[i] \in DOMAIN announced[s]
        /\ s \notin crossed => caller[c].counters[i] \in Heard(s, Asks(caller[c].want[i]))
ChargesOwnCounters ==
    \A c \in {d \in Callers : caller[d].session # 0} :
        link[caller[c].session].state = "open" => \A i \in DOMAIN caller[c].counters : Charges(c, i)

\* Without that exception: the answer to a dropped Init becomes the counter of
\* the next window that is announced, and stays it.
ChargesWanted ==
    \A c \in {d \in Callers : caller[d].session # 0} :
        LET s == caller[c].session
        IN  link[s].state = "open" =>
                \A i \in DOMAIN caller[c].counters :
                    caller[c].counters[i] \in Heard(s, Asks(caller[c].want[i]))

\* However many calls find a server without a session, it gets one that can
\* be used at a time.
OneSessionPerServer ==
    \A s, t \in SessionIds :
        Usable(s) /\ Usable(t) /\ link[s].endpoint = link[t].endpoint => s = t

\* Every call of reserve_many returns, whoever holds or waits for the locks.
ReservationsReturn == \A c \in Callers : []<>At(c, "idle")
=============================================================================
