--------------------------- MODULE Discovery_proof ---------------------------
(***************************************************************************)
(* Proofs about how services are provided and found.  About Provider, for  *)
(* any instances, calls and jobs: an instance that was deregistered gets   *)
(* no heartbeats, and the endpoint says ready when a registration was      *)
(* carried out and not taken back.  About Routing, for any rules and       *)
(* instances and any number of calls: a call ends at an instance that the  *)
(* rules and the lanes it read let it have, calls with one hash key end at *)
(* one, and the policies decide before anything is sent.  About            *)
(* RoundRobin, for any lists and any number of callers: no turn is lost.   *)
(***************************************************************************)
EXTENDS Provider, Routing, RoundRobin, FiniteSetTheorems, WellFoundedInduction, TLAPS

CallRecord == [at : {"idle", "registering", "inserting", "deregistering"},
               of : Instances \cup {"none"}, loop : 0..MaxLoops]
JobRecord == [at : {"idle", "time", "health", "register", "registered", "deregister", "deregistered"},
              of : Instances \cup {"none"}]
Endpoint == [readiness : BOOLEAN, offlineOn : BOOLEAN, registered : BOOLEAN, offline : BOOLEAN]

\* Only a call or a job under way is of an instance.
TypeOK ==
    /\ server \in [Instances -> {"absent", "healthy", "unhealthy"}]
    /\ beat_tasks \in [Instances -> 0..MaxLoops]
    /\ loops \subseteq [id : 1..MaxLoops, of : Instances]
    /\ call \in [Calls -> CallRecord]
    /\ \A c \in Calls : call[c].at = "idle" <=> call[c].of = "none"
    /\ endpoint \in Endpoint
    /\ job \in [Jobs -> JobRecord]
    /\ \A j \in Jobs : job[j].at = "idle" <=> job[j].of = "none"
    /\ acting \subseteq Instances
    /\ acted \in [Instances -> {"none", "register", "deregister"}]
    /\ told \in [Instances -> {"none", "register", "deregister"}]
    /\ orderly \in BOOLEAN /\ crossed \in BOOLEAN

\* Register and deregister are called by the application or by a job.
Begins(c, i) == Register(c, i) \/ Deregister(c, i)

\* A step either is one of a call, a heartbeat or the server; or it begins a
\* call; or it leaves calls, heartbeats and the server alone.
LEMMA Steps ==
  ASSUME TypeOK, [Next]_vars
  PROVE  \/ (\E c \in Calls : Calling(c)) /\ UNCHANGED <<lossless, orderly>>
         \/ (\E n \in 1..MaxLoops : Beat(n)) \/ (\E i \in Instances : Expire(i))
         \/ \E c \in Calls, i \in Instances : Begins(c, i)
         \/ UNCHANGED provider /\ (orderly' => orderly)
  <1>1. ASSUME NEW j \in Jobs, NEW i \in Instances,
               \/ \E rule \in Rules : ScheduleRegister(j, i, rule)
               \/ LosslessRegister(j, i) \/ LosslessDeregister(j, i) \/ OfflineRequest(j, i)
        PROVE  UNCHANGED provider /\ (orderly' => orderly)
    BY <1>1 DEF ScheduleRegister, LosslessRegister, LosslessDeregister, OfflineRequest
  <1>2. ASSUME NEW j \in Jobs, Working(j)
        PROVE  \/ \E c \in Calls, i \in Instances : Begins(c, i)
               \/ UNCHANGED provider /\ (orderly' => orderly)
    <2>1. job[j].at # "idle" => job[j].of \in Instances
      BY DEF TypeOK, JobRecord
    <2>2. DoRegister(j) \/ DoDeregister(j) =>
              (\E c \in Calls, i \in Instances : Begins(c, i)) \/ UNCHANGED <<provider, orderly>>
      BY <2>1 DEF DoRegister, DoDeregister, Acts, Begins
    <2>. QED
      BY <1>2, <2>2 DEF Working, DelayOver, HealthCheck, MarkRegistered, MarkOffline
  <1>3. ASSUME NEW c \in Calls, Calling(c)
        PROVE  UNCHANGED <<lossless, orderly>>
    BY <1>3 DEF Calling, Registered, RegisterFails, InsertTask, Deregistered
  <1>4. ASSUME NEW n \in 1..MaxLoops, BeatFails(n)
        PROVE  UNCHANGED provider /\ (orderly' => orderly)
    BY <1>4 DEF BeatFails, vars, provider
  <1>5. UNCHANGED vars => UNCHANGED provider /\ (orderly' => orderly)
    BY DEF vars, provider
  <1>6. ASSUME NEW i \in Instances, SetActionProvider(i)
        PROVE  UNCHANGED provider /\ (orderly' => orderly)
    BY <1>6 DEF SetActionProvider
  <1>. QED
    BY <1>1, <1>2, <1>3, <1>4, <1>5, <1>6 DEF Next, Begins

-----------------------------------------------------------------------------
(* Heartbeats                                                              *)

LoopIds(i) == {l.id : l \in Beating(i)}

OneOfEachId == \A l, m \in loops : l.id = m.id => l = m

\* As long as the calls for an instance take turns, its task is the one in the
\* map, unless the call has not put it there yet.
TurnsTaken ==
    /\ \A c, d \in Calls : call[c].of = call[d].of /\ call[c].of # "none" => c = d
    /\ \A c \in Calls :
         /\ call[c].at = "registering" => LoopIds(call[c].of) = {} /\ beat_tasks[call[c].of] = 0
         /\ call[c].at = "inserting" => LoopIds(call[c].of) = {call[c].loop} /\ beat_tasks[call[c].of] = 0
                                        /\ call[c].loop # 0
         /\ call[c].at = "deregistering" => LoopIds(call[c].of) = {} /\ beat_tasks[call[c].of] = 0
    /\ \A i \in Instances : Alone(i) => LoopIds(i) = {beat_tasks[i]} \ {0}

BeatInv == OneOfEachId /\ (orderly => TurnsTaken)

LEMMA TypeInit == Init => TypeOK
  <1>1. NoCall \in CallRecord /\ NoJob \in JobRecord /\ NoCall.at = "idle" /\ NoCall.of = "none"
        /\ NoJob.at = "idle" /\ NoJob.of = "none"
    BY ProviderAssumption DEF NoCall, NoJob, CallRecord, JobRecord
  <1>2. Init => endpoint \in Endpoint
    BY DEF Init, NewEndpoint, Endpoint
  <1>3. Init => /\ call \in [Calls -> CallRecord] /\ \A c \in Calls : call[c].at = "idle" /\ call[c].of = "none"
                /\ job \in [Jobs -> JobRecord] /\ \A j \in Jobs : job[j].at = "idle" /\ job[j].of = "none"
    BY <1>1 DEF Init
  <1>4. Init => /\ server \in [Instances -> {"absent", "healthy", "unhealthy"}]
                /\ beat_tasks \in [Instances -> 0..MaxLoops]
                /\ loops \subseteq [id : 1..MaxLoops, of : Instances]
    BY ProviderAssumption DEF Init
  <1>5. Init => /\ acting \subseteq Instances
                /\ acted \in [Instances -> {"none", "register", "deregister"}]
                /\ told \in [Instances -> {"none", "register", "deregister"}]
                /\ orderly \in BOOLEAN /\ crossed \in BOOLEAN
    BY DEF Init
  <1>. QED
    BY <1>2, <1>3, <1>4, <1>5 DEF TypeOK

\* What a call or a job becomes.
LEMMA CallStage ==
  ASSUME TypeOK, NEW c \in Calls, NEW r \in CallRecord, r.at = "idle" <=> r.of = "none",
         call' = [call EXCEPT ![c] = r]
  PROVE  call' \in [Calls -> CallRecord] /\ \A d \in Calls : call'[d].at = "idle" <=> call'[d].of = "none"
  BY DEF TypeOK

LEMMA JobStage ==
  ASSUME TypeOK, NEW j \in Jobs, NEW r \in JobRecord, r.at = "idle" <=> r.of = "none",
         job' = [job EXCEPT ![j] = r]
  PROVE  job' \in [Jobs -> JobRecord] /\ \A k \in Jobs : job'[k].at = "idle" <=> job'[k].of = "none"
  BY DEF TypeOK

LEMMA TypeStep == TypeOK /\ [Next]_vars => TypeOK'
  <1>1. SUFFICES ASSUME TypeOK, [Next]_vars PROVE TypeOK'
    OBVIOUS
  <1>. USE <1>1, ProviderAssumption
  <1>2. NoCall \in CallRecord /\ NoJob \in JobRecord /\ NoCall.at = "idle" /\ NoCall.of = "none"
        /\ NoJob.at = "idle" /\ NoJob.of = "none"
    BY DEF NoCall, NoJob, CallRecord, JobRecord
  <1>3. ASSUME NEW c \in Calls, NEW i \in Instances, Begins(c, i)
        PROVE  /\ server' \in [Instances -> {"absent", "healthy", "unhealthy"}]
               /\ beat_tasks' \in [Instances -> 0..MaxLoops]
               /\ loops' \subseteq [id : 1..MaxLoops, of : Instances]
               /\ call' \in [Calls -> CallRecord]
               /\ \A d \in Calls : call'[d].at = "idle" <=> call'[d].of = "none"
               /\ orderly' \in BOOLEAN
    <2>1. PICK to \in {"registering", "deregistering"} : CallOf(c, to, i)
      BY <1>3 DEF Begins, Register, Deregister
    <2>2. PICK r : r = [NoCall EXCEPT !.at = to, !.of = i]
      OBVIOUS
    <2>3. r \in CallRecord /\ r.at = to /\ r.of = i
      <3>1. r = [at |-> to, of |-> i, loop |-> 0]
        BY <2>2 DEF NoCall
      <3>. QED
        BY <3>1 DEF CallRecord
    <2>4. call' = [call EXCEPT ![c] = r]
      BY <2>1, <2>2 DEF CallOf
    <2>5. call' \in [Calls -> CallRecord] /\ \A d \in Calls : call'[d].at = "idle" <=> call'[d].of = "none"
      BY <2>1, <2>3, <2>4, CallStage
    <2>6. beat_tasks' \in [Instances -> 0..MaxLoops] /\ loops' \subseteq loops /\ server' = server
      BY <1>3 DEF Begins, Register, Deregister, TypeOK
    <2>7. orderly' \in BOOLEAN
      BY <1>3 DEF Begins, Register, Deregister
    <2>. QED
      BY <2>5, <2>6, <2>7 DEF TypeOK
  <1>4. ASSUME NEW c \in Calls, NEW i \in Instances, Begins(c, i), UNCHANGED lossless
        PROVE  TypeOK'
    BY <1>3, <1>4 DEF TypeOK, lossless
  <1>5. ASSUME NEW c \in Calls, Calling(c)
        PROVE  TypeOK'
    <2>1. call[c] \in CallRecord /\ (call[c].at # "idle" => call[c].of \in Instances)
      BY DEF TypeOK, CallRecord
    <2>2. Return(c) => call' \in [Calls -> CallRecord]
                       /\ \A d \in Calls : call'[d].at = "idle" <=> call'[d].of = "none"
      BY <1>2, CallStage DEF Return
    <2>3. CASE Registered(c)
      <3>1. PICK n \in 1..MaxLoops : /\ loops' = loops \cup {[id |-> n, of |-> call[c].of]}
                                     /\ call' = [call EXCEPT ![c].at = "inserting", ![c].loop = n]
        BY <2>3 DEF Registered
      <3>2. PICK r : r = [call[c] EXCEPT !.at = "inserting", !.loop = n]
        OBVIOUS
      <3>3. r = [at |-> "inserting", of |-> call[c].of, loop |-> n]
        BY <2>1, <3>2 DEF CallRecord
      <3>4. r \in CallRecord /\ r.of = call[c].of /\ r.at = "inserting" /\ r.of # "none"
        BY <2>1, <2>3, <3>3 DEF Registered, CallRecord
      <3>5. call' = [call EXCEPT ![c] = r]
        BY <3>1, <3>2 DEF TypeOK
      <3>6. call' \in [Calls -> CallRecord] /\ \A d \in Calls : call'[d].at = "idle" <=> call'[d].of = "none"
        BY <3>4, <3>5, CallStage
      <3>7. server' \in [Instances -> {"absent", "healthy", "unhealthy"}]
        BY <2>3 DEF Registered, TypeOK
      <3>8. loops' \subseteq [id : 1..MaxLoops, of : Instances]
        BY <2>1, <2>3, <3>1 DEF Registered, TypeOK
      <3>. QED
        BY <2>3, <3>6, <3>7, <3>8 DEF Registered, TypeOK, lossless
    <2>4. CASE RegisterFails(c)
      <3>1. server' \in [Instances -> {"absent", "healthy", "unhealthy"}]
        <4>1. PICK w : server' = [server EXCEPT ![call[c].of] = w] /\ w \in {server[call[c].of], "healthy", "absent"}
          BY <2>4 DEF RegisterFails
        <4>2. server \in [Instances -> {"absent", "healthy", "unhealthy"}] /\ call[c].of \in Instances
          BY <2>1, <2>4 DEF RegisterFails, TypeOK
        <4>3. w \in {"absent", "healthy", "unhealthy"}
          BY <4>1, <4>2
        <4>. QED
          BY <4>1, <4>2, <4>3
      <3>2. Return(c) /\ UNCHANGED <<beat_tasks, loops, endpoint, job, acting, acted, told, orderly, crossed>>
        BY <2>4 DEF RegisterFails, lossless
      <3>. QED
        BY <2>2, <3>1, <3>2 DEF TypeOK
    <2>5. CASE InsertTask(c)
      <3>1. beat_tasks' \in [Instances -> 0..MaxLoops]
        BY <2>1, <2>5 DEF InsertTask, TypeOK, CallRecord
      <3>. QED
        BY <2>2, <2>5, <3>1 DEF InsertTask, TypeOK, lossless
    <2>6. CASE Deregistered(c)
      <3>1. server' \in [Instances -> {"absent", "healthy", "unhealthy"}]
        <4>1. PICK w : server' = [server EXCEPT ![call[c].of] = w] /\ w \in {server[call[c].of], "healthy", "absent"}
          BY <2>6 DEF Deregistered
        <4>2. server \in [Instances -> {"absent", "healthy", "unhealthy"}] /\ call[c].of \in Instances
          BY <2>1, <2>6 DEF Deregistered, TypeOK
        <4>3. w \in {"absent", "healthy", "unhealthy"}
          BY <4>1, <4>2
        <4>. QED
          BY <4>1, <4>2, <4>3
      <3>2. Return(c) /\ UNCHANGED <<beat_tasks, loops, endpoint, job, acting, acted, told, orderly, crossed>>
        BY <2>6 DEF Deregistered, lossless
      <3>. QED
        BY <2>2, <3>1, <3>2 DEF TypeOK
    <2>. QED
      BY <1>5, <2>3, <2>4, <2>5, <2>6 DEF Calling
  <1>6. ASSUME NEW n \in 1..MaxLoops, Beat(n) \/ BeatFails(n)
        PROVE  TypeOK'
    BY <1>6 DEF Beat, BeatFails, TypeOK, lossless, vars
  <1>7. ASSUME NEW i \in Instances, Expire(i)
        PROVE  TypeOK'
    BY <1>7 DEF Expire, TypeOK, lossless
  <1>8. ASSUME NEW j \in Jobs, NEW i \in Instances,
               \/ \E rule \in Rules : ScheduleRegister(j, i, rule)
               \/ LosslessRegister(j, i) \/ LosslessDeregister(j, i) \/ OfflineRequest(j, i)
        PROVE  TypeOK'
    <2>1. PICK to \in {"time", "health", "register", "deregister"} : JobOf(j, to, i)
      BY <1>8 DEF ScheduleRegister, LosslessRegister, LosslessDeregister, OfflineRequest
    <2>2. [at |-> to, of |-> i] \in JobRecord
      BY DEF JobRecord
    <2>3. job' \in [Jobs -> JobRecord] /\ \A k \in Jobs : job'[k].at = "idle" <=> job'[k].of = "none"
      BY <2>1, <2>2, JobStage DEF JobOf
    <2>4. endpoint' \in Endpoint
      <3>1. ASSUME NEW rule \in Rules PROVE NewEndpoint(rule) \in Endpoint
        <4>1. rule.readiness \in BOOLEAN /\ rule.offline \in BOOLEAN /\ (~rule.readiness) \in BOOLEAN
          OBVIOUS
        <4>. QED
          BY <4>1 DEF NewEndpoint, Endpoint
      <3>2. MarkedOffline \in Endpoint
        BY DEF MarkedOffline, Endpoint, TypeOK
      <3>. QED
        BY <1>8, <3>1, <3>2 DEF ScheduleRegister, LosslessRegister, LosslessDeregister, OfflineRequest, TypeOK
    <2>5. UNCHANGED <<provider, actions, orderly>>
      BY <1>8 DEF ScheduleRegister, LosslessRegister, LosslessDeregister, OfflineRequest
    <2>. QED
      BY <2>3, <2>4, <2>5 DEF TypeOK, provider, actions
  <1>9. ASSUME NEW j \in Jobs, Working(j)
        PROVE  TypeOK'
    <2>1. job[j] \in JobRecord /\ (job[j].at # "idle" => job[j].of \in Instances)
      BY DEF TypeOK, JobRecord
    <2>2. \A to \in {"register", "health", "registered", "deregistered"} : job[j].at # "idle" /\ Continue(j, to) =>
              job' \in [Jobs -> JobRecord] /\ \A k \in Jobs : job'[k].at = "idle" <=> job'[k].of = "none"
      BY <2>1 DEF Continue, TypeOK, JobRecord
    <2>3. job' = [job EXCEPT ![j] = NoJob] =>
              job' \in [Jobs -> JobRecord] /\ \A k \in Jobs : job'[k].at = "idle" <=> job'[k].of = "none"
      BY <1>2, JobStage
    <2>4. CASE DelayOver(j)
      BY <2>2, <2>4 DEF DelayOver, TypeOK, provider, actions
    <2>5. CASE HealthCheck(j)
      BY <2>2, <2>5 DEF HealthCheck, TypeOK, provider, actions
    <2>6. CASE MarkRegistered(j)
      BY <2>3, <2>6 DEF MarkRegistered, MarkedRegistered, Endpoint, TypeOK, provider, actions
    <2>7. CASE MarkOffline(j)
      BY <2>3, <2>7 DEF MarkOffline, MarkedOffline, Endpoint, TypeOK, provider, actions
    <2>8. ASSUME NEW what \in {"register", "deregister"}, job[j].at # "idle",
                 Acts(j, what, Register) \/ Acts(j, what, Deregister)
          PROVE  /\ server' \in [Instances -> {"absent", "healthy", "unhealthy"}]
                 /\ beat_tasks' \in [Instances -> 0..MaxLoops]
                 /\ loops' \subseteq [id : 1..MaxLoops, of : Instances]
                 /\ call' \in [Calls -> CallRecord]
                 /\ \A c \in Calls : call'[c].at = "idle" <=> call'[c].of = "none"
                 /\ endpoint' \in Endpoint /\ acting' \subseteq Instances
                 /\ acted' \in [Instances -> {"none", "register", "deregister"}]
                 /\ told' \in [Instances -> {"none", "register", "deregister"}]
                 /\ orderly' \in BOOLEAN /\ crossed' \in BOOLEAN
      <3>1. PICK i \in Instances : i = job[j].of
        BY <2>1, <2>8
      <3>2. acted' = [acted EXCEPT ![i] = what] /\ (told' = told \/ told' = [told EXCEPT ![i] = what])
        BY <2>8, <3>1 DEF Acts
      <3>3. /\ acted' \in [Instances -> {"none", "register", "deregister"}]
            /\ told' \in [Instances -> {"none", "register", "deregister"}]
        BY <3>1, <3>2 DEF TypeOK
      <3>4. endpoint' \in Endpoint /\ acting' \subseteq Instances /\ crossed' \in BOOLEAN
        BY <2>8 DEF Acts, Crosses, TypeOK
      <3>5. (\E c \in Calls : Begins(c, i)) \/ UNCHANGED <<provider, orderly>>
        BY <2>8, <3>1 DEF Acts, Begins
      <3>6. CASE \E c \in Calls : Begins(c, i)
        BY <3>3, <3>4, <3>6, <1>3
      <3>7. CASE UNCHANGED <<provider, orderly>>
        BY <3>3, <3>4, <3>7 DEF provider, TypeOK
      <3>. QED
        BY <3>5, <3>6, <3>7
    <2>9. CASE DoRegister(j) \/ DoDeregister(j)
      <3>1. job' \in [Jobs -> JobRecord] /\ \A k \in Jobs : job'[k].at = "idle" <=> job'[k].of = "none"
        BY <2>2, <2>9 DEF DoRegister, DoDeregister
      <3>2. /\ job[j].at # "idle"
            /\ \E what \in {"register", "deregister"} : Acts(j, what, Register) \/ Acts(j, what, Deregister)
        BY <2>9 DEF DoRegister, DoDeregister
      <3>. QED
        BY <3>1, <3>2, <2>8 DEF TypeOK
    <2>. QED
      BY <1>9, <2>4, <2>5, <2>6, <2>7, <2>9 DEF Working
  <1>10. CASE UNCHANGED vars
    BY <1>10 DEF vars, TypeOK
  <1>11. ASSUME NEW i \in Instances, SetActionProvider(i)
         PROVE  TypeOK'
    BY <1>11 DEF SetActionProvider, TypeOK, provider
  <1>. QED
    BY <1>4, <1>5, <1>6, <1>7, <1>8, <1>9, <1>10, <1>11 DEF Next, Begins

\* Every step of the calls, the heartbeats and the jobs keeps the types of the
\* provider's state, and what is under way is of an instance.
THEOREM TypeCorrect == Spec => []TypeOK
  BY TypeInit, TypeStep, PTL DEF Spec

-----------------------------------------------------------------------------
LEMMA BeatInit == Init => BeatInv
  BY ProviderAssumption DEF Init, BeatInv, OneOfEachId, TurnsTaken, LoopIds, Beating, Alone, NoCall

LEMMA BeatStep == TypeOK /\ BeatInv /\ [Next]_vars => BeatInv'
  <1>1. SUFFICES ASSUME TypeOK, BeatInv, [Next]_vars PROVE BeatInv'
    OBVIOUS
  <1>2. /\ call \in [Calls -> CallRecord] /\ beat_tasks \in [Instances -> 0..MaxLoops]
        /\ loops \subseteq [id : 1..MaxLoops, of : Instances]
        /\ \A c \in Calls : call[c].at = "idle" <=> call[c].of = "none"
    BY <1>1 DEF TypeOK
  <1>3. NoCall.at = "idle" /\ NoCall.of = "none"
    BY DEF NoCall
  <1>. USE ProviderAssumption
  <1>4. ASSUME UNCHANGED <<beat_tasks, loops, call>>, orderly' => orderly
        PROVE  BeatInv'
    BY <1>1, <1>4 DEF BeatInv, OneOfEachId, TurnsTaken, LoopIds, Beating, Alone
  <1>5. ASSUME NEW c \in Calls, NEW i \in Instances, Begins(c, i)
        PROVE  BeatInv'
    <2>1. loops' \subseteq loops
      BY <1>5 DEF Begins, Register, Deregister
    <2>2. OneOfEachId'
      BY <2>1, <1>1 DEF BeatInv, OneOfEachId
    <2>3. ASSUME orderly'
          PROVE  TurnsTaken'
      <3>1. orderly /\ Alone(i) /\ TurnsTaken /\ call[c].at = "idle"
        BY <1>1, <1>5, <2>3 DEF Begins, Register, Deregister, BeatInv
      <3>2. LoopIds(i) = {beat_tasks[i]} \ {0}
        BY <3>1 DEF TurnsTaken
      <3>3. LoopIds(i)' = {} /\ beat_tasks'[i] = 0
        <4>1. CASE Register(c, i)
          BY <4>1, <2>3, <3>2 DEF Register, LoopIds, Beating
        <4>2. CASE Deregister(c, i)
          BY <4>2, <3>2, <1>2 DEF Deregister, LoopIds, Beating
        <4>. QED
          BY <4>1, <4>2, <1>5 DEF Begins
      <3>4. ASSUME NEW k \in Instances \ {i}
            PROVE  LoopIds(k)' = LoopIds(k) /\ beat_tasks'[k] = beat_tasks[k]
        <4>1. CASE Register(c, i)
          BY <4>1 DEF Register, LoopIds, Beating
        <4>2. CASE Deregister(c, i)
          <5>1. \A l \in loops : l.id = beat_tasks[i] => l.of = i
            <6>1. beat_tasks[i] = 0 \/ \E m \in loops : m.id = beat_tasks[i] /\ m.of = i
              BY <3>2 DEF LoopIds, Beating
            <6>. QED
              BY <6>1, <1>1, <1>2 DEF BeatInv, OneOfEachId
          <5>. QED
            BY <4>2, <5>1, <1>2 DEF Deregister, LoopIds, Beating
        <4>. QED
          BY <4>1, <4>2, <1>5 DEF Begins
      <3>5. /\ \A d \in Calls \ {c} : call'[d] = call[d] /\ call[d].of # i
            /\ call'[c].of = i /\ call'[c].at \in {"registering", "deregistering"}
        <4>1. \A to : CallOf(c, to, i) => call'[c].of = i /\ call'[c].at = to /\ \A d \in Calls \ {c} : call'[d] = call[d]
          BY <1>2 DEF CallOf, NoCall
        <4>. QED
          BY <4>1, <3>1, <1>5 DEF Begins, Register, Deregister, Alone
      <3>6. \A d \in Calls : call[d].at # "idle" => call[d].of \in Instances
        BY <1>2 DEF CallRecord
      <3>7. \A d, e \in Calls : call'[d].of = call'[e].of /\ call'[d].of # "none" => d = e
        BY <3>1, <3>5 DEF TurnsTaken
      <3>8. ASSUME NEW d \in Calls
            PROVE  /\ call'[d].at = "registering" => LoopIds(call[d].of)' = {} /\ beat_tasks'[call'[d].of] = 0
                   /\ call'[d].at = "inserting" => LoopIds(call[d].of)' = {call'[d].loop} /\ call'[d].loop # 0
                                                  /\ beat_tasks'[call'[d].of] = 0
                   /\ call'[d].at = "deregistering" => LoopIds(call[d].of)' = {} /\ beat_tasks'[call'[d].of] = 0
        <4>1. CASE d = c
          BY <4>1, <3>3, <3>5 DEF LoopIds, Beating
        <4>2. CASE d # c
          <5>1. call'[d] = call[d] /\ call[d].of # i
            BY <4>2, <3>5
          <5>2. CASE call[d].at = "idle"
            BY <5>1, <5>2
          <5>3. CASE call[d].at # "idle"
            <6>1. PICK k \in Instances \ {i} : k = call[d].of
              BY <5>1, <5>3, <3>6
            <6>2. LoopIds(call[d].of)' = LoopIds(call[d].of) /\ beat_tasks'[call[d].of] = beat_tasks[call[d].of]
              BY <6>1, <5>1, <3>4 DEF LoopIds, Beating
            <6>. QED
              BY <6>2, <5>1, <3>1 DEF TurnsTaken
          <5>. QED
            BY <5>2, <5>3
        <4>. QED
          BY <4>1, <4>2
      <3>9. ASSUME NEW k \in Instances, Alone(k)'
            PROVE  LoopIds(k)' = {beat_tasks'[k]} \ {0}
        <4>1. k # i /\ Alone(k)
          BY <3>1, <3>5, <3>9, <1>2 DEF Alone
        <4>. QED
          BY <4>1, <3>1, <3>4 DEF TurnsTaken
      <3>. QED
        BY <3>7, <3>8, <3>9 DEF TurnsTaken
    <2>. QED
      BY <2>2, <2>3 DEF BeatInv
  \* What a call under way does is about its own instance.
  <1>9. ASSUME NEW c \in Calls, call[c].at # "idle", orderly, NEW i, i = call[c].of,
               \A d \in Calls \ {c} : call'[d] = call[d],
               \A k \in Instances \ {i} : LoopIds(k)' = LoopIds(k) /\ beat_tasks'[k] = beat_tasks[k],
               \/ call'[c] = NoCall /\ LoopIds(i)' = {beat_tasks'[i]} \ {0}
               \/ /\ call'[c].at = "inserting" /\ call'[c].of = i /\ call'[c].loop # 0
                  /\ LoopIds(i)' = {call'[c].loop} /\ beat_tasks'[i] = 0
        PROVE  TurnsTaken'
    <2>1. TurnsTaken /\ i \in Instances
      BY <1>1, <1>2, <1>9 DEF BeatInv, CallRecord
    <2>2. \A d \in Calls \ {c} : call[d].of # i
      BY <2>1, <1>9 DEF TurnsTaken
    <2>3. call'[c].of \in {"none", i}
      BY <1>3, <1>9
    <2>4. \A d, e \in Calls : call'[d].of = call'[e].of /\ call'[d].of # "none" => d = e
      BY <2>1, <2>2, <2>3, <1>9 DEF TurnsTaken
    <2>5. ASSUME NEW d \in Calls
          PROVE  /\ call'[d].at = "registering" => LoopIds(call[d].of)' = {} /\ beat_tasks'[call'[d].of] = 0
                 /\ call'[d].at = "inserting" => LoopIds(call[d].of)' = {call'[d].loop} /\ call'[d].loop # 0
                                                /\ beat_tasks'[call'[d].of] = 0
                 /\ call'[d].at = "deregistering" => LoopIds(call[d].of)' = {} /\ beat_tasks'[call'[d].of] = 0
      <3>1. CASE d = c
        BY <3>1, <1>3, <1>9 DEF LoopIds, Beating
      <3>2. CASE d # c
        <4>1. call'[d] = call[d] /\ call[d].of # i
          BY <3>2, <2>2, <1>9
        <4>2. CASE call[d].at = "idle"
          BY <4>1, <4>2
        <4>3. CASE call[d].at # "idle"
          <5>1. PICK k \in Instances \ {i} : k = call[d].of
            BY <4>1, <4>3, <1>2 DEF CallRecord
          <5>2. LoopIds(call[d].of)' = LoopIds(call[d].of) /\ beat_tasks'[call[d].of] = beat_tasks[call[d].of]
            BY <5>1, <4>1, <1>9 DEF LoopIds, Beating
          <5>. QED
            BY <5>2, <4>1, <2>1 DEF TurnsTaken
        <4>. QED
          BY <4>2, <4>3
      <3>. QED
        BY <3>1, <3>2
    <2>6. ASSUME NEW k \in Instances, Alone(k)'
          PROVE  LoopIds(k)' = {beat_tasks'[k]} \ {0}
      <3>1. CASE k = i
        BY <3>1, <2>6, <1>9 DEF Alone
      <3>2. CASE k # i
        <4>1. Alone(k)
          BY <3>2, <2>6, <1>9 DEF Alone
        <4>. QED
          BY <3>2, <4>1, <2>1, <1>9 DEF TurnsTaken
      <3>. QED
        BY <3>1, <3>2
    <2>. QED
      BY <2>4, <2>5, <2>6 DEF TurnsTaken
  <1>6. ASSUME NEW c \in Calls, Calling(c), orderly' = orderly
        PROVE  BeatInv'
    <2>1. PICK i : i = call[c].of
      OBVIOUS
    <2>2. Return(c) => call'[c] = NoCall /\ \A d \in Calls \ {c} : call'[d] = call[d]
      BY <1>2 DEF Return
    <2>3. CASE Registered(c)
      <3>1. PICK n \in 1..MaxLoops : /\ \A l \in loops : l.id # n
                                     /\ loops' = loops \cup {[id |-> n, of |-> i]}
                                     /\ call' = [call EXCEPT ![c].at = "inserting", ![c].loop = n]
        BY <2>1, <2>3 DEF Registered
      <3>2. OneOfEachId'
        BY <3>1, <1>1 DEF BeatInv, OneOfEachId
      <3>3. ASSUME orderly
            PROVE  TurnsTaken'
        <4>1. LoopIds(i) = {} /\ beat_tasks[i] = 0 /\ UNCHANGED beat_tasks
          BY <2>1, <2>3, <3>3, <1>1 DEF Registered, BeatInv, TurnsTaken
        <4>2. LoopIds(i)' = {n}
          <5>1. \A l \in loops : l.of # i
            BY <4>1 DEF LoopIds, Beating
          <5>2. Beating(i)' = {[id |-> n, of |-> i]}
            BY <3>1, <5>1 DEF Beating
          <5>. QED
            BY <5>2 DEF LoopIds
        <4>3. \A k \in Instances \ {i} : LoopIds(k)' = LoopIds(k)
          BY <3>1 DEF LoopIds, Beating
        <4>4. call'[c].at = "inserting" /\ call'[c].of = i /\ call'[c].loop = n
              /\ \A d \in Calls \ {c} : call'[d] = call[d]
          BY <3>1, <2>1, <1>2 DEF CallRecord
        <4>5. call[c].at # "idle" /\ n # 0
          BY <2>3 DEF Registered
        <4>6. LoopIds(i)' = {call'[c].loop} /\ beat_tasks'[i] = 0 /\ call'[c].loop # 0
          BY <4>1, <4>2, <4>4, <4>5
        <4>7. \A k \in Instances \ {i} : LoopIds(k)' = LoopIds(k) /\ beat_tasks'[k] = beat_tasks[k]
          BY <4>1, <4>3
        <4>. QED
          BY <4>4, <4>5, <4>6, <4>7, <2>1, <3>3, <1>9
      <3>. QED
        BY <3>2, <3>3, <1>6 DEF BeatInv
    <2>4. CASE RegisterFails(c) \/ Deregistered(c)
      <3>1. UNCHANGED <<beat_tasks, loops>> /\ call[c].at \in {"registering", "deregistering"} /\ Return(c)
        BY <2>4 DEF RegisterFails, Deregistered
      <3>2. OneOfEachId'
        BY <3>1, <1>1 DEF BeatInv, OneOfEachId
      <3>3. ASSUME orderly
            PROVE  TurnsTaken'
        <4>1. LoopIds(i) = {} /\ beat_tasks[i] = 0
          BY <2>1, <3>1, <3>3, <1>1 DEF BeatInv, TurnsTaken
        <4>2. \A k : LoopIds(k)' = LoopIds(k)
          BY <3>1 DEF LoopIds, Beating
        <4>. QED
          BY <4>1, <4>2, <2>1, <2>2, <3>1, <3>3, <1>9
      <3>. QED
        BY <3>2, <3>3, <1>6 DEF BeatInv
    <2>5. CASE InsertTask(c)
      <3>1. /\ beat_tasks' = [beat_tasks EXCEPT ![i] = call[c].loop] /\ UNCHANGED loops
            /\ call[c].at = "inserting" /\ Return(c)
        BY <2>1, <2>5 DEF InsertTask
      <3>2. OneOfEachId'
        BY <3>1, <1>1 DEF BeatInv, OneOfEachId
      <3>3. ASSUME orderly
            PROVE  TurnsTaken'
        <4>1. LoopIds(i) = {call[c].loop} /\ call[c].loop # 0
          BY <2>1, <3>1, <3>3, <1>1 DEF BeatInv, TurnsTaken
        <4>2. \A k : LoopIds(k)' = LoopIds(k)
          BY <3>1 DEF LoopIds, Beating
        <4>3. i \in Instances
          BY <2>1, <3>1, <1>2 DEF CallRecord
        <4>4. beat_tasks'[i] = call[c].loop /\ \A k \in Instances \ {i} : beat_tasks'[k] = beat_tasks[k]
          BY <3>1, <4>3, <1>2
        <4>. QED
          BY <4>1, <4>2, <4>4, <2>1, <2>2, <3>1, <3>3, <1>9
      <3>. QED
        BY <3>2, <3>3, <1>6 DEF BeatInv
    <2>. QED
      BY <1>6, <2>3, <2>4, <2>5 DEF Calling
  <1>7. (\E n \in 1..MaxLoops : Beat(n)) \/ (\E i \in Instances : Expire(i)) => BeatInv'
    BY <1>4 DEF Beat, Expire
  <1>8. UNCHANGED provider /\ (orderly' => orderly) => BeatInv'
    BY <1>4 DEF provider
  <1>. QED
    BY <1>1, <1>5, <1>6, <1>7, <1>8, Steps

\* As long as the calls for an instance take turns, and nobody registers what
\* is registered, the heartbeat tasks of an instance without a call are the
\* one in beat_tasks: deregister leaves nothing that beats.
THEOREM NoStray == Spec => []NoStrayBeats
  <1>1. BeatInv => NoStrayBeats
    BY DEF BeatInv, TurnsTaken, NoStrayBeats, LoopIds
  <1>. QED
    BY <1>1, TypeInit, TypeStep, BeatInit, BeatStep, PTL DEF Spec

-----------------------------------------------------------------------------
(* Lossless online and offline                                             *)

\* A job that has carried the registration out, and not yet marked the endpoint,
\* is of an instance something was done for; an action provider that was told
\* anything was told what was done last.  And as long as no job acts while another
\* is about to mark the endpoint, what the endpoint says is what was done last for
\* some instance, but between the deregistration and the mark.
JobInv ==
    /\ \A j \in Jobs : job[j].at = "registered" => acted[job[j].of] # "none"
    /\ endpoint.readiness /\ endpoint.registered => \E i \in Instances : acted[i] # "none"
    /\ \A i \in Instances : told[i] = "none" \/ (i \in acting /\ told[i] = acted[i])
    /\ ~crossed =>
         /\ \A j, k \in Jobs : job[j].at \in Marking /\ job[k].at \in Marking => j = k
         /\ \A j \in Jobs : job[j].at = "registered" => acted[job[j].of] = "register"
         /\ Ready /\ (\A j \in Jobs : job[j].at # "deregistered") => \E i \in Instances : acted[i] = "register"

LEMMA JobInit == Init => JobInv
  BY DEF Init, JobInv, NewEndpoint, NoJob, Ready, Marking

LEMMA JobStep == TypeOK /\ JobInv /\ [Next]_vars => JobInv'
  <1>1. SUFFICES ASSUME TypeOK, JobInv, [Next]_vars PROVE JobInv'
    OBVIOUS
  <1>2. /\ job \in [Jobs -> JobRecord] /\ acted \in [Instances -> {"none", "register", "deregister"}]
        /\ told \in [Instances -> {"none", "register", "deregister"}]
        /\ endpoint \in Endpoint
        /\ \A j \in Jobs : job[j].at # "idle" => job[j].of \in Instances
    BY <1>1 DEF TypeOK, JobRecord
  <1>3. ASSUME UNCHANGED lossless
        PROVE  JobInv'
    BY <1>1, <1>3 DEF JobInv, lossless, Ready, Marking
  \* A job that does not act and is not about to mark the endpoint, and an endpoint
  \* that it left alone or made say it is not ready.
  <1>11. ASSUME NEW j \in Jobs, UNCHANGED actions, job'[j].at \notin Marking,
                \A k \in Jobs \ {j} : job'[k] = job[k],
                \/ endpoint' = endpoint /\ job[j].at # "deregistered"
                \/ endpoint'.readiness = FALSE \/ endpoint'.registered = FALSE
         PROVE  JobInv'
    <2>1. \A k \in Jobs : job'[k].at \in Marking => k # j /\ job'[k] = job[k]
      BY <1>11
    <2>2. endpoint'.readiness /\ endpoint'.registered => endpoint' = endpoint /\ job[j].at # "deregistered"
      BY <1>11
    <2>3. \A k \in Jobs : job'[k].at = "registered" => job'[k] = job[k]
      BY <2>1 DEF Marking
    <2>4. /\ Ready' => Ready /\ endpoint' = endpoint
          /\ Ready' /\ (\A k \in Jobs : job'[k].at # "deregistered") => \A k \in Jobs : job[k].at # "deregistered"
      BY <2>2, <1>11 DEF Ready
    <2>5. acted' = acted /\ told' = told /\ acting' = acting /\ crossed' = crossed
      BY <1>11 DEF actions
    <2>. QED
      BY <2>1, <2>2, <2>3, <2>4, <2>5, <1>1 DEF JobInv
  <1>4. ASSUME NEW j \in Jobs, NEW i \in Instances,
               \/ \E rule \in Rules : ScheduleRegister(j, i, rule)
               \/ LosslessRegister(j, i) \/ LosslessDeregister(j, i) \/ OfflineRequest(j, i)
        PROVE  JobInv'
    <2>1. PICK to \in {"time", "health", "register", "deregister"} : JobOf(j, to, i)
      BY <1>4, ProviderAssumption DEF ScheduleRegister, LosslessRegister, LosslessDeregister, OfflineRequest
    <2>2. job[j].at = "idle" /\ UNCHANGED actions
      BY <1>4 DEF ScheduleRegister, LosslessRegister, LosslessDeregister, OfflineRequest
    <2>3. job'[j].at \notin Marking /\ \A k \in Jobs \ {j} : job'[k] = job[k]
      BY <2>1, <1>2 DEF JobOf, Marking
    <2>4. endpoint' = endpoint \/ endpoint'.readiness = FALSE \/ endpoint'.registered = FALSE
      <3>1. ASSUME NEW rule \in Rules, ScheduleRegister(j, i, rule)
            PROVE  endpoint'.readiness = FALSE \/ endpoint'.registered = FALSE
        <4>1. rule.readiness \in BOOLEAN
          BY ProviderAssumption
        <4>2. endpoint'.readiness = rule.readiness /\ endpoint'.registered = ~rule.readiness
          BY <3>1 DEF ScheduleRegister, NewEndpoint
        <4>. QED
          BY <4>1, <4>2
      <3>2. OfflineRequest(j, i) => endpoint'.registered = FALSE
        BY <1>2 DEF OfflineRequest, MarkedOffline, Endpoint
      <3>. QED
        BY <1>4, <3>1, <3>2 DEF LosslessRegister, LosslessDeregister
    <2>. QED
      BY <2>2, <2>3, <2>4, <1>11
  \* A job that acts, and is to mark the endpoint.
  <1>12. ASSUME NEW j \in Jobs, NEW what \in {"register", "deregister"}, NEW to \in Marking,
                job[j].at \in {"register", "deregister"}, what = "register" <=> to = "registered",
                Acts(j, what, Register) \/ Acts(j, what, Deregister), Continue(j, to)
         PROVE  JobInv'
    <2>1. PICK i \in Instances : i = job[j].of
      BY <1>2, <1>12
    <2>2. acted'[i] = what /\ \A k \in Instances \ {i} : acted'[k] = acted[k]
      BY <2>1, <1>2, <1>12 DEF Acts
    <2>3. job'[j] = [at |-> to, of |-> i] /\ \A k \in Jobs \ {j} : job'[k] = job[k]
      BY <2>1, <1>2, <1>12 DEF Continue, JobRecord
    <2>4. acting' = acting /\ endpoint' = endpoint
      BY <1>12 DEF Acts
    <2>5. \A k \in Instances : told'[k] = "none" \/ (k \in acting' /\ told'[k] = acted'[k])
      <3>1. CASE i \in acting
        <4>1. told'[i] = what /\ \A k \in Instances \ {i} : told'[k] = told[k]
          BY <3>1, <2>1, <1>2, <1>12 DEF Acts
        <4>. QED
          BY <4>1, <3>1, <2>2, <2>4, <1>1 DEF JobInv
      <3>2. CASE i \notin acting
        <4>1. told' = told
          BY <3>2, <2>1, <1>12 DEF Acts
        <4>2. told[i] = "none"
          BY <3>2, <1>1 DEF JobInv
        <4>. QED
          BY <4>1, <4>2, <2>2, <2>4, <1>1 DEF JobInv
      <3>. QED
        BY <3>1, <3>2
    <2>6. ~crossed' => ~crossed /\ \A k \in Jobs \ {j} : job[k].at \notin Marking
      BY <1>12 DEF Acts, Crosses
    <2>7. \A k \in Jobs : job'[k].at = "registered" => acted'[job'[k].of] # "none"
      <3>1. what # "none"
        OBVIOUS
      <3>2. ASSUME NEW k \in Jobs \ {j}, job[k].at = "registered"
            PROVE  acted'[job[k].of] # "none"
        <4>1. job[k].of \in Instances /\ acted[job[k].of] # "none"
          BY <3>2, <1>1, <1>2 DEF JobInv
        <4>. QED
          BY <4>1, <3>1, <2>2
      <3>. QED
        BY <3>1, <3>2, <2>2, <2>3
    <2>8. ~crossed' => /\ \A k \in Jobs : job'[k].at \in Marking => k = j
                       /\ to = "registered" => acted'[i] = "register"
      BY <2>2, <2>3, <2>6, <1>12
    <2>9. \A k \in Jobs : job'[k].at = "registered" => job'[k].at \in Marking
      BY DEF Marking
    <2>10. to = "deregistered" => job'[j].at = "deregistered"
      BY <2>3
    <2>11. to \in {"registered", "deregistered"}
      BY DEF Marking
    <2>12. (\E k \in Instances : acted[k] # "none") => \E k \in Instances : acted'[k] # "none"
      BY <2>2
    <2>13. ~crossed' => \A k \in Jobs : job'[k].at = "registered" => acted'[job'[k].of] = "register"
      BY <2>3, <2>8, <2>9
    <2>14. ~crossed' => \A k, l \in Jobs : job'[k].at \in Marking /\ job'[l].at \in Marking => k = l
      BY <2>8
    <2>15. ~crossed' /\ Ready' /\ (\A k \in Jobs : job'[k].at # "deregistered") =>
               \E k \in Instances : acted'[k] = "register"
      BY <2>8, <2>10, <2>11
    <2>16. endpoint'.readiness /\ endpoint'.registered => \E k \in Instances : acted'[k] # "none"
      BY <2>4, <2>12, <1>1 DEF JobInv
    <2>. QED
      BY <2>5, <2>7, <2>13, <2>14, <2>15, <2>16 DEF JobInv, Marking
  <1>5. ASSUME NEW j \in Jobs, Working(j)
        PROVE  JobInv'
    <2>1. job[j].at # "idle" => job[j].of \in Instances
      BY <1>2
    <2>2. CASE DelayOver(j) \/ HealthCheck(j)
      <3>1. PICK to \in {"register", "health"} : Continue(j, to)
        BY <2>2 DEF DelayOver, HealthCheck
      <3>2. /\ job'[j].at \notin Marking /\ job[j].at # "deregistered"
            /\ \A k \in Jobs \ {j} : job'[k] = job[k]
        BY <2>2, <3>1, <1>2 DEF DelayOver, HealthCheck, Continue, JobRecord, Marking
      <3>3. UNCHANGED <<endpoint, actions>>
        BY <2>2 DEF DelayOver, HealthCheck
      <3>. QED
        BY <3>2, <3>3, <1>11
    <2>3. CASE DoRegister(j)
      <3>1. job[j].at = "register" /\ Acts(j, "register", Register) /\ Continue(j, "registered")
        BY <2>3 DEF DoRegister
      <3>. QED
        BY <3>1, <1>12 DEF Marking
    <2>4. CASE DoDeregister(j)
      <3>1. job[j].at = "deregister" /\ Acts(j, "deregister", Deregister) /\ Continue(j, "deregistered")
        BY <2>4 DEF DoDeregister
      <3>. QED
        BY <3>1, <1>12 DEF Marking
    <2>5. CASE MarkRegistered(j)
      <3>1. /\ job'[j].at = "idle" /\ (\A k \in Jobs \ {j} : job'[k] = job[k])
            /\ acted' = acted /\ told' = told /\ acting' = acting /\ crossed' = crossed
        BY <2>5, <1>2 DEF MarkRegistered, NoJob, actions
      <3>2. /\ \A k \in Jobs : job'[k].at \in Marking => k # j /\ job'[k] = job[k]
            /\ \A k \in Jobs : job'[k].at = "registered" => job'[k].at \in Marking
        BY <3>1 DEF Marking
      <3>3. job[j].at = "registered" /\ job[j].of \in Instances
        BY <2>1, <2>5 DEF MarkRegistered
      <3>4. acted[job[j].of] # "none" /\ (~crossed => acted[job[j].of] = "register")
        BY <3>3, <1>1 DEF JobInv
      <3>5. /\ \A k \in Jobs : job'[k].at = "registered" => acted'[job'[k].of] # "none"
            /\ ~crossed => \A k \in Jobs : job'[k].at = "registered" => acted'[job'[k].of] = "register"
            /\ ~crossed => \A k, l \in Jobs : job'[k].at \in Marking /\ job'[l].at \in Marking => k = l
        BY <3>1, <3>2, <1>1 DEF JobInv
      <3>. QED
        BY <3>1, <3>3, <3>4, <3>5, <1>1 DEF JobInv, Marking
    <2>6. CASE MarkOffline(j)
      <3>1. /\ job'[j].at \notin Marking /\ (\A k \in Jobs \ {j} : job'[k] = job[k])
            /\ UNCHANGED actions
        BY <2>6, <1>2 DEF MarkOffline, NoJob, Marking
      <3>2. endpoint'.registered = FALSE
        BY <2>6, <1>2 DEF MarkOffline, MarkedOffline, Endpoint
      <3>. QED
        BY <3>1, <3>2, <1>11
    <2>. QED
      BY <1>5, <2>2, <2>3, <2>4, <2>5, <2>6 DEF Working
  <1>6. ASSUME NEW c \in Calls, Calling(c)
        PROVE  JobInv'
    BY <1>3, <1>6 DEF Calling, Registered, RegisterFails, InsertTask, Deregistered
  <1>7. ASSUME NEW n \in 1..MaxLoops, Beat(n) \/ BeatFails(n)
        PROVE  JobInv'
    BY <1>3, <1>7 DEF Beat, BeatFails, vars, lossless
  <1>8. ASSUME NEW i \in Instances, Expire(i)
        PROVE  JobInv'
    BY <1>3, <1>8 DEF Expire
  <1>9. ASSUME NEW i \in Instances, SetActionProvider(i)
        PROVE  JobInv'
    BY <1>1, <1>9 DEF SetActionProvider, JobInv, Ready, Marking
  <1>10. CASE UNCHANGED vars
    BY <1>3, <1>10 DEF vars, lossless
  <1>. QED
    BY <1>1, <1>3, <1>4, <1>5, <1>6, <1>7, <1>8, <1>9, <1>10 DEF Next

\* Under a rule with readiness, the endpoint says ready only after a registration
\* was carried out, with an action provider or without one; and as long as no job
\* acts while another is about to mark the endpoint, it says so only while that of
\* some instance was not taken back, whatever was delayed or asked for meanwhile.
THEOREM ReadyRegistered == Spec => []ReadyIsRegistered
  <1>1. ASSUME JobInv, Ready
        PROVE  /\ \E i \in Instances : acted[i] # "none"
               /\ ~crossed /\ (\A j \in Jobs : job[j].at \notin Marking) =>
                     \E i \in Instances : acted[i] = "register" /\ told[i] # "deregister"
    <2>1. \E i \in Instances : acted[i] # "none"
      BY <1>1 DEF JobInv, Ready
    <2>2. ASSUME ~crossed, \A j \in Jobs : job[j].at \notin Marking
          PROVE  \E i \in Instances : acted[i] = "register" /\ told[i] # "deregister"
      <3>1. \A j \in Jobs : job[j].at # "deregistered"
        BY <2>2 DEF Marking
      <3>2. PICK i \in Instances : acted[i] = "register"
        BY <1>1, <2>2, <3>1 DEF JobInv
      <3>3. told[i] # "deregister"
        BY <1>1, <3>2 DEF JobInv
      <3>. QED
        BY <3>2, <3>3
    <2>. QED
      BY <2>1, <2>2
  <1>2. JobInv => ReadyIsRegistered
    BY <1>1 DEF ReadyIsRegistered
  <1>. QED
    BY <1>2, TypeInit, TypeStep, JobInit, JobStep, PTL DEF Spec

-----------------------------------------------------------------------------
(* Routing: lists of instances                                              *)

\* What a list lists is in it.
LEMMA Listed ==
  ASSUME NEW T, NEW s \in Seq(T)
  PROVE  /\ ToSet(s) \subseteq T
         /\ s = <<>> <=> ToSet(s) = {}
         /\ s # <<>> => Head(s) \in ToSet(s) /\ Tail(s) \in Seq(T)
  BY DEF ToSet

\* The entries that are kept are those at the places, each at its own.
LEMMA KeptList ==
  ASSUME NEW T, NEW list \in Seq(T), NEW places \in SUBSET DOMAIN list
  PROVE  /\ Kept(list, places) \in Seq(T)
         /\ ToSet(Kept(list, places)) = {list[n] : n \in places}
  <1> DEFINE S == places
             Pred(n) == {m \in S : m < n}
             N == Cardinality(S)
             Place(k) == CHOOSE n \in S : Cardinality(Pred(n)) = k - 1
  <1>1. Kept(list, S) = [k \in 1 .. N |-> list[Place(k)]]
    BY DEF Kept
  <1>2. S \subseteq 1 .. Len(list) /\ Len(list) \in Nat
    OBVIOUS
  <1>3. IsFiniteSet(S)
    <2>1. IsFiniteSet(1 .. Len(list))
      BY <1>2, FS_Interval
    <2>. QED
      BY <2>1, <1>2, FS_Subset
  <1>4. \A i \in S : i \notin Pred(i) /\ Pred(i) \cup {i} \in SUBSET S /\ Pred(i) \in SUBSET S
    BY <1>2
  <1>5. \A i, j \in S : i < j => Pred(i) \cup {i} \in SUBSET Pred(j)
    BY <1>2
  <1> HIDE DEF Pred
  <1>6. N \in Nat /\ \A i \in S : IsFiniteSet(Pred(i)) /\ Cardinality(Pred(i)) \in Nat
    BY <1>3, <1>4, FS_CardinalityType, FS_Subset
  <1> DEFINE count == [i \in S |-> Cardinality(Pred(i))]
             rank == [i \in S |-> count[i] + 1]
  <1>7. count \in [S -> Nat]
    BY <1>6
  <1>8. \A i \in S : Cardinality(Pred(i) \cup {i}) = count[i] + 1
    BY <1>4, <1>6, FS_AddElement
  <1>9. \A i \in S : count[i] + 1 <= N
    <2>1. \A i \in S : Cardinality(Pred(i) \cup {i}) <= Cardinality(S)
      BY <1>3, <1>4, FS_Subset
    <2>. QED
      BY <2>1, <1>8
  <1>10. \A i, j \in S : i < j => count[i] + 1 <= count[j]
    BY <1>5, <1>6, <1>8, FS_Subset
  <1>11. \A k : Place(k) = CHOOSE n \in S : count[n] = k - 1
    OBVIOUS
  <1> HIDE DEF count, N, Place
  <1>12. \A i \in S : rank[i] \in 1 .. N
    BY <1>6, <1>7, <1>9
  <1>13. \A i, j \in S : rank[i] = rank[j] => i = j
    <2>. SUFFICES ASSUME NEW i \in S, NEW j \in S, rank[i] = rank[j]
                  PROVE  i = j
      OBVIOUS
    <2>1. count[i] = count[j]
      BY <1>7
    <2>2. ~(i < j) /\ ~(j < i)
      BY <2>1, <1>7, <1>10
    <2>. QED
      BY <2>2, <1>2
  <1>14. \A k \in 1 .. N : \E i \in S : rank[i] = k
    <2>1. rank \in Injection(S, 1 .. N)
      BY <1>12, <1>13 DEF Injection, IsInjective
    <2>2. IsFiniteSet(1 .. N) /\ Cardinality(1 .. N) = N
      BY <1>6, FS_Interval
    <2>3. rank \in Surjection(S, 1 .. N)
      BY <2>1, <2>2, FS_Injection DEF N
    <2>. QED
      BY <2>3 DEF Surjection
  <1>15. \A k \in 1 .. N : Place(k) \in S /\ rank[Place(k)] = k
    <2>. SUFFICES ASSUME NEW k \in 1 .. N
                  PROVE  Place(k) \in S /\ rank[Place(k)] = k
      OBVIOUS
    <2>1. PICK n \in S : rank[n] = k
      BY <1>14
    <2>2. count[n] = k - 1
      BY <2>1, <1>7
    <2>3. Place(k) \in S /\ count[Place(k)] = k - 1
      BY <2>2, <1>11
    <2>. QED
      BY <2>3, <1>7
  <1>16. \A i \in S : Place(rank[i]) = i
    BY <1>12, <1>13, <1>15
  <1> HIDE DEF Place, rank
  <1>17. Kept(list, S) \in Seq(T)
    BY <1>1, <1>6, <1>15
  <1>18. ToSet(Kept(list, S)) = {list[Place(k)] : k \in 1 .. N}
    BY <1>1 DEF ToSet
  <1>. QED
    BY <1>12, <1>15, <1>16, <1>17, <1>18

\* Only the listed entries of a set, and all of them.
LEMMA OnlyList ==
  ASSUME NEW T, NEW list \in Seq(T), NEW S
  PROVE  Only(list, S) \in Seq(T) /\ ToSet(Only(list, S)) = ToSet(list) \cap S
  <1> DEFINE places == {n \in DOMAIN list : list[n] \in S}
  <1>1. places \in SUBSET DOMAIN list /\ {list[n] : n \in places} = ToSet(list) \cap S
    BY DEF ToSet
  <1>2. Only(list, S) = Kept(list, places)
    BY DEF Only
  <1> HIDE DEF places
  <1>. QED
    BY <1>1, <1>2, KeptList


-----------------------------------------------------------------------------
(* The groups of a rule                                                     *)

\* A set of numbers that is not empty has a least one.
LEMMA LeastNumber ==
  ASSUME NEW S, S \subseteq Nat, S # {}
  PROVE  \E m \in S : \A k \in S : m <= k
  <1>1. PICK m \in S : \A k \in S : ~(<<k, m>> \in OpToRel(<, Nat))
    BY NatLessThanWellFounded, WFMin, Zenon
  <1>2. \A k \in S : ~(k < m)
    BY <1>1 DEF OpToRel
  <1>. QED
    BY <1>2

\* The ranks of groups.
Ranked(S) == \A x \in S : DOMAIN x.rank = 1 .. 5 /\ \A n \in 1 .. 5 : x.rank[n] \in Nat
LeastAt(S, n) == {x \in S : \A y \in S : x.rank[n] <= y.rank[n]}

\* Of groups with ranks, some have the least number at a place.
LEMMA LeastRank ==
  ASSUME NEW S, S # {}, Ranked(S), NEW n \in 1 .. 5
  PROVE  LeastAt(S, n) # {} /\ LeastAt(S, n) \subseteq S /\ Ranked(LeastAt(S, n))
  <1> DEFINE R == {x.rank[n] : x \in S}
  <1>1. R \subseteq Nat /\ R # {}
    BY DEF Ranked
  <1>2. PICK m \in R : \A k \in R : m <= k
    BY <1>1, LeastNumber
  <1>3. PICK x \in S : x.rank[n] = m
    BY <1>2
  <1>4. x \in LeastAt(S, n)
    BY <1>2, <1>3 DEF LeastAt
  <1>. QED
    BY <1>4 DEF LeastAt, Ranked

\* Of groups with ranks, one comes first.
LEMMA ForemostExists ==
  ASSUME NEW S, S # {}, Ranked(S)
  PROVE  Foremost(S) \in S
  <1> DEFINE A == LeastAt(S, 1)
             B == LeastAt(A, 2)
             C == LeastAt(B, 3)
             D == LeastAt(C, 4)
             E == LeastAt(D, 5)
  <1>1. A # {} /\ A \subseteq S /\ Ranked(A)
    BY LeastRank
  <1>2. B # {} /\ B \subseteq A /\ Ranked(B)
    BY <1>1, LeastRank
  <1>3. C # {} /\ C \subseteq B /\ Ranked(C)
    BY <1>2, LeastRank
  <1>4. D # {} /\ D \subseteq C /\ Ranked(D)
    BY <1>3, LeastRank
  <1>5. E # {} /\ E \subseteq D
    BY <1>4, LeastRank
  <1>6. PICK x \in E : TRUE
    BY <1>5
  <1>7. x \in A /\ x \in B /\ x \in C /\ x \in D /\ x \in S
    BY <1>1, <1>2, <1>3, <1>4, <1>5
  <1>8. ASSUME NEW y \in S, NEW n \in DOMAIN y.rank, y.rank[n] < x.rank[n], \A m \in 1 .. n - 1 : y.rank[m] = x.rank[m]
        PROVE  FALSE
    <2>1. n \in 1 .. 5 /\ \A k \in 1 .. 5 : x.rank[k] \in Nat /\ y.rank[k] \in Nat
      BY <1>7, <1>8 DEF Ranked
    <2>2. n > 1 => y \in A
      BY <1>7, <1>8, <2>1 DEF A, LeastAt
    <2>3. n > 2 => y \in B
      BY <1>7, <1>8, <2>1, <2>2 DEF B, LeastAt
    <2>4. n > 3 => y \in C
      BY <1>7, <1>8, <2>1, <2>3 DEF C, LeastAt
    <2>5. n > 4 => y \in D
      BY <1>7, <1>8, <2>1, <2>4 DEF D, LeastAt
    <2>6. x.rank[n] <= y.rank[n]
      BY <1>6, <1>7, <1>8, <2>1, <2>2, <2>3, <2>4, <2>5 DEF A, B, C, D, E, LeastAt
    <2>. QED
      BY <1>8, <2>1, <2>6
  <1>9. \A y \in S : ~Before(y.rank, x.rank)
    BY <1>8 DEF Before
  <1>. QED
    BY <1>7, <1>9 DEF Foremost

\* The services whose rules a call reads.
Ruling(req) == {req.callee, req.caller}

\* The groups of the rules a call reads have ranks.
LEMMA GroupsRanked ==
  ASSUME NEW req \in Requests, NEW v \in Versions \cup {Unread}, NEW s \in Ruling(req)
  PROVE  Ranked(Groups(req, RoutesOf(v, s)))
  <1> SUFFICES ASSUME NEW g \in Groups(req, RoutesOf(v, s))
               PROVE  DOMAIN g.rank = 1 .. 5 /\ \A n \in 1 .. 5 : g.rank[n] \in Nat
    BY DEF Ranked
  <1> DEFINE rules == Read(v, s, "route")
  <1>1. PICK r \in RoutesOf(v, s) : \E m \in DOMAIN r.rule.destinations :
               g.rank = <<r.rank[1], r.rank[2], r.rank[3], r.rule.destinations[m].priority, m>>
    BY DEF Groups, OpenGroups
  <1>2. PICK m \in DOMAIN r.rule.destinations :
               g.rank = <<r.rank[1], r.rank[2], r.rank[3], r.rule.destinations[m].priority, m>>
    BY <1>1
  <1>3. v \in Versions /\ r \in Decoded(rules)
    BY <1>2 DEF RoutesOf
  <1>4. PICK n \in DOMAIN rules : \E k \in DOMAIN rules[n].rules :
               r = [rank |-> <<rules[n].priority, n, k>>, rule |-> rules[n].rules[k]]
    BY <1>3 DEF Decoded
  <1>5. PICK k \in DOMAIN rules[n].rules :
               r = [rank |-> <<rules[n].priority, n, k>>, rule |-> rules[n].rules[k]]
    BY <1>4
  <1>6. AreRoutes(rules)
    BY <1>3, RoutingAssumption DEF Read, Ruling
  <1>7. /\ n \in Nat /\ rules[n].priority \in Nat /\ k \in Nat /\ m \in Nat
        /\ r.rule.destinations[m].priority \in Nat
    BY <1>2, <1>5, <1>6 DEF AreRoutes
  <1>8. r.rank[1] = rules[n].priority /\ r.rank[2] = n /\ r.rank[3] = k
    BY <1>5
  <1>. QED
    BY <1>2, <1>7, <1>8

\* What the rules give are instances they let the call have, and they give
\* none only where they let it have none.
LEMMA RoutedFits ==
  ASSUME NEW req \in Requests, NEW v \in Versions \cup {Unread}, NEW s \in Ruling(req), NEW list \in Seq(Ids)
  PROVE  LET routes == RoutesOf(v, s)
             found == Routed(req, routes, list)
         IN  /\ found \in Seq(Ids) /\ ToSet(found) \subseteq ToSet(list)
             /\ \A i \in ToSet(found) : Fits(req, routes, i)
             /\ found = <<>> => \A i \in ToSet(list) : ~Fits(req, routes, i)
  <1> DEFINE routes == RoutesOf(v, s)
             groups == Groups(req, routes)
             served == {g \in groups : Members(req, g, list) # <<>>}
  <1>1. \A g : Members(req, g, list) \in Seq(Ids)
               /\ ToSet(Members(req, g, list)) = {i \in ToSet(list) : InGroup(req, g.rule, g.dest, i)}
    <2>. SUFFICES ASSUME NEW g
                  PROVE  Members(req, g, list) \in Seq(Ids)
                         /\ ToSet(Members(req, g, list)) = {i \in ToSet(list) : InGroup(req, g.rule, g.dest, i)}
      OBVIOUS
    <2> DEFINE S == {i \in Ids : InGroup(req, g.rule, g.dest, i)}
    <2>1. ToSet(list) \cap S = {i \in ToSet(list) : InGroup(req, g.rule, g.dest, i)}
      BY Listed
    <2>2. Members(req, g, list) = Only(list, S)
      BY DEF Members
    <2> HIDE DEF S
    <2>. QED
      BY <2>1, <2>2, OnlyList
  <1>2. \A i : Fits(req, routes, i) <=> \E g \in groups : InGroup(req, g.rule, g.dest, i)
    <2>. SUFFICES ASSUME NEW i
                  PROVE  Fits(req, routes, i) <=> \E g \in groups : InGroup(req, g.rule, g.dest, i)
      OBVIOUS
    <2>1. ASSUME NEW g \in groups, InGroup(req, g.rule, g.dest, i)
          PROVE  Fits(req, routes, i)
      <3>1. PICK r \in routes : \E m \in OpenGroups(r.rule.destinations) :
                   RouteMatches(req, r.rule) /\ g.rule = r.rule /\ g.dest = r.rule.destinations[m]
        BY DEF Groups
      <3>. QED
        BY <2>1, <3>1 DEF Fits, OpenGroups
    <2>2. ASSUME Fits(req, routes, i)
          PROVE  \E g \in groups : InGroup(req, g.rule, g.dest, i)
      <3>1. PICK r \in routes : RouteMatches(req, r.rule) /\ \E m \in DOMAIN r.rule.destinations :
                   ~r.rule.destinations[m].isolate /\ InGroup(req, r.rule, r.rule.destinations[m], i)
        BY <2>2 DEF Fits
      <3>2. PICK m \in DOMAIN r.rule.destinations :
                   ~r.rule.destinations[m].isolate /\ InGroup(req, r.rule, r.rule.destinations[m], i)
        BY <3>1
      <3> DEFINE g == [rank |-> <<r.rank[1], r.rank[2], r.rank[3], r.rule.destinations[m].priority, m>>,
                       rule |-> r.rule, dest |-> r.rule.destinations[m]]
      <3>3. g \in groups
        BY <3>1, <3>2 DEF Groups, OpenGroups
      <3>4. g.rule = r.rule /\ g.dest = r.rule.destinations[m]
        OBVIOUS
      <3> HIDE DEF g
      <3>. QED
        BY <3>2, <3>3, <3>4
    <2>. QED
      BY <2>1, <2>2
  <1>3. Routed(req, routes, list) = IF served = {} THEN <<>> ELSE Members(req, Foremost(served), list)
    BY DEF Routed
  <1>4. Ranked(served)
    BY GroupsRanked DEF Ranked
  <1> HIDE DEF served, groups, routes
  <1>5. CASE served = {}
    <2>1. Routed(req, routes, list) = <<>> /\ <<>> \in Seq(Ids) /\ ToSet(<<>>) = {}
      BY <1>3, <1>5 DEF ToSet
    <2>2. \A g \in groups : ToSet(Members(req, g, list)) = {}
      BY <1>5, <1>1, Listed DEF served
    <2>3. \A i \in ToSet(list) : ~Fits(req, routes, i)
      BY <2>2, <1>1, <1>2
    <2>. QED
      BY <2>1, <2>3 DEF routes
  <1>6. CASE served # {}
    <2>1. Foremost(served) \in served
      BY <1>4, <1>6, ForemostExists
    <2>2. PICK g \in groups : Routed(req, routes, list) = Members(req, g, list) /\ Members(req, g, list) # <<>>
      BY <2>1, <1>3, <1>6 DEF served
    <2>. QED
      BY <2>2, <1>1, <1>2 DEF routes
  <1>. QED
    BY <1>5, <1>6

-----------------------------------------------------------------------------
(* What routers answer                                                      *)

\* A list with the sum of its weights.
Givens == {g \in [list : Seq(Ids), total : Nat] : g.list = <<>> => g.total = 0}

\* What is left of a list.
Left(answer, given) == answer \in Givens /\ ToSet(answer.list) \subseteq ToSet(given.list)

\* What is counted is a list with its sum, which is a number.
LEMMA CountedGiven ==
  ASSUME NEW list \in Seq(Ids)
  PROVE  Counted(list) \in Givens /\ Counted(list).list = list
  <1> DEFINE units == [n \in DOMAIN list |-> {n} \X (1 .. InstanceOf[list[n]].weight)]
             all == {units[n] : n \in DOMAIN list}
  <1>1. DOMAIN list = 1 .. Len(list) /\ Len(list) \in Nat /\ \A n \in DOMAIN list : list[n] \in Ids
    OBVIOUS
  <1>2. IsFiniteSet(DOMAIN list)
    BY <1>1, FS_Interval
  <1>3. \A n \in DOMAIN list : IsFiniteSet({n} \X (1 .. InstanceOf[list[n]].weight))
    <2>. SUFFICES ASSUME NEW n \in DOMAIN list
                  PROVE  IsFiniteSet({n} \X (1 .. InstanceOf[list[n]].weight))
      OBVIOUS
    <2>1. PICK w \in Nat : InstanceOf[list[n]].weight = w
      BY <1>1, RoutingAssumption
    <2>2. IsFiniteSet({n})
      BY FS_Singleton
    <2>3. IsFiniteSet(1 .. InstanceOf[list[n]].weight)
      BY <2>1, FS_Interval
    <2>. QED
      BY <2>2, <2>3, FS_Product
  <1>4. all = {{n} \X (1 .. InstanceOf[list[n]].weight) : n \in DOMAIN list}
    OBVIOUS
  <1>5. Weight(list) = Cardinality(UNION all)
    BY <1>4 DEF Weight
  <1>6. \A S \in all : IsFiniteSet(S)
    BY <1>3
  <1>7. units \in Surjection(DOMAIN list, all)
    BY DEF Surjection
  <1> HIDE DEF units, all
  <1>8. IsFiniteSet(all)
    BY <1>2, <1>7, FS_Surjection
  <1>9. Weight(list) \in Nat
    BY <1>5, <1>6, <1>8, FS_UNION, FS_CardinalityType
  <1>10. list = <<>> => Weight(list) = 0
    BY FS_EmptySet DEF Weight
  <1>. QED
    BY <1>9, <1>10 DEF Counted, Givens

\* So is what a router keeps of a list.
LEMMA LeftOnly ==
  ASSUME NEW given \in Givens, NEW S
  PROVE  Left(Counted(Only(given.list, S)), given)
  <1>1. given.list \in Seq(Ids)
    BY DEF Givens
  <1>. QED
    BY <1>1, OnlyList, CountedGiven DEF Left

\* The empty list is left of any.
LEMMA LeftNone ==
  ASSUME NEW given
  PROVE  Left(Counted(<<>>), given) /\ ToSet(<<>>) = {} /\ Counted(<<>>).list = <<>>
  <1>1. <<>> \in Seq(Ids)
    OBVIOUS
  <1>2. ToSet(<<>>) = {}
    BY <1>1, Listed
  <1>3. Counted(<<>>) \in Givens /\ Counted(<<>>).list = <<>>
    BY <1>1, CountedGiven
  <1>. QED
    BY <1>2, <1>3 DEF Left

\* The routers that read no rules drop instances and add none.
LEMMA PlainAnswers ==
  ASSUME NEW req, NEW given \in Givens
  PROVE  /\ ByMetadata(req, given) = Failed \/ Left(ByMetadata(req, given), given)
         /\ Left(ByHealth(given), given)
         /\ ByLocation(given) = Failed \/ Left(ByLocation(given), given)
  <1>1. given.list \in Seq(Ids)
    BY DEF Givens
  <1>2. Left(Counted(given.list), given)
    BY <1>1, CountedGiven DEF Left
  <1>3. ByMetadata(req, given) = Failed \/ Left(ByMetadata(req, given), given)
    BY <1>2, LeftOnly, Zenon DEF ByMetadata
  <1>4. Left(ByHealth(given), given)
    <2> DEFINE places == {n \in DOMAIN given.list :
                            \/ Available(given.list[n])
                            \/ \A m \in 1 .. n - 1 : ~(InstanceOf[given.list[m]].weight # 0)}
    <2>1. ByHealth(given) = Counted(Kept(given.list, places))
      BY DEF ByHealth
    <2>2. places \in SUBSET DOMAIN given.list
      OBVIOUS
    <2> HIDE DEF places
    <2>3. {given.list[n] : n \in places} \subseteq ToSet(given.list)
      BY <2>2 DEF ToSet
    <2>4. Kept(given.list, places) \in Seq(Ids) /\ ToSet(Kept(given.list, places)) = {given.list[n] : n \in places}
      BY <1>1, <2>2, KeptList
    <2>. QED
      BY <2>1, <2>3, <2>4, CountedGiven DEF Left
  <1>5. \A level : Left(Counted(Near(level, given.list)), given)
    BY <1>2, LeftOnly DEF Near
  <1>6. ByLocation(given) = Failed \/ \E level : ByLocation(given) = Counted(Near(level, given.list))
    BY DEF ByLocation
  <1>. QED
    BY <1>3, <1>4, <1>5, <1>6

\* The lane of the first rule that matches, or, where the rule is permissive
\* and the list has none of it, the list.
InLanes(req, groups, list) ==
    LET lanes == Lanes(req, groups)
    IN  lanes # <<>> => \A i \in ToSet(list) :
            \/ InLane(Head(lanes), i)
            \/ Head(lanes).mode # "strict" /\ \A j \in ToSet(list) : ~InLane(Head(lanes), j)

\* The lane router leaves instances of the lane where the list has some.
LEMMA LaneAnswers ==
  ASSUME NEW req, NEW groups, NEW given \in Givens
  PROVE  Left(ByLane(req, groups, given), given) /\ InLanes(req, groups, ByLane(req, groups, given).list)
  <1> DEFINE lanes == Lanes(req, groups)
             S == {i \in Ids : InLane(Head(lanes), i)}
             found == Only(given.list, S)
  <1>1. given.list \in Seq(Ids)
    BY DEF Givens
  <1>2. found \in Seq(Ids) /\ ToSet(found) = ToSet(given.list) \cap S
    BY <1>1, OnlyList
  <1>3. Left(Counted(found), given) /\ Counted(found).list = found
    BY <1>2, LeftOnly, CountedGiven
  <1>4. ByLane(req, groups, given) =
          CASE lanes = <<>> -> given
            [] lanes # <<>> /\ found # <<>> -> Counted(found)
            [] OTHER -> IF Head(lanes).mode = "strict" THEN Counted(<<>>) ELSE given
    BY DEF ByLane
  <1>5. Left(given, given)
    BY DEF Left
  <1>6. \A i \in ToSet(given.list) : i \in S <=> InLane(Head(lanes), i)
    BY <1>1, Listed
  <1> HIDE DEF lanes, found, S
  <1>7. CASE lanes = <<>>
    BY <1>4, <1>5, <1>7 DEF InLanes, lanes
  <1>8. CASE lanes # <<>> /\ found # <<>>
    <2>1. ByLane(req, groups, given) = Counted(found)
      BY <1>4, <1>8
    <2>. QED
      BY <2>1, <1>2, <1>3, <1>6 DEF InLanes, lanes
  <1>9. CASE lanes # <<>> /\ found = <<>> /\ Head(lanes).mode = "strict"
    <2>1. ByLane(req, groups, given) = Counted(<<>>)
      BY <1>4, <1>9
    <2>. QED
      BY <2>1, LeftNone DEF InLanes
  <1>10. CASE lanes # <<>> /\ found = <<>> /\ Head(lanes).mode # "strict"
    <2>1. ByLane(req, groups, given) = given
      BY <1>4, <1>10
    <2>2. ToSet(given.list) \cap S = {}
      BY <1>2, <1>10, Listed
    <2>. QED
      BY <2>1, <2>2, <1>5, <1>6, <1>10 DEF InLanes, lanes
  <1>. QED
    BY <1>7, <1>8, <1>9, <1>10

\* The routers of a chain.
LEMMA ChainType ==
  ASSUME NEW req \in Requests
  PROVE  Chain(req) \in Seq(STRING)
  <1>1. \A stage \in Stages : Only(req.chain[stage], Loaded[stage]) \in Seq(STRING)
    BY RoutingAssumption, OnlyList
  <1>2. "before" \in Stages /\ "core" \in Stages /\ "after" \in Stages
    BY DEF Stages
  <1>. QED
    BY <1>1, <1>2 DEF Chain

-----------------------------------------------------------------------------
(* What balancers and mirrors find                                          *)

\* What is drawn of a list that weighs something is in it.
LEMMA DrawnListed ==
  ASSUME NEW given \in Givens, given.total # 0, NEW r
  PROVE  Drawn(given, r) \in ToSet(given.list)
  <1> DEFINE list == given.list
             hit == {n \in DOMAIN list : Weight(SubSeq(list, 1, n - 1)) <= r /\ r < Weight(SubSeq(list, 1, n))}
             place == IF hit # {} THEN CHOOSE n \in hit : TRUE ELSE (given.total % Len(list)) + 1
  <1>1. list \in Seq(Ids) /\ list # <<>> /\ given.total \in Nat
    BY DEF Givens
  <1>2. Drawn(given, r) = list[place]
    BY DEF Drawn
  <1>3. hit # {} => (CHOOSE n \in hit : TRUE) \in DOMAIN list
    OBVIOUS
  <1>4. Len(list) \in Nat /\ Len(list) > 0
    BY <1>1
  <1>5. (given.total % Len(list)) + 1 \in 1 .. Len(list)
    BY <1>1, <1>4
  <1>6. place \in DOMAIN list
    BY <1>1, <1>3, <1>5
  <1>. QED
    BY <1>2, <1>6 DEF ToSet

\* A ring answers with one of its nodes.
LEMMA NodeFound ==
  ASSUME NEW ring, ring.nodes \subseteq Ids, NEW hash \in Nat
  PROVE  Node(ring, hash) = Because("panic") \/ \E i \in ring.nodes : Node(ring, hash) = Found(i)
  <1> DEFINE before == {p \in UNION {Points[i] : i \in ring.nodes} : p <= hash}
             behind == {hash - p : p \in before}
  <1>1. before \subseteq Nat
    BY RoutingAssumption
  <1>2. CASE before = {}
    BY <1>2 DEF Node
  <1>3. CASE before # {}
    <2>1. behind \subseteq Nat /\ behind # {}
      BY <1>1, <1>3
    <2>2. PICK m \in behind : \A k \in behind : m <= k
      BY <2>1, LeastNumber
    <2>3. PICK p \in before : m = hash - p
      BY <2>2
    <2>4. \A q \in before : q <= p
      <3>. SUFFICES ASSUME NEW q \in before
                    PROVE  q <= p
        OBVIOUS
      <3>1. hash - q \in behind /\ p \in Nat /\ q \in Nat
        BY <1>1
      <3>2. m <= hash - q
        BY <2>2, <3>1
      <3>. QED
        BY <2>3, <3>1, <3>2
    <2>5. PICK i \in ring.nodes : p \in Points[i]
      BY <2>3
    <2>6. \E j \in ring.nodes : \E x \in Points[j] \cap before : \A q \in before : q <= x
      BY <2>3, <2>4, <2>5
    <2> DEFINE node == CHOOSE j \in ring.nodes : \E x \in Points[j] \cap before : \A q \in before : q <= x
    <2>7. node \in ring.nodes
      BY <2>6
    <2>8. Node(ring, hash) = Found(node)
      BY <1>3 DEF Node
    <2>. QED
      BY <2>7, <2>8
  <1>. QED
    BY <1>2, <1>3

\* A copy goes to an instance that fits its destination.
LEMMA ShadowFound ==
  ASSUME NEW d \in DOMAIN Shadows
  PROVE  LET to == ShadowOf(Shadows[d])
         IN  to \in Ids \cup {"failed"} /\ (to \in Ids => ShadowFits(Shadows[d], to))
  <1> DEFINE list == Lists[Shadows[d].service]
             S == {i \in Ids : ShadowFits(Shadows[d], i)}
             fits == Only(list, S)
  <1>1. list \in Seq(Ids)
    BY RoutingAssumption
  <1>2. ToSet(fits) \subseteq S /\ fits \in Seq(Ids)
    BY <1>1, OnlyList
  <1>3. fits # <<>> => Head(fits) \in S
    BY <1>2, Listed
  <1>4. ShadowOf(Shadows[d]) =
          IF fits # <<>> /\ InstanceOf[Head(fits)].protocol \in {"", Protocol} THEN Head(fits) ELSE "failed"
    BY DEF ShadowOf
  <1>. QED
    BY <1>3, <1>4, RoutingAssumption

-----------------------------------------------------------------------------
(* Types                                                                    *)

Kinds == {"security", "mirror", "mock", "callee", "caller", "lane"}
MockedOf == {Mock(req, Read(v, req.callee, "mock")) : req \in Requests, v \in Versions \cup {Unread}}
Results ==
    [kind : {"none", "error", "denied", "panic"}, of : {None}]
    \cup [kind : {"mocked"}, of : MockedOf] \cup [kind : {"instance"}, of : Ids]
Copies == [to : DOMAIN Shadows, at : Ids \cup {"spawned", "failed"}]
Early == {"security", "mirror", "mock", "govern"}

RoutingCalls ==
    [pc : Early \cup {"route", "caller", "ring", "done"}, req : Requests, given : Givens, todo : Seq(STRING),
     result : Results, sent : SUBSET Copies, seen : [Kinds -> Versions \cup {Unread}]]

RoutingTypeOK ==
    /\ version \in Versions
    /\ config \in Configs
    /\ calls \in [Callers -> RoutingCalls \cup {Idle}]
    /\ \A c \in Callers : calls[c].pc = "caller" => calls[c].todo # <<>>
    /\ \E keys \in SUBSET {""} : rings \in [keys -> [revision : {""}, nodes : SUBSET Ids]]

\* What is not idle is a call.
LEMMA Active ==
  ASSUME RoutingTypeOK, NEW c \in Callers
  PROVE  /\ calls[c] # Idle <=> calls[c] \in RoutingCalls
         /\ calls[c] # Idle <=> calls[c].pc # "idle"
  <1>1. calls[c] \in RoutingCalls \cup {Idle}
    BY DEF RoutingTypeOK
  <1>2. Idle.pc = "idle"
    BY DEF Idle
  <1>3. \A d \in RoutingCalls : d.pc # "idle"
    BY DEF RoutingCalls, Early
  <1>. QED
    BY <1>1, <1>2, <1>3

\* The results a call can end with.
LEMMA ResultTypes ==
  /\ NoResult \in Results /\ NoResult.kind = "none"
  /\ \A kind \in {"error", "denied", "panic"} : Because(kind) \in Results /\ Because(kind).kind = kind
  /\ \A i \in Ids : Found(i) \in Results /\ Found(i).kind = "instance" /\ Found(i).of = i
  /\ \A m \in MockedOf : Mocked(m) \in Results /\ Mocked(m).kind = "mocked"
  BY DEF NoResult, Because, Found, Mocked, Results

\* A call that ends without an instance.
LEMMA Ended ==
  ASSUME RoutingTypeOK, NEW c \in Callers, calls[c] \in RoutingCalls, NEW result \in Results, End(c, result)
  PROVE  \E d \in RoutingCalls :
            /\ calls' = [calls EXCEPT ![c] = d]
            /\ d.pc = "done" /\ d.result = result /\ d.given.list = <<>>
            /\ d.req = calls[c].req /\ d.seen = calls[c].seen /\ d.sent = calls[c].sent
  <1> DEFINE d == [calls[c] EXCEPT !.pc = "done", !.result = result, !.given = Counted(<<>>)]
  <1>1. Counted(<<>>) \in Givens /\ Counted(<<>>).list = <<>>
    BY LeftNone DEF Left
  <1>2. calls' = [calls EXCEPT ![c] = d]
    BY DEF End, Set
  <1>3. d \in RoutingCalls /\ d.pc = "done" /\ d.result = result /\ d.given = Counted(<<>>)
        /\ d.req = calls[c].req /\ d.seen = calls[c].seen /\ d.sent = calls[c].sent
    BY <1>1 DEF RoutingCalls
  <1> HIDE DEF d
  <1>. QED
    BY <1>1, <1>2, <1>3

\* A call that a router answers.
LEMMA Going ==
  ASSUME RoutingTypeOK, NEW c \in Callers, calls[c] \in RoutingCalls, calls[c].todo # <<>>,
         NEW answer, answer = Failed \/ answer \in Givens,
         NEW seen \in [Kinds -> Versions \cup {Unread}],
         Goes(c, answer, seen)
  PROVE  \E d \in RoutingCalls :
            /\ calls' = [calls EXCEPT ![c] = d]
            /\ d.req = calls[c].req /\ d.sent = calls[c].sent
            /\ \/ d.pc = "done" /\ d.result = Because("error") /\ d.seen = calls[c].seen /\ answer = Failed
               \/ d.pc = "route" /\ d.result = calls[c].result /\ d.seen = seen /\ d.given = answer
  <1>1. CASE answer = Failed
    <2>1. End(c, Because("error"))
      BY <1>1 DEF Goes
    <2>. QED
      BY <1>1, <2>1, Ended, ResultTypes
  <1>2. CASE answer # Failed
    <2> DEFINE d == [calls[c] EXCEPT !.given = answer, !.todo = Tail(@), !.pc = "route", !.seen = seen]
    <2>1. calls[c].todo \in Seq(STRING) /\ Tail(calls[c].todo) \in Seq(STRING)
      BY Listed DEF RoutingCalls
    <2>2. calls' = [calls EXCEPT ![c] = d]
      BY <1>2 DEF Goes, Set
    <2>3. d \in RoutingCalls /\ d.pc = "route" /\ d.result = calls[c].result /\ d.seen = seen /\ d.given = answer
          /\ d.req = calls[c].req /\ d.sent = calls[c].sent
      BY <1>2, <2>1 DEF RoutingCalls
    <2> HIDE DEF d
    <2>. QED
      BY <2>2, <2>3
  <1>. QED
    BY <1>1, <1>2

-----------------------------------------------------------------------------
(* The steps of a call                                                      *)

\* A step of one call.
Becomes(c, d) == calls' = [calls EXCEPT ![c] = d]

\* A call begins with nothing read, sent or answered.
LEMMA BeginStep ==
  ASSUME RoutingTypeOK, NEW c \in Callers, NEW req \in Requests, Begin(c, req)
  PROVE  \E d \in RoutingCalls :
            /\ Becomes(c, d) /\ d.pc = "security" /\ d.result = NoResult /\ d.sent = {}
            /\ \A k \in Kinds : d.seen[k] = Unread
  <1> DEFINE list == IF req.through = "get_one" THEN AvailableOf(Lists[req.callee]) ELSE Lists[req.callee]
             none == [k \in {"security", "mirror", "mock", "callee", "caller", "lane"} |-> Unread]
             d == [pc |-> "security", req |-> req, given |-> Counted(list), todo |-> <<>>, result |-> NoResult,
                   sent |-> {}, seen |-> none]
  <1>1. Lists[req.callee] \in Seq(Ids)
    BY RoutingAssumption
  <1>2. AvailableOf(Lists[req.callee]) \in Seq(Ids)
    BY <1>1, OnlyList DEF AvailableOf
  <1>3. Counted(list) \in Givens
    BY <1>1, <1>2, CountedGiven
  <1>4. none \in [Kinds -> Versions \cup {Unread}] /\ \A k \in Kinds : none[k] = Unread
    BY DEF Kinds
  <1>5. Becomes(c, d)
    BY DEF Begin, Set, Becomes
  <1> HIDE DEF list, none
  <1>6. d \in RoutingCalls /\ d.pc = "security" /\ d.result = NoResult /\ d.sent = {} /\ d.seen = none
    BY <1>3, <1>4, ResultTypes DEF RoutingCalls, Early
  <1> HIDE DEF d
  <1>. QED
    BY <1>4, <1>5, <1>6

\* What reading the policies, whether or not they come, does to a call.
LEMMA LoadPolicyStep ==
  ASSUME RoutingTypeOK, NEW c \in Callers, LoadPolicy(c) \/ LoadPolicyFails(c)
  PROVE  /\ calls[c] \in RoutingCalls /\ calls[c].pc \in Early
         /\ \E d \in RoutingCalls :
               /\ Becomes(c, d) /\ d.req = calls[c].req /\ d.sent = calls[c].sent
               /\ \A k \in {"callee", "caller", "lane"} : d.seen[k] = calls[c].seen[k]
               /\ \/ d.pc \in Early \ {"security"} /\ d.result = calls[c].result
                  \/ /\ calls[c].pc = "security" /\ d.pc = "done"
                     /\ d.result = Because("error") /\ d.seen = calls[c].seen
  <1> DEFINE k == calls[c]
             pc == k.pc
  <1>1. k \in RoutingCalls /\ pc \in {"security", "mirror", "mock"}
    BY Active DEF LoadPolicy, LoadPolicyFails
  <1>2. NextKind(pc) \in Early \ {"security"}
    BY <1>1 DEF NextKind, Early
  <1>3. version \in Versions
    BY DEF RoutingTypeOK
  <1>4. CASE LoadPolicy(c)
    <2> DEFINE seen == [k.seen EXCEPT ![pc] = version]
               d == [k EXCEPT !.seen = seen, !.pc = NextKind(pc)]
    <2>1. seen \in [Kinds -> Versions \cup {Unread}] /\ \A n \in {"callee", "caller", "lane"} : seen[n] = k.seen[n]
      BY <1>1, <1>3 DEF RoutingCalls, Kinds
    <2>2. Becomes(c, d)
      BY <1>4 DEF LoadPolicy, Set, Becomes
    <2> HIDE DEF seen
    <2>3. d \in RoutingCalls /\ d.req = k.req /\ d.sent = k.sent /\ d.seen = seen
          /\ d.pc = NextKind(pc) /\ d.result = k.result
      BY <1>1, <1>2, <2>1 DEF RoutingCalls
    <2> HIDE DEF d
    <2>. QED
      BY <1>1, <1>2, <2>1, <2>2, <2>3 DEF Early
  <1>5. CASE LoadPolicyFails(c) /\ pc = "security"
    <2>1. End(c, Because("error"))
      BY <1>5 DEF LoadPolicyFails
    <2>2. PICK d \in RoutingCalls :
             /\ Becomes(c, d) /\ d.pc = "done" /\ d.result = Because("error")
             /\ d.req = k.req /\ d.seen = k.seen /\ d.sent = k.sent
      BY <1>1, <2>1, Ended, ResultTypes DEF Becomes
    <2>. QED
      BY <1>1, <1>5, <2>2 DEF Early
  <1>6. CASE LoadPolicyFails(c) /\ pc # "security"
    <2> DEFINE d == [k EXCEPT !.pc = NextKind(pc)]
    <2>1. Becomes(c, d)
      BY <1>6 DEF LoadPolicyFails, Set, Becomes
    <2>2. d \in RoutingCalls /\ d.req = k.req /\ d.sent = k.sent /\ d.seen = k.seen
          /\ d.pc = NextKind(pc) /\ d.result = k.result
      BY <1>1, <1>2 DEF RoutingCalls
    <2> HIDE DEF d
    <2>. QED
      BY <1>1, <1>2, <2>1, <2>2 DEF Early
  <1>. QED
    BY <1>4, <1>5, <1>6

\* What the security rules and the mock rules a call read say of it.
Permits(d) == Allowed(d.req, Read(d.seen.security, d.req.callee, "security"))
Answer(d) == Mock(d.req, Read(d.seen.mock, d.req.callee, "mock"))

\* It ends denied or mocked, or goes on to its routers, its copies spawned.
LEMMA GovernStep ==
  ASSUME RoutingTypeOK, NEW c \in Callers, Govern(c)
  PROVE  /\ calls[c] \in RoutingCalls /\ calls[c].pc = "govern"
         /\ \E d \in RoutingCalls :
               /\ Becomes(c, d) /\ d.req = calls[c].req /\ d.seen = calls[c].seen
               /\ \/ d.pc = "done" /\ ~Permits(d) /\ d.result = Because("denied") /\ d.sent = calls[c].sent
                  \/ /\ d.pc = "done" /\ Permits(d) /\ Answer(d) # None /\ d.result = Mocked(Answer(d))
                     /\ \A m \in d.sent : m.at = "spawned"
                  \/ /\ d.pc = "route" /\ Permits(d) /\ Answer(d) = None /\ d.result = calls[c].result
                     /\ \A m \in d.sent : m.at = "spawned"
  <1> DEFINE k == calls[c]
             sent == ToMirror(c)
             mock == Mock(k.req, Policies(c, "mock"))
  <1>1. k \in RoutingCalls /\ k.pc = "govern"
    BY Active DEF Govern
  <1>2. Allowed(k.req, Policies(c, "security")) = Permits(k) /\ mock = Answer(k)
    BY DEF Policies, Callee, Permits, Answer
  <1>3. k.req \in Requests /\ k.seen.mock \in Versions \cup {Unread} /\ k.seen.mirror \in Versions \cup {Unread}
    BY <1>1 DEF RoutingCalls, Kinds
  <1>4. mock \in MockedOf
    BY <1>2, <1>3 DEF MockedOf, Answer
  <1>5. sent \in SUBSET Copies /\ \A m \in sent : m.at = "spawned"
    <2>1. \E v \in Versions : Policies(c, "mirror") \in {<<>>, RulesAt[v][k.req.callee].mirror}
      BY <1>3, RoutingAssumption DEF Policies, Read, Callee
    <2>2. ToSet(Mirrors(k.req, Policies(c, "mirror"))) \subseteq DOMAIN Shadows
      BY <1>3, <2>1, RoutingAssumption
    <2>. QED
      BY <2>2 DEF ToMirror, Copies
  <1>6. CASE ~Permits(k)
    <2>1. End(c, Because("denied"))
      BY <1>2, <1>6 DEF Govern
    <2>2. PICK d \in RoutingCalls :
             /\ Becomes(c, d) /\ d.pc = "done" /\ d.result = Because("denied")
             /\ d.req = k.req /\ d.seen = k.seen /\ d.sent = k.sent
      BY <1>1, <2>1, Ended, ResultTypes DEF Becomes
    <2>. QED
      BY <1>1, <1>6, <2>2 DEF Permits
  <1>7. CASE Permits(k) /\ mock # None
    <2> DEFINE d == [k EXCEPT !.pc = "done", !.result = Mocked(mock), !.sent = sent, !.given = Counted(<<>>)]
    <2>1. Becomes(c, d)
      BY <1>2, <1>7 DEF Govern, Set, Becomes
    <2>2. Counted(<<>>) \in Givens /\ Mocked(mock) \in Results
      BY <1>4, LeftNone, ResultTypes DEF Left
    <2> HIDE DEF sent, mock
    <2>3. d \in RoutingCalls /\ d.req = k.req /\ d.seen = k.seen
          /\ d.pc = "done" /\ d.result = Mocked(mock) /\ d.sent = sent
      BY <1>1, <1>5, <2>2 DEF RoutingCalls
    <2> HIDE DEF d
    <2>. QED
      BY <1>1, <1>2, <1>5, <1>7, <2>1, <2>3 DEF Permits, Answer
  <1>8. CASE Permits(k) /\ mock = None
    <2> DEFINE d == [k EXCEPT !.pc = "route", !.sent = sent, !.todo = Chain(k.req)]
    <2>1. Becomes(c, d)
      BY <1>2, <1>8 DEF Govern, Set, Becomes
    <2>2. Chain(k.req) \in Seq(STRING)
      BY <1>3, ChainType
    <2> HIDE DEF sent, mock
    <2>3. d \in RoutingCalls /\ d.req = k.req /\ d.seen = k.seen
          /\ d.pc = "route" /\ d.result = k.result /\ d.sent = sent
      BY <1>1, <1>5, <2>2 DEF RoutingCalls
    <2> HIDE DEF d
    <2>. QED
      BY <1>1, <1>2, <1>5, <1>8, <2>1, <2>3 DEF Permits, Answer
  <1>. QED
    BY <1>6, <1>7, <1>8

\* A copy that is sent goes where it fits.
LEMMA CopyStep ==
  ASSUME RoutingTypeOK, NEW c \in Callers, SendCopy(c) \/ SendCopyFails(c)
  PROVE  /\ calls[c] \in RoutingCalls
         /\ \E sent \in SUBSET Copies :
               /\ Becomes(c, [calls[c] EXCEPT !.sent = sent])
               /\ calls[c].sent = {} => sent = {}
               /\ \A m \in sent : m \in calls[c].sent \/ (m.at \in Ids => ShadowFits(Shadows[m.to], m.at))
  <1>1. calls[c] \in RoutingCalls
    BY Active DEF SendCopy, SendCopyFails
  <1>2. PICK m \in calls[c].sent : calls' = Copied(c, m, ShadowOf(Shadows[m.to])) \/ calls' = Copied(c, m, "failed")
    BY DEF SendCopy, SendCopyFails
  <1>3. m \in Copies /\ calls[c].sent \in SUBSET Copies
    BY <1>1, <1>2 DEF RoutingCalls
  <1>4. m.to \in DOMAIN Shadows
    BY <1>3 DEF Copies
  <1>5. PICK to : /\ calls' = Copied(c, m, to) /\ to \in Ids \cup {"failed"}
                  /\ to \in Ids => ShadowFits(Shadows[m.to], to)
    BY <1>2, <1>4, ShadowFound, RoutingAssumption
  <1> DEFINE copy == [m EXCEPT !.at = to]
             sent == (calls[c].sent \ {m}) \cup {copy}
  <1>6. copy \in Copies /\ copy.to = m.to /\ copy.at = to
    BY <1>3, <1>5 DEF Copies
  <1>7. Becomes(c, [calls[c] EXCEPT !.sent = sent])
    BY <1>1, <1>5 DEF Copied, Becomes, RoutingTypeOK
  <1> HIDE DEF copy
  <1>8. sent \in SUBSET Copies /\ \A n \in sent : n \in calls[c].sent \/ n = copy
    BY <1>3, <1>6
  <1> HIDE DEF sent
  <1>. QED
    BY <1>1, <1>2, <1>5, <1>6, <1>7, <1>8

-----------------------------------------------------------------------------
(* The steps of a chain and of a balancer                                   *)

\* What the lists of a call were left by.
RulesLeft(d) == \A i \in ToSet(d.given.list) : RulesObeyed(d, i)
LanesLeft(d) == \A i \in ToSet(d.given.list) : LaneObeyed(d, i)
NoneOfCallee(d) == \A i \in ToSet(d.given.list) : ~Fits(d.req, RoutesOf(d.seen.callee, d.req.callee), i)

Passes(c, d) == Becomes(c, d) /\ d.req = calls[c].req /\ d.sent = calls[c].sent

\* Fewer instances obey what more of them did.
LEMMA LeftObey ==
  ASSUME NEW k, NEW d, d.req = k.req, ToSet(d.given.list) \subseteq ToSet(k.given.list)
  PROVE  /\ d.seen.callee = k.seen.callee /\ d.seen.caller = k.seen.caller /\ RulesLeft(k) => RulesLeft(d)
         /\ d.seen.lane = k.seen.lane /\ LanesLeft(k) => LanesLeft(d)
  <1>1. ASSUME d.seen.callee = k.seen.callee, d.seen.caller = k.seen.caller, RulesLeft(k)
        PROVE  RulesLeft(d)
    BY <1>1 DEF RulesLeft, RulesObeyed
  <1>2. ASSUME d.seen.lane = k.seen.lane, LanesLeft(k)
        PROVE  LanesLeft(d)
    BY <1>2 DEF LanesLeft, LaneObeyed
  <1>. QED
    BY <1>1, <1>2

\* The routers that read no rules, and those that fail.
LEMMA PlainStep ==
  ASSUME RoutingTypeOK, NEW c \in Callers, PlainRouter(c) \/ LoadRuleFails(c)
  PROVE  /\ calls[c] \in RoutingCalls /\ calls[c].pc \in {"route", "caller"}
         /\ \E d \in RoutingCalls :
               /\ Passes(c, d) /\ d.seen = calls[c].seen
               /\ \/ d.pc = "done" /\ d.result = Because("error")
                  \/ /\ calls[c].pc = "route" /\ d.pc = "route"
                     /\ d.result = calls[c].result /\ Left(d.given, calls[c].given)
  <1> DEFINE k == calls[c]
  <1>1. k \in RoutingCalls /\ k.pc \in {"route", "caller"} /\ k.todo # <<>>
    BY Active DEF PlainRouter, LoadRuleFails, At, RoutingTypeOK
  <1>2. k.given \in Givens /\ k.seen \in [Kinds -> Versions \cup {Unread}]
    BY <1>1 DEF RoutingCalls
  <1>3. CASE PlainRouter(c)
    <2>1. k.pc = "route"
      BY <1>3 DEF PlainRouter, At
    <2>2. PICK answer : (answer = Failed \/ Left(answer, k.given)) /\ Goes(c, answer, k.seen)
      BY <1>2, <1>3, PlainAnswers DEF PlainRouter
    <2>3. answer = Failed \/ answer \in Givens
      BY <2>2 DEF Left
    <2>4. CASE answer = Failed
      <3>1. End(c, Because("error"))
        BY <2>2, <2>4 DEF Goes
      <3>. QED
        BY <1>1, <3>1, Ended, ResultTypes DEF Passes, Becomes
    <2>5. CASE answer # Failed
      <3>1. PICK d \in RoutingCalls :
               /\ Passes(c, d) /\ d.pc = "route" /\ d.result = k.result /\ d.seen = k.seen /\ d.given = answer
        BY <1>1, <1>2, <2>2, <2>3, <2>5, Going DEF Passes, Becomes
      <3>. QED
        BY <1>1, <2>1, <2>2, <2>5, <3>1
    <2>. QED
      BY <2>4, <2>5
  <1>4. CASE LoadRuleFails(c)
    <2>1. Goes(c, Failed, k.seen)
      BY <1>4 DEF LoadRuleFails
    <2>2. End(c, Because("error"))
      BY <2>1 DEF Goes
    <2>. QED
      BY <1>1, <2>2, Ended, ResultTypes DEF Passes, Becomes
  <1>. QED
    BY <1>3, <1>4

\* The lane router leaves instances of a lane, or of none.
LEMMA LaneStep ==
  ASSUME RoutingTypeOK, NEW c \in Callers, LaneRouter(c)
  PROVE  /\ calls[c] \in RoutingCalls /\ calls[c].pc = "route"
         /\ \E d \in RoutingCalls :
               /\ Passes(c, d) /\ \A n \in Kinds \ {"lane"} : d.seen[n] = calls[c].seen[n]
               /\ \/ d.pc = "done" /\ d.result = Because("error")
                  \/ d.pc = "route" /\ d.result = calls[c].result /\ Left(d.given, calls[c].given) /\ LanesLeft(d)
  <1> DEFINE k == calls[c]
             groups == Read(version, Callee(c), "lane")
             answer == ByLane(k.req, groups, k.given)
             seen == [k.seen EXCEPT !.lane = version]
  <1>1. k \in RoutingCalls /\ k.pc = "route" /\ k.todo # <<>>
    BY Active DEF LaneRouter, At
  <1>2. k.given \in Givens /\ k.seen \in [Kinds -> Versions \cup {Unread}] /\ version \in Versions
    BY <1>1 DEF RoutingCalls, RoutingTypeOK
  <1>3. /\ seen \in [Kinds -> Versions \cup {Unread}] /\ seen.lane = version
        /\ \A n \in Kinds \ {"lane"} : seen[n] = k.seen[n]
    BY <1>2 DEF Kinds
  <1>4. Left(answer, k.given) /\ InLanes(k.req, groups, answer.list)
    BY <1>2, LaneAnswers
  <1>5. Goes(c, answer, seen)
    BY DEF LaneRouter
  <1> HIDE DEF answer, seen
  <1>6. PICK d \in RoutingCalls :
           /\ Passes(c, d)
           /\ \/ d.pc = "done" /\ d.result = Because("error") /\ d.seen = k.seen
              \/ d.pc = "route" /\ d.result = k.result /\ d.seen = seen /\ d.given = answer
    BY <1>1, <1>3, <1>4, <1>5, Going DEF Passes, Becomes, Left
  <1>7. d.seen = seen /\ d.given = answer => LanesLeft(d)
    <2>. SUFFICES ASSUME d.seen = seen, d.given = answer
                  PROVE  LanesLeft(d)
      OBVIOUS
    <2>1. d.req = k.req /\ Read(d.seen.lane, d.req.callee, "lane") = groups
      BY <1>3, <1>6 DEF Callee, Passes
    <2>. QED
      BY <1>4, <2>1 DEF LanesLeft, LaneObeyed, InLanes
  <1>. QED
    BY <1>1, <1>3, <1>4, <1>6, <1>7

\* The callee's rules leave instances they let the call have, or none.
LEMMA CalleeStep ==
  ASSUME RoutingTypeOK, NEW c \in Callers, RuleOfCallee(c)
  PROVE  /\ calls[c] \in RoutingCalls /\ calls[c].pc = "route"
         /\ \E d \in RoutingCalls :
               /\ Passes(c, d) /\ \A n \in Kinds \ {"callee"} : d.seen[n] = calls[c].seen[n]
               /\ \/ d.pc = "done" /\ d.result = Because("error")
                  \/ d.pc = "route" /\ d.result = calls[c].result /\ Left(d.given, calls[c].given) /\ RulesLeft(d)
                  \/ /\ d.pc = "caller" /\ d.result = calls[c].result /\ d.given = calls[c].given
                     /\ d.todo # <<>> /\ NoneOfCallee(d)
  <1> DEFINE k == calls[c]
             routes == RoutesOf(version, Callee(c))
             found == Routed(k.req, routes, k.given.list)
             seen == [k.seen EXCEPT !.callee = version]
  <1>1. k \in RoutingCalls /\ k.pc = "route" /\ k.todo # <<>>
    BY Active DEF RuleOfCallee, At
  <1>2. /\ k.req \in Requests /\ k.given \in Givens /\ k.given.list \in Seq(Ids)
        /\ k.seen \in [Kinds -> Versions \cup {Unread}] /\ version \in Versions
    BY <1>1 DEF RoutingCalls, RoutingTypeOK, Givens
  <1>3. /\ seen \in [Kinds -> Versions \cup {Unread}] /\ seen.callee = version
        /\ \A n \in Kinds \ {"callee"} : seen[n] = k.seen[n]
    BY <1>2 DEF Kinds
  <1>4. Callee(c) = k.req.callee /\ Callee(c) \in Ruling(k.req)
    BY DEF Callee, Ruling
  <1>5. /\ found \in Seq(Ids) /\ ToSet(found) \subseteq ToSet(k.given.list)
        /\ \A i \in ToSet(found) : Fits(k.req, routes, i)
        /\ found = <<>> => \A i \in ToSet(k.given.list) : ~Fits(k.req, routes, i)
    BY <1>2, <1>4, RoutedFits
  <1>6. CASE found # <<>>
    <2>1. Goes(c, Counted(found), seen)
      BY <1>6 DEF RuleOfCallee
    <2>2. Counted(found) \in Givens /\ Counted(found).list = found
      BY <1>5, CountedGiven
    <2> HIDE DEF seen, found, routes
    <2>3. PICK d \in RoutingCalls :
             /\ Passes(c, d)
             /\ \/ d.pc = "done" /\ d.result = Because("error") /\ d.seen = k.seen
                \/ d.pc = "route" /\ d.result = k.result /\ d.seen = seen /\ d.given = Counted(found)
      BY <1>1, <1>3, <2>1, <2>2, Going DEF Passes, Becomes
    <2>4. d.seen = seen /\ d.given = Counted(found) => RulesLeft(d) /\ Left(d.given, k.given)
      <3>. SUFFICES ASSUME d.seen = seen, d.given = Counted(found)
                    PROVE  RulesLeft(d) /\ Left(d.given, k.given)
        OBVIOUS
      <3>1. d.req = k.req /\ RoutesOf(d.seen.callee, d.req.callee) = routes
        BY <1>3, <1>4, <2>3 DEF Passes, routes
      <3>. QED
        BY <1>5, <2>2, <3>1 DEF RulesLeft, RulesObeyed, Left
    <2>. QED
      BY <1>1, <1>3, <2>3, <2>4
  <1>7. CASE found = <<>>
    <2> DEFINE d == [k EXCEPT !.pc = "caller", !.seen = seen]
    <2>1. Becomes(c, d)
      BY <1>7 DEF RuleOfCallee, Set, Becomes
    <2> HIDE DEF seen, found, routes
    <2>2. d \in RoutingCalls /\ d.req = k.req /\ d.sent = k.sent /\ d.seen = seen /\ d.pc = "caller"
          /\ d.result = k.result /\ d.given = k.given /\ d.todo = k.todo
      BY <1>1, <1>3 DEF RoutingCalls
    <2> HIDE DEF d
    <2>3. RoutesOf(d.seen.callee, d.req.callee) = routes
      BY <1>3, <1>4, <2>2 DEF routes
    <2>4. NoneOfCallee(d)
      BY <1>5, <1>7, <2>2, <2>3 DEF NoneOfCallee
    <2>. QED
      BY <1>1, <1>3, <2>1, <2>2, <2>4 DEF Passes
  <1>. QED
    BY <1>6, <1>7

\* So do the caller's where the callee's left none.
LEMMA CallerStep ==
  ASSUME RoutingTypeOK, NEW c \in Callers, RuleOfCaller(c), NoneOfCallee(calls[c])
  PROVE  /\ calls[c] \in RoutingCalls /\ calls[c].pc = "caller"
         /\ \E d \in RoutingCalls :
               /\ Passes(c, d) /\ \A n \in Kinds \ {"caller"} : d.seen[n] = calls[c].seen[n]
               /\ \/ d.pc = "done" /\ d.result = Because("error")
                  \/ d.pc = "route" /\ d.result = calls[c].result /\ Left(d.given, calls[c].given) /\ RulesLeft(d)
  <1> DEFINE k == calls[c]
             routes == RoutesOf(version, k.req.caller)
             found == Routed(k.req, routes, k.given.list)
             ruled == routes # {} \/ RoutesOf(k.seen.callee, Callee(c)) # {}
             answer == CASE found # <<>> -> Counted(found)
                         [] found = <<>> /\ ruled /\ config.failover = "none" -> Counted(<<>>)
                         [] OTHER -> k.given
             seen == [k.seen EXCEPT !.caller = version]
  <1>1. k \in RoutingCalls /\ k.pc = "caller" /\ k.todo # <<>>
    BY Active DEF RuleOfCaller, RoutingTypeOK
  <1>2. /\ k.req \in Requests /\ k.given \in Givens /\ k.given.list \in Seq(Ids)
        /\ k.seen \in [Kinds -> Versions \cup {Unread}] /\ version \in Versions
    BY <1>1 DEF RoutingCalls, RoutingTypeOK, Givens
  <1>3. /\ seen \in [Kinds -> Versions \cup {Unread}] /\ seen.caller = version
        /\ \A n \in Kinds \ {"caller"} : seen[n] = k.seen[n]
    BY <1>2 DEF Kinds
  <1>4. Callee(c) = k.req.callee /\ k.req.caller \in Ruling(k.req) /\ "callee" \in Kinds \ {"caller"}
    BY DEF Callee, Ruling, Kinds
  <1>5. /\ found \in Seq(Ids) /\ ToSet(found) \subseteq ToSet(k.given.list)
        /\ \A i \in ToSet(found) : Fits(k.req, routes, i)
    BY <1>2, <1>4, RoutedFits
  <1>6. Goes(c, answer, seen)
    BY DEF RuleOfCaller
  <1> HIDE DEF found, routes
  <1>7. \/ answer = Counted(found)
        \/ answer = Counted(<<>>)
        \/ answer = k.given /\ (config.failover # "none" \/ ~ruled)
    OBVIOUS
  <1>8. Left(answer, k.given)
    BY <1>2, <1>5, <1>7, CountedGiven, LeftNone DEF Left
  <1> HIDE DEF answer, seen, ruled
  <1>9. PICK d \in RoutingCalls :
           /\ Passes(c, d)
           /\ \/ d.pc = "done" /\ d.result = Because("error") /\ d.seen = k.seen
              \/ d.pc = "route" /\ d.result = k.result /\ d.seen = seen /\ d.given = answer
    BY <1>1, <1>3, <1>6, <1>8, Going DEF Passes, Becomes, Left
  <1>10. d.seen = seen /\ d.given = answer => RulesLeft(d)
    <2>. SUFFICES ASSUME d.seen = seen, d.given = answer
                  PROVE  RulesLeft(d)
      OBVIOUS
    <2>1. /\ d.req = k.req /\ RoutesOf(d.seen.caller, d.req.caller) = routes
          /\ RoutesOf(d.seen.callee, d.req.callee) = RoutesOf(k.seen.callee, Callee(c))
      BY <1>3, <1>4, <1>9 DEF Passes, routes
    <2>2. \A j \in ToSet(answer.list) : ~Fits(d.req, RoutesOf(d.seen.callee, d.req.callee), j)
      BY <1>4, <1>8, <2>1 DEF NoneOfCallee, Left
    <2>3. CASE answer = Counted(found)
      BY <1>5, <2>1, <2>2, <2>3, CountedGiven DEF RulesLeft, RulesObeyed
    <2>4. CASE answer = Counted(<<>>)
      BY <2>4, LeftNone DEF RulesLeft
    <2>5. CASE config.failover # "none" \/ ~ruled
      BY <2>1, <2>5 DEF RulesLeft, RulesObeyed, ruled
    <2>. QED
      BY <1>7, <2>3, <2>4, <2>5
  <1>. QED
    BY <1>1, <1>3, <1>8, <1>9, <1>10

\* A balancer gives an instance of the list, or none.
LEMMA DrawStep ==
  ASSUME RoutingTypeOK, NEW c \in Callers, DrawRandom(c) \/ NoBalancer(c)
  PROVE  /\ calls[c] \in RoutingCalls /\ calls[c].pc = "route"
         /\ \E d \in RoutingCalls :
               /\ Passes(c, d) /\ d.pc = "done" /\ d.seen = calls[c].seen
               /\ \/ d.result = Because("error")
                  \/ /\ d.req.balancer = "weightedRandom" /\ d.given = calls[c].given
                     /\ \E i \in ToSet(d.given.list) : d.result = Found(i)
  <1> DEFINE k == calls[c]
  <1>1. k \in RoutingCalls /\ k.pc = "route" /\ k.given \in Givens /\ k.given.list \in Seq(Ids)
    BY Active DEF DrawRandom, NoBalancer, Routes, RoutingCalls, Givens
  <1>2. CASE End(c, Because("error"))
    BY <1>1, <1>2, Ended, ResultTypes DEF Passes, Becomes
  <1>3. CASE DrawRandom(c) /\ k.given.total # 0
    <2>1. PICK r : calls' = [calls EXCEPT ![c] = [k EXCEPT !.pc = "done", !.result = Found(Drawn(k.given, r))]]
      BY <1>3 DEF DrawRandom, Set
    <2> DEFINE i == Drawn(k.given, r)
               d == [k EXCEPT !.pc = "done", !.result = Found(i)]
    <2>2. Becomes(c, d)
      BY <2>1 DEF Becomes
    <2>3. i \in ToSet(k.given.list)
      BY <1>1, <1>3, DrawnListed
    <2>4. i \in Ids
      BY <1>1, <2>3, Listed
    <2> HIDE DEF i
    <2>5. d \in RoutingCalls /\ d.req = k.req /\ d.sent = k.sent /\ d.seen = k.seen /\ d.given = k.given
          /\ d.pc = "done" /\ d.result = Found(i)
      BY <1>1, <2>4, ResultTypes DEF RoutingCalls
    <2> HIDE DEF d
    <2>. QED
      BY <1>1, <1>3, <2>2, <2>3, <2>5 DEF Passes, DrawRandom
  <1>. QED
    BY <1>2, <1>3 DEF DrawRandom, NoBalancer

\* The one ring that all services share.
TheRing == rings[""]
HasRing == "" \in DOMAIN rings

\* Once there is a ring, it stays.
LEMMA PrepareStep ==
  ASSUME RoutingTypeOK, NEW c \in Callers, PrepareRing(c)
  PROVE  /\ calls[c] \in RoutingCalls /\ calls[c].pc = "route"
         /\ \E d \in RoutingCalls :
               /\ Passes(c, d) /\ d.pc = "ring" /\ d.seen = calls[c].seen /\ d.given = calls[c].given
               /\ d.result = calls[c].result /\ d.req.balancer = "ringHash"
         /\ HasRing' /\ (HasRing => TheRing' = TheRing)
         /\ \E keys \in SUBSET {""} : rings' \in [keys -> [revision : {""}, nodes : SUBSET Ids]]
  <1> DEFINE k == calls[c]
             d == [k EXCEPT !.pc = "ring"]
             list == k.given.list
             cached == "" \in DOMAIN rings /\ rings[""].revision = ""
  <1>1. k \in RoutingCalls /\ k.pc = "route" /\ list \in Seq(Ids) /\ k.req.balancer = "ringHash"
    BY Active DEF PrepareRing, Routes, RoutingCalls, Givens
  <1>2. Becomes(c, d)
    BY DEF PrepareRing, Set, Becomes
  <1>3. d \in RoutingCalls /\ d.req = k.req /\ d.sent = k.sent /\ d.seen = k.seen /\ d.given = k.given
        /\ d.pc = "ring" /\ d.result = k.result
    BY <1>1 DEF RoutingCalls
  <1>4. PICK keys \in SUBSET {""} : rings \in [keys -> [revision : {""}, nodes : SUBSET Ids]]
    BY DEF RoutingTypeOK
  <1>5. Ring(list) \in [revision : {""}, nodes : SUBSET Ids]
    BY <1>1, Listed DEF Ring, ServiceOf
  <1>6. rings' = [x \in DOMAIN rings \cup {""} |-> IF x = "" /\ ~cached THEN Ring(list) ELSE rings[x]]
    BY DEF PrepareRing, ServiceOf
  <1> HIDE DEF d, list
  <1>7. rings' \in [{""} -> [revision : {""}, nodes : SUBSET Ids]]
    BY <1>4, <1>5, <1>6
  <1>8. HasRing' /\ (HasRing => TheRing' = TheRing)
    BY <1>4, <1>6 DEF HasRing, TheRing
  <1>. QED
    BY <1>1, <1>2, <1>3, <1>7, <1>8 DEF Passes

\* A call that has a ring ends with what the ring answers.
LEMMA ReadRingStep ==
  ASSUME RoutingTypeOK, NEW c \in Callers, ReadRing(c), HasRing
  PROVE  /\ calls[c] \in RoutingCalls /\ calls[c].pc = "ring"
         /\ \E d \in RoutingCalls :
               /\ Passes(c, d) /\ d.pc = "done" /\ d.seen = calls[c].seen /\ d.given = calls[c].given
               /\ d.result = Node(TheRing, HashOf[d.req.hash]) /\ d.result.kind \in {"instance", "panic"}
  <1> DEFINE k == calls[c]
             result == Node(TheRing, HashOf[k.req.hash])
             d == [k EXCEPT !.pc = "done", !.result = result]
  <1>1. k \in RoutingCalls /\ k.pc = "ring" /\ k.req \in Requests
    BY Active DEF ReadRing, RoutingCalls
  <1>2. Becomes(c, d)
    BY DEF ReadRing, Set, Becomes, ServiceOf, TheRing
  <1>3. TheRing.nodes \subseteq Ids
    BY DEF RoutingTypeOK, HasRing, TheRing
  <1>4. HashOf[k.req.hash] \in Nat
    BY <1>1, RoutingAssumption
  <1>5. result = Because("panic") \/ \E i \in Ids : result = Found(i)
    BY <1>3, <1>4, NodeFound
  <1>6. result \in Results /\ result.kind \in {"instance", "panic"}
    BY <1>5, ResultTypes
  <1> HIDE DEF result
  <1>7. d \in RoutingCalls /\ d.req = k.req /\ d.sent = k.sent /\ d.seen = k.seen /\ d.given = k.given
        /\ d.pc = "done" /\ d.result = result
    BY <1>1, <1>6 DEF RoutingCalls
  <1> HIDE DEF d
  <1>. QED
    BY <1>1, <1>2, <1>6, <1>7 DEF Passes, result

-----------------------------------------------------------------------------
(* The invariant                                                            *)

\* What the policies a call read decide for it.
Governed(d) ==
    /\ d.pc = "security" => d.seen.security = Unread
    /\ d.pc \in Early => d.result = NoResult /\ d.sent = {}
    /\ d.pc \in {"route", "caller", "ring"} => Permits(d) /\ Answer(d) = None /\ d.result = NoResult
    /\ d.pc = "done" /\ d.seen.security # Unread =>
          /\ ~Permits(d) <=> d.result.kind = "denied"
          /\ ~Permits(d) => d.sent = {}
          /\ Permits(d) /\ Answer(d) # None => d.result = Mocked(Answer(d))
    /\ \A m \in d.sent : m.at \in Ids => ShadowFits(Shadows[m.to], m.at)

\* What the routers leave of its list.
Obeying(d) ==
    /\ d.pc \in Early => \A n \in {"callee", "caller", "lane"} : d.seen[n] = Unread
    /\ d.pc \in {"route", "ring"} => RulesLeft(d)
    /\ d.pc \in {"route", "caller", "ring"} => LanesLeft(d)
    /\ d.pc = "caller" => NoneOfCallee(d)
    /\ Answered(d, "weightedRandom", {"instance"}) => RulesObeyed(d, d.result.of) /\ LaneObeyed(d, d.result.of)

\* What it reads of the ring.
FromRing(d) ==
    /\ d.pc = "ring" => HasRing /\ d.req.balancer = "ringHash"
    /\ Answered(d, "ringHash", {"instance", "panic"}) => HasRing /\ d.result = Node(TheRing, HashOf[d.req.hash])

RoutingInv ==
    /\ RoutingTypeOK
    /\ \A c \in Callers : calls[c] # Idle => Governed(calls[c]) /\ Obeying(calls[c]) /\ FromRing(calls[c])

\* A step of a call that keeps it good, and does not touch a ring others read.
GoodStep(c) ==
    /\ UNCHANGED <<version, config>>
    /\ \E d \in RoutingCalls :
          Becomes(c, d) /\ (d.pc = "caller" => d.todo # <<>>) /\ Governed(d) /\ Obeying(d)' /\ FromRing(d)'

\* The three parts, of a call that only ends or goes on with less.
LEMMA GovernedOn ==
  ASSUME NEW k, Governed(k), NEW d, d.req = k.req, d.sent = k.sent,
         d.seen.security = k.seen.security, d.seen.mock = k.seen.mock,
         k.pc \in {"route", "caller", "ring"}, d.pc \in {"route", "caller", "ring", "done"},
         d.pc # "done" => d.result = k.result,
         d.pc = "done" => d.result.kind # "denied"
  PROVE  Governed(d)
  <1>1. (Permits(d) <=> Permits(k)) /\ Answer(d) = Answer(k)
    BY DEF Permits, Answer
  <1>. QED
    BY <1>1 DEF Governed, Early

\* What does not move stays good.
LEMMA StillGood ==
  ASSUME NEW d
  PROVE  /\ UNCHANGED config => (Obeying(d)' <=> Obeying(d))
         /\ FromRing(d) /\ (HasRing => HasRing' /\ TheRing' = TheRing) => FromRing(d)'
         /\ FromRing(d) /\ UNCHANGED rings => FromRing(d)'
  <1>1. UNCHANGED config => (Obeying(d)' <=> Obeying(d))
    BY DEF Obeying, Answered, RulesLeft, LanesLeft, NoneOfCallee, RulesObeyed, LaneObeyed
  <1>2. FromRing(d) /\ (HasRing => HasRing' /\ TheRing' = TheRing) => FromRing(d)'
    BY DEF FromRing, Answered
  <1>3. UNCHANGED rings => (HasRing => HasRing' /\ TheRing' = TheRing)
    BY DEF HasRing, TheRing
  <1>. QED
    BY <1>1, <1>2, <1>3

\* What no ring answered agrees with it.
LEMMA FromRingOn ==
  ASSUME UNCHANGED rings, NEW d, d.pc # "ring",
         d.pc # "done" \/ d.req.balancer # "ringHash" \/ d.result.kind \notin {"instance", "panic"}
  PROVE  FromRing(d)'
  BY DEF FromRing, Answered

\* The steps of a call, up to its routers, of its copies, of its routers and
\* of its balancer, keep it good.
LEMMA EarlySteps ==
  ASSUME RoutingInv, NEW c \in Callers,
         (\E req \in Requests : Begin(c, req)) \/ LoadPolicy(c) \/ LoadPolicyFails(c) \/ Govern(c)
  PROVE  GoodStep(c) /\ UNCHANGED rings
  <1>1. UNCHANGED <<version, config, rings>>
    BY DEF Begin, LoadPolicy, LoadPolicyFails, Govern
  <1>2. RoutingTypeOK
    BY DEF RoutingInv
  <1>3. "none" # "denied" /\ "error" # "denied" /\ "callee" \in Kinds /\ "caller" \in Kinds
        /\ "lane" \in Kinds /\ "security" \in Kinds
    BY DEF Kinds
  <1>4. CASE \E req \in Requests : Begin(c, req)
    <2>1. PICK d \in RoutingCalls :
            /\ Becomes(c, d) /\ d.pc = "security" /\ d.result = NoResult /\ d.sent = {}
            /\ \A k \in Kinds : d.seen[k] = Unread
      BY <1>2, <1>4, BeginStep
    <2>2. Governed(d) /\ Obeying(d)'
      BY <1>3, <2>1 DEF Governed, Obeying, Answered, Early
    <2>3. FromRing(d)'
      BY <1>1, <2>1, FromRingOn
    <2>. QED
      BY <1>1, <2>1, <2>2, <2>3 DEF GoodStep
  <1>5. CASE LoadPolicy(c) \/ LoadPolicyFails(c)
    <2> DEFINE k == calls[c]
    <2>1. /\ k \in RoutingCalls /\ k.pc \in Early
          /\ \E d \in RoutingCalls :
                /\ Becomes(c, d) /\ d.req = k.req /\ d.sent = k.sent
                /\ \A n \in {"callee", "caller", "lane"} : d.seen[n] = k.seen[n]
                /\ \/ d.pc \in Early \ {"security"} /\ d.result = k.result
                   \/ k.pc = "security" /\ d.pc = "done" /\ d.result = Because("error") /\ d.seen = k.seen
      BY <1>2, <1>5, LoadPolicyStep
    <2>2. PICK d \in RoutingCalls :
                /\ Becomes(c, d) /\ d.req = k.req /\ d.sent = k.sent
                /\ \A n \in {"callee", "caller", "lane"} : d.seen[n] = k.seen[n]
                /\ \/ d.pc \in Early \ {"security"} /\ d.result = k.result
                   \/ k.pc = "security" /\ d.pc = "done" /\ d.result = Because("error") /\ d.seen = k.seen
      BY <2>1
    <2>3. Governed(k) /\ Obeying(k)
      BY <1>2, <2>1, Active DEF RoutingInv
    <2> HIDE DEF k
    <2>4. Governed(d)
      BY <2>1, <2>2, <2>3 DEF Governed, Early
    <2>5. Obeying(d)'
      BY <2>1, <2>2, <2>3, ResultTypes DEF Obeying, Answered, Early
    <2>6. FromRing(d)'
      BY <1>1, <2>2, FromRingOn, ResultTypes DEF Early
    <2>. QED
      BY <1>1, <2>2, <2>4, <2>5, <2>6 DEF GoodStep, Early
  <1>6. CASE Govern(c)
    <2> DEFINE k == calls[c]
    <2>1. k \in RoutingCalls /\ k.pc = "govern"
      BY <1>2, <1>6, GovernStep
    <2>2. PICK d \in RoutingCalls :
               /\ Becomes(c, d) /\ d.req = k.req /\ d.seen = k.seen
               /\ \/ d.pc = "done" /\ ~Permits(d) /\ d.result = Because("denied") /\ d.sent = k.sent
                  \/ /\ d.pc = "done" /\ Permits(d) /\ Answer(d) # None /\ d.result = Mocked(Answer(d))
                     /\ \A m \in d.sent : m.at = "spawned"
                  \/ /\ d.pc = "route" /\ Permits(d) /\ Answer(d) = None /\ d.result = k.result
                     /\ \A m \in d.sent : m.at = "spawned"
      BY <1>2, <1>6, GovernStep
    <2>3. Governed(k) /\ Obeying(k)
      BY <1>2, <2>1, Active DEF RoutingInv
    <2> HIDE DEF k
    <2>4. k.result = NoResult /\ k.sent = {} /\ d.seen.callee = Unread /\ d.seen.caller = Unread /\ d.seen.lane = Unread
      BY <2>1, <2>2, <2>3 DEF Governed, Obeying, Early
    <2>5. Mocked(Answer(d)).kind = "mocked" /\ Because("denied").kind = "denied" /\ "spawned" \notin Ids
      BY RoutingAssumption DEF Mocked, Because
    <2>6. Governed(d)
      BY <2>2, <2>4, <2>5 DEF Governed, Early
    <2>7. RulesLeft(d)' /\ LanesLeft(d)'
      BY <2>4 DEF RulesLeft, RulesObeyed, LanesLeft, LaneObeyed, RoutesOf
    <2>8. Obeying(d)'
      BY <2>2, <2>4, <2>5, <2>7, ResultTypes DEF Obeying, Answered, Early
    <2>9. FromRing(d)'
      BY <1>1, <2>2, <2>5, FromRingOn
    <2>. QED
      BY <1>1, <2>2, <2>6, <2>8, <2>9 DEF GoodStep
  <1>. QED
    BY <1>1, <1>4, <1>5, <1>6

LEMMA CopySteps ==
  ASSUME RoutingInv, NEW c \in Callers, SendCopy(c) \/ SendCopyFails(c)
  PROVE  GoodStep(c) /\ UNCHANGED rings
  <1> DEFINE k == calls[c]
  <1>1. UNCHANGED <<version, config, rings>>
    BY DEF SendCopy, SendCopyFails
  <1>2. RoutingTypeOK
    BY DEF RoutingInv
  <1>3. k \in RoutingCalls
    BY <1>2, CopyStep
  <1>4. PICK sent \in SUBSET Copies :
          /\ Becomes(c, [k EXCEPT !.sent = sent])
          /\ k.sent = {} => sent = {}
          /\ \A m \in sent : m \in k.sent \/ (m.at \in Ids => ShadowFits(Shadows[m.to], m.at))
    BY <1>2, CopyStep
  <1>5. Governed(k) /\ Obeying(k) /\ FromRing(k) /\ (k.pc = "caller" => k.todo # <<>>)
    BY <1>2, <1>3, Active DEF RoutingInv, RoutingTypeOK
  <1>6. PICK d \in RoutingCalls :
           /\ d.pc = k.pc /\ d.req = k.req /\ d.seen = k.seen /\ d.given = k.given
           /\ d.todo = k.todo /\ d.result = k.result /\ d.sent = sent /\ Becomes(c, d)
    <2>1. [k EXCEPT !.sent = sent] \in RoutingCalls
      BY <1>3 DEF RoutingCalls
    <2>. QED
      BY <1>3, <1>4, <2>1 DEF RoutingCalls
  <1> HIDE DEF k
  <1>8. (Permits(d) <=> Permits(k)) /\ Answer(d) = Answer(k)
    BY <1>6 DEF Permits, Answer
  <1>9. Governed(d)
    BY <1>4, <1>5, <1>6, <1>8 DEF Governed
  <1>10. Obeying(d) /\ FromRing(d)
    BY <1>5, <1>6 DEF Obeying, FromRing, Answered, RulesLeft, LanesLeft, NoneOfCallee, RulesObeyed, LaneObeyed
  <1>11. Obeying(d)' /\ FromRing(d)'
    BY <1>1, <1>10, StillGood
  <1>. QED
    BY <1>1, <1>5, <1>6, <1>9, <1>11 DEF GoodStep

LEMMA ChainSteps ==
  ASSUME RoutingInv, NEW c \in Callers,
         PlainRouter(c) \/ LoadRuleFails(c) \/ LaneRouter(c) \/ RuleOfCallee(c) \/ RuleOfCaller(c)
  PROVE  GoodStep(c) /\ UNCHANGED rings
  <1> DEFINE k == calls[c]
  <1>1. UNCHANGED <<version, config, rings>>
    BY DEF PlainRouter, LoadRuleFails, LaneRouter, RuleOfCallee, RuleOfCaller, Goes
  <1>2. RoutingTypeOK
    BY DEF RoutingInv
  <1>3. k \in RoutingCalls /\ k.pc \in {"route", "caller"} /\ Governed(k) /\ Obeying(k)
    <2>1. k \in RoutingCalls /\ k.pc \in {"route", "caller"}
      BY <1>2, Active DEF PlainRouter, LoadRuleFails, LaneRouter, RuleOfCallee, RuleOfCaller, At
    <2>. QED
      BY <1>2, <2>1, Active DEF RoutingInv
  <1>4. k.pc = "caller" => NoneOfCallee(k)
    BY <1>3 DEF Obeying
  <1>5. LanesLeft(k) /\ (k.pc = "route" => RulesLeft(k))
    BY <1>3 DEF Obeying
  <1>6. PICK d \in RoutingCalls :
          /\ Passes(c, d)
          /\ d.seen.security = k.seen.security /\ d.seen.mock = k.seen.mock
          /\ \/ d.pc = "done" /\ d.result = Because("error")
             \/ d.pc = "route" /\ d.result = k.result /\ RulesLeft(d) /\ LanesLeft(d)
             \/ d.pc = "caller" /\ d.result = k.result /\ d.todo # <<>> /\ NoneOfCallee(d) /\ LanesLeft(d)
    <2>1. /\ {"security", "mock"} \subseteq Kinds \ {"lane", "caller", "callee"}
          /\ {"lane", "caller", "callee"} \subseteq Kinds
      BY DEF Kinds
    <2>2. CASE PlainRouter(c) \/ LoadRuleFails(c)
      <3>1. PICK d \in RoutingCalls :
               /\ Passes(c, d) /\ d.seen = k.seen
               /\ \/ d.pc = "done" /\ d.result = Because("error")
                  \/ k.pc = "route" /\ d.pc = "route" /\ d.result = k.result /\ Left(d.given, k.given)
        BY <1>2, <2>2, PlainStep
      <3>2. Left(d.given, k.given) /\ k.pc = "route" => RulesLeft(d) /\ LanesLeft(d)
        BY <1>5, <3>1, LeftObey DEF Left, Passes
      <3>. QED
        BY <3>1, <3>2
    <2>3. CASE LaneRouter(c)
      <3>1. k.pc = "route" /\ \E d \in RoutingCalls :
               /\ Passes(c, d) /\ \A n \in Kinds \ {"lane"} : d.seen[n] = k.seen[n]
               /\ \/ d.pc = "done" /\ d.result = Because("error")
                  \/ d.pc = "route" /\ d.result = k.result /\ Left(d.given, k.given) /\ LanesLeft(d)
        BY <1>2, <2>3, LaneStep
      <3>2. PICK d \in RoutingCalls :
               /\ Passes(c, d) /\ \A n \in Kinds \ {"lane"} : d.seen[n] = k.seen[n]
               /\ \/ d.pc = "done" /\ d.result = Because("error")
                  \/ d.pc = "route" /\ d.result = k.result /\ Left(d.given, k.given) /\ LanesLeft(d)
        BY <3>1
      <3>3. d.seen.callee = k.seen.callee /\ d.seen.caller = k.seen.caller
            /\ d.seen.security = k.seen.security /\ d.seen.mock = k.seen.mock
        BY <2>1, <3>2
      <3>4. Left(d.given, k.given) => RulesLeft(d)
        BY <1>5, <3>1, <3>2, <3>3, LeftObey DEF Left, Passes
      <3>. QED
        BY <3>2, <3>3, <3>4
    <2>4. CASE RuleOfCallee(c)
      <3>1. k.pc = "route" /\ \E d \in RoutingCalls :
               /\ Passes(c, d) /\ \A n \in Kinds \ {"callee"} : d.seen[n] = k.seen[n]
               /\ \/ d.pc = "done" /\ d.result = Because("error")
                  \/ d.pc = "route" /\ d.result = k.result /\ Left(d.given, k.given) /\ RulesLeft(d)
                  \/ /\ d.pc = "caller" /\ d.result = k.result /\ d.given = k.given
                     /\ d.todo # <<>> /\ NoneOfCallee(d)
        BY <1>2, <2>4, CalleeStep
      <3>2. PICK d \in RoutingCalls :
               /\ Passes(c, d) /\ \A n \in Kinds \ {"callee"} : d.seen[n] = k.seen[n]
               /\ \/ d.pc = "done" /\ d.result = Because("error")
                  \/ d.pc = "route" /\ d.result = k.result /\ Left(d.given, k.given) /\ RulesLeft(d)
                  \/ /\ d.pc = "caller" /\ d.result = k.result /\ d.given = k.given
                     /\ d.todo # <<>> /\ NoneOfCallee(d)
        BY <3>1
      <3>3. d.seen.lane = k.seen.lane /\ d.seen.security = k.seen.security /\ d.seen.mock = k.seen.mock
        BY <2>1, <3>2
      <3>4. Left(d.given, k.given) \/ d.given = k.given => LanesLeft(d)
        BY <1>5, <3>2, <3>3, LeftObey DEF Left, Passes
      <3>. QED
        BY <3>2, <3>3, <3>4
    <2>5. CASE RuleOfCaller(c)
      <3>1. k.pc = "caller"
        BY <2>5 DEF RuleOfCaller
      <3>2. PICK d \in RoutingCalls :
               /\ Passes(c, d) /\ \A n \in Kinds \ {"caller"} : d.seen[n] = k.seen[n]
               /\ \/ d.pc = "done" /\ d.result = Because("error")
                  \/ d.pc = "route" /\ d.result = k.result /\ Left(d.given, k.given) /\ RulesLeft(d)
        BY <1>2, <1>4, <2>5, <3>1, CallerStep
      <3>3. d.seen.lane = k.seen.lane /\ d.seen.security = k.seen.security /\ d.seen.mock = k.seen.mock
        BY <2>1, <3>2
      <3>4. Left(d.given, k.given) => LanesLeft(d)
        BY <1>5, <3>2, <3>3, LeftObey DEF Left, Passes
      <3>. QED
        BY <3>2, <3>3, <3>4
    <2>. QED
      BY <2>2, <2>3, <2>4, <2>5
  <1> HIDE DEF k
  <1>7. Because("error").kind = "error"
    BY DEF Because
  <1>8. d.req = k.req /\ d.sent = k.sent /\ Becomes(c, d)
    BY <1>6 DEF Passes, k
  <1>9. Governed(d)
    BY <1>3, <1>6, <1>7, <1>8, GovernedOn
  <1>10. /\ RulesLeft(d)' <=> RulesLeft(d)
         /\ LanesLeft(d)' <=> LanesLeft(d)
         /\ NoneOfCallee(d)' <=> NoneOfCallee(d)
    BY <1>1 DEF RulesLeft, LanesLeft, NoneOfCallee, RulesObeyed, LaneObeyed
  <1>11. Obeying(d)'
    BY <1>6, <1>7, <1>10 DEF Obeying, Answered, Early
  <1>12. FromRing(d)'
    BY <1>1, <1>6, <1>7, FromRingOn
  <1>. QED
    BY <1>1, <1>6, <1>8, <1>9, <1>11, <1>12 DEF GoodStep

LEMMA BalancerSteps ==
  ASSUME RoutingInv, NEW c \in Callers,
         DrawRandom(c) \/ NoBalancer(c) \/ PrepareRing(c) \/ ReadRing(c)
  PROVE  /\ GoodStep(c)
         /\ HasRing => HasRing' /\ TheRing' = TheRing
         /\ \E keys \in SUBSET {""} : rings' \in [keys -> [revision : {""}, nodes : SUBSET Ids]]
  <1> DEFINE k == calls[c]
  <1>1. UNCHANGED <<version, config>>
    BY DEF DrawRandom, NoBalancer, PrepareRing, ReadRing
  <1>2. RoutingTypeOK
    BY DEF RoutingInv
  <1>3. k \in RoutingCalls => Governed(k) /\ Obeying(k) /\ FromRing(k)
    BY <1>2, Active DEF RoutingInv
  <1>4. CASE DrawRandom(c) \/ NoBalancer(c)
    <2>1. k \in RoutingCalls /\ k.pc = "route"
      BY <1>2, <1>4, DrawStep
    <2>2. PICK d \in RoutingCalls :
               /\ Passes(c, d) /\ d.pc = "done" /\ d.seen = k.seen
               /\ \/ d.result = Because("error")
                  \/ /\ d.req.balancer = "weightedRandom" /\ d.given = k.given
                     /\ \E i \in ToSet(d.given.list) : d.result = Found(i)
      BY <1>2, <1>4, DrawStep
    <2>3. UNCHANGED rings
      BY <1>4 DEF DrawRandom, NoBalancer
    <2>4. RulesLeft(k) /\ LanesLeft(k)
      BY <1>3, <2>1 DEF Obeying
    <2>5. d.req = k.req /\ d.sent = k.sent /\ Becomes(c, d)
      BY <2>2 DEF Passes
    <2>6. d.given = k.given => RulesLeft(d)' /\ LanesLeft(d)'
      BY <1>1, <2>2, <2>4, <2>5 DEF RulesLeft, LanesLeft, RulesObeyed, LaneObeyed
    <2>7. Because("error").kind = "error" /\ \A i : Found(i).kind = "instance" /\ Found(i).of = i
      BY DEF Because, Found
    <2>8. Governed(d)
      <3>1. d.result.kind # "denied"
        BY <2>2, <2>7
      <3>. QED
        BY <1>3, <2>1, <2>2, <2>5, <3>1, GovernedOn
    <2>9. Obeying(d)'
      BY <2>2, <2>6, <2>7 DEF Obeying, Answered, Early, RulesLeft, LanesLeft
    <2>10. FromRing(d)'
      BY <2>2, <2>3, <2>7, FromRingOn
    <2>. QED
      BY <1>1, <1>2, <2>2, <2>3, <2>5, <2>8, <2>9, <2>10 DEF GoodStep, RoutingTypeOK, HasRing, TheRing
  <1>5. CASE PrepareRing(c)
    <2>1. /\ k \in RoutingCalls /\ k.pc = "route"
          /\ HasRing' /\ (HasRing => TheRing' = TheRing)
          /\ \E keys \in SUBSET {""} : rings' \in [keys -> [revision : {""}, nodes : SUBSET Ids]]
      BY <1>2, <1>5, PrepareStep
    <2>2. PICK d \in RoutingCalls :
               /\ Passes(c, d) /\ d.pc = "ring" /\ d.seen = k.seen /\ d.given = k.given
               /\ d.result = k.result /\ d.req.balancer = "ringHash"
      BY <1>2, <1>5, PrepareStep
    <2>3. d.req = k.req /\ d.sent = k.sent /\ Becomes(c, d)
      BY <2>2 DEF Passes
    <2>4. Governed(d)
      BY <1>3, <2>1, <2>2, <2>3, GovernedOn
    <2>5. RulesLeft(k) /\ LanesLeft(k)
      BY <1>3, <2>1 DEF Obeying
    <2>6. RulesLeft(d)' /\ LanesLeft(d)'
      BY <1>1, <2>2, <2>3, <2>5 DEF RulesLeft, LanesLeft, RulesObeyed, LaneObeyed
    <2>7. Obeying(d)'
      BY <2>2, <2>6 DEF Obeying, Answered, Early
    <2>8. FromRing(d)'
      BY <2>1, <2>2 DEF FromRing, Answered
    <2>. QED
      BY <1>1, <2>1, <2>2, <2>3, <2>4, <2>7, <2>8 DEF GoodStep
  <1>6. CASE ReadRing(c)
    <2>1. k \in RoutingCalls /\ k.pc = "ring"
      BY <1>2, <1>6, Active DEF ReadRing
    <2>2. HasRing /\ k.req.balancer = "ringHash"
      BY <1>3, <2>1 DEF FromRing
    <2>3. PICK d \in RoutingCalls :
               /\ Passes(c, d) /\ d.pc = "done" /\ d.seen = k.seen /\ d.given = k.given
               /\ d.result = Node(TheRing, HashOf[d.req.hash]) /\ d.result.kind \in {"instance", "panic"}
      BY <1>2, <1>6, <2>2, ReadRingStep
    <2>4. UNCHANGED rings /\ HasRing' /\ TheRing' = TheRing
      BY <1>6, <2>2 DEF ReadRing, HasRing, TheRing
    <2>5. d.req = k.req /\ d.sent = k.sent /\ Becomes(c, d)
      BY <2>3 DEF Passes
    <2>6. Governed(d)
      BY <1>3, <2>1, <2>3, <2>5, GovernedOn
    <2>7. Obeying(d)'
      BY <2>2, <2>3, <2>5 DEF Obeying, Answered, Early
    <2>8. FromRing(d)'
      BY <2>3, <2>4 DEF FromRing, Answered
    <2>. QED
      BY <1>1, <1>2, <2>3, <2>4, <2>5, <2>6, <2>7, <2>8 DEF GoodStep, RoutingTypeOK
  <1>. QED
    BY <1>4, <1>5, <1>6

\* The invariant holds at the start, and every step keeps it.
LEMMA RoutingInitOK ==
  RoutingInit => RoutingInv
  <1> SUFFICES ASSUME RoutingInit
               PROVE  RoutingInv
    OBVIOUS
  <1>1. version \in Versions /\ config \in Configs
    BY RoutingAssumption DEF RoutingInit
  <1>2. calls \in [Callers -> RoutingCalls \cup {Idle}] /\ \A c \in Callers : calls[c] = Idle /\ Idle.pc = "idle"
    BY DEF RoutingInit, Idle
  <1>3. rings \in [{} -> [revision : {""}, nodes : SUBSET Ids]]
    BY DEF RoutingInit
  <1>. QED
    BY <1>1, <1>2, <1>3 DEF RoutingInv, RoutingTypeOK

\* A good step of one call leaves all of them good.
LEMMA GoodStepInv ==
  ASSUME RoutingInv, NEW c \in Callers, GoodStep(c), HasRing => HasRing' /\ TheRing' = TheRing,
         \E keys \in SUBSET {""} : rings' \in [keys -> [revision : {""}, nodes : SUBSET Ids]]
  PROVE  RoutingInv'
  <1>1. UNCHANGED <<version, config>>
    BY DEF GoodStep
  <1>2. PICK d \in RoutingCalls :
           Becomes(c, d) /\ (d.pc = "caller" => d.todo # <<>>) /\ Governed(d) /\ Obeying(d)' /\ FromRing(d)'
    BY DEF GoodStep
  <1>3. calls' = [calls EXCEPT ![c] = d] /\ calls \in [Callers -> RoutingCalls \cup {Idle}]
    BY <1>2 DEF Becomes, RoutingInv, RoutingTypeOK
  <1>4. RoutingTypeOK'
    BY <1>1, <1>2, <1>3 DEF RoutingTypeOK, RoutingInv
  <1>5. ASSUME NEW e \in Callers, calls'[e] # Idle
        PROVE  \E k : k = calls'[e] /\ Governed(k) /\ Obeying(k)' /\ FromRing(k)'
    <2>1. CASE e = c
      BY <1>2, <1>3, <2>1
    <2>2. CASE e # c
      <3>1. PICK k : k = calls[e]
        OBVIOUS
      <3>2. Governed(k) /\ Obeying(k) /\ FromRing(k) /\ k = calls'[e]
        BY <1>3, <1>5, <2>2, <3>1 DEF RoutingInv
      <3>. QED
        BY <1>1, <3>2, StillGood
    <2>. QED
      BY <2>1, <2>2
  <1>6. ASSUME NEW e \in Callers, calls'[e] # Idle
        PROVE  Governed(calls[e])' /\ Obeying(calls[e])' /\ FromRing(calls[e])'
    <2>1. PICK k : k = calls'[e] /\ Governed(k) /\ Obeying(k)' /\ FromRing(k)'
      BY <1>5, <1>6
    <2>2. Governed(calls[e])'
      BY <2>1 DEF Governed, Permits, Answer
    <2>3. Obeying(calls[e])'
      BY <2>1 DEF Obeying, Answered, RulesLeft, LanesLeft, NoneOfCallee, RulesObeyed, LaneObeyed
    <2>4. FromRing(calls[e])'
      BY <2>1 DEF FromRing, Answered, HasRing, TheRing
    <2>. QED
      BY <2>2, <2>3, <2>4
  <1>. QED
    BY <1>4, <1>6 DEF RoutingInv

LEMMA RoutingStep ==
  RoutingInv /\ [RoutingNext]_routingVars => RoutingInv'
  <1> SUFFICES ASSUME RoutingInv, [RoutingNext]_routingVars
               PROVE  RoutingInv'
    OBVIOUS
  <1>1. CASE UNCHANGED routingVars \/ Change
    <2>1. UNCHANGED <<config, calls, rings>> /\ version' \in Versions
      BY <1>1 DEF Change, routingVars, RoutingInv, RoutingTypeOK
    <2>2. RoutingTypeOK'
      BY <2>1 DEF RoutingInv, RoutingTypeOK
    <2>3. ASSUME NEW c \in Callers, calls'[c] # Idle
          PROVE  Governed(calls[c])' /\ Obeying(calls[c])' /\ FromRing(calls[c])'
      <3>1. Governed(calls[c]) /\ Obeying(calls[c]) /\ FromRing(calls[c])
        BY <2>1, <2>3 DEF RoutingInv
      <3>2. Governed(calls[c])'
        BY <2>1, <3>1 DEF Governed, Permits, Answer
      <3>3. Obeying(calls[c])'
        BY <2>1, <3>1 DEF Obeying, Answered, RulesLeft, LanesLeft, NoneOfCallee, RulesObeyed, LaneObeyed
      <3>4. FromRing(calls[c])'
        BY <2>1, <3>1 DEF FromRing, Answered, HasRing, TheRing
      <3>. QED
        BY <3>2, <3>3, <3>4
    <2>. QED
      BY <2>2, <2>3 DEF RoutingInv
  <1>2. ASSUME NEW c \in Callers, GoodStep(c) /\ UNCHANGED rings
        PROVE  RoutingInv'
    <2>1. HasRing => HasRing' /\ TheRing' = TheRing
      BY <1>2 DEF HasRing, TheRing
    <2>2. \E keys \in SUBSET {""} : rings' \in [keys -> [revision : {""}, nodes : SUBSET Ids]]
      BY <1>2 DEF RoutingInv, RoutingTypeOK
    <2>. QED
      BY <1>2, <2>1, <2>2, GoodStepInv
  <1>3. ASSUME NEW c \in Callers,
               (\E req \in Requests : Begin(c, req)) \/ LoadPolicy(c) \/ LoadPolicyFails(c) \/ Govern(c)
        PROVE  RoutingInv'
    BY <1>2, <1>3, EarlySteps
  <1>4. ASSUME NEW c \in Callers, SendCopy(c) \/ SendCopyFails(c)
        PROVE  RoutingInv'
    BY <1>2, <1>4, CopySteps
  <1>5. ASSUME NEW c \in Callers,
               PlainRouter(c) \/ LoadRuleFails(c) \/ LaneRouter(c) \/ RuleOfCallee(c) \/ RuleOfCaller(c)
        PROVE  RoutingInv'
    BY <1>2, <1>5, ChainSteps
  <1>6. ASSUME NEW c \in Callers,
               DrawRandom(c) \/ NoBalancer(c) \/ PrepareRing(c) \/ ReadRing(c)
        PROVE  RoutingInv'
    BY <1>6, BalancerSteps, GoodStepInv
  <1>. QED
    BY <1>1, <1>3, <1>4, <1>5, <1>6 DEF RoutingNext

\* What the invariant says of the answers.
LEMMA InvAnswers ==
  RoutingInv => StrictlyRouted /\ SameKeySameNode /\ GovernedFirst
  <1> SUFFICES ASSUME RoutingInv
               PROVE  StrictlyRouted /\ SameKeySameNode /\ GovernedFirst
    OBVIOUS
  <1>1. \A c \in Callers : calls[c].pc # "idle" => Governed(calls[c]) /\ Obeying(calls[c]) /\ FromRing(calls[c])
    BY Active DEF RoutingInv
  <1>2. StrictlyRouted
    BY <1>1 DEF StrictlyRouted, Obeying, Answered
  <1>3. SameKeySameNode
    BY <1>1 DEF SameKeySameNode, FromRing, Answered
  <1>4. GovernedFirst
    <2> SUFFICES ASSUME NEW c \in Callers,
                        calls[c].pc \in {"route", "caller", "ring", "done"}, calls[c].seen.security # Unread
                 PROVE  /\ ~Permits(calls[c]) <=> calls[c].result.kind = "denied"
                        /\ ~Permits(calls[c]) => calls[c].sent = {}
                        /\ Permits(calls[c]) /\ Answer(calls[c]) # None => calls[c].result = Mocked(Answer(calls[c]))
                        /\ \A m \in calls[c].sent : m.at \in Ids => ShadowFits(Shadows[m.to], m.at)
      BY DEF GovernedFirst, Permits, Answer, Policies, Callee
    <2>1. Governed(calls[c])
      BY <1>1
    <2>2. NoResult.kind = "none"
      BY DEF NoResult
    <2>. QED
      BY <2>1, <2>2 DEF Governed
  <1>. QED
    BY <1>2, <1>3, <1>4

\* A call, its copies and the rings are of their types: what is drawn of a
\* list or found on a ring is an instance, and a call that waits for the rules
\* of its caller has a router to go on from.
THEOREM RoutingTypeCorrect ==
  RoutingSpec => []RoutingTypeOK
  <1>1. RoutingInv => RoutingTypeOK
    BY DEF RoutingInv
  <1>. QED
    BY <1>1, RoutingInitOK, RoutingStep, PTL DEF RoutingSpec

\* With the failover "none", the instance a call draws is one the rules and
\* the lane it read give it, whatever the other routers of the chain do and
\* whenever the rules change.
THEOREM RoutedStrictly ==
  RoutingSpec => []StrictlyRouted
  BY RoutingInitOK, RoutingStep, InvAnswers, PTL DEF RoutingSpec

\* Calls of one service with one hash key end at one instance, or all panic.
THEOREM KeysAgree ==
  RoutingSpec => []SameKeySameNode
  BY RoutingInitOK, RoutingStep, InvAnswers, PTL DEF RoutingSpec

\* What is denied reaches nothing, what is mocked no instance, no other call
\* is refused, and a copy goes to an instance that fits its destination.
THEOREM PoliciesFirst ==
  RoutingSpec => []GovernedFirst
  BY RoutingInitOK, RoutingStep, InvAnswers, PTL DEF RoutingSpec

-----------------------------------------------------------------------------
(* Keys of rules and counters                                               *)

\* A path that is one text stands for that text.
IsApi(a) == PathKind(a) = "exact" => \E text : text # None /\ a.path.value = {text}

\* The orders the index of the APIs gives to a request.
FoundBy(entries, req) ==
    LET index == Index(entries)
    IN  index.all \cup {n.order : n \in {m \in index.nodes : Reached(req, m)}}

LEMMA CandidatesAreFound ==
  ASSUME NEW entries, NEW req
  PROVE  Candidates(entries, req) = SetToSortSeq(FoundBy(entries, req), <)
  BY DEF Candidates, FoundBy

\* An API is reached by its method and the shape of its path exactly when it
\* matches, unless its path is the text "*".
LEMMA ReachedMatches ==
  ASSUME NEW req, NEW o, NEW a, IsApi(a), ~StarPath(a)
  PROVE  Reached(req, [order |-> o, bucket |-> Bucket(a), kind |-> PathKind(a), api |-> a])
           <=> ApiMatches(req, a)
  <1> DEFINE n == [order |-> o, bucket |-> Bucket(a), kind |-> PathKind(a), api |-> a]
  <1>1. n.bucket \in {"*", req.method} <=> a.method \in {"", "*", req.method}
    BY DEF Bucket
  <1>2. CASE a.path = Unset
    BY <1>1, <1>2 DEF Reached, PathKind, ApiMatches
  <1>3. CASE a.path # Unset /\ a.path.kind = "EXACT" /\ a.path.param = "text"
    <2>1. PICK text : text # None /\ a.path.value = {text}
      BY <1>3 DEF IsApi, PathKind
    <2>2. n.kind = "exact" /\ ~a.path.all
      BY <1>3 DEF PathKind, StarPath
    <2>3. Reached(req, n) <=> n.bucket \in {"*", req.method} /\ a.path.value = {req.path}
      BY <2>2 DEF Reached
    <2>4. LabelMatches(a.path, req.path) <=> req.path \in a.path.value
      BY <1>3, <2>2 DEF LabelMatches
    <2>5. req.path \in a.path.value => req.path # None
      BY <2>1
    <2>. QED
      BY <1>1, <1>3, <2>1, <2>3, <2>4, <2>5 DEF ApiMatches
  <1>4. CASE a.path # Unset /\ ~(a.path.kind = "EXACT" /\ a.path.param = "text")
    BY <1>1, <1>4 DEF Reached, PathKind, ApiMatches
  <1>. QED
    BY <1>2, <1>3, <1>4

(***************************************************************************)
(* A request finds by the index of the APIs (ApiMatchIndex) the rules that *)
(* trying every API of every rule would find, whatever the APIs and the    *)
(* request, unless a path is the text "*".                                 *)
(***************************************************************************)
THEOREM IndexReaches ==
  ASSUME NEW entries, NEW req,
         \A o \in DOMAIN entries : \A a \in entries[o] :
             IsApi(a) /\ ~StarPath(a)
  PROVE  FoundBy(entries, req)
           = {o \in DOMAIN entries : entries[o] = {} \/ \E a \in entries[o] : ApiMatches(req, a)}
  <1> DEFINE node(o, a) == [order |-> o, bucket |-> Bucket(a), kind |-> PathKind(a), api |-> a]
  <1>1. \A o \in DOMAIN entries : \A a \in entries[o] : Reached(req, node(o, a)) <=> ApiMatches(req, a)
    BY ReachedMatches
  <1>2. Index(entries).all = {o \in DOMAIN entries : entries[o] = {}}
    BY DEF Index
  <1>3. Index(entries).nodes = UNION {{node(o, a) : a \in entries[o]} : o \in DOMAIN entries}
    BY DEF Index
  <1>4. ASSUME NEW o
        PROVE  o \in {n.order : n \in {m \in Index(entries).nodes : Reached(req, m)}}
                 <=> o \in DOMAIN entries /\ \E a \in entries[o] : ApiMatches(req, a)
    <2>1. ASSUME o \in {n.order : n \in {m \in Index(entries).nodes : Reached(req, m)}}
          PROVE  o \in DOMAIN entries /\ \E a \in entries[o] : ApiMatches(req, a)
      <3>1. PICK n \in Index(entries).nodes : Reached(req, n) /\ n.order = o
        BY <2>1
      <3>2. PICK p \in DOMAIN entries : n \in {node(p, a) : a \in entries[p]}
        BY <1>3, <3>1
      <3>3. PICK a \in entries[p] : n = node(p, a)
        BY <3>2
      <3>4. p = o
        BY <3>1, <3>3
      <3>. QED
        BY <1>1, <3>1, <3>2, <3>3, <3>4
    <2>2. ASSUME o \in DOMAIN entries, NEW a \in entries[o], ApiMatches(req, a)
          PROVE  o \in {n.order : n \in {m \in Index(entries).nodes : Reached(req, m)}}
      <3>1. node(o, a) \in Index(entries).nodes
        BY <1>3, <2>2
      <3>2. Reached(req, node(o, a)) /\ node(o, a).order = o
        BY <1>1, <2>2
      <3>. HIDE DEF node
      <3>. QED
        BY <3>1, <3>2
    <2>. QED
      BY <2>1, <2>2
  <1>. HIDE DEF node
  <1>. QED
    BY <1>2, <1>4 DEF FoundBy

\* A request without empty labels.
NoEmptyLabels(req, t) == \A a \in t.arguments : a.match # Unset => ActualValue(req, a) # ""

(***************************************************************************)
(* Requests that one counter of the rate limit server counts ask for the   *)
(* same of each argument of the limit, so that it is for all of them or    *)
(* for none, and they have one counter in this process.  The limit writes  *)
(* no two arguments under one name, and the METHOD label of each request,  *)
(* which the limit is chosen by, is the method the server is told.         *)
(***************************************************************************)
THEOREM OneCounterOneChoice ==
  ASSUME NEW t, NEW r, NEW q, AsksOnce(t), NoEmptyLabels(r, t), NoEmptyLabels(q, t),
         MethodTold(r, t), MethodTold(q, t), RemoteLabels(r, t) = RemoteLabels(q, t)
  PROVE  /\ r.api = q.api
         /\ \A a \in t.arguments : ArgumentMatches(r, a) <=> ArgumentMatches(q, a)
         /\ r.callee = q.callee => CounterKey(r, t) = CounterKey(q, t)
  <1> DEFINE B == {b \in t.arguments : b.match # Unset}
             V(x) == {[name |-> Written(a), value |-> RemoteValue(x, a)] : a \in B}
  <1>1. r.api = q.api /\ V(r) = V(q)
    BY DEF RemoteLabels
  <1>2. ASSUME NEW a \in B
        PROVE  ActualValue(r, a) = ActualValue(q, a)
    <2>1. [name |-> Written(a), value |-> RemoteValue(r, a)] \in V(r)
      OBVIOUS
    <2>2. PICK b \in B : [name |-> Written(a), value |-> RemoteValue(r, a)]
                           = [name |-> Written(b), value |-> RemoteValue(q, b)]
      BY <1>1, <2>1
    <2>3. Written(a) = Written(b) /\ RemoteValue(r, a) = RemoteValue(q, b)
      BY <2>2
    <2>4. a = b
      BY <2>3 DEF AsksOnce
    <2>5. CASE a.type = "METHOD"
      BY <1>1, <2>5 DEF MethodTold
    <2>6. CASE a.type # "METHOD"
      <3>1. Text(ActualValue(r, a)) = Text(ActualValue(q, a))
        BY <2>3, <2>4, <2>6 DEF RemoteValue
      <3>2. ActualValue(r, a) # "" /\ ActualValue(q, a) # ""
        BY DEF NoEmptyLabels
      <3>. QED
        BY <3>1, <3>2 DEF Text
    <2>. QED
      BY <2>5, <2>6
  <1>3. ASSUME NEW a \in t.arguments
        PROVE  ArgumentMatches(r, a) <=> ArgumentMatches(q, a)
    BY <1>2 DEF ArgumentMatches
  <1>4. ASSUME NEW a \in B, a.match.param = "collects"
        PROVE  r.labels[a.key] = q.labels[a.key]
    BY <1>2, <1>4 DEF ActualValue, ProviderKey
  <1>5. ASSUME r.callee = q.callee
        PROVE  CounterKey(r, t) = CounterKey(q, t)
    <2> DEFINE C(x) == {a \in B : a.match.param = "collects" /\ x.labels[a.key] # None}
               W(x) == {[key |-> a.key, value |-> x.labels[a.key]] : a \in C(x)}
    <2>1. C(r) = C(q)
      BY <1>4
    <2>2. W(r) = W(q)
      BY <1>4, <2>1
    <2>3. \A x : CounterKey(x, t) = [callee |-> x.callee, api |-> x.api, trigger |-> t.name, collected |-> W(x)]
      BY DEF CounterKey
    <2>. HIDE DEF W
    <2>. QED
      BY <1>1, <1>5, <2>2, <2>3
  <1>. QED
    BY <1>1, <1>3, <1>5

-----------------------------------------------------------------------------
(* Sums                                                                    *)

\* g adds up f over each part of D, whichever member comes first.
Adds(g, f, D) ==
    /\ g \in [SUBSET D -> Int]
    /\ g[{}] = 0
    /\ \A T \in SUBSET D : \A x \in T : g[T] = f[x] + g[T \ {x}]

\* Among parts of a finite set one of least cardinality.
LEMMA SmallestPart ==
  ASSUME NEW D, IsFiniteSet(D), NEW B, B \subseteq SUBSET D, B # {}
  PROVE  \E T \in B : \A x \in T : T \ {x} \notin B
  <1> DEFINE R == {Cardinality(T) : T \in B}
  <1>1. \A T \in SUBSET D : IsFiniteSet(T) /\ Cardinality(T) \in Nat
    BY FS_Subset, FS_CardinalityType
  <1>2. R \subseteq Nat /\ R # {}
    BY <1>1
  <1>3. PICK m \in R : \A k \in R : m <= k
    BY <1>2, LeastNumber
  <1>4. PICK T \in B : Cardinality(T) = m
    BY <1>3
  <1>5. ASSUME NEW x \in T, T \ {x} \in B
        PROVE  FALSE
    <2>1. Cardinality(T \ {x}) = Cardinality(T) - 1
      BY <1>1, FS_RemoveElement
    <2>2. Cardinality(T \ {x}) \in R
      BY <1>5
    <2>3. Cardinality(T) \in Nat /\ m <= Cardinality(T) - 1
      BY <1>1, <1>3, <2>1, <2>2
    <2>. QED
      BY <1>4, <2>3
  <1>. QED
    BY <1>4, <1>5

\* The sum of more: that of the part without x, and x.
LEMMA AddsOneMore ==
  ASSUME NEW D, NEW x \in D, NEW f \in [D -> Int], NEW g, Adds(g, f, D \ {x})
  PROVE  \E h : Adds(h, f, D)
  <1> DEFINE h == [T \in SUBSET D |-> IF x \in T THEN f[x] + g[T \ {x}] ELSE g[T]]
  <1>1. \A T \in SUBSET D : T \ {x} \in SUBSET (D \ {x}) /\ (x \notin T => T \in SUBSET (D \ {x}))
    OBVIOUS
  <1>2. h \in [SUBSET D -> Int]
    BY <1>1 DEF Adds
  <1>3. h[{}] = 0
    BY DEF Adds
  <1>4. ASSUME NEW T \in SUBSET D, NEW y \in T
        PROVE  h[T] = f[y] + h[T \ {y}]
    <2>1. CASE y = x
      BY <2>1
    <2>2. CASE y # x /\ x \notin T
      BY <1>1, <2>2 DEF Adds
    <2>3. CASE y # x /\ x \in T
      <3>1. g[T \ {x}] = f[y] + g[(T \ {x}) \ {y}]
        BY <1>1, <2>3 DEF Adds
      <3>2. (T \ {x}) \ {y} = (T \ {y}) \ {x}
        OBVIOUS
      <3>3. f[x] \in Int /\ f[y] \in Int /\ g[(T \ {x}) \ {y}] \in Int
        BY <1>1 DEF Adds
      <3>4. h[T \ {y}] = f[x] + g[(T \ {x}) \ {y}]
        BY <2>3, <3>2
      <3>5. h[T] = f[x] + g[T \ {x}]
        BY <2>3
      <3> DEFINE rest == g[(T \ {x}) \ {y}]
      <3>6. h[T] = f[x] + (f[y] + rest) /\ h[T \ {y}] = f[x] + rest /\ rest \in Int
        BY <3>1, <3>3, <3>4, <3>5
      <3>. HIDE DEF h, rest
      <3>. QED
        BY <3>3, <3>6
    <2>. QED
      BY <2>1, <2>2, <2>3
  <1>. HIDE DEF h
  <1>. QED
    BY <1>2, <1>3, <1>4 DEF Adds

\* What one adds up over D it adds up over a part.
LEMMA AddsPart ==
  ASSUME NEW D, NEW E \in SUBSET D, NEW f, NEW g, Adds(g, f, D)
  PROVE  Adds([T \in SUBSET E |-> g[T]], f, E)
  BY DEF Adds

\* Every function on a finite set has a sum.
LEMMA SumsExist ==
  ASSUME NEW D, IsFiniteSet(D), NEW f \in [D -> Int]
  PROVE  \E g : Adds(g, f, D)
  <1> DEFINE B == {T \in SUBSET D : ~\E g : Adds(g, f, T)}
  <1>1. SUFFICES ASSUME B # {} PROVE FALSE
    OBVIOUS
  <1>2. PICK T \in B : \A x \in T : T \ {x} \notin B
    BY <1>1, SmallestPart
  <1>3. CASE T = {}
    <2>1. Adds([S \in SUBSET T |-> 0], f, T)
      BY <1>3 DEF Adds
    <2>. QED
      BY <2>1
  <1>4. CASE T # {}
    <2>1. PICK x \in T : TRUE
      BY <1>4
    <2>2. PICK g : Adds(g, f, T \ {x})
      BY <1>2
    <2>3. PICK h : Adds(h, [y \in T |-> f[y]], T)
      <3>1. Adds(g, [y \in T |-> f[y]], T \ {x})
        BY <2>2 DEF Adds
      <3>. QED
        BY <3>1, AddsOneMore
    <2>4. Adds(h, f, T)
      BY <2>3 DEF Adds
    <2>. QED
      BY <2>4
  <1>. QED
    BY <1>3, <1>4

\* SumFunctionOnSet takes the member that CHOOSE gives.
LEMMA SumIs ==
  ASSUME NEW D, IsFiniteSet(D), NEW f, NEW g, Adds(g, f, D)
  PROVE  SumFunctionOnSet(f, D) = g[D]
  <1> DEFINE Is(h) == h = [s \in SUBSET D |->
                             IF s = {} THEN 0 ELSE f[CHOOSE x \in s : TRUE] + h[s \ {CHOOSE x \in s : TRUE}]]
             sum == CHOOSE h : Is(h)
  <1>1. SumFunctionOnSet(f, D) = sum[D]
    BY DEF SumFunctionOnSet, FoldFunctionOnSet, MapThenFoldSet
  <1>2. Is(g)
    <2>1. \A s \in SUBSET D : s # {} => g[s] = f[CHOOSE x \in s : TRUE] + g[s \ {CHOOSE x \in s : TRUE}]
      BY DEF Adds
    <2>. QED
      BY <2>1 DEF Adds
  <1>3. Is(sum)
    <2> HIDE DEF Is
    <2>. QED
      BY <1>2
  <1> HIDE DEF sum
  <1>4. sum[{}] = 0
    BY <1>3
  <1>5. ASSUME NEW s \in SUBSET D, s # {}
        PROVE  \E x \in s : sum[s] = f[x] + sum[s \ {x}]
    <2> DEFINE x == CHOOSE x \in s : TRUE
    <2>1. x \in s
      BY <1>5
    <2>2. sum[s] = f[x] + sum[s \ {x}]
      BY <1>3, <1>5
    <2> HIDE DEF x
    <2>. QED
      BY <2>1, <2>2
  <1> DEFINE B == {s \in SUBSET D : sum[s] # g[s]}
  <1>6. SUFFICES ASSUME B # {} PROVE FALSE
    BY <1>1
  <1>7. PICK s \in B : \A x \in s : s \ {x} \notin B
    BY <1>6, SmallestPart
  <1>8. CASE s = {}
    BY <1>4, <1>8 DEF Adds
  <1>9. CASE s # {}
    <2>1. PICK x \in s : sum[s] = f[x] + sum[s \ {x}]
      BY <1>5, <1>9
    <2>2. s \ {x} \in SUBSET D
      OBVIOUS
    <2>3. sum[s \ {x}] = g[s \ {x}]
      BY <1>7, <2>2
    <2>4. g[s] = f[x] + g[s \ {x}]
      BY DEF Adds
    <2>. QED
      BY <2>1, <2>3, <2>4
  <1>. QED
    BY <1>8, <1>9

\* The sum over a set is what one has added up.
LEMMA SumTakes ==
  ASSUME NEW D, IsFiniteSet(D), NEW f \in [D -> Int]
  PROVE  /\ SumFunctionOnSet(f, D) \in Int
         /\ D = {} => SumFunctionOnSet(f, D) = 0
         /\ \A x \in D : /\ SumFunctionOnSet(f, D \ {x}) \in Int
                         /\ SumFunctionOnSet(f, D) = f[x] + SumFunctionOnSet(f, D \ {x})
  <1>1. PICK g : Adds(g, f, D)
    BY SumsExist
  <1>2. SumFunctionOnSet(f, D) = g[D]
    BY <1>1, SumIs
  <1>3. ASSUME NEW x \in D
        PROVE  SumFunctionOnSet(f, D \ {x}) = g[D \ {x}]
    <2> DEFINE E == D \ {x}
               part == [T \in SUBSET E |-> g[T]]
    <2>1. E \in SUBSET D /\ IsFiniteSet(E)
      BY FS_Subset
    <2>2. part[E] = g[E]
      OBVIOUS
    <2>3. Adds(part, f, E)
      BY <1>1, <2>1 DEF Adds
    <2>4. SumFunctionOnSet(f, E) = g[E]
      BY <2>1, <2>2, <2>3, SumIs
    <2>. QED
      BY <2>4
  <1>4. g[D] \in Int /\ (D = {} => g[D] = 0)
    BY <1>1 DEF Adds
  <1>5. \A x \in D : g[D \ {x}] \in Int /\ g[D] = f[x] + g[D \ {x}]
    <2>1. D \in SUBSET D /\ \A x \in D : D \ {x} \in SUBSET D
      OBVIOUS
    <2>. QED
      BY <1>1, <2>1 DEF Adds
  <1>. QED
    BY <1>2, <1>3, <1>4, <1>5

\* Functions that agree have the same sum.
LEMMA SumSame ==
  ASSUME NEW D, IsFiniteSet(D), NEW f \in [D -> Int], NEW e, \A x \in D : e[x] = f[x]
  PROVE  SumFunctionOnSet(e, D) = SumFunctionOnSet(f, D)
  <1>1. PICK g : Adds(g, f, D)
    BY SumsExist
  <1>2. Adds(g, e, D)
    BY <1>1 DEF Adds
  <1>. QED
    BY <1>1, <1>2, SumIs

\* The sum changes by what one term changes.
LEMMA SumChanges ==
  ASSUME NEW D, IsFiniteSet(D), NEW f \in [D -> Int], NEW e \in [D -> Int], NEW x \in D,
         \A y \in D \ {x} : e[y] = f[y]
  PROVE  SumFunction(e) = SumFunction(f) - f[x] + e[x]
  <1>1. IsFiniteSet(D \ {x})
    BY FS_Subset
  <1>2. SumFunctionOnSet(e, D \ {x}) = SumFunctionOnSet(f, D \ {x})
    <2> DEFINE p == [y \in D \ {x} |-> f[y]]
    <2>1. SumFunctionOnSet(e, D \ {x}) = SumFunctionOnSet(p, D \ {x})
      BY <1>1, SumSame
    <2>2. SumFunctionOnSet(f, D \ {x}) = SumFunctionOnSet(p, D \ {x})
      BY <1>1, SumSame
    <2>. QED
      BY <2>1, <2>2
  <1>. QED
    BY <1>2, SumTakes DEF SumFunction

\* Terms that are zero add nothing.
LEMMA SumKept ==
  ASSUME NEW D, IsFiniteSet(D), NEW e \in [D -> Int], NEW E \in SUBSET D, \A x \in D \ E : e[x] = 0
  PROVE  SumFunctionOnSet(e, D) = SumFunctionOnSet(e, E)
  <1>1. PICK g : Adds(g, e, D)
    BY SumsExist
  <1> DEFINE B == {T \in SUBSET D : E \subseteq T /\ g[T] # g[E]}
  <1>2. B = {}
    <2>1. SUFFICES ASSUME B # {} PROVE FALSE
      OBVIOUS
    <2>2. PICK T \in B : \A x \in T : T \ {x} \notin B
      <3>1. B \subseteq SUBSET D
        OBVIOUS
      <3>. HIDE DEF B
      <3>. QED
        BY <2>1, <3>1, SmallestPart
    <2>3. PICK x \in T : x \notin E
      BY <2>2
    <2>4. g[T] = e[x] + g[T \ {x}]
      BY <1>1 DEF Adds
    <2>5. g[T \ {x}] \in Int /\ e[x] = 0
      BY <1>1, <2>3 DEF Adds
    <2>. QED
      BY <2>2, <2>3, <2>4, <2>5
  <1>3. SumFunctionOnSet(e, D) = g[D]
    BY <1>1, SumIs
  <1>4. SumFunctionOnSet(e, E) = g[E]
    <2>1. Adds([T \in SUBSET E |-> g[T]], e, E)
      BY <1>1, AddsPart
    <2>2. IsFiniteSet(E)
      BY FS_Subset
    <2>. QED
      BY <2>1, <2>2, SumIs
  <1>. QED
    BY <1>2, <1>3, <1>4

-----------------------------------------------------------------------------
(* The lists of the balancer                                               *)

NodeRecord == [id : Nodes, weight : Nat]
WeightsOf(l) == [n \in DOMAIN l |-> l[n].weight]

LEMMA ListItems ==
  ASSUME NEW l \in Seq(NodeRecord)
  PROVE  /\ Len(l) \in Nat /\ DOMAIN l = 1..Len(l)
         /\ \A n \in 1..Len(l) : l[n].id \in Nodes /\ l[n].weight \in Nat
  <1>1. \A n \in 1..Len(l) : l[n] \in NodeRecord
    OBVIOUS
  <1>. QED
    BY <1>1 DEF NodeRecord

\* A list adds up its weights from the end.
LEMMA TotalIs ==
  ASSUME NEW l \in Seq(NodeRecord)
  PROVE  Total(l) = SumFunctionOnSet(WeightsOf(l), 1..Len(l))
  <1> DEFINE D == DOMAIN l
             f == WeightsOf(l)
             first == [s \in SUBSET D |-> Max(s)]
             Is(h) == h = [s \in SUBSET D |->
                             IF s = {} THEN 0 ELSE h[s \ {Max(s)}] + l[Max(s)].weight]
             sum == CHOOSE h : Is(h)
  <1>1. Total(l) = sum[D]
    BY DEF Total, FoldLeft, MapThenFoldSet
  <1>2. D = 1..Len(l) /\ IsFiniteSet(D) /\ f \in [D -> Int]
    <2>1. D = 1..Len(l) /\ Len(l) \in Int
      OBVIOUS
    <2>2. IsFiniteSet(1..Len(l))
      BY <2>1, FS_Interval
    <2>3. \A n \in D : l[n].weight \in Int
      BY <2>1, ListItems
    <2>. QED
      BY <2>1, <2>2, <2>3 DEF WeightsOf
  <1>3. \A s \in SUBSET D : s # {} => first[s] \in s
    <2>1. ASSUME NEW s \in SUBSET D, s # {}
          PROVE  \E m \in s : \A k \in s : m >= k
      <3> DEFINE R == {Len(l) - k : k \in s}
      <3>1. R \subseteq Nat /\ R # {}
        BY <1>2, <2>1
      <3>2. PICK r \in R : \A k \in R : r <= k
        BY <3>1, LeastNumber
      <3>3. PICK m \in s : r = Len(l) - m
        BY <3>2
      <3>4. \A k \in s : Len(l) - m <= Len(l) - k
        BY <3>2, <3>3
      <3>. QED
        BY <1>2, <3>4
    <2>. QED
      BY <2>1 DEF Max
  <1>4. PICK g : Adds(g, f, D)
    BY <1>2, SumsExist
  <1>5. \A s \in SUBSET D : g[s] = IF s = {} THEN 0 ELSE f[first[s]] + g[s \ {first[s]}]
    <2> HIDE DEF first, f, D
    <2>. QED
      BY <1>3, <1>4 DEF Adds
  <1>6. g \in [SUBSET D -> Int] /\ \A s \in SUBSET D : s # {} => f[first[s]] = l[Max(s)].weight
    BY <1>3, <1>4 DEF Adds, WeightsOf
  <1>7. \A s \in SUBSET D : g[s] = IF s = {} THEN 0 ELSE g[s \ {Max(s)}] + l[Max(s)].weight
    <2>1. ASSUME NEW s \in SUBSET D, s # {}
          PROVE  g[s] = g[s \ {Max(s)}] + l[Max(s)].weight
      <3>1. g[s] = f[first[s]] + g[s \ {Max(s)}] /\ first[s] \in D
        BY <1>3, <1>5, <2>1
      <3>2. g[s \ {Max(s)}] \in Int /\ f[first[s]] \in Int
        BY <1>2, <1>6, <3>1
      <3>3. f[first[s]] = l[Max(s)].weight
        BY <1>6, <2>1
      <3> HIDE DEF first, f, D
      <3>. QED
        BY <3>1, <3>2, <3>3
    <2>. QED
      BY <1>5, <2>1
  <1>8. Is(g)
    BY <1>6, <1>7
  <1>9. Is(sum)
    <2> HIDE DEF Is
    <2>. QED
      BY <1>8
  <1>10. sum = g
    <2> HIDE DEF sum
    <2>1. sum = [s \in SUBSET D |-> IF s = {} THEN 0 ELSE sum[s \ {Max(s)}] + l[Max(s)].weight]
      BY <1>9
    <2> DEFINE B == {s \in SUBSET D : sum[s] # g[s]}
    <2>2. ASSUME B # {} PROVE FALSE
      <3>1. PICK s \in B : \A x \in s : s \ {x} \notin B
        BY <1>2, <2>2, SmallestPart
      <3>2. CASE s = {}
        BY <1>7, <2>1, <3>2
      <3>3. CASE s # {}
        <4>1. Max(s) \in s /\ s \ {Max(s)} \in SUBSET D
          BY <1>3, <3>3
        <4>2. sum[s \ {Max(s)}] = g[s \ {Max(s)}]
          BY <3>1, <4>1
        <4>3. sum[s] = sum[s \ {Max(s)}] + l[Max(s)].weight
          BY <2>1, <3>3
        <4>4. g[s] = g[s \ {Max(s)}] + l[Max(s)].weight
          BY <1>7, <3>3
        <4>. QED
          BY <4>2, <4>3, <4>4
      <3>. QED
        BY <3>2, <3>3
    <2>3. \A s \in SUBSET D : sum[s] = g[s]
      BY <2>2
    <2>4. sum = [s \in SUBSET D |-> sum[s]] /\ g = [s \in SUBSET D |-> g[s]]
      BY <1>6, <2>1
    <2>. QED
      BY <2>3, <2>4, Zenon
  <1>11. SumFunctionOnSet(f, D) = g[D]
    <2> HIDE DEF f, D
    <2>. QED
      BY <1>2, <1>4, SumIs
  <1>. QED
    BY <1>1, <1>2, <1>10, <1>11

\* The total of a part of a list is that of the part before it and the weight.
LEMMA TotalGrows ==
  ASSUME NEW l \in Seq(NodeRecord)
  PROVE  /\ Total(l) \in Int /\ Total(SubSeq(l, 1, 0)) = 0 /\ SubSeq(l, 1, Len(l)) = l
         /\ \A n \in 1..Len(l) : /\ Total(SubSeq(l, 1, n - 1)) \in Int
                                 /\ Total(SubSeq(l, 1, n)) = Total(SubSeq(l, 1, n - 1)) + l[n].weight
  <1> DEFINE f == WeightsOf(l)
             D == 1..Len(l)
  <1>1. f \in [D -> Int] /\ IsFiniteSet(D) /\ Len(l) \in Nat
    <2>1. IsFiniteSet(D)
      BY FS_Interval
    <2>2. \A n \in D : l[n].weight \in Int
      BY ListItems
    <2>. QED
      BY <2>1, <2>2 DEF WeightsOf
  <1>2. ASSUME NEW n \in 0..Len(l)
        PROVE  /\ Total(SubSeq(l, 1, n)) = SumFunctionOnSet(f, 1..n)
               /\ SumFunctionOnSet(f, 1..n) \in Int
               /\ n = 0 => SumFunctionOnSet(f, 1..n) = 0
               /\ n # 0 => SumFunctionOnSet(f, 1..n) = f[n] + SumFunctionOnSet(f, 1..(n - 1))
    <2> DEFINE p == SubSeq(l, 1, n)
               e == [k \in 1..n |-> f[k]]
    <2>1. p \in Seq(NodeRecord) /\ Len(p) = n /\ \A k \in 1..n : p[k] = l[k]
      OBVIOUS
    <2>2. IsFiniteSet(1..n) /\ e \in [1..n -> Int]
      <3>1. n \in Int /\ 1..n \subseteq D
        BY <1>1
      <3>2. IsFiniteSet(1..n)
        BY <3>1, FS_Interval
      <3>. HIDE DEF f
      <3>. QED
        BY <1>1, <3>1, <3>2
    <2>3. \A k \in 1..n : WeightsOf(p)[k] = e[k]
      BY <2>1 DEF WeightsOf
    <2> HIDE DEF p
    <2>4. Total(p) = SumFunctionOnSet(WeightsOf(p), 1..n)
      BY <2>1, TotalIs
    <2>5. \A k \in 1..n : f[k] = e[k]
      OBVIOUS
    <2> HIDE DEF e, f
    <2>6. SumFunctionOnSet(WeightsOf(p), 1..n) = SumFunctionOnSet(e, 1..n)
      BY <2>2, <2>3, SumSame
    <2>7. SumFunctionOnSet(f, 1..n) = SumFunctionOnSet(e, 1..n)
      BY <2>2, <2>5, SumSame
    <2>8. SumFunctionOnSet(e, 1..n) \in Int /\ (1..n = {} => SumFunctionOnSet(e, 1..n) = 0)
      BY <2>2, SumTakes
    <2>9. ASSUME n # 0
          PROVE  SumFunctionOnSet(f, 1..n) = f[n] + SumFunctionOnSet(f, 1..(n - 1))
      <3>1. (1..n) \ {n} = 1..(n - 1) /\ n \in 1..n
        BY <2>9
      <3>2. SumFunctionOnSet(e, 1..n) = e[n] + SumFunctionOnSet(e, 1..(n - 1))
        BY <2>2, <3>1, SumTakes
      <3>3. IsFiniteSet(1..(n - 1)) /\ [k \in 1..(n - 1) |-> e[k]] \in [1..(n - 1) -> Int]
        BY <2>2, <3>1, FS_Interval
      <3>4. SumFunctionOnSet(e, 1..(n - 1)) = SumFunctionOnSet([k \in 1..(n - 1) |-> e[k]], 1..(n - 1))
        BY <3>3, SumSame
      <3>5. \A k \in 1..(n - 1) : f[k] = [j \in 1..(n - 1) |-> e[j]][k]
        BY <2>5, <3>1
      <3>6. SumFunctionOnSet(f, 1..(n - 1)) = SumFunctionOnSet([k \in 1..(n - 1) |-> e[k]], 1..(n - 1))
        BY <3>3, <3>5, SumSame
      <3>. QED
        BY <2>5, <2>7, <3>1, <3>2, <3>4, <3>6
    <2>10. n = 0 => 1..n = {}
      OBVIOUS
    <2>. QED
      BY <2>4, <2>6, <2>7, <2>8, <2>9, <2>10 DEF p
  <1>3. SubSeq(l, 1, Len(l)) = l
    OBVIOUS
  <1>4. \A n \in 1..Len(l) : f[n] = l[n].weight /\ l[n].weight \in Int
    BY ListItems DEF WeightsOf
  <1>. HIDE DEF f
  <1>5. ASSUME NEW n \in 1..Len(l)
        PROVE  /\ Total(SubSeq(l, 1, n - 1)) \in Int
               /\ Total(SubSeq(l, 1, n)) = Total(SubSeq(l, 1, n - 1)) + l[n].weight
    <2>1. n \in 0..Len(l) /\ n - 1 \in 0..Len(l) /\ n # 0
      BY <1>1
    <2>2. Total(SubSeq(l, 1, n)) = f[n] + SumFunctionOnSet(f, 1..(n - 1))
      BY <1>2, <2>1
    <2>3. Total(SubSeq(l, 1, n - 1)) = SumFunctionOnSet(f, 1..(n - 1)) /\ SumFunctionOnSet(f, 1..(n - 1)) \in Int
      BY <1>2, <2>1
    <2>. QED
      BY <1>4, <2>2, <2>3
  <1>6. 0 \in 0..Len(l) /\ Len(l) \in 0..Len(l)
    BY <1>1
  <1>7. Total(SubSeq(l, 1, 0)) = 0
    BY <1>2, <1>6
  <1>8. Total(l) \in Int
    BY <1>2, <1>3, <1>6
  <1>. QED
    BY <1>3, <1>5, <1>7, <1>8

-----------------------------------------------------------------------------
(* The types of the balancer                                                *)

TurnRecord == [at : Entered \cup {"idle", "refresh", "stuck"}, list : Offers \cup {<<>>},
         next : Nat \ {0}, best : Nat, most : Int]
Robin == [cur : Int, weight : Nat, fetched : Nat]

\* A call has a list, raises its weights from the first to the last, and then
\* has chosen one; the records of its list are there from its refresh on.
TurnOK(t, known) ==
    /\ t.at # "idle" => t.list \in Offers /\ t.list # <<>>
    /\ t.at \in {"idle", "refresh", "enter", "stuck"} => t.next = 1 /\ t.best = 0
    /\ t.at = "raise" => t.next \in DOMAIN t.list
    /\ t.at = "lower" => t.next = Len(t.list) + 1
    /\ t.best < t.next /\ (t.next > 1 => t.best > 0)
    /\ t.at \in Entered => IdsOf(t.list) \subseteq known

RobinTypes ==
    /\ now \in Nat
    /\ Known \subseteq Nodes /\ IsFiniteSet(Known)
    /\ robins \in [Known -> Robin]
    /\ \A i \in Known : robins[i].fetched <= now
    /\ turn \in [Choosers -> TurnRecord]
    /\ \A c \in Choosers : TurnOK(turn[c], Known)
    /\ reset \in BOOLEAN

LEMMA RobinTypesGive == RobinTypes => RobinTypeOK
  <1>1. ASSUME RobinTypes, NEW c \in Choosers
        PROVE  /\ turn[c].at \in Entered \cup {"idle", "refresh", "stuck"}
               /\ turn[c].list \in Offers \cup {<<>>}
               /\ turn[c].next \in Nat \ {0} /\ turn[c].best \in Nat
               /\ turn[c].best < turn[c].next
               /\ Doing(c, "raise") => turn[c].next \in DOMAIN turn[c].list
               /\ Doing(c, "lower") => turn[c].best \in DOMAIN turn[c].list
               /\ turn[c].at \in Entered => IdsOf(turn[c].list) \subseteq Known
    <2>1. turn[c] \in TurnRecord /\ TurnOK(turn[c], Known)
      BY <1>1 DEF RobinTypes
    <2>2. ASSUME Doing(c, "lower")
          PROVE  turn[c].best \in DOMAIN turn[c].list
      <3>1. turn[c].list \in Offers /\ turn[c].list # <<>>
        BY <2>1, <2>2 DEF TurnOK, Doing
      <3>2. turn[c].list \in Seq(NodeRecord)
        BY <3>1, RoundRobinAssumption DEF IsList, NodeRecord
      <3>3. Len(turn[c].list) \in Nat \ {0} /\ DOMAIN turn[c].list = 1..Len(turn[c].list)
        BY <3>1, <3>2
      <3>. QED
        BY <2>1, <2>2, <3>3 DEF TurnOK, Doing, TurnRecord
    <2>. QED
      BY <2>1, <2>2 DEF TurnOK, Doing, TurnRecord
  <1>2. ASSUME RobinTypes, NEW i \in Known
        PROVE  robins[i].cur \in Int /\ robins[i].weight \in Nat /\ robins[i].fetched \in 0..now
    <2>1. robins[i] \in Robin /\ robins[i].fetched <= now /\ now \in Nat
      BY <1>2 DEF RobinTypes
    <2>. QED
      BY <2>1 DEF Robin
  <1>. QED
    BY <1>1, <1>2 DEF RobinTypes, RobinTypeOK, Known

\* The ids of a list are finitely many, each at one position.
LEMMA ListIds ==
  ASSUME NEW l, IsList(l)
  PROVE  /\ l \in Seq(NodeRecord) /\ IdsOf(l) \subseteq Nodes /\ IsFiniteSet(IdsOf(l))
         /\ \A n \in 1..Len(l) : Position(l, l[n].id) = n /\ l[n].id \in IdsOf(l)
         /\ \A i \in IdsOf(l) : Position(l, i) \in 1..Len(l) /\ l[Position(l, i)].id = i
  <1>1. l \in Seq(NodeRecord)
    BY DEF IsList, NodeRecord
  <1>2. DOMAIN l = 1..Len(l) /\ Len(l) \in Nat /\ \A n \in 1..Len(l) : l[n].id \in Nodes
    BY <1>1, ListItems
  <1>3. IsFiniteSet(IdsOf(l))
    <2>1. IsFiniteSet(1..Len(l))
      BY <1>2, FS_Interval
    <2> DEFINE f == [n \in 1..Len(l) |-> l[n].id]
    <2>2. f \in Surjection(1..Len(l), IdsOf(l))
      BY <1>2 DEF Surjection, IdsOf
    <2>. QED
      BY <2>1, <2>2, FS_Surjection
  <1>4. \A m, n \in 1..Len(l) : l[m].id = l[n].id => m = n
    BY <1>2 DEF IsList
  <1>5. ASSUME NEW n \in 1..Len(l)
        PROVE  Position(l, l[n].id) = n /\ l[n].id \in IdsOf(l)
    BY <1>2, <1>4 DEF Position, IdsOf
  <1>6. \A i \in IdsOf(l) : \E n \in 1..Len(l) : l[n].id = i
    BY <1>2 DEF IdsOf
  <1>. QED
    BY <1>1, <1>2, <1>3, <1>5, <1>6 DEF IdsOf

\* Looking at the instances of l adds records, and changes none in use unless
\* some weight is another.
LEMMA Looked ==
  ASSUME RobinTypes, NEW l, IsList(l), robins' = UpdatedRobins(l)
  PROVE  /\ Known' = Known \cup IdsOf(l) /\ Known' \subseteq Nodes /\ IsFiniteSet(Known')
         /\ robins' \in [Known' -> Robin]
         /\ \A i \in Known' : robins'[i].fetched <= now
         /\ \A n \in 1..Len(l) : robins'[l[n].id].weight = l[n].weight
         /\ ~Disturbs(l) => /\ \A i \in Known : robins'[i] = robins[i]
                            /\ \A i \in Known' \ Known : robins'[i].cur = 0
  <1> DEFINE K == Known \cup IdsOf(l)
  <1>1. DOMAIN l = 1..Len(l) /\ \A n \in 1..Len(l) : l[n].weight \in Nat
    BY ListIds, ListItems
  <1>2. robins' = [i \in K |-> IF i \in IdsOf(l) THEN Updated(l[Position(l, i)]) ELSE robins[i]]
    BY DEF UpdatedRobins
  <1>3. Known' = K
    BY <1>2 DEF Known
  <1>4. K \subseteq Nodes /\ IsFiniteSet(K)
    BY ListIds, FS_Union DEF RobinTypes
  <1>5. now \in Nat /\ \A i \in Known : robins[i] \in Robin /\ robins[i].fetched <= now
    BY DEF RobinTypes
  <1>6. ASSUME NEW n \in 1..Len(l)
        PROVE  /\ Updated(l[n]) \in Robin /\ Updated(l[n]).weight = l[n].weight
               /\ Updated(l[n]).fetched <= now
               /\ l[n].id \notin Known => Updated(l[n]).cur = 0
               /\ ~Disturbs(l) /\ l[n].id \in Known => Updated(l[n]) = robins[l[n].id]
    <2>1. l[n].weight \in Nat
      BY <1>1
    <2>2. CASE l[n].id \in Known
      <3>1. robins[l[n].id] \in Robin /\ robins[l[n].id].fetched <= now
        BY <1>5, <2>2
      <3>2. Updated(l[n]) = Reweighed(robins[l[n].id], l[n].weight)
        BY <2>2 DEF Updated
      <3>3. ~Disturbs(l) => robins[l[n].id].weight = l[n].weight
        BY <1>1, <2>2 DEF Disturbs
      <3>4. CASE robins[l[n].id].weight = l[n].weight
        BY <2>2, <3>1, <3>2, <3>4 DEF Reweighed
      <3>5. CASE robins[l[n].id].weight # l[n].weight
        <4> DEFINE r == robins[l[n].id]
                   w == l[n].weight
        <4>1. Updated(l[n]) = [r EXCEPT !.cur = 0, !.weight = w]
          BY <3>2, <3>5 DEF Reweighed
        <4>2. r \in Robin /\ r.fetched <= now /\ w \in Nat
          BY <2>1, <3>1
        <4>. HIDE DEF r, w
        <4>3. Updated(l[n]) = [cur |-> 0, weight |-> w, fetched |-> r.fetched]
          BY <4>1, <4>2 DEF Robin
        <4>4. r.fetched \in Nat
          BY <4>2 DEF Robin
        <4>. QED
          BY <2>2, <3>3, <3>5, <4>2, <4>3, <4>4 DEF r, w, Robin
      <3>. QED
        BY <3>4, <3>5
    <2>3. CASE l[n].id \notin Known
      BY <1>5, <2>1, <2>3 DEF Updated, NewRobin, Robin
    <2>. QED
      BY <2>2, <2>3
  <1>7. \A n \in 1..Len(l) : robins'[l[n].id] = Updated(l[n])
    BY <1>2, ListIds
  <1>8. \A i \in IdsOf(l) : \E n \in 1..Len(l) : l[n].id = i
    BY <1>1 DEF IdsOf
  <1>9. \A i \in K : i \notin IdsOf(l) => robins'[i] = robins[i] /\ i \in Known
    BY <1>2
  <1>10. \A i \in K : robins'[i] \in Robin /\ robins'[i].fetched <= now
    BY <1>5, <1>6, <1>7, <1>8, <1>9
  <1>11. robins' \in [K -> Robin]
    BY <1>2, <1>10
  <1>12. \A n \in 1..Len(l) : robins'[l[n].id].weight = l[n].weight
    BY <1>6, <1>7
  <1>13. ASSUME ~Disturbs(l)
         PROVE  /\ \A i \in Known : robins'[i] = robins[i]
                /\ \A i \in K \ Known : robins'[i].cur = 0
    BY <1>6, <1>7, <1>8, <1>9, <1>13
  <1>. QED
    BY <1>3, <1>4, <1>10, <1>11, <1>12, <1>13

\* What has been looked at before the first expired record is a list, too.
LEMMA SeenIsList ==
  ASSUME NEW l, IsList(l), ExpiredIn(l) # {}
  PROVE  IsList(SubSeq(l, 1, Min(ExpiredIn(l)) - 1))
  <1>1. l \in Seq(NodeRecord) /\ DOMAIN l = 1..Len(l) /\ Len(l) \in Nat
    BY ListIds, ListItems
  <1>2. Min(ExpiredIn(l)) \in 1..Len(l)
    <2>1. ExpiredIn(l) \subseteq Nat /\ ExpiredIn(l) \subseteq 1..Len(l)
      BY <1>1 DEF ExpiredIn
    <2>2. \E m \in ExpiredIn(l) : \A k \in ExpiredIn(l) : m <= k
      BY <2>1, LeastNumber
    <2>. QED
      BY <2>1, <2>2 DEF Min
  <1> DEFINE k == Min(ExpiredIn(l)) - 1
             p == SubSeq(l, 1, k)
  <1>3. k \in 0..Len(l)
    BY <1>1, <1>2
  <1> HIDE DEF k
  <1>4. p \in Seq(NodeRecord) /\ Len(p) = k /\ DOMAIN p = 1..k /\ \A n \in 1..k : p[n] = l[n]
    BY <1>1, <1>3
  <1>5. \A m, n \in 1..Len(l) : l[m].id = l[n].id => m = n
    BY <1>1 DEF IsList
  <1>6. \A m, n \in 1..k : p[m].id = p[n].id => m = n
    BY <1>3, <1>4, <1>5
  <1> HIDE DEF p
  <1>7. IsList(p)
    BY <1>4, <1>6 DEF IsList, NodeRecord
  <1>. QED
    BY <1>7 DEF p, k

LEMMA TurnGives ==
  ASSUME RobinTypes, NEW c \in Choosers
  PROVE  /\ turn[c] \in TurnRecord /\ TurnOK(turn[c], Known)
         /\ turn[c].at # "idle" => /\ IsList(turn[c].list) /\ turn[c].list \in Seq(NodeRecord)
                                   /\ DOMAIN turn[c].list = 1..Len(turn[c].list)
                                   /\ Len(turn[c].list) \in Nat \ {0}
  <1>1. turn[c] \in TurnRecord /\ TurnOK(turn[c], Known)
    BY DEF RobinTypes
  <1>2. ASSUME turn[c].at # "idle"
        PROVE  /\ IsList(turn[c].list) /\ turn[c].list \in Seq(NodeRecord)
               /\ DOMAIN turn[c].list = 1..Len(turn[c].list) /\ Len(turn[c].list) \in Nat \ {0}
    <2>1. turn[c].list \in Offers /\ turn[c].list # <<>>
      BY <1>1, <1>2 DEF TurnOK
    <2>2. IsList(turn[c].list)
      BY <2>1, RoundRobinAssumption
    <2>3. turn[c].list \in Seq(NodeRecord)
      BY <2>2, ListIds
    <2>. QED
      BY <2>1, <2>2, <2>3
  <1>. QED
    BY <1>1, <1>2

\* One call goes on, and no record goes away.
LEMMA OneTurn ==
  ASSUME RobinTypes, NEW c \in Choosers, NEW t \in TurnRecord, turn' = [turn EXCEPT ![c] = t],
         Known \subseteq Known', TurnOK(t, Known')
  PROVE  /\ turn' \in [Choosers -> TurnRecord] /\ \A d \in Choosers : TurnOK(turn'[d], Known')
         /\ turn'[c] = t /\ \A d \in Choosers \ {c} : turn'[d] = turn[d]
  <1>1. turn \in [Choosers -> TurnRecord] /\ \A d \in Choosers : TurnOK(turn[d], Known)
    BY DEF RobinTypes
  <1>2. turn' \in [Choosers -> TurnRecord] /\ turn'[c] = t /\ \A d \in Choosers \ {c} : turn'[d] = turn[d]
    BY <1>1
  <1>3. ASSUME NEW d \in Choosers
        PROVE  TurnOK(turn'[d], Known')
    BY <1>1, <1>2 DEF TurnOK
  <1>. QED
    BY <1>2, <1>3

LEMMA StartTurn ==
  ASSUME RobinTypes, NEW c \in Choosers, NEW l \in Offers, Start(c, l)
  PROVE  /\ RobinTypes' /\ turn'[c].at = "refresh"
         /\ \A d \in Choosers \ {c} : turn'[d] = turn[d]
  <1> DEFINE t == [NotChoosing EXCEPT !.at = "refresh", !.list = l]
  <1>1. NotChoosing \in TurnRecord /\ NotChoosing.next = 1 /\ NotChoosing.best = 0
    BY DEF NotChoosing, TurnRecord
  <1>2. t \in TurnRecord /\ TurnOK(t, Known) /\ t.at = "refresh"
    <2>1. t \in TurnRecord /\ t.at = "refresh" /\ t.list = l /\ t.next = 1 /\ t.best = 0
      BY <1>1 DEF TurnRecord
    <2>2. l # <<>>
      BY DEF Start, Refused
    <2>. HIDE DEF t
    <2>3. TurnOK(t, Known)
      BY <2>1, <2>2 DEF TurnOK, Entered
    <2>. QED
      BY <2>1, <2>3
  <1>3. turn' = [turn EXCEPT ![c] = t] /\ UNCHANGED <<robins, now, reset>>
    BY DEF Start
  <1>4. Known' = Known
    BY <1>3 DEF Known
  <1>. HIDE DEF t
  <1>5. /\ turn' \in [Choosers -> TurnRecord] /\ \A d \in Choosers : TurnOK(turn'[d], Known')
        /\ turn'[c] = t /\ \A d \in Choosers \ {c} : turn'[d] = turn[d]
    BY <1>2, <1>3, <1>4, OneTurn
  <1>. QED
    BY <1>2, <1>3, <1>4, <1>5 DEF RobinTypes

LEMMA RefreshTurn ==
  ASSUME RobinTypes, NEW c \in Choosers, Refresh(c)
  PROVE  /\ RobinTypes' /\ turn'[c].at = "enter" /\ turn'[c].list = turn[c].list
         /\ \A d \in Choosers \ {c} : turn'[d] = turn[d]
  <1> DEFINE l == turn[c].list
             t == [turn[c] EXCEPT !.at = "enter"]
  <1>1. turn[c] \in TurnRecord /\ TurnOK(turn[c], Known) /\ turn[c].at = "refresh" /\ IsList(l)
    BY TurnGives DEF Refresh, Doing
  <1>2. robins' = UpdatedRobins(l) /\ turn' = [turn EXCEPT ![c] = t] /\ now' = now
    BY <1>1 DEF Refresh
  <1>3. reset' \in BOOLEAN
    BY DEF Refresh, RobinTypes, Disturbs
  <1>4. /\ Known' = Known \cup IdsOf(l) /\ Known' \subseteq Nodes /\ IsFiniteSet(Known')
        /\ robins' \in [Known' -> Robin]
        /\ \A i \in Known' : robins'[i].fetched <= now
    <2> HIDE DEF l
    <2>. QED
      BY <1>1, <1>2, Looked
  <1>5. t \in TurnRecord /\ t.at = "enter" /\ t.list = l /\ t.next = turn[c].next /\ t.best = turn[c].best
    BY <1>1 DEF TurnRecord, Entered
  <1>6. TurnOK(t, Known')
    BY <1>1, <1>4, <1>5 DEF TurnOK
  <1>. HIDE DEF t, l
  <1>7. /\ turn' \in [Choosers -> TurnRecord] /\ \A d \in Choosers : TurnOK(turn'[d], Known')
        /\ turn'[c] = t /\ \A d \in Choosers \ {c} : turn'[d] = turn[d]
    BY <1>2, <1>4, <1>5, <1>6, OneTurn
  <1>8. RobinTypes'
    BY <1>2, <1>3, <1>4, <1>7 DEF RobinTypes
  <1>. QED
    BY <1>5, <1>7, <1>8 DEF l

LEMMA FindExpiredTurn ==
  ASSUME RobinTypes, NEW c \in Choosers, FindExpired(c)
  PROVE  /\ RobinTypes' /\ turn'[c].at = "stuck"
         /\ \A d \in Choosers \ {c} : turn'[d] = turn[d]
  <1> DEFINE l == turn[c].list
             p == SubSeq(l, 1, Min(ExpiredIn(l)) - 1)
             t == [turn[c] EXCEPT !.at = "stuck"]
  <1>1. turn[c] \in TurnRecord /\ TurnOK(turn[c], Known) /\ turn[c].at = "refresh" /\ IsList(l)
    BY TurnGives DEF FindExpired, Doing
  <1>2. robins' = UpdatedRobins(p) /\ turn' = [turn EXCEPT ![c] = t] /\ now' = now /\ IsList(p)
    BY <1>1, SeenIsList DEF FindExpired
  <1>3. reset' \in BOOLEAN
    BY DEF FindExpired, RobinTypes, Disturbs
  <1>4. /\ Known' = Known \cup IdsOf(p) /\ Known' \subseteq Nodes /\ IsFiniteSet(Known')
        /\ robins' \in [Known' -> Robin]
        /\ \A i \in Known' : robins'[i].fetched <= now
    <2> HIDE DEF p
    <2>. QED
      BY <1>2, Looked
  <1>5. t \in TurnRecord /\ t.at = "stuck" /\ t.list = l /\ t.next = turn[c].next /\ t.best = turn[c].best
    BY <1>1 DEF TurnRecord
  <1>6. TurnOK(t, Known')
    BY <1>1, <1>4, <1>5 DEF TurnOK, Entered
  <1>. HIDE DEF t, p, l
  <1>7. /\ turn' \in [Choosers -> TurnRecord] /\ \A d \in Choosers : TurnOK(turn'[d], Known')
        /\ turn'[c] = t /\ \A d \in Choosers \ {c} : turn'[d] = turn[d]
    BY <1>2, <1>4, <1>5, <1>6, OneTurn
  <1>8. RobinTypes'
    BY <1>2, <1>3, <1>4, <1>7 DEF RobinTypes
  <1>. QED
    BY <1>5, <1>7, <1>8

LEMMA EnterTurn ==
  ASSUME RobinTypes, NEW c \in Choosers, Enter(c)
  PROVE  /\ RobinTypes' /\ turn'[c].at = "raise" /\ turn'[c].list = turn[c].list /\ turn'[c].next = 1
         /\ \A d \in Choosers \ {c} : turn'[d] = turn[d]
  <1> DEFINE t == [turn[c] EXCEPT !.at = "raise"]
  <1>1. /\ turn[c] \in TurnRecord /\ TurnOK(turn[c], Known) /\ turn[c].at = "enter"
        /\ DOMAIN turn[c].list = 1..Len(turn[c].list) /\ Len(turn[c].list) \in Nat \ {0}
    BY TurnGives DEF Enter, Doing
  <1>2. turn' = [turn EXCEPT ![c] = t] /\ UNCHANGED <<robins, now, reset>>
    BY <1>1 DEF Enter
  <1>3. Known' = Known
    BY <1>2 DEF Known
  <1>4. t \in TurnRecord /\ t.at = "raise" /\ t.list = turn[c].list /\ t.next = turn[c].next /\ t.best = turn[c].best
    BY <1>1 DEF TurnRecord, Entered
  <1>5. turn[c].next = 1
    BY <1>1 DEF TurnOK
  <1>6. TurnOK(t, Known)
    BY <1>1, <1>4, <1>5 DEF TurnOK, Entered
  <1>. HIDE DEF t
  <1>7. /\ turn' \in [Choosers -> TurnRecord] /\ \A d \in Choosers : TurnOK(turn'[d], Known')
        /\ turn'[c] = t /\ \A d \in Choosers \ {c} : turn'[d] = turn[d]
    BY <1>2, <1>3, <1>4, <1>6, OneTurn
  <1>. QED
    BY <1>2, <1>3, <1>4, <1>5, <1>7 DEF RobinTypes

LEMMA RaiseTurn ==
  ASSUME RobinTypes, NEW c \in Choosers, Raise(c)
  PROVE  /\ RobinTypes' /\ turn[c].next \in 1..Len(turn[c].list)
         /\ turn'[c].at \in {"raise", "lower"} /\ turn'[c].list = turn[c].list /\ turn'[c].next = turn[c].next + 1
         /\ \A d \in Choosers \ {c} : turn'[d] = turn[d]
         /\ Known' = Known /\ turn[c].list[turn[c].next].id \in Known
         /\ LET i == turn[c].list[turn[c].next].id
            IN  /\ robins'[i].cur = robins[i].cur + robins[i].weight
                /\ \A k \in Known : robins'[k].weight = robins[k].weight
                /\ \A k \in Known \ {i} : robins'[k] = robins[k]
  <1> DEFINE l == turn[c].list
             n == turn[c].next
             i == l[n].id
             raised == robins[i].cur + robins[i].weight
             best == IF Better(c, raised) THEN n ELSE turn[c].best
             most == IF Better(c, raised) THEN raised ELSE turn[c].most
             at == IF n = Len(l) THEN "lower" ELSE "raise"
             u == [turn[c] EXCEPT !.at = at, !.next = n + 1, !.best = best, !.most = most]
             t == turn'[c]
             r == robins'[i]
  <1>1. /\ turn[c] \in TurnRecord /\ TurnOK(turn[c], Known) /\ turn[c].at = "raise"
        /\ DOMAIN l = 1..Len(l) /\ Len(l) \in Nat \ {0}
    BY TurnGives DEF Raise, Doing
  <1>2. /\ robins' = [robins EXCEPT ![i].cur = raised, ![i].fetched = now]
        /\ turn' = [turn EXCEPT ![c] = u]
        /\ UNCHANGED <<now, reset>>
    BY DEF Raise
  <1>3. n \in 1..Len(l) /\ i \in Known
    <2>1. n \in 1..Len(l) /\ IdsOf(l) \subseteq Known
      BY <1>1 DEF TurnOK, Entered
    <2>. QED
      BY <1>1, <2>1 DEF IdsOf
  <1>4. robins \in [Known -> Robin] /\ robins[i] \in Robin /\ now \in Nat
    BY <1>3 DEF RobinTypes
  <1>5. raised \in Int
    <2> DEFINE o == robins[i]
    <2>1. o \in Robin
      BY <1>4
    <2> HIDE DEF o
    <2>2. o.cur + o.weight \in Int
      BY <2>1 DEF Robin
    <2>. QED
      BY <2>2 DEF o
  <1>6. turn \in [Choosers -> TurnRecord]
    BY DEF RobinTypes
  <1>7. t = u
    <2> HIDE DEF u
    <2>. QED
      BY <1>2, <1>6
  <1>8. t.at = at /\ t.list = l /\ t.next = n + 1 /\ t.best = best
    <2>1. turn[c] \in TurnRecord
      BY <1>1
    <2> HIDE DEF at, best, most, n, t
    <2>2. u.at = at /\ u.list = l /\ u.next = n + 1 /\ u.best = best
      BY <2>1 DEF TurnRecord
    <2>. QED
      BY <1>7, <2>2
  <1>9. t \in TurnRecord
    <2>1. n \in Nat \ {0} /\ best \in Nat /\ most \in Int /\ at \in Entered
      BY <1>1, <1>5 DEF TurnRecord, Entered
    <2>2. turn[c] \in TurnRecord
      BY <1>1
    <2> HIDE DEF at, best, most, n
    <2>4. n + 1 \in Nat \ {0}
      BY <2>1
    <2>3. u \in TurnRecord
      BY <2>1, <2>2, <2>4 DEF TurnRecord
    <2>. QED
      BY <1>7, <2>3
  <1>10. TurnOK(t, Known)
    <2>1. Better(c, raised) \/ turn[c].best > 0
      BY <1>1 DEF Better, TurnRecord
    <2>2. turn[c].best \in Nat /\ turn[c].best < n
      BY <1>1 DEF TurnOK, TurnRecord
    <2>3. l \in Offers /\ l # <<>> /\ IdsOf(l) \subseteq Known
      BY <1>1 DEF TurnOK, Entered
    <2>8. n # Len(l) => n + 1 \in 1..Len(l)
      BY <1>1, <1>3
    <2> HIDE DEF raised, n, t, l
    <2>4. t.best < t.next /\ t.best > 0
      BY <1>3, <1>8, <2>1, <2>2
    <2>5. t.at = "raise" => t.next \in DOMAIN t.list
      <3>1. CASE n = Len(l)
        BY <1>8, <3>1
      <3>2. CASE n # Len(l)
        BY <1>1, <1>8, <2>8, <3>2
      <3>. QED
        BY <3>1, <3>2
    <2>6. t.at = "lower" => t.next = Len(t.list) + 1
      BY <1>8
    <2>7. t.at \in {"raise", "lower"} /\ t.list = l
      BY <1>8
    <2>. QED
      BY <2>3, <2>4, <2>5, <2>6, <2>7 DEF TurnOK
  <1>11. robins' = [robins EXCEPT ![i] = [robins[i] EXCEPT !.cur = raised, !.fetched = now]]
    <2> HIDE DEF raised, i
    <2>. QED
      BY <1>2, <1>4
  <1>12. Known' = Known /\ r = [robins[i] EXCEPT !.cur = raised, !.fetched = now]
         /\ \A k \in Known \ {i} : robins'[k] = robins[k]
    <2> HIDE DEF raised, i
    <2>. QED
      BY <1>3, <1>4, <1>11 DEF Known
  <1>13. r \in Robin /\ r.cur = raised /\ r.weight = robins[i].weight /\ r.fetched = now
    <2> DEFINE o == robins[i]
    <2>1. r = [o EXCEPT !.cur = raised, !.fetched = now] /\ o \in Robin /\ now \in Nat
      BY <1>4, <1>12
    <2> HIDE DEF raised, r, o
    <2>2. r = [cur |-> raised, weight |-> o.weight, fetched |-> now] /\ o.weight \in Nat
      BY <2>1 DEF Robin
    <2>3. r \in Robin /\ r.cur = raised /\ r.weight = o.weight /\ r.fetched = now
      BY <1>5, <2>1, <2>2 DEF Robin
    <2>. QED
      BY <2>3 DEF o
  <1>14. robins' \in [Known -> Robin] /\ \A k \in Known : robins'[k].fetched <= now
    <2>1. robins'[i] \in Robin /\ robins'[i].fetched <= now
      <3>1. now <= now
        BY <1>4
      <3> HIDE DEF raised, r
      <3>2. r \in Robin /\ r.fetched = now
        BY <1>13
      <3>. QED
        BY <3>1, <3>2 DEF r
    <2>2. \A k \in Known \ {i} : robins'[k] \in Robin /\ robins'[k].fetched <= now
      BY <1>12 DEF RobinTypes
    <2>3. robins' = [k \in Known |-> robins'[k]]
      BY <1>4, <1>11
    <2>. QED
      BY <2>1, <2>2, <2>3
  <1>15. /\ turn' = [turn EXCEPT ![c] = t]
         /\ \A d \in Choosers \ {c} : turn'[d] = turn[d]
    <2> HIDE DEF u
    <2>. QED
      BY <1>2, <1>6
  <1> HIDE DEF raised, u, t, r
  <1>16. turn' \in [Choosers -> TurnRecord] /\ \A d \in Choosers : TurnOK(turn'[d], Known')
    BY <1>9, <1>10, <1>12, <1>15, OneTurn
  <1>17. RobinTypes'
    <2>1. Known' \subseteq Nodes /\ IsFiniteSet(Known')
      BY <1>12 DEF RobinTypes
    <2>2. now' = now /\ now' \in Nat /\ reset' \in BOOLEAN
      BY <1>2 DEF RobinTypes
    <2>3. robins' \in [Known' -> Robin] /\ \A k \in Known' : robins'[k].fetched <= now'
      BY <1>12, <1>14, <2>2
    <2>. QED
      BY <1>16, <2>1, <2>2, <2>3 DEF RobinTypes
  <1>18. \A k \in Known : robins'[k].weight = robins[k].weight
    BY <1>12, <1>13 DEF r
  <1>. QED
    BY <1>3, <1>8, <1>12, <1>13, <1>15, <1>17, <1>18 DEF t, r, raised

LEMMA LowerTurn ==
  ASSUME RobinTypes, NEW c \in Choosers, Lower(c)
  PROVE  /\ RobinTypes' /\ turn'[c] = NotChoosing /\ turn[c].next = Len(turn[c].list) + 1
         /\ \A d \in Choosers \ {c} : turn'[d] = turn[d]
         /\ Known' = Known /\ Chosen(c) \in Known
         /\ robins'[Chosen(c)].cur = robins[Chosen(c)].cur - Cost(c)
         /\ \A k \in Known : robins'[k].weight = robins[k].weight
         /\ \A k \in Known \ {Chosen(c)} : robins'[k] = robins[k]
  <1> DEFINE l == turn[c].list
             i == Chosen(c)
             left == robins[i].cur - Cost(c)
             r == robins'[i]
  <1>1. /\ turn[c] \in TurnRecord /\ TurnOK(turn[c], Known) /\ turn[c].at = "lower"
        /\ DOMAIN l = 1..Len(l) /\ Len(l) \in Nat \ {0} /\ l \in Seq(NodeRecord)
    BY TurnGives DEF Lower, Doing
  <1>2. /\ robins' = [robins EXCEPT ![i].cur = @ - Cost(c)]
        /\ turn' = [turn EXCEPT ![c] = NotChoosing]
        /\ UNCHANGED <<now, reset>>
    BY DEF Lower
  <1>3. turn[c].next = Len(l) + 1 /\ i \in Known
    <2>1. turn[c].next = Len(l) + 1 /\ IdsOf(l) \subseteq Known
      BY <1>1 DEF TurnOK, Entered
    <2>2. turn[c].best \in 1..Len(l)
      BY <1>1, <2>1 DEF TurnOK, TurnRecord
    <2>. QED
      BY <1>1, <2>1, <2>2 DEF IdsOf, Chosen
  <1>4. robins \in [Known -> Robin] /\ robins[i] \in Robin /\ turn \in [Choosers -> TurnRecord]
    BY <1>3 DEF RobinTypes
  <1>5. left \in Int
    BY <1>1, <1>4, TotalGrows DEF Robin, Cost
  <1>6. Known' = Known /\ r = [robins[i] EXCEPT !.cur = left]
        /\ \A k \in Known \ {i} : robins'[k] = robins[k]
    <2> HIDE DEF i
    <2>. QED
      BY <1>2, <1>3, <1>4 DEF Known
  <1>7. r \in Robin /\ r.cur = left /\ r.weight = robins[i].weight /\ r.fetched = robins[i].fetched
    <2> HIDE DEF left, r
    <2>. QED
      BY <1>4, <1>5, <1>6 DEF Robin
  <1>8. robins' \in [Known -> Robin] /\ \A k \in Known : robins'[k].fetched <= now
    <2>1. \A k \in Known : robins'[k] \in Robin /\ robins'[k].fetched <= now
      BY <1>4, <1>6, <1>7 DEF RobinTypes
    <2>2. robins' = [k \in Known |-> robins'[k]]
      BY <1>2, <1>4
    <2>. QED
      BY <2>1, <2>2
  <1>9. NotChoosing \in TurnRecord /\ TurnOK(NotChoosing, Known)
    BY DEF NotChoosing, TurnRecord, TurnOK, Entered
  <1>10. /\ turn' \in [Choosers -> TurnRecord] /\ \A d \in Choosers : TurnOK(turn'[d], Known')
         /\ turn'[c] = NotChoosing /\ \A d \in Choosers \ {c} : turn'[d] = turn[d]
    BY <1>2, <1>6, <1>9, OneTurn
  <1>11. RobinTypes'
    BY <1>2, <1>6, <1>8, <1>10 DEF RobinTypes
  <1>12. \A k \in Known : robins'[k].weight = robins[k].weight
    BY <1>6, <1>7
  <1>. QED
    BY <1>3, <1>6, <1>7, <1>10, <1>11, <1>12

LEMMA RobinTypesInit == RobinInit => RobinTypes
  <1> SUFFICES ASSUME RobinInit PROVE RobinTypes
    OBVIOUS
  <1>1. NotChoosing \in TurnRecord /\ TurnOK(NotChoosing, {})
    BY DEF NotChoosing, TurnRecord, TurnOK, Entered
  <1>2. Known = {} /\ robins \in [{} -> Robin] /\ IsFiniteSet({})
    BY FS_EmptySet DEF RobinInit, Known
  <1>. QED
    BY <1>1, <1>2 DEF RobinInit, RobinTypes

LEMMA RobinTypesStep == RobinTypes /\ [RobinNext]_robinVars => RobinTypes'
  <1> SUFFICES ASSUME RobinTypes, [RobinNext]_robinVars PROVE RobinTypes'
    OBVIOUS
  <1>1. ASSUME NEW c \in Choosers, NEW l \in Offers, Start(c, l) PROVE RobinTypes'
    BY <1>1, StartTurn
  <1>2. ASSUME NEW c \in Choosers, Proceed(c) PROVE RobinTypes'
    BY <1>2, RefreshTurn, FindExpiredTurn, EnterTurn, RaiseTurn, LowerTurn DEF Proceed
  <1>3. CASE Tick
    <2>1. UNCHANGED <<robins, turn, reset>> /\ now' = now + 1 /\ now \in Nat
      BY <1>3 DEF Tick, RobinTypes
    <2>2. \A i \in Known : robins[i].fetched \in Nat
      BY DEF RobinTypes, Robin
    <2>. QED
      BY <2>1, <2>2 DEF RobinTypes, Known
  <1>4. CASE UNCHANGED robinVars
    BY <1>4 DEF robinVars, RobinTypes, Known
  <1>. QED
    BY <1>1, <1>2, <1>3, <1>4 DEF RobinNext

(***************************************************************************)
(* The record of every instance a call asks for is there (the unwrap of    *)
(* choose_instance cannot fail), and the indices of a call are of its list.*)
(***************************************************************************)
THEOREM RobinTypeCorrect == RobinSpec => []RobinTypeOK
  <1>1. RobinSpec => []RobinTypes
    BY RobinTypesInit, RobinTypesStep, PTL DEF RobinSpec
  <1>. QED
    BY <1>1, RobinTypesGive, PTL

-----------------------------------------------------------------------------
(* No turn is lost                                                          *)

CurSum == SumFunction([i \in Known |-> robins[i].cur])
RaisedSum == SumFunction([c \in Choosers |-> RaisedSoFar(c)])

\* Until a weight changes, a call that has refreshed finds the weights of its
\* list in the records, whoever refreshes after it.
WeightsKept ==
    \A c \in Choosers : turn[c].at \in Entered =>
        \A n \in 1..Len(turn[c].list) : robins[turn[c].list[n].id].weight = turn[c].list[n].weight

RobinInv == RobinTypes /\ (~reset => WeightsKept /\ CurSum = RaisedSum)

LEMMA RaisedIs ==
  ASSUME RobinTypes, NEW c \in Choosers
  PROVE  /\ RaisedSoFar(c) \in Int
         /\ turn[c].at \in {"raise", "lower"} => RaisedSoFar(c) = Total(SubSeq(turn[c].list, 1, turn[c].next - 1))
         /\ turn[c].at \notin {"raise", "lower"} => RaisedSoFar(c) = 0
  <1>1. CASE turn[c].at \in {"raise", "lower"}
    <2>1. RaisedSoFar(c) = Total(SubSeq(turn[c].list, 1, turn[c].next - 1))
      BY <1>1 DEF RaisedSoFar, Readers
    <2>2. /\ turn[c].list \in Seq(NodeRecord) /\ DOMAIN turn[c].list = 1..Len(turn[c].list)
          /\ Len(turn[c].list) \in Nat \ {0}
      BY <1>1, TurnGives
    <2>3. turn[c].next \in 1..Len(turn[c].list) \/ turn[c].next = Len(turn[c].list) + 1
      BY <1>1, <2>2, TurnGives DEF TurnOK
    <2>4. turn[c].next \in 1..Len(turn[c].list) => RaisedSoFar(c) \in Int
      BY <2>1, <2>2, TotalGrows
    <2>5. ASSUME turn[c].next = Len(turn[c].list) + 1
          PROVE  RaisedSoFar(c) \in Int
      <3>1. turn[c].next - 1 = Len(turn[c].list)
        BY <2>2, <2>5
      <3>. QED
        BY <2>1, <2>2, <3>1, TotalGrows
    <2>. QED
      BY <1>1, <2>1, <2>3, <2>4, <2>5
  <1>2. CASE turn[c].at \notin {"raise", "lower"}
    BY <1>2 DEF RaisedSoFar, Readers
  <1>. QED
    BY <1>1, <1>2

RaisedInts == \A c \in Choosers : RaisedSoFar(c) \in Int

LEMMA RaisedAre == RobinTypes => RaisedInts
  BY RaisedIs DEF RaisedInts

\* When one call goes on, the sum of what calls have raised changes by that.
LEMMA OneRaises ==
  ASSUME RobinTypes, RobinTypes', NEW c \in Choosers, \A d \in Choosers \ {c} : turn'[d] = turn[d]
  PROVE  /\ RaisedSum' = RaisedSum - RaisedSoFar(c) + RaisedSoFar(c)'
         /\ RaisedSoFar(c) \in Int /\ RaisedSoFar(c)' \in Int /\ RaisedSum \in Int
  <1> DEFINE f == [d \in Choosers |-> RaisedSoFar(d)]
             e == [d \in Choosers |-> RaisedSoFar(d)']
  <1>1. \A d \in Choosers : RaisedSoFar(d) \in Int
    BY RaisedIs
  <1>2. (\A d \in Choosers : RaisedSoFar(d) \in Int)'
    <2>1. RobinTypes'
      OBVIOUS
    <2>2. RaisedInts'
      BY <2>1, RaisedAre, PTL
    <2>. QED
      BY <2>2 DEF RaisedInts
  <1>3. \A d \in Choosers \ {c} : RaisedSoFar(d)' = RaisedSoFar(d)
    BY DEF RaisedSoFar, Readers
  <1>4. f \in [Choosers -> Int] /\ e \in [Choosers -> Int] /\ \A d \in Choosers \ {c} : e[d] = f[d]
    BY <1>1, <1>2, <1>3
  <1>5. IsFiniteSet(Choosers)
    BY RoundRobinAssumption
  <1>6. RaisedSum = SumFunction(f) /\ RaisedSum' = SumFunction(e)
    BY DEF RaisedSum
  <1>7. f[c] = RaisedSoFar(c) /\ e[c] = RaisedSoFar(c)'
    OBVIOUS
  <1>8. DOMAIN f = Choosers
    OBVIOUS
  <1> HIDE DEF f, e
  <1>9. SumFunction(e) = SumFunction(f) - f[c] + e[c]
    BY <1>4, <1>5, SumChanges
  <1>10. SumFunction(f) \in Int
    BY <1>4, <1>5, <1>8, SumTakes DEF SumFunction
  <1>. QED
    BY <1>1, <1>2, <1>6, <1>7, <1>9, <1>10

\* When one record changes, so does the sum of the current weights.
LEMMA OneRecord ==
  ASSUME RobinTypes, RobinTypes', Known' = Known, NEW i \in Known,
         \A k \in Known \ {i} : robins'[k] = robins[k]
  PROVE  /\ CurSum' = CurSum - robins[i].cur + robins'[i].cur
         /\ CurSum \in Int /\ robins[i].cur \in Int /\ robins[i].weight \in Nat
  <1> DEFINE f == [k \in Known |-> robins[k].cur]
             e == [k \in Known |-> robins'[k].cur]
  <1>1. \A k \in Known : robins[k] \in Robin /\ robins'[k] \in Robin
    BY DEF RobinTypes
  <1>2. f \in [Known -> Int] /\ e \in [Known -> Int] /\ \A k \in Known \ {i} : e[k] = f[k]
    BY <1>1 DEF Robin
  <1>3. IsFiniteSet(Known)
    BY DEF RobinTypes
  <1>4. CurSum = SumFunction(f) /\ CurSum' = SumFunction(e)
    BY DEF CurSum
  <1>5. f[i] = robins[i].cur /\ e[i] = robins'[i].cur /\ DOMAIN f = Known
    OBVIOUS
  <1> HIDE DEF f, e
  <1>6. SumFunction(e) = SumFunction(f) - f[i] + e[i]
    BY <1>2, <1>3, SumChanges
  <1>7. SumFunction(f) \in Int
    BY <1>2, <1>3, <1>5, SumTakes DEF SumFunction
  <1>. QED
    BY <1>1, <1>4, <1>5, <1>6, <1>7 DEF Robin

\* New records start from zero.
LEMMA NewRecords ==
  ASSUME RobinTypes, RobinTypes', Known \subseteq Known',
         \A i \in Known : robins'[i] = robins[i], \A i \in Known' \ Known : robins'[i].cur = 0
  PROVE  CurSum' = CurSum
  <1> DEFINE K == Known'
             e == [k \in K |-> robins'[k].cur]
             f == [k \in Known |-> robins[k].cur]
  <1>1. \A k \in K : robins'[k] \in Robin
    BY DEF RobinTypes
  <1>2. e \in [K -> Int] /\ \A k \in K \ Known : e[k] = 0
    BY <1>1 DEF Robin
  <1>3. IsFiniteSet(K) /\ IsFiniteSet(Known)
    BY DEF RobinTypes
  <1>4. f \in [Known -> Int] /\ \A k \in Known : e[k] = f[k]
    <2>1. \A k \in Known : robins[k] \in Robin
      BY DEF RobinTypes
    <2>. QED
      BY <2>1 DEF Robin
  <1>5. CurSum' = SumFunctionOnSet(e, K) /\ CurSum = SumFunctionOnSet(f, Known)
    BY DEF CurSum, SumFunction
  <1> HIDE DEF e, f, K
  <1>6. Known \in SUBSET K
    BY DEF K
  <1>7. SumFunctionOnSet(e, K) = SumFunctionOnSet(e, Known)
    BY <1>2, <1>3, <1>6, SumKept
  <1>8. SumFunctionOnSet(e, Known) = SumFunctionOnSet(f, Known)
    BY <1>3, <1>4, SumSame
  <1>. QED
    BY <1>5, <1>7, <1>8

\* The records as they are after a look at a list, or at the first of one.
LEMMA LookConserves ==
  ASSUME RobinInv, RobinTypes', NEW c \in Choosers, \A d \in Choosers \ {c} : turn'[d] = turn[d],
         turn[c].at = "refresh", turn'[c].at \in {"enter", "stuck"},
         NEW l, IsList(l), robins' = UpdatedRobins(l), reset' = (reset \/ Disturbs(l)),
         turn'[c].at = "enter" => turn'[c].list = l
  PROVE  RobinInv'
  <1>1. SUFFICES ASSUME ~reset' PROVE WeightsKept' /\ CurSum' = RaisedSum'
    BY DEF RobinInv
  <1>2. RobinTypes /\ ~reset /\ ~Disturbs(l) /\ WeightsKept /\ CurSum = RaisedSum
    BY <1>1 DEF RobinInv, RobinTypes, Disturbs
  <1>3. /\ Known \subseteq Known' /\ \A i \in Known : robins'[i] = robins[i]
        /\ \A i \in Known' \ Known : robins'[i].cur = 0
        /\ \A n \in 1..Len(l) : robins'[l[n].id].weight = l[n].weight
    BY <1>2, Looked
  <1>4. CurSum' = CurSum
    BY <1>2, <1>3, NewRecords
  <1>5. RaisedSum' = RaisedSum
    <2>1. RaisedSoFar(c) = 0
      BY <1>2, RaisedIs
    <2>2. RaisedSoFar(c)' = 0
      BY DEF RaisedSoFar, Readers
    <2>. QED
      BY <1>2, <2>1, <2>2, OneRaises
  <1>6. ASSUME NEW d \in Choosers, turn'[d].at \in Entered, NEW n \in 1..Len(turn'[d].list)
        PROVE  robins'[turn'[d].list[n].id].weight = turn'[d].list[n].weight
    <2>1. CASE d = c
      BY <1>3, <1>6, <2>1 DEF Entered
    <2>2. CASE d # c
      <3>1. turn'[d] = turn[d]
        BY <2>2
      <3>2. turn[d].list[n].id \in Known
        <4>1. TurnOK(turn[d], Known) /\ turn[d].at # "idle"
          BY <1>2, <1>6, <3>1, TurnGives DEF Entered
        <4>2. DOMAIN turn[d].list = 1..Len(turn[d].list) /\ IdsOf(turn[d].list) \subseteq Known
          BY <1>2, <1>6, <3>1, <4>1, TurnGives DEF TurnOK
        <4>. QED
          BY <1>6, <3>1, <4>2 DEF IdsOf
      <3>3. robins[turn[d].list[n].id].weight = turn[d].list[n].weight
        BY <1>2, <1>6, <3>1 DEF WeightsKept
      <3>. QED
        BY <1>3, <3>1, <3>2, <3>3
    <2>. QED
      BY <2>1, <2>2
  <1>. QED
    BY <1>2, <1>4, <1>5, <1>6 DEF WeightsKept

LEMMA StartConserves ==
  ASSUME RobinInv, NEW c \in Choosers, NEW l \in Offers, Start(c, l)
  PROVE  RobinInv'
  <1>1. RobinTypes /\ RobinTypes' /\ turn'[c].at = "refresh" /\ turn[c].at = "idle"
        /\ UNCHANGED <<robins, reset>> /\ \A d \in Choosers \ {c} : turn'[d] = turn[d]
    BY StartTurn DEF RobinInv, Start, Doing
  <1>2. SUFFICES ASSUME ~reset PROVE WeightsKept' /\ CurSum' = RaisedSum'
    BY <1>1 DEF RobinInv
  <1>3. WeightsKept /\ CurSum = RaisedSum
    BY <1>2 DEF RobinInv
  <1>4. CurSum' = CurSum
    BY <1>1 DEF CurSum, Known
  <1>5. RaisedSum' = RaisedSum
    <2>1. RaisedSoFar(c) = 0
      BY <1>1, RaisedIs
    <2>2. RaisedSoFar(c)' = 0
      BY <1>1 DEF RaisedSoFar, Readers
    <2>. QED
      BY <1>1, <2>1, <2>2, OneRaises
  <1>6. \A d \in Choosers : turn'[d].at \in Entered => d # c
    BY <1>1 DEF Entered
  <1>7. WeightsKept'
    BY <1>1, <1>3, <1>6 DEF WeightsKept
  <1>. QED
    BY <1>3, <1>4, <1>5, <1>7

LEMMA EnterConserves ==
  ASSUME RobinInv, NEW c \in Choosers, Enter(c)
  PROVE  RobinInv'
  <1>1. RobinTypes /\ RobinTypes' /\ turn'[c].at = "raise" /\ turn[c].at = "enter"
        /\ turn'[c].list = turn[c].list /\ turn'[c].next = 1
        /\ UNCHANGED <<robins, reset>> /\ \A d \in Choosers \ {c} : turn'[d] = turn[d]
    BY EnterTurn DEF RobinInv, Enter, Doing
  <1>2. SUFFICES ASSUME ~reset PROVE WeightsKept' /\ CurSum' = RaisedSum'
    BY <1>1 DEF RobinInv
  <1>3. WeightsKept /\ CurSum = RaisedSum
    BY <1>2 DEF RobinInv
  <1>4. CurSum' = CurSum
    BY <1>1 DEF CurSum, Known
  <1>5. RaisedSum' = RaisedSum
    <2>1. RaisedSoFar(c) = 0
      BY <1>1, RaisedIs
    <2>2. turn[c].list \in Seq(NodeRecord)
      BY <1>1, TurnGives
    <2>3. RaisedSoFar(c)' = Total(SubSeq(turn[c].list, 1, 0))
      BY <1>1 DEF RaisedSoFar, Readers
    <2>4. RaisedSoFar(c)' = 0
      BY <2>2, <2>3, TotalGrows
    <2>. QED
      BY <1>1, <2>1, <2>4, OneRaises
  <1>6. \A d \in Choosers : turn'[d].list = turn[d].list /\ (turn'[d].at \in Entered => turn[d].at \in Entered)
    BY <1>1 DEF Entered
  <1>7. WeightsKept'
    BY <1>1, <1>3, <1>6 DEF WeightsKept
  <1>. QED
    BY <1>3, <1>4, <1>5, <1>7

\* The weight a call adds to a record it has raised by, too.
LEMMA RaiseConserves ==
  ASSUME RobinInv, NEW c \in Choosers, Raise(c)
  PROVE  RobinInv'
  <1> DEFINE l == turn[c].list
             n == turn[c].next
             i == l[n].id
  <1>1. /\ RobinTypes /\ RobinTypes' /\ n \in 1..Len(l)
        /\ turn'[c].at \in {"raise", "lower"} /\ turn'[c].list = l /\ turn'[c].next = n + 1
        /\ \A d \in Choosers \ {c} : turn'[d] = turn[d]
        /\ Known' = Known /\ i \in Known
        /\ robins'[i].cur = robins[i].cur + robins[i].weight
        /\ \A k \in Known : robins'[k].weight = robins[k].weight
        /\ \A k \in Known \ {i} : robins'[k] = robins[k]
    BY RaiseTurn DEF RobinInv
  <1>2. turn[c].at = "raise" /\ reset' = reset
    BY DEF Raise, Doing
  <1>3. SUFFICES ASSUME ~reset PROVE WeightsKept' /\ CurSum' = RaisedSum'
    BY <1>1, <1>2 DEF RobinInv
  <1>4. WeightsKept /\ CurSum = RaisedSum
    BY <1>3 DEF RobinInv
  <1>5. robins[i].weight = l[n].weight
    BY <1>1, <1>2, <1>4 DEF WeightsKept, Entered
  <1>6. /\ CurSum' = CurSum - robins[i].cur + robins'[i].cur
        /\ CurSum \in Int /\ robins[i].cur \in Int /\ robins[i].weight \in Nat
    <2> HIDE DEF i
    <2>. QED
      BY <1>1, OneRecord
  <1>7. RaisedSoFar(c)' = RaisedSoFar(c) + l[n].weight
    <2>1. l \in Seq(NodeRecord) /\ n \in Nat
      BY <1>1, <1>2, TurnGives DEF TurnRecord
    <2>2. RaisedSoFar(c) = Total(SubSeq(l, 1, n - 1))
      BY <1>1, <1>2, RaisedIs
    <2>3. RaisedSoFar(c)' = Total(SubSeq(l, 1, (n + 1) - 1))
      BY <1>1 DEF RaisedSoFar, Readers
    <2>4. (n + 1) - 1 = n
      BY <2>1
    <2>. HIDE DEF l, n
    <2>. QED
      BY <1>1, <2>1, <2>2, <2>3, <2>4, TotalGrows
  <1>8. /\ RaisedSum' = RaisedSum - RaisedSoFar(c) + RaisedSoFar(c)'
        /\ RaisedSoFar(c) \in Int /\ RaisedSum \in Int
    BY <1>1, OneRaises
  <1>9. CurSum' = RaisedSum'
    <2> HIDE DEF l, n, i
    <2>. QED
      BY <1>1, <1>4, <1>5, <1>6, <1>7, <1>8
  <1>10. ASSUME NEW d \in Choosers, turn'[d].at \in Entered, NEW m \in 1..Len(turn'[d].list)
         PROVE  robins'[turn'[d].list[m].id].weight = turn'[d].list[m].weight
    <2>1. turn'[d].list = turn[d].list /\ turn[d].at \in Entered
      BY <1>1, <1>2, <1>10 DEF Entered
    <2>2. turn[d].list[m].id \in Known
      <3>1. turn[d].at # "idle"
        BY <2>1 DEF Entered
      <3>2. DOMAIN turn[d].list = 1..Len(turn[d].list) /\ IdsOf(turn[d].list) \subseteq Known
        BY <1>1, <2>1, <3>1, TurnGives DEF TurnOK
      <3>. QED
        BY <1>10, <2>1, <3>2 DEF IdsOf
    <2>3. robins[turn[d].list[m].id].weight = turn[d].list[m].weight
      BY <1>4, <1>10, <2>1 DEF WeightsKept
    <2>. QED
      BY <1>1, <2>1, <2>2, <2>3
  <1>. QED
    BY <1>9, <1>10 DEF WeightsKept

\* The total a call takes from its choice is what it has raised.
LEMMA LowerConserves ==
  ASSUME RobinInv, NEW c \in Choosers, Lower(c)
  PROVE  RobinInv'
  <1> DEFINE l == turn[c].list
             i == Chosen(c)
  <1>1. /\ RobinTypes /\ RobinTypes' /\ turn'[c] = NotChoosing /\ turn[c].next = Len(l) + 1
        /\ \A d \in Choosers \ {c} : turn'[d] = turn[d]
        /\ Known' = Known /\ i \in Known
        /\ robins'[i].cur = robins[i].cur - Cost(c)
        /\ \A k \in Known : robins'[k].weight = robins[k].weight
        /\ \A k \in Known \ {i} : robins'[k] = robins[k]
    BY LowerTurn DEF RobinInv
  <1>2. turn[c].at = "lower" /\ reset' = reset
    BY DEF Lower, Doing
  <1>3. SUFFICES ASSUME ~reset PROVE WeightsKept' /\ CurSum' = RaisedSum'
    BY <1>1, <1>2 DEF RobinInv
  <1>4. WeightsKept /\ CurSum = RaisedSum
    BY <1>3 DEF RobinInv
  <1>5. CurSum' = CurSum - robins[i].cur + robins'[i].cur /\ CurSum \in Int /\ robins[i].cur \in Int
    <2> HIDE DEF i
    <2>. QED
      BY <1>1, OneRecord
  <1>6. RaisedSoFar(c) = Cost(c) /\ RaisedSoFar(c)' = 0
    <2>1. l \in Seq(NodeRecord) /\ Len(l) \in Nat
      BY <1>1, <1>2, TurnGives
    <2>2. RaisedSoFar(c) = Total(SubSeq(l, 1, turn[c].next - 1))
      BY <1>1, <1>2, RaisedIs
    <2>3. turn[c].next - 1 = Len(l)
      BY <1>1, <2>1
    <2>4. SubSeq(l, 1, Len(l)) = l
      BY <2>1, TotalGrows
    <2>5. RaisedSoFar(c)' = 0
      BY <1>1 DEF RaisedSoFar, Readers, NotChoosing
    <2>. QED
      BY <2>2, <2>3, <2>4, <2>5 DEF Cost
  <1>7. /\ RaisedSum' = RaisedSum - RaisedSoFar(c) + RaisedSoFar(c)'
        /\ RaisedSoFar(c) \in Int /\ RaisedSum \in Int
    BY <1>1, OneRaises
  <1>8. CurSum' = RaisedSum'
    <2> HIDE DEF i
    <2>. QED
      BY <1>1, <1>4, <1>5, <1>6, <1>7
  <1>9. ASSUME NEW d \in Choosers, turn'[d].at \in Entered, NEW m \in 1..Len(turn'[d].list)
        PROVE  robins'[turn'[d].list[m].id].weight = turn'[d].list[m].weight
    <2>1. turn'[d] = turn[d]
      BY <1>1, <1>9 DEF Entered, NotChoosing
    <2>2. turn[d].list[m].id \in Known
      <3>1. turn[d].at # "idle"
        BY <1>9, <2>1 DEF Entered
      <3>2. DOMAIN turn[d].list = 1..Len(turn[d].list) /\ IdsOf(turn[d].list) \subseteq Known
        BY <1>1, <1>9, <2>1, <3>1, TurnGives DEF TurnOK
      <3>. QED
        BY <1>9, <2>1, <3>2 DEF IdsOf
    <2>3. robins[turn[d].list[m].id].weight = turn[d].list[m].weight
      BY <1>4, <1>9, <2>1 DEF WeightsKept
    <2>. QED
      BY <1>1, <2>1, <2>2, <2>3
  <1>. QED
    BY <1>8, <1>9 DEF WeightsKept

LEMMA RobinInvInit == RobinInit => RobinInv
  <1> SUFFICES ASSUME RobinInit PROVE RobinInv
    OBVIOUS
  <1>1. RobinTypes
    BY RobinTypesInit
  <1>2. \A c \in Choosers : turn[c].at = "idle"
    BY DEF RobinInit, NotChoosing
  <1>3. WeightsKept
    BY <1>2 DEF WeightsKept, Entered
  <1> DEFINE e == [c \in Choosers |-> RaisedSoFar(c)]
             f == [i \in Known |-> robins[i].cur]
  <1>4. e \in [Choosers -> Int] /\ (\A c \in Choosers \ {} : e[c] = 0) /\ IsFiniteSet(Choosers) /\ IsFiniteSet({})
    BY <1>2, RoundRobinAssumption, FS_EmptySet DEF RaisedSoFar, Readers
  <1>5. Known = {} /\ f \in [{} -> Int] /\ DOMAIN f = {} /\ DOMAIN e = Choosers
    BY DEF RobinInit, Known
  <1>6. e \in [{} -> Int] \/ SumFunctionOnSet(e, {}) = 0
    <2> DEFINE z == [c \in {} |-> 0]
    <2>1. z \in [{} -> Int] /\ \A c \in {} : e[c] = z[c]
      OBVIOUS
    <2>. HIDE DEF z, e
    <2>2. SumFunctionOnSet(e, {}) = SumFunctionOnSet(z, {})
      BY <1>4, <2>1, SumSame
    <2>3. SumFunctionOnSet(z, {}) = 0
      BY <1>4, <2>1, SumTakes
    <2>. QED
      BY <2>2, <2>3
  <1>. HIDE DEF e, f
  <1>7. SumFunctionOnSet(f, {}) = 0
    BY <1>4, <1>5, SumTakes
  <1>8. SumFunctionOnSet(e, Choosers) = SumFunctionOnSet(e, {})
    BY <1>4, SumKept
  <1>9. CurSum = RaisedSum
    BY <1>5, <1>6, <1>7, <1>8 DEF CurSum, RaisedSum, SumFunction, e, f
  <1>. QED
    BY <1>1, <1>3, <1>9 DEF RobinInv

LEMMA RobinInvStep == RobinInv /\ [RobinNext]_robinVars => RobinInv'
  <1> SUFFICES ASSUME RobinInv, [RobinNext]_robinVars PROVE RobinInv'
    OBVIOUS
  <1>1. ASSUME NEW c \in Choosers, NEW l \in Offers, Start(c, l) PROVE RobinInv'
    BY <1>1, StartConserves
  <1>2. ASSUME NEW c \in Choosers, Refresh(c) PROVE RobinInv'
    <2>1. /\ RobinTypes' /\ turn'[c].at = "enter" /\ turn'[c].list = turn[c].list
          /\ \A d \in Choosers \ {c} : turn'[d] = turn[d]
      BY <1>2, RefreshTurn DEF RobinInv
    <2>2. turn[c].at = "refresh" /\ IsList(turn[c].list)
      BY <1>2, TurnGives DEF RobinInv, Refresh, Doing
    <2>3. robins' = UpdatedRobins(turn[c].list) /\ reset' = (reset \/ Disturbs(turn[c].list))
      BY <1>2 DEF Refresh
    <2>. QED
      BY <2>1, <2>2, <2>3, LookConserves
  <1>3. ASSUME NEW c \in Choosers, FindExpired(c) PROVE RobinInv'
    <2> DEFINE p == SubSeq(turn[c].list, 1, Min(ExpiredIn(turn[c].list)) - 1)
    <2>1. RobinTypes' /\ turn'[c].at = "stuck" /\ \A d \in Choosers \ {c} : turn'[d] = turn[d]
      BY <1>3, FindExpiredTurn DEF RobinInv
    <2>2. turn[c].at = "refresh" /\ IsList(turn[c].list)
      BY <1>3, TurnGives DEF RobinInv, FindExpired, Doing
    <2>3. robins' = UpdatedRobins(p) /\ reset' = (reset \/ Disturbs(p)) /\ IsList(p)
      BY <1>3, <2>2, SeenIsList DEF FindExpired
    <2>. HIDE DEF p
    <2>. QED
      BY <2>1, <2>2, <2>3, LookConserves
  <1>4. CASE Tick
    <2>1. RobinTypes'
      BY <1>4, RobinTypesStep DEF RobinInv, RobinNext
    <2>. QED
      BY <1>4, <2>1 DEF Tick, RobinInv, WeightsKept, CurSum, RaisedSum, RaisedSoFar, Readers, Known
  <1>5. CASE UNCHANGED robinVars
    <2>1. RobinTypes'
      BY <1>5, RobinTypesStep DEF RobinInv
    <2>. QED
      BY <1>5, <2>1 DEF robinVars, RobinInv, WeightsKept, CurSum, RaisedSum, RaisedSoFar, Readers, Known
  <1>. QED
    BY <1>1, <1>2, <1>3, <1>4, <1>5, EnterConserves, RaiseConserves, LowerConserves DEF RobinNext, Proceed

(***************************************************************************)
(* Whatever calls overlap, the current weights add up to what calls have   *)
(* raised and not yet paid for, until the weight of an instance changes    *)
(* under its record: no turn is lost, and none is given twice.             *)
(***************************************************************************)
THEOREM TurnsConserved == RobinSpec => []Conserved
  <1>1. RobinInv => Conserved
    BY DEF RobinInv, Conserved, CurSum, RaisedSum
  <1>. QED
    BY <1>1, RobinInvInit, RobinInvStep, PTL DEF RobinSpec

=============================================================================
