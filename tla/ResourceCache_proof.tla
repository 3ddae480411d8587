------------------------ MODULE ResourceCache_proof ------------------------
(***************************************************************************)
(* Proofs about ResourceCache, for any loaders, versions and queue: the    *)
(* versions that the stream, the channel, the cache and the file hold lie  *)
(* behind each other in this order, so the connector's revision is the     *)
(* last version the cache has or gets, no version is replaced by an older  *)
(* one, and the listeners were told of the one that is there, as long as   *)
(* no recovery from the file overlaps an event of the stream.              *)
(***************************************************************************)
EXTENDS ResourceCache, SequenceTheorems, TLAPS

\* The versions that have come as far as the cache, its tasks and its file.
Local == {disk, item.version} \cup writes \cup {task[p].version : p \in Tasks}

\* What is under way is in the order of its publication, the revision is that
\* of the last event of the channel, and no later answer is behind it.
Ordered ==
    /\ \A i, j \in DOMAIN events : i < j => events[i] <= events[j]
    /\ \A i, j \in DOMAIN answers : i < j /\ answers[j] # 0 => answers[i] <= answers[j]
    /\ events # <<>> => revision = events[Len(events)]
    /\ \A j \in DOMAIN answers : /\ answers[j] # 0 => revision <= answers[j]
                                 /\ answers[j] <= latest
    /\ revision <= latest

\* Version x is behind everything that is still under way to the cache.
Behind(x) ==
    /\ \A i \in DOMAIN events : x <= events[i]
    /\ \A j \in DOMAIN answers : answers[j] # 0 => x <= answers[j]
    /\ x <= latest
    /\ revision # 0 => x <= revision

StreamInv == Ordered /\ \A x \in Local : Behind(x)

\* Before the first event or recovery there is one version to recover, and
\* nobody has been told of any; from then on, what the cache holds is what is
\* being told, or what was told last, and the latest that came so far.
Followed ==
    /\ item.initialized => \A x \in Local : x <= item.version
    /\ ~item.initialized => /\ \A x, y \in Local : x # 0 /\ y # 0 => x = y
                            /\ \A p \in Tasks : ~Handling(p)
                            /\ item.version = 0
    /\ \A p \in Tasks : Handling(p) => task[p].version = item.version
    /\ (\A p \in Tasks : ~Handling(p)) => heard = item.version

\* What was recovered is something.
Recovered == \A p \in Tasks : At(p, "recovered") => task[p].version # 0

FollowInv == Recovered /\ (~raced => Followed /\ RevisionIsCached)

Places == {"idle", "waiting", "recovering", "recovered", "saving", "notifying", "reading"}

-----------------------------------------------------------------------------
(***************************************************************************)
(* Types.                                                                  *)
(***************************************************************************)

\* A task that goes on moves alone.
LEMMA Going ==
  ASSUME TypeOK, NEW p \in Tasks, NEW l \in Places, Goto(p, l)
  PROVE  /\ task' \in [Tasks -> [at : Places, version : Version]]
         /\ \A q \in Tasks : /\ task'[q].version = task[q].version
                             /\ task'[q].at = IF q = p THEN l ELSE task[q].at
BY DEF TypeOK, Places, Goto

LEMMA Becoming ==
  ASSUME TypeOK, NEW p \in Tasks, NEW l \in Places, NEW v \in Version, Become(p, l, v)
  PROVE  /\ task' \in [Tasks -> [at : Places, version : Version]]
         /\ \A q \in Tasks : /\ task'[q].version = IF q = p THEN v ELSE task[q].version
                             /\ task'[q].at = IF q = p THEN l ELSE task[q].at
BY DEF TypeOK, Places, Become

\* A queue without its head.
LEMMA Taken ==
  ASSUME NEW S, NEW q \in Seq(S), q # <<>>
  PROVE  /\ Head(q) \in S /\ Head(q) = q[1] /\ 1 \in DOMAIN q
         /\ Tail(q) \in Seq(S)
         /\ \A i \in DOMAIN Tail(q) : i \in Nat /\ i + 1 \in DOMAIN q /\ Tail(q)[i] = q[i + 1]
         /\ Tail(q) # <<>> => Tail(q)[Len(Tail(q))] = q[Len(q)]
         /\ Tail(q) = <<>> => Len(q) = 1
<1>1. Len(q) \in Nat /\ Len(q) >= 1 /\ DOMAIN q = 1..Len(q)
  BY EmptySeq
<1>2. /\ Head(q) \in S /\ Tail(q) \in Seq(S) /\ Len(Tail(q)) = Len(q) - 1
      /\ \A i \in 1..Len(Tail(q)) : Tail(q)[i] = q[i + 1]
  BY HeadTailProperties
<1>3. DOMAIN Tail(q) = 1..(Len(q) - 1)
  BY <1>2
<1>4. Tail(q) # <<>> => Len(q) - 1 >= 1
  BY <1>1, <1>2, EmptySeq
<1>5. Tail(q) # <<>> => Tail(q)[Len(Tail(q))] = q[Len(q)]
  BY <1>1, <1>2, <1>4
<1>6. Head(q) = q[1]
  BY <1>1
<1>7. \A i \in DOMAIN Tail(q) : i \in Nat /\ i + 1 \in DOMAIN q /\ Tail(q)[i] = q[i + 1]
  BY <1>1, <1>2, <1>3
<1>8. Tail(q) = <<>> => Len(Tail(q)) = 0
  BY EmptySeq
<1>9. Tail(q) = <<>> => Len(q) = 1
  BY <1>1, <1>2, <1>8
<1>. QED  BY <1>1, <1>2, <1>5, <1>6, <1>7, <1>9

\* A queue with one more.
LEMMA Queued ==
  ASSUME NEW S, NEW q \in Seq(S), NEW v \in S
  PROVE  /\ Append(q, v) \in Seq(S) /\ Append(q, v) # <<>>
         /\ Append(q, v)[Len(Append(q, v))] = v
         /\ \A i \in DOMAIN Append(q, v) :
               i \in Nat /\ (IF i \in DOMAIN q THEN Append(q, v)[i] = q[i] /\ i < Len(q) + 1
                             ELSE Append(q, v)[i] = v /\ i = Len(q) + 1)
<1>1. /\ Append(q, v) \in Seq(S) /\ Append(q, v) # <<>>
      /\ Len(Append(q, v)) = Len(q) + 1
      /\ \A i \in 1..Len(q) : Append(q, v)[i] = q[i]
      /\ Append(q, v)[Len(q) + 1] = v
  BY AppendProperties
<1>2. Len(q) \in Nat /\ DOMAIN q = 1..Len(q) /\ DOMAIN Append(q, v) = 1..(Len(q) + 1)
  BY <1>1
<1>. QED  BY <1>1, <1>2

\* The versions are natural numbers.
LEMMA Versions ==
  ASSUME TypeOK
  PROVE  /\ Local \in SUBSET Nat
         /\ latest \in Nat /\ revision \in Nat
         /\ \A i \in DOMAIN events : events[i] \in Nat /\ events[i] # 0
         /\ \A j \in DOMAIN answers : answers[j] \in Nat
<1>1. Version \in SUBSET Nat /\ 1..MaxVersion \in SUBSET Nat
  BY CacheAssumption DEF Version
<1>2. Local \in SUBSET Version
  BY DEF TypeOK, Local
<1>3. /\ \A i \in DOMAIN events : events[i] \in Version \ {0}
      /\ \A j \in DOMAIN answers : answers[j] \in Version
  BY DEF TypeOK
<1>. QED  BY <1>1, <1>2, <1>3 DEF TypeOK

\* Every step of loads, streams, file and listeners keeps the types of the
\* cache's state, whatever file an earlier client left.
THEOREM TypeCorrect == Spec => []TypeOK
<1>1. Init => TypeOK
  <2>. SUFFICES ASSUME Init PROVE TypeOK
    OBVIOUS
  <2>1. 0 \in Version /\ (\A n \in 1..MaxVersion : 0..n \subseteq Version)
    BY CacheAssumption DEF Version
  <2>2. disk \in Version
    BY <2>1 DEF Init
  <2>3. task \in [Tasks -> [at : Places, version : Version]]
    BY <2>1 DEF Init, Idle, Places
  <2>4. requests \in Seq(Version) /\ answers \in Seq(Version) /\ events \in Seq(Version \ {0})
    BY DEF Init
  <2>5. item \in [exists : BOOLEAN, initialized : BOOLEAN, version : Version]
    BY <2>1 DEF Init
  <2>6. /\ latest \in 1..MaxVersion /\ revision \in Version /\ heard \in Version
        /\ writes = {} /\ watch = "none" /\ raced \in BOOLEAN
        /\ discover \in BOOLEAN /\ config \in BOOLEAN /\ dispatch \in BOOLEAN
    BY <2>1 DEF Init
  <2>. QED  BY <2>2, <2>3, <2>4, <2>5, <2>6 DEF TypeOK, Places
<1>2. TypeOK /\ [Next]_vars => TypeOK'
  <2>. SUFFICES ASSUME TypeOK, [Next]_vars PROVE TypeOK'
    OBVIOUS
  <2>v. 0 \in Version /\ latest \in Version
    BY CacheAssumption DEF Version, TypeOK
  <2>1. ASSUME NEW c \in Loaders, BeginLoad(c) PROVE TypeOK'
    <3>1. task' \in [Tasks -> [at : Places, version : Version]]
      BY <2>1, Going DEF BeginLoad, Tasks, Places
    <3>2. item' \in [exists : BOOLEAN, initialized : BOOLEAN, version : Version]
      BY <2>1 DEF BeginLoad, TypeOK
    <3>. QED  BY <2>1, <3>1, <3>2 DEF BeginLoad, TypeOK, Places, connection, file
  <2>2. ASSUME NEW c \in Loaders, EndWait(c) \/ ReadFile(c) \/ Return(c) PROVE TypeOK'
    <3>1. task' \in [Tasks -> [at : Places, version : Version]]
      <4>1. CASE EndWait(c)
        BY <4>1, Going DEF EndWait, Tasks, Places
      <4>2. CASE ReadFile(c)
        <5>1. disk \in Version
          BY DEF TypeOK
        <5>. QED  BY <4>2, <5>1, Going, Becoming DEF ReadFile, Tasks, Places
      <4>3. CASE Return(c)
        BY <4>3, <2>v, Becoming DEF Return, Tasks, Places
      <4>. QED  BY <2>2, <4>1, <4>2, <4>3
    <3>2. UNCHANGED <<latest, connection, watching, events, item, file, heard, raced>>
      BY <2>2 DEF EndWait, ReadFile, Return
    <3>. QED  BY <3>1, <3>2 DEF TypeOK, Places, connection, watching, file
  <2>3. CASE Receive
    <3>1. Head(events) \in Version \ {0} /\ Tail(events) \in Seq(Version \ {0})
      BY <2>3, Taken DEF Receive, TypeOK
    <3>2. task' \in [Tasks -> [at : Places, version : Version]]
      BY <2>3, <3>1, Becoming DEF Receive, Tasks, Places
    <3>3. item' \in [exists : BOOLEAN, initialized : BOOLEAN, version : Version]
      BY <2>3, <3>1 DEF Receive, Replace, TypeOK
    <3>4. raced' \in BOOLEAN
      BY <2>3 DEF Receive
    <3>. QED  BY <2>3, <3>1, <3>2, <3>3, <3>4 DEF Receive, TypeOK, Places, connection, watching, file
  <2>4. ASSUME NEW c \in Loaders, Recover(c) PROVE TypeOK'
    <3>1. task[c].version \in Version
      BY DEF TypeOK, Tasks
    <3>2. task' \in [Tasks -> [at : Places, version : Version]]
      BY <2>4, Going DEF Recover, Tasks, Places
    <3>3. item' \in [exists : BOOLEAN, initialized : BOOLEAN, version : Version]
      BY <2>4, <3>1 DEF Recover, Replace, TypeOK
    <3>4. raced' \in BOOLEAN
      BY <2>4 DEF Recover
    <3>. QED  BY <2>4, <3>2, <3>3, <3>4 DEF Recover, TypeOK, Places, connection, watching, file
  <2>5. ASSUME NEW p \in Tasks, Save(p) \/ Notify(p) PROVE TypeOK'
    <3>1. task[p].version \in Version
      BY DEF TypeOK
    <3>2. task' \in [Tasks -> [at : Places, version : Version]]
      BY <2>5, <2>v, Going, Becoming DEF Save, Notify, Places
    <3>3. disk' \in Version /\ writes' \subseteq Version /\ heard' \in Version
      BY <2>5, <2>v, <3>1 DEF Save, Notify, TypeOK, file
    <3>4. UNCHANGED <<latest, connection, watching, events, item, raced>>
      BY <2>5 DEF Save, Notify
    <3>. QED  BY <3>2, <3>3, <3>4 DEF TypeOK, Places, connection, watching
  <2>6. ASSUME NEW v \in writes, Land(v) PROVE TypeOK'
    <3>1. disk' \in Version /\ writes' \subseteq Version
      BY <2>6, <2>v DEF Land, TypeOK
    <3>. QED  BY <2>6, <3>1 DEF Land, TypeOK, connection, watching
  <2>7. CASE Register \/ Poll
    <3>1. requests' \in Seq(Version)
      <4>1. \A v \in Version : Append(requests, v) \in Seq(Version)
        BY AppendProperties DEF TypeOK
      <4>2. revision \in Version /\ requests \in Seq(Version)
        BY DEF TypeOK
      <4>. QED  BY <2>7, <2>v, <4>1, <4>2 DEF Register, Poll, Ask
    <3>2. watch' \in {"none", "submitted", "registered"} /\ UNCHANGED <<latest, connection, revision, answers, events, item, task, file, heard, raced>>
      BY <2>7 DEF Register, Poll, TypeOK
    <3>. QED  BY <3>1, <3>2 DEF TypeOK, connection, file
  <2>8. CASE Serve
    <3>1. requests' \in Seq(Version) /\ answers' \in Seq(Version)
      BY <2>8, <2>v, Taken DEF Serve, TypeOK
    <3>. QED  BY <2>8, <3>1 DEF Serve, TypeOK, connection, file
  <2>9. CASE DispatchAnswer
    <3>1. Head(answers) \in Version /\ answers' \in Seq(Version)
      BY <2>9, Taken DEF DispatchAnswer, TypeOK
    <3>2. revision' \in Version /\ events' \in Seq(Version \ {0})
      BY <2>9, <3>1 DEF DispatchAnswer, Dispatch, TypeOK
    <3>. QED  BY <2>9, <3>1, <3>2 DEF DispatchAnswer, TypeOK, connection, file
  <2>10. CASE DiscoverEnds \/ ConfigEnds \/ DispatchStops
    BY <2>10 DEF DiscoverEnds, ConfigEnds, DispatchStops, TypeOK, watching, file
  <2>11. CASE Publish
    <3>1. latest' \in 1..MaxVersion
      BY <2>11, CacheAssumption DEF Publish, TypeOK
    <3>. QED  BY <2>11, <3>1 DEF Publish, TypeOK, connection, watching, file
  <2>12. CASE UNCHANGED vars
    BY <2>12 DEF vars, TypeOK, connection, watching, file
  <2>13. ASSUME NEW c \in Loaders, Loading(c) PROVE TypeOK'
    BY <2>2, <2>4, <2>5, <2>13 DEF Loading, Tasks
  <2>14. CASE Receiving
    BY <2>3, <2>5, <2>14 DEF Receiving, Tasks
  <2>15. CASE Connector
    BY <2>7, <2>9, <2>10, <2>15 DEF Connector
  <2>. QED  BY <2>1, <2>6, <2>7, <2>8, <2>10, <2>11, <2>12, <2>13, <2>14, <2>15 DEF Next
<1>. QED  BY <1>1, <1>2, PTL DEF Spec

-----------------------------------------------------------------------------
(***************************************************************************)
(* The stream.                                                             *)
(***************************************************************************)

\* A step on this side of the channel that makes up no version.
LEMMA LocalMoves ==
  ASSUME TypeOK, StreamInv, UNCHANGED <<latest, revision, answers, events>>,
         Local' \subseteq Local \cup {0}
  PROVE  StreamInv'
<1>1. Ordered'
  BY DEF StreamInv, Ordered
<1>2. Behind(0)
  BY Versions DEF Behind
<1>3. ASSUME NEW x \in Local' PROVE Behind(x)'
  <2>1. Behind(x)
    BY <1>2 DEF StreamInv
  <2>. QED  BY <2>1 DEF Behind
<1>. QED  BY <1>1, <1>3 DEF StreamInv

\* The receive task takes what all the rest is behind.
LEMMA ReceiveMoves ==
  ASSUME TypeOK, StreamInv, Receive
  PROVE  StreamInv' /\ \A x \in Local : x <= item'.version
<1>. PICK v : v = Head(events)
  OBVIOUS
<1>1. /\ events \in Seq(Version \ {0}) /\ events # <<>> /\ events' = Tail(events)
      /\ UNCHANGED <<latest, revision, answers>>
  BY DEF Receive, TypeOK, watching
<1>2. /\ v = events[1] /\ 1 \in DOMAIN events /\ v \in Version
      /\ \A i \in DOMAIN events' : i \in Nat /\ i + 1 \in DOMAIN events /\ events'[i] = events[i + 1]
      /\ events' # <<>> => events'[Len(events')] = events[Len(events)]
      /\ DOMAIN events \subseteq Nat \ {0} /\ Len(events) \in DOMAIN events
  <2>1. DOMAIN events = 1..Len(events) /\ Len(events) \in Nat
    BY <1>1
  <2>. QED  BY <1>1, <2>1, Taken
<1>3. item'.version = v /\ Local' \subseteq Local \cup {v}
  <2>1. item'.version = v
    BY DEF Receive, Replace, TypeOK
  <2>2. \A q \in Tasks : task'[q].version \in {task[q].version, v}
    BY <1>2, Becoming DEF Receive, Tasks, Places
  <2>3. disk' = disk /\ writes' = writes
    BY DEF Receive, file
  <2>. QED  BY <2>1, <2>2, <2>3 DEF Local
<1>4. Ordered'
  <2>1. \A i, j \in DOMAIN events' : i < j => events'[i] <= events'[j]
    <3>1. SUFFICES ASSUME NEW i \in DOMAIN events', NEW j \in DOMAIN events', i < j
                   PROVE  events[i + 1] <= events[j + 1]
      BY <1>2
    <3>2. i + 1 < j + 1
      BY <1>2, <3>1
    <3>. QED  BY <1>2, <3>2 DEF StreamInv, Ordered
  <2>. QED  BY <1>1, <1>2, <2>1 DEF StreamInv, Ordered
<1>5. Behind(v)
  <2>1. \A i \in DOMAIN events : v <= events[i]
    <3>1. \A i \in DOMAIN events : i = 1 \/ 1 < i
      BY <1>2
    <3>. QED  BY <1>2, <3>1, Versions DEF StreamInv, Ordered
  <2>2. v <= revision
    BY <1>1, <1>2, <2>1 DEF StreamInv, Ordered
  <2>3. v \in Nat /\ revision \in Nat /\ latest \in Nat /\ \A j \in DOMAIN answers : answers[j] \in Nat
    BY <1>2, Versions
  <2>. QED  BY <2>1, <2>2, <2>3 DEF Behind, StreamInv, Ordered
<1>6. ASSUME NEW x \in Local' PROVE Behind(x)'
  <2>1. Behind(x)
    BY <1>3, <1>5 DEF StreamInv
  <2>2. \A i \in DOMAIN events' : x <= events'[i]
    BY <1>2, <2>1 DEF Behind
  <2>. QED  BY <1>1, <2>1, <2>2 DEF Behind
<1>7. ASSUME NEW x \in Local PROVE x <= item'.version
  BY <1>2, <1>3 DEF StreamInv, Behind
<1>. QED  BY <1>4, <1>6, <1>7 DEF StreamInv

\* The connector passes an answer on behind the events it passed on before.
LEMMA DispatchMoves ==
  ASSUME TypeOK, StreamInv, DispatchAnswer
  PROVE  StreamInv'
<1>. PICK v : v = Head(answers)
  OBVIOUS
<1>1. /\ answers \in Seq(Version) /\ answers # <<>> /\ answers' = Tail(answers)
      /\ events \in Seq(Version \ {0})
      /\ UNCHANGED <<latest, item, task, disk, writes>>
      /\ Dispatch(v)
  BY DEF DispatchAnswer, TypeOK, file
<1>2. /\ v = answers[1] /\ 1 \in DOMAIN answers /\ v \in Version
      /\ \A i \in DOMAIN answers' : i \in Nat /\ i + 1 \in DOMAIN answers /\ answers'[i] = answers[i + 1]
  BY <1>1, Taken
<1>3. /\ \A i \in DOMAIN events : events[i] \in Nat /\ events[i] # 0
      /\ \A j \in DOMAIN answers : answers[j] \in Nat
      /\ v \in Nat /\ revision \in Nat /\ latest \in Nat /\ Local \in SUBSET Nat
  BY <1>2, Versions
<1>4. Local' = Local
  BY <1>1 DEF Local
<1>5. \A j \in DOMAIN answers' : answers'[j] # 0 => v <= answers'[j] /\ revision <= answers'[j]
  <2>1. \A j \in DOMAIN answers' : 1 < j + 1
    <3>1. \A j \in DOMAIN answers' : j \in Nat /\ j # 0
      BY <1>1, HeadTailProperties
    <3>. QED  BY <3>1
  <2>. QED  BY <1>2, <2>1 DEF StreamInv, Ordered
<1>6. \A i, j \in DOMAIN answers' : i < j /\ answers'[j] # 0 => answers'[i] <= answers'[j]
  <2>1. SUFFICES ASSUME NEW i \in DOMAIN answers', NEW j \in DOMAIN answers', i < j, answers[j + 1] # 0
                 PROVE  answers[i + 1] <= answers[j + 1]
    BY <1>2
  <2>2. i + 1 < j + 1
    BY <1>2, <2>1
  <2>. QED  BY <1>2, <2>1, <2>2 DEF StreamInv, Ordered
<1>7. \A j \in DOMAIN answers' : answers'[j] <= latest
  BY <1>2 DEF StreamInv, Ordered
<1>8. CASE v = 0
  <2>1. revision' = revision /\ events' = events
    BY <1>1, <1>8 DEF Dispatch
  <2>2. Ordered'
    BY <1>1, <1>5, <1>6, <1>7, <2>1 DEF StreamInv, Ordered
  <2>3. ASSUME NEW x \in Local' PROVE Behind(x)'
    <3>1. Behind(x)
      BY <1>4 DEF StreamInv
    <3>2. \A j \in DOMAIN answers' : answers'[j] # 0 => x <= answers'[j]
      BY <1>2, <3>1 DEF Behind
    <3>. QED  BY <1>1, <2>1, <3>1, <3>2 DEF Behind
  <2>. QED  BY <2>2, <2>3 DEF StreamInv
<1>9. CASE v # 0
  <2>1. revision' = v /\ events' = Append(events, v)
    BY <1>1, <1>9 DEF Dispatch
  <2>2. /\ events' # <<>> /\ events'[Len(events')] = v
        /\ \A i \in DOMAIN events' :
             i \in Nat /\ (IF i \in DOMAIN events THEN events'[i] = events[i] /\ i < Len(events) + 1
                           ELSE events'[i] = v /\ i = Len(events) + 1)
    BY <1>1, <1>2, <1>9, <2>1, Queued
  <2>3. revision <= v /\ v <= latest
    BY <1>2, <1>9 DEF StreamInv, Ordered
  <2>4. \A i \in DOMAIN events : events[i] <= revision
    <3>1. Len(events) \in Nat /\ DOMAIN events = 1..Len(events)
      BY <1>1
    <3>2. SUFFICES ASSUME NEW i \in DOMAIN events PROVE events[i] <= revision
      OBVIOUS
    <3>3. events # <<>> /\ Len(events) \in DOMAIN events /\ (i = Len(events) \/ i < Len(events))
      BY <3>1
    <3>. QED  BY <1>3, <3>3 DEF StreamInv, Ordered
  <2>5. \A i \in DOMAIN events' : events'[i] <= v
    BY <1>3, <2>2, <2>3, <2>4
  <2>6. \A i, j \in DOMAIN events' : i < j => events'[i] <= events'[j]
    <3>1. SUFFICES ASSUME NEW i \in DOMAIN events', NEW j \in DOMAIN events', i < j
                   PROVE  events'[i] <= events'[j]
      OBVIOUS
    <3>2. CASE j \in DOMAIN events
      <4>1. i \in DOMAIN events
        <5>1. Len(events) \in Nat
          BY <1>1
        <5>. QED  BY <2>2, <3>1, <3>2, <5>1
      <4>. QED  BY <2>2, <3>1, <3>2, <4>1 DEF StreamInv, Ordered
    <3>3. CASE j \notin DOMAIN events
      BY <2>2, <2>5, <3>3
    <3>. QED  BY <3>2, <3>3
  <2>7. Ordered'
    BY <1>1, <1>5, <1>6, <1>7, <2>1, <2>2, <2>3, <2>6 DEF Ordered
  <2>8. ASSUME NEW x \in Local' PROVE Behind(x)'
    <3>1. Behind(x)
      BY <1>4 DEF StreamInv
    <3>2. x <= v
      BY <1>2, <1>9, <3>1 DEF Behind
    <3>3. \A j \in DOMAIN answers' : answers'[j] # 0 => x <= answers'[j]
      BY <1>2, <3>1 DEF Behind
    <3>4. \A i \in DOMAIN events' : x <= events'[i]
      BY <2>2, <3>1, <3>2 DEF Behind
    <3>. QED  BY <1>1, <2>1, <3>1, <3>2, <3>3, <3>4 DEF Behind
  <2>. QED  BY <2>7, <2>8 DEF StreamInv
<1>. QED  BY <1>8, <1>9

\* The control plane answers with what it has.
LEMMA ServeMoves ==
  ASSUME TypeOK, StreamInv, Serve
  PROVE  StreamInv'
<1>. PICK v : v = IF Head(requests) = latest THEN 0 ELSE latest
  OBVIOUS
<1>1. /\ answers \in Seq(Version) /\ answers' = Append(answers, v) /\ v \in {0, latest} /\ v \in Version
      /\ UNCHANGED <<latest, revision, events, item, task, disk, writes>>
  BY CacheAssumption DEF Serve, TypeOK, file, Version
<1>2. \A i \in DOMAIN answers' :
        i \in Nat /\ (IF i \in DOMAIN answers THEN answers'[i] = answers[i] /\ i < Len(answers) + 1
                      ELSE answers'[i] = v /\ i = Len(answers) + 1)
  BY <1>1, Queued
<1>3. /\ \A j \in DOMAIN answers : answers[j] \in Nat /\ answers[j] <= latest
      /\ revision \in Nat /\ latest \in Nat /\ revision <= latest /\ Len(answers) \in Nat
      /\ DOMAIN answers = 1..Len(answers)
  BY <1>1, Versions DEF StreamInv, Ordered
<1>4. \A i, j \in DOMAIN answers' : i < j /\ answers'[j] # 0 => answers'[i] <= answers'[j]
  <2>1. SUFFICES ASSUME NEW i \in DOMAIN answers', NEW j \in DOMAIN answers', i < j, answers'[j] # 0
                 PROVE  answers'[i] <= answers'[j]
    OBVIOUS
  <2>2. i \in DOMAIN answers
    BY <1>2, <1>3, <2>1
  <2>3. CASE j \in DOMAIN answers
    BY <1>2, <2>1, <2>2, <2>3 DEF StreamInv, Ordered
  <2>4. CASE j \notin DOMAIN answers
    BY <1>1, <1>2, <1>3, <2>1, <2>2, <2>4
  <2>. QED  BY <2>3, <2>4
<1>5. \A j \in DOMAIN answers' : /\ answers'[j] # 0 => revision <= answers'[j]
                                 /\ answers'[j] <= latest
  <2>1. SUFFICES ASSUME NEW j \in DOMAIN answers'
                 PROVE  /\ answers'[j] # 0 => revision <= answers'[j]
                        /\ answers'[j] <= latest
    OBVIOUS
  <2>2. CASE j \in DOMAIN answers
    BY <1>2, <2>2 DEF StreamInv, Ordered
  <2>3. CASE j \notin DOMAIN answers
    BY <1>1, <1>2, <1>3, <2>3
  <2>. QED  BY <2>2, <2>3
<1>6. Ordered'
  BY <1>1, <1>4, <1>5 DEF StreamInv, Ordered
<1>7. ASSUME NEW x \in Local' PROVE Behind(x)'
  <2>1. Behind(x)
    BY <1>1, <1>7 DEF StreamInv, Local
  <2>2. \A j \in DOMAIN answers' : answers'[j] # 0 => x <= answers'[j]
    BY <1>1, <1>2, <2>1 DEF Behind
  <2>. QED  BY <1>1, <2>1, <2>2 DEF Behind
<1>. QED  BY <1>6, <1>7 DEF StreamInv

LEMMA PublishMoves ==
  ASSUME TypeOK, StreamInv, Publish
  PROVE  StreamInv'
<1>1. /\ latest \in Nat /\ revision \in Nat /\ Local \in SUBSET Nat
      /\ \A j \in DOMAIN answers : answers[j] \in Nat
  BY Versions
<1>2. /\ latest' = latest + 1 /\ Local' = Local
      /\ UNCHANGED <<revision, events, answers>>
  BY DEF Publish, Local, watching, file
<1>3. Ordered'
  BY <1>1, <1>2 DEF StreamInv, Ordered
<1>4. ASSUME NEW x \in Local' PROVE Behind(x)'
  <2>1. Behind(x) /\ x \in Nat
    BY <1>1, <1>2 DEF StreamInv
  <2>. QED  BY <1>1, <1>2, <2>1 DEF Behind
<1>. QED  BY <1>3, <1>4 DEF StreamInv

\* What a task of the cache does but for Receive makes up no version.
LEMMA TaskMoves ==
  ASSUME TypeOK,
         \/ \E c \in Loaders : BeginLoad(c) \/ EndWait(c) \/ ReadFile(c) \/ Recover(c) \/ Return(c)
         \/ \E p \in Tasks : Save(p) \/ Notify(p)
         \/ \E v \in writes : Land(v)
  PROVE  Local' \subseteq Local \cup {0} /\ UNCHANGED <<latest, revision, answers, events>>
<1>. Loaders \subseteq Tasks /\ 0 \in Version
  BY CacheAssumption DEF Tasks, Version
<1>1. ASSUME NEW c \in Loaders, BeginLoad(c) PROVE Local' \subseteq Local \cup {0}
  <2>1. \A q \in Tasks : task'[q].version = task[q].version
    BY <1>1, Going DEF BeginLoad, Places
  <2>2. item'.version = item.version
    BY <1>1 DEF BeginLoad, TypeOK
  <2>. QED  BY <1>1, <2>1, <2>2 DEF BeginLoad, Local, file
<1>2. ASSUME NEW c \in Loaders, EndWait(c) PROVE Local' \subseteq Local \cup {0}
  <2>1. \A q \in Tasks : task'[q].version = task[q].version
    BY <1>2, Going DEF EndWait, Places
  <2>. QED  BY <1>2, <2>1 DEF EndWait, Local, file
<1>3. ASSUME NEW c \in Loaders, ReadFile(c) PROVE Local' \subseteq Local \cup {0}
  <2>1. \A q \in Tasks : task'[q].version \in {task[q].version, disk}
    <3>1. disk \in Version
      BY DEF TypeOK
    <3>. QED  BY <1>3, <3>1, Going, Becoming DEF ReadFile, Places
  <2>. QED  BY <1>3, <2>1 DEF ReadFile, Local, file
<1>4. ASSUME NEW c \in Loaders, Recover(c) PROVE Local' \subseteq Local \cup {0}
  <2>1. \A q \in Tasks : task'[q].version = task[q].version
    BY <1>4, Going DEF Recover, Places
  <2>2. item'.version = task[c].version
    BY <1>4 DEF Recover, Replace, TypeOK
  <2>. QED  BY <1>4, <2>1, <2>2 DEF Recover, Local, file
<1>5. ASSUME NEW c \in Loaders, Return(c) PROVE Local' \subseteq Local \cup {0}
  <2>1. \A q \in Tasks : task'[q].version \in {task[q].version, 0}
    BY <1>5, Becoming DEF Return, Places
  <2>. QED  BY <1>5, <2>1 DEF Return, Local, file
<1>6. ASSUME NEW p \in Tasks, Save(p) PROVE Local' \subseteq Local \cup {0}
  <2>1. \A q \in Tasks : task'[q].version = task[q].version
    BY <1>6, Going DEF Save, Places
  <2>2. disk' \in {disk, 0} /\ writes' \subseteq writes \cup {task[p].version} /\ item' = item
    BY <1>6 DEF Save, file
  <2>. QED  BY <2>1, <2>2 DEF Local
<1>7. ASSUME NEW p \in Tasks, Notify(p) PROVE Local' \subseteq Local \cup {0}
  <2>1. \A q \in Tasks : task'[q].version \in {task[q].version, 0}
    BY <1>7, Becoming DEF Notify, Places
  <2>. QED  BY <1>7, <2>1 DEF Notify, Local, file
<1>8. ASSUME NEW v \in writes, Land(v) PROVE Local' \subseteq Local \cup {0}
  BY <1>8 DEF Land, Local
<1>9. UNCHANGED <<latest, revision, answers, events>>
  BY DEF BeginLoad, EndWait, ReadFile, Recover, Return, Save, Notify, Land, watching
<1>. QED  BY <1>1, <1>2, <1>3, <1>4, <1>5, <1>6, <1>7, <1>8, <1>9

\* What the connector does but for passing an answer on moves no version.
LEMMA ConnectorMoves ==
  ASSUME Register \/ Poll \/ DiscoverEnds \/ ConfigEnds \/ DispatchStops \/ UNCHANGED vars
  PROVE  UNCHANGED <<latest, revision, answers, events, item, task, file, heard, raced>>
BY DEF Register, Poll, DiscoverEnds, ConfigEnds, DispatchStops, vars, watching, file

\* The steps of the program.
LEMMA Steps ==
  ASSUME [Next]_vars
  PROVE  \/ \E c \in Loaders : BeginLoad(c) \/ EndWait(c) \/ ReadFile(c) \/ Recover(c) \/ Return(c)
         \/ \E p \in Tasks : Save(p) \/ Notify(p)
         \/ \E v \in writes : Land(v)
         \/ Receive \/ DispatchAnswer \/ Serve \/ Publish
         \/ Register \/ Poll \/ DiscoverEnds \/ ConfigEnds \/ DispatchStops \/ UNCHANGED vars
BY DEF Next, Loading, Receiving, Connector, Tasks

\* No answer overtakes another on its way from the control plane to the item:
\* what the item, its tasks and its file hold is behind what the channel
\* delivers next, that behind the connector's revision, and this behind the
\* answers of the open stream (receive_discover_response, dispatch).
THEOREM StreamOrdered == Spec => []StreamInv
<1>1. Init => StreamInv
  <2>. SUFFICES ASSUME Init PROVE StreamInv
    OBVIOUS
  <2>1. Local \subseteq {0, disk} /\ disk \in 0..latest /\ latest \in Nat
    BY CacheAssumption DEF Init, Local, Idle
  <2>2. events = <<>> /\ answers = <<>> /\ revision = 0
    BY DEF Init
  <2>3. \A x \in Local : x <= latest
    BY <2>1
  <2>. QED  BY <2>1, <2>2, <2>3 DEF StreamInv, Ordered, Behind
<1>2. TypeOK /\ StreamInv /\ [Next]_vars => StreamInv'
  <2>. SUFFICES ASSUME TypeOK, StreamInv, [Next]_vars PROVE StreamInv'
    OBVIOUS
  <2>1. CASE Register \/ Poll \/ DiscoverEnds \/ ConfigEnds \/ DispatchStops \/ UNCHANGED vars
    <3>1. UNCHANGED <<latest, revision, answers, events>> /\ Local' = Local
      BY <2>1, ConnectorMoves DEF Local, file
    <3>. QED  BY <3>1, LocalMoves
  <2>. QED  BY <2>1, Steps, TaskMoves, LocalMoves, ReceiveMoves, DispatchMoves, ServeMoves, PublishMoves
<1>. QED  BY <1>1, <1>2, TypeCorrect, PTL DEF Spec

-----------------------------------------------------------------------------
(***************************************************************************)
(* The cache and its listeners.                                            *)
(***************************************************************************)

\* No event of the stream, and no recovery that does not overlap one, sets the
\* cache back.
LEMMA Forward ==
  ASSUME TypeOK, StreamInv, [Next]_vars, ~raced'
  PROVE  item.version <= item'.version /\ ~raced
<1>0. item.version \in Nat /\ item.version \in Local
  BY Versions DEF Local
<1>1. CASE Receive
  BY <1>0, <1>1, ReceiveMoves DEF Receive
<1>2. ASSUME NEW c \in Loaders, Recover(c) PROVE item.version <= item'.version /\ ~raced
  <2>1. item'.version = task[c].version /\ ~raced /\ ~(item.version > task[c].version)
    BY <1>2 DEF Recover, Replace, TypeOK
  <2>2. task[c].version \in Nat
    BY Versions DEF Local, Tasks
  <2>. QED  BY <1>0, <2>1, <2>2
<1>3. ASSUME NEW c \in Loaders, BeginLoad(c) PROVE item.version <= item'.version /\ ~raced
  BY <1>0, <1>3 DEF BeginLoad, TypeOK
<1>4. ASSUME UNCHANGED <<item, raced>> PROVE item.version <= item'.version /\ ~raced
  BY <1>0, <1>4
<1>. QED
  BY <1>1, <1>2, <1>3, <1>4, Steps, ConnectorMoves
  DEF EndWait, ReadFile, Return, Save, Notify, Land, DispatchAnswer, Serve, Publish

\* A step that neither replaces the item nor begins or ends what its handlers do.
LEMMA Quiet ==
  ASSUME TypeOK, Followed,
         item'.initialized = item.initialized, item'.version = item.version, heard' = heard,
         Local' \subseteq Local \cup {0},
         \A p \in Tasks : /\ Handling(p)' <=> Handling(p)
                          /\ Handling(p) => task'[p].version = task[p].version
  PROVE  Followed'
<1>1. item.version \in Nat
  BY Versions DEF Local
<1>. QED  BY <1>1 DEF Followed

\* Where everybody is after the steps of the tasks that leave the item alone.
LEMMA QuietTasks ==
  ASSUME TypeOK,
         \/ \E c \in Loaders : BeginLoad(c) \/ EndWait(c) \/ ReadFile(c) \/ Return(c)
         \/ \E p \in Tasks : Save(p)
         \/ \E v \in writes : Land(v)
  PROVE  /\ item'.initialized = item.initialized /\ item'.version = item.version /\ heard' = heard
         /\ \A p \in Tasks : /\ Handling(p)' <=> Handling(p)
                             /\ Handling(p) => task'[p].version = task[p].version
<1>. Loaders \subseteq Tasks /\ 0 \in Version /\ disk \in Version
  BY CacheAssumption DEF Tasks, Version, TypeOK
<1>1. item'.initialized = item.initialized /\ item'.version = item.version /\ heard' = heard
  BY DEF BeginLoad, EndWait, ReadFile, Return, Save, Land, TypeOK
<1>2. ASSUME NEW c \in Loaders, NEW q \in Tasks, BeginLoad(c)
      PROVE  (Handling(q)' <=> Handling(q)) /\ (Handling(q) => task'[q].version = task[q].version)
  BY <1>2, Going DEF BeginLoad, Places, Handling, At
<1>3. ASSUME NEW c \in Loaders, NEW q \in Tasks, EndWait(c)
      PROVE  (Handling(q)' <=> Handling(q)) /\ (Handling(q) => task'[q].version = task[q].version)
  BY <1>3, Going DEF EndWait, Places, Handling, At
<1>4. ASSUME NEW c \in Loaders, NEW q \in Tasks, ReadFile(c)
      PROVE  (Handling(q)' <=> Handling(q)) /\ (Handling(q) => task'[q].version = task[q].version)
  <2>1. CASE disk = 0
    BY <1>4, <2>1, Going DEF ReadFile, Places, Handling, At
  <2>2. CASE disk # 0
    BY <1>4, <2>2, Becoming DEF ReadFile, Places, Handling, At
  <2>. QED  BY <2>1, <2>2
<1>5. ASSUME NEW c \in Loaders, NEW q \in Tasks, Return(c)
      PROVE  (Handling(q)' <=> Handling(q)) /\ (Handling(q) => task'[q].version = task[q].version)
  BY <1>5, Becoming DEF Return, Places, Handling, At
<1>6. ASSUME NEW p \in Tasks, NEW q \in Tasks, Save(p)
      PROVE  (Handling(q)' <=> Handling(q)) /\ (Handling(q) => task'[q].version = task[q].version)
  BY <1>6, Going DEF Save, Places, Handling, At
<1>7. ASSUME NEW v \in writes, NEW q \in Tasks, Land(v)
      PROVE  (Handling(q)' <=> Handling(q)) /\ (Handling(q) => task'[q].version = task[q].version)
  BY <1>7 DEF Land, Handling, At
<1>. QED  BY <1>1, <1>2, <1>3, <1>4, <1>5, <1>6, <1>7

\* The receive task replaces the item when nobody else is telling of it.
LEMMA ReceiveFollows ==
  ASSUME TypeOK, StreamInv, Followed, Receive, ~raced'
  PROVE  Followed' /\ RevisionIsCached'
<1>. PICK v : v = Head(events)
  OBVIOUS
<1>1. /\ events \in Seq(Version \ {0}) /\ events # <<>> /\ events' = Tail(events)
      /\ revision' = revision /\ v \in Version \ {0}
  BY Taken DEF Receive, TypeOK, watching
<1>2. item'.initialized /\ item'.version = v
  BY DEF Receive, Replace, TypeOK
<1>3. /\ \A q \in Tasks : /\ task'[q].version = IF q = Receiver THEN v ELSE task[q].version
                          /\ task'[q].at = IF q = Receiver THEN "saving" ELSE task[q].at
      /\ Receiver \in Tasks
  <2>1. Receiver \in Tasks /\ v \in Version /\ "saving" \in Places
    BY <1>1 DEF Tasks, Places
  <2>2. Become(Receiver, "saving", v)
    BY DEF Receive
  <2>. QED  BY <2>1, <2>2, Becoming
<1>4. \A q \in Tasks : Handling(q)' <=> q = Receiver
  <2>1. \A c \in Loaders : ~Handling(c)
    BY DEF Receive
  <2>. QED  BY <1>3, <2>1 DEF Handling, At, Tasks
<1>5. \A x \in Local' : x <= item'.version
  <2>1. disk' = disk /\ writes' = writes /\ v \in Nat
    BY <1>1, CacheAssumption DEF Receive, file, Version
  <2>2. Local' \subseteq Local \cup {v}
    BY <1>2, <1>3, <2>1 DEF Local
  <2>. QED  BY <1>2, <2>1, <2>2, ReceiveMoves
<1>6. Followed'
  BY <1>2, <1>3, <1>4, <1>5 DEF Followed
<1>7. events' = <<>> => revision' = item'.version
  <2>1. SUFFICES ASSUME events' = <<>> PROVE revision = v
    BY <1>1, <1>2
  <2>2. Len(events) = 1 /\ Head(events) = events[1]
    BY <1>1, <2>1, Taken
  <2>. QED  BY <1>1, <2>2 DEF StreamInv, Ordered
<1>8. events' # <<>> => revision' = events'[Len(events')]
  BY ReceiveMoves DEF StreamInv, Ordered
<1>. QED  BY <1>6, <1>7, <1>8 DEF RevisionIsCached

\* A load recovers what is already there, or the first that is.
LEMMA RecoverFollows ==
  ASSUME TypeOK, StreamInv, Followed, RevisionIsCached, NEW c \in Loaders, Recover(c), ~raced',
         task[c].version # 0
  PROVE  Followed' /\ RevisionIsCached'
<1>. PICK v : v = task[c].version
  OBVIOUS
<1>1. c \in Tasks /\ At(c, "recovered") /\ ~Handling(c)
  BY DEF Recover, Tasks, Handling, At
<1>2. /\ item'.initialized /\ item'.version = v
      /\ ~raced /\ ~(item.version > v) /\ heard' = heard
      /\ UNCHANGED <<revision, events, disk, writes>>
  BY DEF Recover, Replace, TypeOK, watching, file
<1>3. \A q \in Tasks : /\ task'[q].version = task[q].version
                       /\ task'[q].at = IF q = c THEN "saving" ELSE task[q].at
  BY <1>1, Going DEF Recover, Places
<1>4. v \in Local /\ v \in Nat /\ v # 0 /\ item.version \in Local /\ item.version \in Nat /\ revision \in Nat
  BY <1>1, Versions DEF Local
<1>5. item.initialized => item.version = v
  BY <1>2, <1>4 DEF Followed
<1>6. \A x \in Local : x \in Nat /\ x <= v
  <2>1. CASE item.initialized
    BY <1>5, <2>1, Versions DEF Followed
  <2>2. CASE ~item.initialized
    <3>1. \A x \in Local : x = 0 \/ x = v
      BY <1>4, <2>2 DEF Followed
    <3>. QED  BY <1>4, <3>1
  <2>. QED  BY <2>1, <2>2
<1>7. Local' \subseteq Local
  BY <1>2, <1>3, <1>4 DEF Local
<1>8. \A q \in Tasks : Handling(q)' => task'[q].version = v
  <2>1. \A q \in Tasks : q # c /\ Handling(q)' => Handling(q)
    BY <1>3 DEF Handling, At
  <2>2. \A q \in Tasks : Handling(q) => task[q].version = v
    BY <1>5 DEF Followed
  <2>. QED  BY <1>3, <2>1, <2>2
<1>9. Handling(c)'
  BY <1>1, <1>3 DEF Handling, At
<1>10. Followed'
  BY <1>1, <1>2, <1>6, <1>7, <1>8, <1>9 DEF Followed
<1>11. RevisionIsCached'
  <2>1. SUFFICES ASSUME revision # 0, events = <<>> PROVE revision = v
    BY <1>2 DEF RevisionIsCached
  <2>2. revision = item.version
    BY <1>2, <2>1 DEF RevisionIsCached
  <2>3. v <= revision
    BY <1>4, <2>1 DEF StreamInv, Behind
  <2>. QED  BY <1>2, <1>4, <2>2, <2>3
<1>. QED  BY <1>10, <1>11

\* Who tells the listeners tells them of what the item holds.
LEMMA NotifyFollows ==
  ASSUME TypeOK, Followed, NEW p \in Tasks, Notify(p)
  PROVE  Followed'
<1>1. Local' \subseteq Local \cup {0} /\ item' = item
  BY TaskMoves DEF Notify
<1>2. Handling(p) /\ heard' = item.version
  BY DEF Notify, Handling, Followed
<1>3. \A q \in Tasks : /\ Handling(q)' => Handling(q)
                       /\ Handling(q)' => task'[q].version = task[q].version
  <2>1. 0 \in Version
    BY CacheAssumption DEF Version
  <2>2. \A q \in Tasks : /\ q # p => task'[q].version = task[q].version /\ task'[q].at = task[q].at
                         /\ q = p => task'[q].at \in {"idle", "reading"}
    BY <2>1, Becoming DEF Notify, Places
  <2>. QED  BY <2>2 DEF Handling, At
<1>4. item.version \in Nat
  BY Versions DEF Local
<1>. QED  BY <1>1, <1>2, <1>3, <1>4 DEF Followed

\* What is recovered is read from a file that is there.
LEMMA RecoveredStep == TypeOK /\ Recovered /\ [Next]_vars => Recovered'
<1>. SUFFICES ASSUME TypeOK, Recovered, [Next]_vars PROVE Recovered'
  OBVIOUS
<1>. Tasks = Loaders \cup {Receiver} /\ 0 \in Version /\ disk \in Version
  BY CacheAssumption DEF Tasks, Version, TypeOK
<1>1. ASSUME NEW p \in Tasks, NEW l \in Places \ {"recovered"},
             Goto(p, l) \/ \E v \in Version : Become(p, l, v)
      PROVE  Recovered'
  <2>1. \A q \in Tasks : task'[q].at = "recovered" => task[q].at = "recovered" /\ task'[q].version = task[q].version
    BY <1>1, Going, Becoming
  <2>. QED  BY <2>1 DEF Recovered, At
<1>2. ASSUME NEW c \in Loaders, ReadFile(c), disk # 0 PROVE Recovered'
  BY <1>2, Becoming DEF ReadFile, Recovered, At, Places
<1>3. ASSUME NEW c \in Loaders, BeginLoad(c) \/ EndWait(c) \/ ReadFile(c) \/ Recover(c) \/ Return(c)
      PROVE  Recovered'
  <2>1. CASE ReadFile(c)
    BY <1>1, <1>2, <2>1 DEF ReadFile, Places
  <2>2. CASE EndWait(c)
    BY <1>1, <2>2 DEF EndWait, Places
  <2>3. CASE BeginLoad(c) \/ Recover(c) \/ Return(c)
    BY <1>1, <2>3 DEF BeginLoad, Recover, Return, Places
  <2>. QED  BY <1>3, <2>1, <2>2, <2>3
<1>4. CASE Receive
  <2>1. Head(events) \in Version
    BY <1>4, Taken DEF Receive, TypeOK
  <2>. QED  BY <1>1, <1>4, <2>1 DEF Receive, Places
<1>5. ASSUME NEW p \in Tasks, Save(p) \/ Notify(p) PROVE Recovered'
  BY <1>1, <1>5 DEF Save, Notify, Places
<1>6. ASSUME task' = task PROVE Recovered'
  BY <1>6 DEF Recovered, At
<1>. QED  BY <1>3, <1>4, <1>5, <1>6, Steps, ConnectorMoves DEF Land, DispatchAnswer, Serve, Publish

LEMMA FollowStep == TypeOK /\ StreamInv /\ FollowInv /\ [Next]_vars => FollowInv'
<1>. SUFFICES ASSUME TypeOK, StreamInv, FollowInv, [Next]_vars, ~raced'
              PROVE  Followed' /\ RevisionIsCached'
  BY RecoveredStep DEF FollowInv
<1>0. Followed /\ RevisionIsCached /\ Recovered
  BY Forward DEF FollowInv
<1>1. ASSUME UNCHANGED <<revision, events>>, item'.version = item.version
      PROVE  RevisionIsCached'
  BY <1>0, <1>1, Forward DEF RevisionIsCached
<1>2. CASE \/ \E c \in Loaders : BeginLoad(c) \/ EndWait(c) \/ ReadFile(c) \/ Return(c)
           \/ \E p \in Tasks : Save(p)
           \/ \E v \in writes : Land(v)
  <2>1. Local' \subseteq Local \cup {0} /\ UNCHANGED <<latest, revision, answers, events>>
    BY <1>2, TaskMoves
  <2>2. /\ item'.initialized = item.initialized /\ item'.version = item.version /\ heard' = heard
        /\ \A p \in Tasks : /\ Handling(p)' <=> Handling(p)
                            /\ Handling(p) => task'[p].version = task[p].version
    BY <1>2, QuietTasks
  <2>. QED  BY <1>0, <1>1, <2>1, <2>2, Quiet
<1>3. ASSUME UNCHANGED <<item, task, file, heard>>
      PROVE  Followed'
  <2>1. Local' = Local /\ \A p \in Tasks : Handling(p)' <=> Handling(p)
    BY <1>3 DEF Local, file, Handling, At
  <2>. QED  BY <1>0, <1>3, <2>1, Quiet
<1>4. CASE Register \/ Poll \/ DiscoverEnds \/ ConfigEnds \/ DispatchStops \/ UNCHANGED vars
  BY <1>1, <1>3, <1>4, ConnectorMoves
<1>5. CASE Serve \/ Publish
  BY <1>1, <1>3, <1>5 DEF Serve, Publish, watching
<1>6. CASE DispatchAnswer
  <2>1. Followed'
    BY <1>3, <1>6 DEF DispatchAnswer
  <2>2. CASE events' = events /\ revision' = revision
    BY <1>1, <1>6, <2>1, <2>2 DEF DispatchAnswer
  <2>3. CASE events' # <<>>
    BY <1>6, <2>1, <2>3, DispatchMoves DEF StreamInv, Ordered, RevisionIsCached
  <2>4. (events' = events /\ revision' = revision) \/ events' # <<>>
    <3>1. Head(answers) \in Version /\ events \in Seq(Version \ {0})
      BY <1>6, Taken DEF DispatchAnswer, TypeOK
    <3>. QED  BY <1>6, <3>1, Queued DEF DispatchAnswer, Dispatch
  <2>. QED  BY <2>1, <2>2, <2>3, <2>4
<1>7. CASE Receive
  BY <1>0, <1>7, ReceiveFollows
<1>8. ASSUME NEW c \in Loaders, Recover(c) PROVE Followed' /\ RevisionIsCached'
  <2>1. task[c].version # 0
    BY <1>0, <1>8 DEF Recovered, Recover, Tasks
  <2>. QED  BY <1>0, <1>8, <2>1, RecoverFollows
<1>9. ASSUME NEW p \in Tasks, Notify(p) PROVE Followed' /\ RevisionIsCached'
  <2>1. UNCHANGED <<revision, events, item>>
    BY <1>9 DEF Notify, watching
  <2>. QED  BY <1>0, <1>1, <1>9, <2>1, NotifyFollows
<1>. QED  BY <1>2, <1>4, <1>5, <1>6, <1>7, <1>8, <1>9, Steps

\* Connector, cache and listeners follow each other: the connector's revision is
\* the last version the cache has or has on its way (receive_discover_response),
\* and the listeners were last told of what the item holds (on_spec_event).
THEOREM FollowsStream == Spec => []InStep
<1>1. Init => FollowInv
  <2>. SUFFICES ASSUME Init PROVE FollowInv
    OBVIOUS
  <2>1. /\ \A p \in Tasks : task[p].at = "idle" /\ task[p].version = 0
        /\ item.version = 0 /\ ~item.initialized /\ heard = 0 /\ writes = {} /\ revision = 0
    BY DEF Init, Idle
  <2>2. Local \subseteq {0, disk}
    BY <2>1 DEF Local
  <2>3. \A p \in Tasks : ~Handling(p) /\ ~At(p, "recovered")
    BY <2>1 DEF Handling, At
  <2>. QED  BY <2>1, <2>2, <2>3 DEF FollowInv, Followed, Recovered, RevisionIsCached
<1>2. FollowInv => InStep
  BY DEF FollowInv, Followed, InStep, RevisionIsCached, ListenersInStep
<1>. QED  BY <1>1, <1>2, FollowStep, StreamOrdered, TypeCorrect, PTL DEF Spec

\* No version the cache holds is replaced by an older one, of the stream or of
\* the file, unless a recovery overlapped an event (on_spec_event).
THEOREM GoesForward == Spec => NeverGoesBack
<1>1. TypeOK /\ StreamInv /\ [Next]_vars => [~raced' => item.version <= item'.version]_vars
  BY Forward
<1>. QED  BY <1>1, StreamOrdered, TypeCorrect, PTL DEF Spec, NeverGoesBack
=============================================================================
