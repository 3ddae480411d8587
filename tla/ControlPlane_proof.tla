------------------------- MODULE ControlPlane_proof -------------------------
(***************************************************************************)
(* Proofs about the two components that follow what the control plane      *)
(* publishes.  WorkloadIdentity, for any lifetimes, any descriptors and    *)
(* bundles and any order in which they come: what is left of a credential  *)
(* that was taken back, with who holds it and with who verifies it.        *)
(* ConfigCenter with ResourceKinds, for any resources of any kinds: no     *)
(* table sends the answer or the file of one to another, and racing        *)
(* upserts succeed.                                                        *)
(***************************************************************************)
EXTENDS WorkloadIdentity, ConfigCenter, FiniteSetTheorems, TLAPS

-----------------------------------------------------------------------------
(* The engine that keeps a credential                                      *)

\* The worker never passes over a descriptor: whatever was sent since it
\* borrowed one is still to be seen.
NothingMissed == at \notin {"top", "gone"} /\ working # descriptor => unseen

\* What it holds, and what it is answered, is for the descriptor it works for, and
\* it asks for the first credential empty-handed.
HoldsOrNone ==
    /\ at \in {"lacking", "waiting", "issuing", "renewing", "answered", "storing", "sleeping"} =>
           credential = NoCredential \/ credential.revision = working
    /\ at = "issuing" => credential = NoCredential
    /\ credential.revision \in Nat /\ credential.revision <= descriptor

\* An answer is for the descriptor it was asked for.
AnswerFits ==
    /\ at = "storing" => answer.credential.revision = working
    /\ at \in {"issuing", "renewing", "answered"} /\ answer.given /\ answer.ok =>
           answer.credential.revision = working
    /\ at = "answered" => answer.given

\* After the drop nothing is stored, unless the worker had an answer by then.
NothingStored == drop = "dropped" /\ ~late => at \notin {"answered", "storing"} /\ credential = NoCredential

KeeperInv == TypeOK /\ NothingMissed /\ HoldsOrNone /\ AnswerFits /\ NothingStored

LEMMA Nothings == NoCredential \in Credential /\ NoAnswer \in Answer /\ ~NoAnswer.given
  <1>1. NoCredential \in Credential
    BY IdentityAssumption DEF NoCredential, Credential, Revision
  <1>. QED
    BY <1>1 DEF NoAnswer, Answer

LEMMA KeeperInit == Init => KeeperInv
  <1>. SUFFICES ASSUME Init PROVE KeeperInv
    OBVIOUS
  <1>1. TypeOK
    <2>1. unseen \in BOOLEAN /\ late \in BOOLEAN
      BY Zenon DEF Init
    <2>2. published \in Revision /\ descriptor \in 0..published /\ working \in 0..descriptor
          /\ failures \in 0..MaxFailures /\ now \in 0..MaxTime
      BY IdentityAssumption DEF Init, Revision
    <2>3. at \in Labels /\ drop \in {"running", "stopped", "aborted", "dropped"}
      BY DEF Init, Labels
    <2>4. answer \in Answer /\ credential \in Credential /\ ~answer.given
      BY Nothings DEF Init
    <2>. QED
      BY <2>1, <2>2, <2>3, <2>4, Zenon DEF TypeOK
  <1>2. NothingMissed /\ HoldsOrNone /\ AnswerFits /\ NothingStored
    BY DEF Init, NothingMissed, HoldsOrNone, AnswerFits, NothingStored, NoCredential
  <1>. QED
    BY <1>1, <1>2 DEF KeeperInv

LEMMA TypeStep == TypeOK /\ [Next]_vars => TypeOK'
  <1>1. SUFFICES ASSUME TypeOK, [Next]_vars PROVE TypeOK'
    OBVIOUS
  <1>. USE IdentityAssumption, <1>1, Nothings
  <1>3. CASE Top
    BY <1>3 DEF Top, TypeOK, channel, shutdown, worker, Labels, Awaits
  <1>4. CASE FirstDescriptor
    <2>1. unseen' \in BOOLEAN
      BY <1>4, Zenon DEF FirstDescriptor
    <2>2. working' \in 0..descriptor' /\ at' \in Labels
      BY <1>4 DEF FirstDescriptor, TypeOK, Labels, Revision
    <2>3. ~answer.given
      BY <1>4 DEF FirstDescriptor, TypeOK
    <2>. QED
      BY <2>1, <2>2, <2>3, <1>4, Zenon DEF FirstDescriptor, TypeOK, shutdown
  <1>5. CASE Wait
    BY <1>5 DEF Wait, TypeOK, channel, shutdown, worker, Labels, Awaits
  <1>6. CASE Wake
    BY <1>6 DEF Wake, TypeOK, channel, shutdown, worker, Labels, Awaits
  <1>7. CASE Renew
    BY <1>7 DEF Renew, TypeOK, channel, shutdown, worker, Labels, Awaits
  <1>8. CASE Issue
    BY <1>8 DEF Issue, TypeOK, channel, shutdown, worker, Labels, Awaits
  <1>9. CASE Answered
    BY <1>9 DEF Answered, TypeOK, channel, shutdown, worker, Labels, Awaits
  <1>10. CASE Discard
    BY <1>10 DEF Discard, TypeOK, channel, shutdown, worker, Labels, Awaits
  <1>11. CASE Accept
    BY <1>11 DEF Accept, TypeOK, channel, shutdown, worker, Labels, Awaits
  <1>12. CASE Store
    BY <1>12 DEF Store, TypeOK, channel, shutdown, worker, Labels, Awaits, Answer
  <1>13. CASE Refuse
    BY <1>13 DEF Refuse, TypeOK, channel, shutdown, worker, Labels, Awaits
  <1>14. CASE Retry
    BY <1>14 DEF Retry, TypeOK, channel, shutdown, worker, Labels, Awaits
  <1>15. CASE Cancelled
    BY <1>15 DEF Cancelled, TypeOK, channel, shutdown, worker, Labels, Awaits
  <1>16. CASE Drop
    <2>1. /\ credential' \in Credential
          /\ drop' \in {"running", "stopped", "aborted", "dropped"}
          /\ late' \in BOOLEAN
      <3>1. late' = late \/ late' = (at \in {"answered", "storing"})
        BY <1>16 DEF Drop, MarkStopped, Abort, Withdraw
      <3>2. late' \in BOOLEAN
        <4>1. late \in BOOLEAN
          BY Zenon DEF TypeOK
        <4>2. CASE at \in {"answered", "storing"}
          BY <3>1, <4>1, <4>2
        <4>3. CASE at \notin {"answered", "storing"}
          <5>1. (at \in {"answered", "storing"}) = FALSE
            BY <4>3
          <5>. QED
            BY <3>1, <4>1, <5>1
        <4>. QED
          BY <4>2, <4>3
      <3>3. credential' \in Credential /\ drop' \in {"running", "stopped", "aborted", "dropped"}
        BY <1>16 DEF Drop, MarkStopped, Abort, Withdraw, TypeOK
      <3>. QED
        BY <3>2, <3>3
    <2>2. UNCHANGED <<published, channel, worker, failures, now>>
      BY <1>16 DEF Drop, MarkStopped, Abort, Withdraw
    <2>. QED
      BY <2>1, <2>2, Zenon DEF TypeOK, channel, worker
  <1>17. CASE Serve
    <2>1. [revision |-> working, renew |-> now + RenewAfter, expires |-> now + Lifetime] \in Credential
      BY DEF TypeOK, Credential, Revision
    <2>2. PICK c \in Credential :
            \/ answer' = [given |-> TRUE, ok |-> TRUE, credential |-> c]
            \/ answer' = [NoAnswer EXCEPT !.given = TRUE]
      BY <1>17, <2>1 DEF Serve
    <2>3. answer' \in Answer
      <3>1. [given |-> TRUE, ok |-> TRUE, credential |-> c] \in Answer
        BY DEF Answer
      <3>2. [NoAnswer EXCEPT !.given = TRUE] \in Answer
        BY DEF Answer
      <3>. QED
        BY <2>2, <3>1, <3>2
    <2>4. failures' \in 0..MaxFailures
      BY <1>17 DEF Serve, TypeOK
    <2>. QED
      BY <1>17, <2>3, <2>4 DEF Serve, TypeOK, channel, shutdown
  <1>18. CASE Publish
    BY <1>18 DEF Publish, TypeOK, channel, shutdown, worker, Revision
  <1>19. CASE HandleDescriptor
    BY <1>19 DEF HandleDescriptor, TypeOK, channel, shutdown, worker, Revision
  <1>20. CASE Tick
    BY <1>20 DEF Tick, TypeOK, channel, shutdown, worker
  <1>21. CASE UNCHANGED vars
    BY <1>21 DEF vars, TypeOK, channel, shutdown, worker
  <1>. QED
    BY <1>3, <1>4, <1>5, <1>6, <1>7, <1>8, <1>9, <1>10, <1>11, <1>12, <1>13, <1>14, <1>15, <1>16, <1>17,
       <1>18,
       <1>19, <1>20, <1>21 DEF Next, Worker

LEMMA AnswerStep == TypeOK /\ AnswerFits /\ [Next]_vars => AnswerFits'
  <1>1. SUFFICES ASSUME TypeOK, AnswerFits, [Next]_vars PROVE AnswerFits'
    OBVIOUS
  <1>. USE <1>1
  <1>2. ASSUME UNCHANGED <<answer, working>>, at' = at
        PROVE  AnswerFits'
    BY <1>2 DEF AnswerFits
  <1>3. ASSUME at' \notin {"issuing", "renewing", "answered", "storing"}
        PROVE  AnswerFits'
    BY <1>3 DEF AnswerFits
  \* A request begins without an answer.
  <1>4. CASE Renew \/ Issue
    <2>1. ~answer.given /\ answer' = answer /\ at' \in {"issuing", "renewing"}
      BY <1>4 DEF Renew, Issue, TypeOK, worker
    <2>. QED
      BY <2>1 DEF AnswerFits
  <1>5. CASE Serve
    <2>1. at \in {"issuing", "renewing"} /\ at' = at /\ working' = working
      BY <1>5 DEF Serve
    <2>2. CASE answer' = [given |-> TRUE, ok |-> TRUE, credential |->
                  [revision |-> working, renew |-> now + RenewAfter, expires |-> now + Lifetime]]
      <3>1. answer'.credential.revision = working'
        BY <2>1, <2>2
      <3>. QED
        BY <2>1, <3>1 DEF AnswerFits
    <2>3. CASE answer' = [NoAnswer EXCEPT !.given = TRUE]
      <3>1. ~answer'.ok
        BY <2>3 DEF NoAnswer
      <3>. QED
        BY <2>1, <3>1 DEF AnswerFits
    <2>. QED
      BY <1>5, <2>2, <2>3 DEF Serve
  <1>6. CASE Answered
    BY <1>6 DEF Answered, AnswerFits
  <1>7. CASE Accept
    BY <1>7 DEF Accept, AnswerFits, Valid
  <1>8. CASE Top \/ FirstDescriptor \/ Wait \/ Wake \/ Discard \/ Store \/ Refuse \/ Retry \/ Cancelled
    BY <1>3, <1>8 DEF Top, FirstDescriptor, Wait, Wake, Discard, Store, Refuse, Retry, Cancelled
  <1>9. CASE Drop \/ Publish \/ HandleDescriptor \/ Tick
    BY <1>2, <1>9 DEF Drop, MarkStopped, Abort, Withdraw, Publish, HandleDescriptor, Tick, worker
  <1>10. CASE UNCHANGED vars
    BY <1>2, <1>10 DEF vars, worker
  <1>. QED
    BY <1>4, <1>5, <1>6, <1>7, <1>8, <1>9, <1>10 DEF Next, Worker
LEMMA KeeperStep == KeeperInv /\ [Next]_vars => KeeperInv'
  <1>1. SUFFICES ASSUME KeeperInv, [Next]_vars PROVE KeeperInv'
    OBVIOUS
  <1>2. TypeOK /\ TypeOK' /\ AnswerFits /\ AnswerFits' /\ NothingMissed /\ HoldsOrNone /\ NothingStored
    BY <1>1, TypeStep, AnswerStep DEF KeeperInv
  <1>. SUFFICES NothingMissed' /\ HoldsOrNone' /\ NothingStored'
    BY <1>2 DEF KeeperInv
  <1>a. descriptor \in Nat /\ descriptor' \in Nat /\ working \in Nat /\ working <= descriptor
    BY <1>2 DEF TypeOK, Revision
  <1>b. NoCredential.revision = 0
    BY DEF NoCredential
  <1>. USE <1>1, <1>2, <1>a, <1>b DEF NothingMissed, HoldsOrNone, NothingStored
  <1>3. CASE Top
    BY <1>3 DEF Top, channel, shutdown
  <1>4. CASE FirstDescriptor
    BY <1>4 DEF FirstDescriptor, shutdown, Awake
  <1>5. CASE Wait
    BY <1>5 DEF Wait, channel, shutdown, Holds
  <1>6. CASE Wake
    BY <1>6 DEF Wake, shutdown
  <1>7. CASE Renew
    BY <1>7 DEF Renew, channel, shutdown, Holds
  <1>8. CASE Issue
    BY <1>8 DEF Issue, channel, shutdown
  <1>9. CASE Answered
    BY <1>9 DEF Answered, Awake, channel, shutdown
  <1>10. CASE Discard
    BY <1>10 DEF Discard, channel, shutdown
  <1>11. CASE Accept
    BY <1>11 DEF Accept, channel, shutdown
  <1>12. CASE Store
    BY <1>12 DEF Store, channel, shutdown, AnswerFits
  <1>13. CASE Refuse
    BY <1>13 DEF Refuse, channel, shutdown
  <1>14. CASE Retry
    BY <1>14 DEF Retry, channel, shutdown
  <1>15. CASE Cancelled
    BY <1>15 DEF Cancelled, channel, shutdown
  <1>16. CASE Drop
    <2>1. /\ UNCHANGED <<descriptor, unseen, at, working>>
          /\ credential' = credential \/ credential' = NoCredential
      BY <1>16 DEF Drop, MarkStopped, Abort, Withdraw, channel, worker
    <2>2. NothingMissed' /\ HoldsOrNone'
      BY <2>1
    <2>3. NothingStored'
      <3>1. CASE MarkStopped \/ Abort
        BY <3>1 DEF MarkStopped, Abort
      <3>2. CASE Withdraw
        <4>1. at' = at /\ credential' = NoCredential /\ (late' <=> at \in {"answered", "storing"})
          BY <3>2 DEF Withdraw, worker
        <4>. QED
          BY <4>1 DEF NothingStored
      <3>. QED
        BY <1>16, <3>1, <3>2 DEF Drop
    <2>. QED
      BY <2>2, <2>3
  <1>17. CASE Serve
    BY <1>17 DEF Serve, channel, shutdown
  <1>18. CASE Publish
    BY <1>18 DEF Publish, channel, shutdown, worker
  <1>19. CASE HandleDescriptor
    BY <1>19 DEF HandleDescriptor, shutdown, worker
  <1>20. CASE Tick
    BY <1>20 DEF Tick, channel, shutdown, worker
  <1>21. CASE UNCHANGED vars
    BY <1>21 DEF vars, channel, shutdown, worker
  <1>. QED
    BY <1>3, <1>4, <1>5, <1>6, <1>7, <1>8, <1>9, <1>10, <1>11, <1>12, <1>13, <1>14, <1>15, <1>16, <1>17,
       <1>18,
       <1>19, <1>20, <1>21 DEF Next, Worker

LEMMA KeeperSafe == KeeperInv => NoStaleCredential
  <1>1. KeeperInv => SupersededIsNoticed
    BY DEF KeeperInv, TypeOK, Labels, Awaits, NothingMissed, HoldsOrNone, SupersededIsNoticed
  <1>2. KeeperInv => DropWithdraws
    BY Zenon DEF KeeperInv, NothingStored, DropWithdraws
  <1>. QED
    BY <1>1, <1>2 DEF NoStaleCredential

\* Every step of the worker, the drop and the handler of descriptors keeps the
\* types of their state, and an answer is held only by an iteration that asked.
THEOREM TypeCorrect == Spec => []TypeOK
  <1>1. Init => TypeOK
    BY KeeperInit DEF KeeperInv
  <1>. QED
    BY <1>1, TypeStep, PTL DEF Spec

\* However descriptors, answers and the drop of the runtime interleave, a
\* credential of an earlier descriptor is left only until the worker turns to the
\* one in force, and after the drop only the answer it already had.
THEOREM NoneKept == Spec => []NoStaleCredential
  BY KeeperInit, KeeperStep, KeeperSafe, PTL DEF Spec

-----------------------------------------------------------------------------
(* The verifier                                                            *)

\* The bundle that is held is of the sequence of the newest that was ever taken and
\* says the same, but for a key more where that lists one twice.
Newest == bundle.content.sequence = newest.sequence /\ T!SameContent(newest, bundle.content)

\* Every list of keys has at least as many entries as keys.
TrustTypeOK ==
    /\ bundles \subseteq T!Content /\ bundle.content \in T!Content /\ newest \in T!Content
    /\ \A c \in bundles \cup {bundle.content, newest} : T!Lists(c)

TrustInv == TrustTypeOK /\ Newest /\ T!RevokedStaysRefused

\* The verifier counts as everyone does.
LEMMA SameCardinality == \A S : T!Cardinality(S) = Cardinality(S)
  BY DEF T!Cardinality, Cardinality

\* Of two lists of the same length, one of which has each of its keys once, neither
\* has a key more than the other.
LEMMA SameKeys ==
  ASSUME NEW b \in T!Content, NEW c \in T!Content, T!SameContent(b, c), T!Lists(c), T!EachOnce(b)
  PROVE  b.keys = c.keys
  <1>1. b.keys \subseteq c.keys /\ b.size = c.size
    BY DEF T!SameContent
  <1>2. c.keys \subseteq Keys
    BY DEF T!Content
  <1>3. IsFiniteSet(c.keys)
    BY <1>2, TrustAssumption, FS_Subset
  <1>4. Cardinality(b.keys) \in Nat /\ Cardinality(c.keys) \in Nat
    BY <1>1, <1>3, FS_Subset, FS_CardinalityType
  <1>5. Cardinality(b.keys) <= Cardinality(c.keys) /\ Cardinality(c.keys) <= Cardinality(b.keys)
    <2>1. Cardinality(b.keys) <= Cardinality(c.keys)
      BY <1>1, <1>3, FS_Subset
    <2>. QED
      BY <1>1, <2>1, SameCardinality DEF T!Lists, T!EachOnce
  <1>6. Cardinality(b.keys) = Cardinality(c.keys)
    BY <1>4, <1>5
  <1>. QED
    BY <1>1, <1>3, <1>6, FS_Subset

LEMMA TrustInitial == T!TrustInit => TrustInv
  <1>. SUFFICES ASSUME T!TrustInit PROVE TrustInv
    OBVIOUS
  <1>1. T!Lists(T!NoContent)
    <2>1. Cardinality({}) = 0
      BY FS_EmptySet
    <2>. QED
      BY <2>1, SameCardinality DEF T!Lists, T!NoContent
  <1>2. bundles = {} /\ bundle.content = T!NoContent /\ newest = T!NoContent /\ accepted = {}
    BY DEF T!TrustInit, T!NoBundle
  <1>3. T!NoContent \in T!Content
    BY TrustAssumption DEF T!NoContent, T!Content
  <1>4. TrustTypeOK
    BY <1>1, <1>2, <1>3 DEF TrustTypeOK
  <1>. QED
    BY <1>2, <1>4 DEF TrustInv, Newest, T!RevokedStaysRefused, T!SameContent

LEMMA TrustStep == TrustInv /\ T!TrustNext => TrustInv'
  <1>1. SUFFICES ASSUME TrustInv, T!TrustNext PROVE TrustInv'
    OBVIOUS
  <1>. USE <1>1 DEF TrustInv
  <1>2. ASSUME NEW c \in T!Content, T!PublishBundle(c)
        PROVE  TrustInv'
    BY <1>2 DEF T!PublishBundle, TrustTypeOK, Newest, T!RevokedStaysRefused
  <1>3. ASSUME NEW b \in bundles, T!Fork(b)
        PROVE  TrustInv'
    <2>1. PICK c \in T!Content : T!Lists(c) /\ bundles' = bundles \cup {c}
      BY <1>3 DEF T!Fork
    <2>2. UNCHANGED <<bundle, newest>> /\ accepted' = {}
      BY <1>3 DEF T!Fork
    <2>. QED
      BY <2>1, <2>2 DEF TrustTypeOK, Newest, T!RevokedStaysRefused
  <1>4. ASSUME NEW c \in bundles, NEW from \in 0..CalleeTime, T!TakeBundle(c, from)
        PROVE  TrustInv'
    <2>1. c \in T!Content /\ bundle'.content = c /\ UNCHANGED bundles /\ accepted' = {}
          /\ newest' = IF newest.sequence < c.sequence THEN c ELSE newest
      BY <1>4 DEF T!TakeBundle, TrustTypeOK
    <2>2. T!Replaces(c)
      BY <1>4 DEF T!TakeBundle
    <2>3. c.sequence \in Nat /\ newest.sequence \in Nat
      BY <2>1 DEF TrustTypeOK, T!Content
    <2>4. CASE newest.sequence < c.sequence
      BY <2>1, <2>4 DEF TrustTypeOK, Newest, T!SameContent, T!RevokedStaysRefused
    \* Another answer of the same sequence: it must say the same.
    <2>5. CASE ~(newest.sequence < c.sequence)
      BY <2>1, <2>2, <2>3, <2>5 DEF TrustTypeOK, Newest, T!Replaces, T!SameContent, T!RevokedStaysRefused
    <2>. QED
      BY <2>4, <2>5
  <1>5. ASSUME NEW t \in T!Token \cup {T!Malformed}, T!Inject(t)
        PROVE  TrustInv'
    BY <1>5 DEF T!Inject, TrustTypeOK, Newest, T!RevokedStaysRefused
  <1>6. CASE T!BeginVerify
    BY <1>6 DEF T!BeginVerify, TrustTypeOK, Newest, T!RevokedStaysRefused
  <1>7. CASE T!Verify
    <2>1. /\ T!EachOnce(newest) => bundle.content.keys = newest.keys
          /\ bundle.content.subject = newest.subject /\ bundle.content.revoked = newest.revoked
      BY SameKeys DEF Newest, TrustTypeOK, T!SameContent
    <2>2. ASSUME NEW a \in accepted'
          PROVE  /\ ~T!Revoked(a.token, a.newest)
                 /\ T!EachOnce(a.newest) => a.token.key \in a.newest.keys
                 /\ T!Expires(a.token) > a.now
      <3>1. a.token = request.token /\ a.now = request.now /\ a.newest = newest
            /\ T!Verified(request.token, request.now)
        BY <1>7, <2>2 DEF T!Verify
      <3>. QED
        BY <2>1, <3>1 DEF T!Verified, T!Revoked
    <2>3. T!RevokedStaysRefused'
      BY <2>2 DEF T!RevokedStaysRefused, T!Revoked, T!Expires, T!EachOnce
    <2>. QED
      BY <1>7, <2>3 DEF T!Verify, TrustTypeOK, Newest
  <1>8. CASE T!TrustTick
    BY <1>8 DEF T!TrustTick, TrustTypeOK, Newest, T!RevokedStaysRefused
  <1>. QED
    BY <1>2, <1>3, <1>4, <1>5, <1>6, <1>7, <1>8 DEF T!TrustNext

-----------------------------------------------------------------------------
(* Both                                                                    *)

\* A behaviour follows one of the two; the other is as it was at first.
SideInv ==
    \/ side = "caller" /\ KeeperInv /\ accepted = {}
    \/ side = "callee" /\ TrustInv /\ at = "top" /\ drop = "running"

\* A credential taken back by a new descriptor is left only until the worker turns
\* to that one, by the drop of the runtime only if its answer was there already; and
\* whatever late, lagging or contradicting answers the control plane gives, none is
\* accepted that the newest bundle taken revokes, or whose key it withdraws while
\* listing its own once each.
THEOREM NoneStale == BothSpec => []NoStaleIdentity
  <1>1. BothInit => SideInv
    BY KeeperInit, TrustInitial DEF BothInit, SideInv, Init, T!TrustInit
  <1>2. SideInv /\ [BothNext]_bothVars => SideInv'
    <2>1. SUFFICES ASSUME SideInv, [BothNext]_bothVars PROVE SideInv'
      OBVIOUS
    <2>2. CASE Caller(Next)
      BY <2>1, <2>2, KeeperStep DEF Caller, SideInv, verifier
    <2>3. CASE Callee
      BY <2>1, <2>3, TrustStep DEF Callee, SideInv, worker, shutdown
    <2>4. CASE UNCHANGED bothVars
      <3>1. side = "caller" => SideInv'
        BY <2>1, <2>4, KeeperStep DEF bothVars, verifier, SideInv
      <3>2. side = "callee" => SideInv'
        BY <2>1, <2>4 DEF bothVars, verifier, vars, worker, shutdown, SideInv, TrustInv, TrustTypeOK, Newest,
           T!RevokedStaysRefused
      <3>. QED
        BY <2>1, <3>1, <3>2 DEF SideInv
    <2>. QED
      BY <2>1, <2>2, <2>3, <2>4 DEF BothNext
  <1>3. SideInv => NoStaleIdentity
    <2>1. SideInv => NoStaleCredential
      BY KeeperSafe DEF SideInv, NoStaleCredential, SupersededIsNoticed, DropWithdraws
    <2>2. SideInv => T!RevokedStaysRefused
      BY DEF SideInv, TrustInv, T!RevokedStaysRefused
    <2>. QED
      BY <2>1, <2>2 DEF NoStaleIdentity
  <1>. QED
    BY <1>1, <1>2, <1>3, PTL DEF BothSpec

-----------------------------------------------------------------------------
(* The kinds of resource: what the inductive invariant says                *)

\* What an event says of itself: it is about the resource whose handler it
\* came through.
Own(e) == e \in Event /\ e.key = e.from

\* Where a task can be, and what it then has.
Fits(p, t) ==
    /\ p = Receiver => t.at \in {"idle", "saving", "notifying"}
    /\ p \in Loaders /\ t.at # "idle" => t.load \in Pool
    /\ t.at = "recovering" => t.load.type \in RuleTypes
    /\ t.at \in {"saving", "notifying"} => Own(t.event)

EventsOwn == \A i \in DOMAIN events : Own(events[i])
TasksFit == \A p \in Tasks : Fits(p, task[p])
ItemsOwn == \A r \in Pool : item[r].initialized => item[r].value = [of |-> r, version |-> item[r].revision]
ResultsOwn == \A c \in Loaders : result[c].value.of \in {NoKey, result[c].of}

KindsInv == KindsTypeOK /\ EventsOwn /\ TasksFit /\ ItemsOwn /\ ResultsOwn

\* A watcher has its resource, and its API the listener; a publisher its file,
\* which is there when the update is tried again.
WatcherInv ==
    \A w \in Watchers :
        /\ watcher[w].at # "idle" => watcher[w].on \in Watchable
        /\ watcher[w].at = "registering" => watcher[w].on.type \in claimed
PublisherInv ==
    \A q \in Publishers :
        /\ publisher[q].at # "idle" => publisher[q].file \in Files
        /\ publisher[q].at = "retry" => Has(publisher[q].file)
        /\ publisher[q].at # "failed"

ConfigInv == ConfigTypeOK /\ KindsInv /\ WatcherInv /\ PublisherInv

-----------------------------------------------------------------------------
(* The tables agree                                                        *)

\* A resource is its type and its name; the key of nothing is none of them.
LEMMA PoolKeys ==
    \A r \in Pool : /\ r = [type |-> r.type, of |-> r.of]
                    /\ r.type \in NamingTypes \cup ConfigTypes
                    /\ r # NoKey /\ r.type # "none"
  <1>1. "none" \notin NamingTypes \cup ConfigTypes /\ NoKey.type = "none"
    BY DEF NoKey, NamingTypes, ConfigTypes
  <1>. QED
    BY <1>1, KindsAssumption

\* The type of an answer leads back to the type that was asked for, but for a
\* list of services and a group, which are named in ways of their own.
LEMMA TypesReturn ==
    \A t \in NamingTypes \cup ConfigTypes :
        /\ t \notin {"Service", "ConfigGroup"} =>
              /\ WatchType(RequestType(t)) = t
              /\ RequestType(t) \notin {"Services", "ConfigFileNames"}
        /\ t = "ConfigGroup" => RequestType(t) = "ConfigFileNames"
        /\ t = "Service" => RequestType(t) = "Services"
  BY DEF NamingTypes, ConfigTypes, RequestType, WatchType

\* An answer finds the handler of the resource it is about, or none.
LEMMA AnswersReturn ==
    ASSUME NEW r \in Pool, NEW v, WatchKey(r, v) \in Pool
    PROVE  WatchKey(r, v) = r
  <1>1. r = [type |-> r.type, of |-> r.of] /\ r.type \in NamingTypes \cup ConfigTypes
    BY PoolKeys
  <1>2. CASE r.type = "Service"
    <2>1. WatchKey(r, v) = [type |-> "none", of |-> "namespace"]
      BY <1>1, <1>2, TypesReturn DEF WatchKey, AnswerType
    <2>. QED
      BY <2>1, PoolKeys
  <1>3. CASE r.type = "ConfigGroup"
    <2>1. WatchKey(r, v) \in {[type |-> "ConfigGroup", of |-> r.of], NoKey}
      BY <1>1, <1>3, TypesReturn DEF WatchKey, AnswerType
    <2>. QED
      BY <1>1, <1>3, <2>1, PoolKeys
  <1>4. CASE r.type \notin {"Service", "ConfigGroup"}
    <2>1. WatchKey(r, v) = [type |-> WatchType(RequestType(r.type)), of |-> r.of]
      BY <1>1, <1>4, TypesReturn DEF WatchKey, AnswerType
    <2>. QED
      BY <1>1, <1>4, <2>1, TypesReturn
  <1>. QED
    BY <1>2, <1>3, <1>4

\* The file a rule is read from is the one its own answers are saved to.
LEMMA FilesReturn ==
    ASSUME NEW r \in Pool, NEW q \in Pool, r.type \in RuleTypes, SaveFile(q) = LoadFile(r)
    PROVE  q = r
  <1>1. /\ r = [type |-> r.type, of |-> r.of] /\ q = [type |-> q.type, of |-> q.of]
        /\ q.type \in NamingTypes \cup ConfigTypes
    BY PoolKeys
  <1>2. SaveFile(q).file = PersistFile(r.type) /\ SaveFile(q).of = r.of
    BY DEF LoadFile
  <1>3. PersistFile(r.type) \notin {"services.data", "config_file.data", "config_group.data", "unknown",
                                     "instance.data"}
    BY DEF PersistFile, RuleTypes, NamingTypes
  <1>4. q.type \in RuleTypes
    BY <1>1, <1>2, <1>3 DEF SaveFile, AnswerType, RequestType, NamingSpecFile, RuleTypes, NamingTypes,
       ConfigTypes
  <1>5. SaveFile(q).of = q.of /\ SaveFile(q).file = PersistFile(q.type)
    <2>1. RequestType(q.type) \notin {"Services", "ConfigFile", "ConfigFileNames"}
      BY <1>4 DEF RequestType, RuleTypes, NamingTypes
    <2>2. SaveFile(q) = [of |-> q.of, file |-> NamingSpecFile(RequestType(q.type))]
      BY <2>1 DEF SaveFile, AnswerType
    <2>3. NamingSpecFile(RequestType(q.type)) = PersistFile(q.type)
      BY <1>4 DEF RequestType, NamingSpecFile, PersistFile, RuleTypes, NamingTypes
    <2>. QED
      BY <2>2, <2>3
  <1>6. q.type = r.type
    BY <1>2, <1>4, <1>5 DEF PersistFile, RuleTypes, NamingTypes
  <1>. QED
    BY <1>1, <1>2, <1>5, <1>6

\* An event replaces the entry of its own resource, with its own answer.
LEMMA EventsReturn ==
    ASSUME NEW e, Own(e)
    PROVE  /\ Slot(e) = e.key /\ e.key \in Pool /\ e.version \in 1..MaxVersion
           /\ Filled(e) = [exists |-> TRUE, initialized |-> TRUE, revision |-> e.version,
                           value |-> [of |-> e.key, version |-> e.version]]
  <1>1. e.key \in Pool /\ e.from = e.key /\ e.version \in 1..MaxVersion
    BY DEF Own, Event
  <1>2. e.key = [type |-> e.key.type, of |-> e.key.of]
    BY <1>1, PoolKeys
  <1>. QED
    BY <1>1, <1>2 DEF Slot, Filled, Taken, AnswerType

-----------------------------------------------------------------------------
(* The cache, the connector and the failover                               *)

\* An event that is handled keeps every entry's own answer.
LEMMA ReplacedKeeps ==
    ASSUME item \in [Pool -> Entry], ItemsOwn, NEW e, Own(e), item' = Replaced(e)
    PROVE  item' \in [Pool -> Entry] /\ ItemsOwn'
  <1>1. CASE item' = item
    BY <1>1 DEF ItemsOwn
  <1>2. CASE item' = [item EXCEPT ![e.key] = Filled(e)]
    <2>1. Filled(e) \in Entry
      <3>1. e.version \in 0..MaxVersion /\ e.key \in Pool
        BY EventsReturn, KindsAssumption
      <3>2. [of |-> e.key, version |-> e.version] \in Value
        BY <3>1 DEF Value
      <3>3. Filled(e) = [exists |-> TRUE, initialized |-> TRUE, revision |-> e.version,
                         value |-> [of |-> e.key, version |-> e.version]]
        BY EventsReturn
      <3>. QED
        BY <3>1, <3>2, <3>3 DEF Entry
    <2>2. /\ item' \in [Pool -> Entry]
          /\ item'[e.key] = Filled(e)
          /\ \A r \in Pool \ {e.key} : item'[r] = item[r]
      BY <1>2, <2>1, EventsReturn
    <2>. QED
      BY <2>2, EventsReturn DEF ItemsOwn
  <1>. QED
    BY <1>1, <1>2, EventsReturn DEF Replaced

\* A task moves on with what the next step needs.
LEMMA MoveKeeps ==
    ASSUME task \in [Tasks -> TaskRecord], TasksFit, NEW p \in Tasks, NEW t \in TaskRecord,
           Fits(p, t), task' = [task EXCEPT ![p] = t]
    PROVE  task' \in [Tasks -> TaskRecord] /\ TasksFit'
  BY DEF TasksFit

\* A task that only goes to another label is such a task.
LEMMA GotoMoves ==
    ASSUME task \in [Tasks -> TaskRecord], NEW p \in Tasks, NEW label,
           label \in {"idle", "waiting", "recovering", "saving", "notifying", "reading"}, Goto(p, label)
    PROVE  \E t \in TaskRecord : /\ task' = [task EXCEPT ![p] = t]
                                 /\ t.at = label /\ t.load = task[p].load /\ t.event = task[p].event
  <1>. DEFINE t == [task[p] EXCEPT !.at = label]
  <1>1. t \in TaskRecord /\ t.at = label /\ t.load = task[p].load /\ t.event = task[p].event
    BY DEF TaskRecord
  <1>2. task' = [task EXCEPT ![p] = t]
    BY DEF Goto
  <1>. QED
    BY <1>1, <1>2

\* So does one that has handled an event, or has found no entry for it.
LEMMA HandleKeeps ==
    ASSUME KindsInv, NEW p \in Tasks, NEW e, Own(e), NEW back \in {"idle", "reading"}, Handle(p, e, back),
           p = Receiver => back = "idle", p \in Loaders => task[p].load \in Pool
    PROVE  /\ item' \in [Pool -> Entry] /\ ItemsOwn'
           /\ task' \in [Tasks -> TaskRecord] /\ TasksFit'
  <1>. USE DEF KindsInv, KindsTypeOK
  <1>1. CASE item' = Replaced(e) /\ task' = [task EXCEPT ![p].at = "saving", ![p].event = e]
    <2>. DEFINE t == [task[p] EXCEPT !.at = "saving", !.event = e]
    <2>1. t \in TaskRecord /\ t.at = "saving" /\ t.load = task[p].load /\ t.event = e
      BY DEF TaskRecord, Own
    <2>2. task' = [task EXCEPT ![p] = t]
      BY <1>1
    <2>3. Fits(p, t)
      BY <2>1 DEF Fits
    <2>. HIDE DEF t
    <2>. QED
      BY <1>1, <2>1, <2>2, <2>3, MoveKeeps, ReplacedKeeps
  <1>2. CASE UNCHANGED item /\ Goto(p, back)
    <2>1. PICK t \in TaskRecord : /\ task' = [task EXCEPT ![p] = t]
                                  /\ t.at = back /\ t.load = task[p].load
      BY <1>2, GotoMoves
    <2>2. Fits(p, t)
      BY <2>1 DEF Fits
    <2>. QED
      BY <1>2, <2>1, <2>2, MoveKeeps DEF ItemsOwn
  <1>. QED
    BY <1>1, <1>2 DEF Handle

\* The versions there are, with 0 for nothing new.
LEMMA VersionsRange == 0 \in 0..MaxVersion /\ 1 \in 0..MaxVersion /\ 1..MaxVersion \subseteq 0..MaxVersion
  BY KindsAssumption

\* No step of the loaders, the receive task and the connector brings the
\* resources together.
LEMMA KindsKeep == KindsInv /\ KindsStep => KindsInv'
  <1>. SUFFICES ASSUME KindsInv, KindsStep PROVE KindsInv'
    OBVIOUS
  <1>. USE DEF KindsInv, KindsTypeOK, control, connector
  <1>0. Loaders \subseteq Tasks /\ Receiver \in Tasks /\ Receiver \notin Loaders
    BY KindsAssumption DEF Tasks
  <1>1. ASSUME NEW c \in Loaders, NEW r \in Pool, Begin(c, r) PROVE KindsInv'
    <2>. DEFINE t == [task[c] EXCEPT !.at = "waiting", !.load = r]
    <2>1. t \in TaskRecord /\ t.at = "waiting" /\ t.load = r
      BY <1>0 DEF TaskRecord
    <2>2. Fits(c, t)
      BY <1>0, <2>1 DEF Fits
    <2>3. task' = [task EXCEPT ![c] = t]
      BY <1>1 DEF Begin
    <2>. HIDE DEF t
    <2>4. task' \in [Tasks -> TaskRecord] /\ TasksFit'
      BY <1>0, <2>1, <2>2, <2>3, MoveKeeps
    <2>5. item' \in [Pool -> Entry] /\ ItemsOwn'
      <3>1. item[r] \in Entry /\ item' = [item EXCEPT ![r].exists = TRUE]
        BY <1>1 DEF Begin
      <3>2. [item[r] EXCEPT !.exists = TRUE] \in Entry
        BY <3>1 DEF Entry
      <3>3. item' \in [Pool -> Entry]
        BY <3>1, <3>2
      <3>4. \A q \in Pool : /\ item'[q].initialized = item[q].initialized
                            /\ item'[q].value = item[q].value
                            /\ item'[q].revision = item[q].revision
        BY <3>1 DEF Entry
      <3>. QED
        BY <3>3, <3>4 DEF ItemsOwn
    <2>6. watch' \in [Pool -> {"none", "submitted", "registered"}]
      BY <1>1 DEF Begin
    <2>. QED
      BY <1>1, <2>4, <2>5, <2>6 DEF Begin, EventsOwn, ResultsOwn
  <1>2. ASSUME NEW c \in Loaders, EndWait(c) PROVE KindsInv'
    <2>1. PICK label \in {"recovering", "reading"} :
            Goto(c, label) /\ (label = "recovering" => task[c].load.type \in RuleTypes)
      BY <1>2 DEF EndWait
    <2>2. PICK t \in TaskRecord : task' = [task EXCEPT ![c] = t] /\ t.at = label /\ t.load = task[c].load
      BY <1>0, <2>1, GotoMoves
    <2>3. Fits(c, t)
      BY <1>0, <1>2, <2>1, <2>2 DEF Fits, TasksFit, EndWait, At
    <2>4. task' \in [Tasks -> TaskRecord] /\ TasksFit'
      BY <1>0, <2>2, <2>3, MoveKeeps
    <2>. QED
      BY <1>2, <2>4 DEF EndWait, EventsOwn, ItemsOwn, ResultsOwn
  <1>3. ASSUME NEW c \in Loaders, Recover(c) PROVE KindsInv'
    <2>1. task[c].load \in Pool /\ task[c].load.type \in RuleTypes
      BY <1>0, <1>3 DEF Recover, At, TasksFit, Fits
    <2>2. item' \in [Pool -> Entry] /\ ItemsOwn' /\ task' \in [Tasks -> TaskRecord] /\ TasksFit'
      <3>1. CASE Goto(c, "reading") /\ UNCHANGED item
        <4>1. PICK t \in TaskRecord :
                task' = [task EXCEPT ![c] = t] /\ t.at = "reading" /\ t.load = task[c].load
          BY <1>0, <3>1, GotoMoves
        <4>2. Fits(c, t)
          BY <1>0, <2>1, <4>1 DEF Fits
        <4>. QED
          BY <1>0, <3>1, <4>1, <4>2, MoveKeeps DEF ItemsOwn
      <3>2. ASSUME NEW d \in disk, d.file = LoadFile(task[c].load),
                   Handle(c, [key |-> task[c].load, from |-> d.from, version |-> d.version], "reading")
            PROVE  item' \in [Pool -> Entry] /\ ItemsOwn' /\ task' \in [Tasks -> TaskRecord] /\ TasksFit'
        <4>1. PICK q \in Pool, v \in 1..MaxVersion : d = [file |-> SaveFile(q), from |-> q, version |-> v]
          BY DEF Saved
        <4>2. q = task[c].load
          BY <2>1, <3>2, <4>1, FilesReturn
        <4>3. Own([key |-> task[c].load, from |-> d.from, version |-> d.version])
          BY <2>1, <4>1, <4>2 DEF Own, Event
        <4>. QED
          BY <1>0, <2>1, <3>2, <4>3, HandleKeeps
      <3>. QED
        BY <1>3, <3>1, <3>2 DEF Recover
    <2>. QED
      BY <1>3, <2>2 DEF Recover, EventsOwn, ResultsOwn
  <1>4. ASSUME NEW p \in Tasks, Save(p) PROVE KindsInv'
    <2>1. Own(task[p].event) /\ task[p].at = "saving"
      BY <1>4 DEF Save, At, TasksFit, Fits
    <2>2. PICK t \in TaskRecord : /\ task' = [task EXCEPT ![p] = t] /\ t.at = "notifying"
                                  /\ t.load = task[p].load /\ t.event = task[p].event
      BY <1>4, GotoMoves DEF Save
    <2>3. Fits(p, t)
      BY <2>1, <2>2 DEF Fits, TasksFit
    <2>4. task' \in [Tasks -> TaskRecord] /\ TasksFit'
      BY <2>2, <2>3, MoveKeeps
    <2>5. disk' \subseteq Saved
      <3>1. [file |-> SaveFile(task[p].event.from), from |-> task[p].event.from,
             version |-> task[p].event.version] \in Saved
        BY <2>1 DEF Own, Event, Saved
      <3>. QED
        BY <1>4, <3>1 DEF Save
    <2>. QED
      BY <1>4, <2>4, <2>5 DEF Save, EventsOwn, ItemsOwn, ResultsOwn
  <1>5. ASSUME NEW c \in Loaders, Return(c) PROVE KindsInv'
    <2>1. task[c].load \in Pool
      BY <1>0, <1>5 DEF Return, At, TasksFit, Fits
    <2>2. Idle \in TaskRecord /\ Fits(c, Idle)
      BY <1>0 DEF Idle, TaskRecord, Fits
    <2>3. task' \in [Tasks -> TaskRecord] /\ TasksFit'
      BY <1>0, <1>5, <2>2, MoveKeeps DEF Return
    <2>4. /\ Returned(task[c].load) \in [of : Pool \cup {NoKey}, value : Value]
          /\ Returned(task[c].load).value.of \in {NoKey, Returned(task[c].load).of}
      <3>. DEFINE r == task[c].load
                  v == IF item[r].initialized THEN item[r].value ELSE Nothing
      <3>1. Returned(r) = [of |-> r, value |-> v]
        BY DEF Returned, Initialized
      <3>2. item[r].value \in Value /\ Nothing \in Value /\ Nothing.of = NoKey
        BY <2>1, VersionsRange DEF Entry, Nothing, Value
      <3>3. item[r].initialized => item[r].value.of = r
        <4>1. \A q \in Pool : item[q].initialized => item[q].value = [of |-> q, version |-> item[q].revision]
          BY DEF ItemsOwn
        <4>2. ASSUME item[r].initialized PROVE item[r].value.of = r
          <5>1. item[r].value = [of |-> r, version |-> item[r].revision]
            BY <2>1, <4>1, <4>2
          <5>. QED
            BY <5>1
        <4>. QED
          BY <4>2
      <3>4. v \in Value /\ v.of \in {NoKey, r}
        BY <3>2, <3>3
      <3>. HIDE DEF r, v
      <3>5. r \in Pool
        BY <2>1 DEF r
      <3>6. /\ Returned(r) \in [of : Pool \cup {NoKey}, value : Value]
            /\ Returned(r).value.of \in {NoKey, Returned(r).of}
        BY <3>1, <3>4, <3>5
      <3>. QED
        BY <3>6 DEF r
    <2>5. /\ result' \in [Loaders -> [of : Pool \cup {NoKey}, value : Value]]
          /\ ResultsOwn'
      BY <1>5, <2>4 DEF Return, ResultsOwn
    <2>. QED
      BY <1>5, <2>3, <2>5 DEF Return, EventsOwn, ItemsOwn
  <1>6. ASSUME NEW r \in Pool, Register(r) PROVE KindsInv'
    BY <1>6 DEF Register, EventsOwn, TasksFit, ItemsOwn, ResultsOwn
  <1>7. ASSUME NEW r \in Pool, Respond(r) PROVE KindsInv'
    BY <1>7 DEF Respond, EventsOwn, TasksFit, ItemsOwn, ResultsOwn
  <1>8. ASSUME NEW r \in Pool, Dispatch(r) PROVE KindsInv'
    <2>1. answers[r] \in 1..MaxVersion
      BY <1>8, KindsAssumption DEF Dispatch
    <2>2. answers' \in [Pool -> 0..MaxVersion]
      BY <1>8, VersionsRange DEF Dispatch
    <2>3. revision' \in [Pool -> 0..MaxVersion] /\ events' \in Seq(Event) /\ EventsOwn'
      <3>1. CASE UNCHANGED <<revision, events>>
        BY <3>1 DEF EventsOwn
      <3>. DEFINE k == WatchKey(r, answers[r])
                  e == [key |-> k, from |-> r, version |-> answers[r]]
      <3>2. ASSUME k \in Pool, revision' = [revision EXCEPT ![k] = answers[r]], events' = Append(events, e)
            PROVE  revision' \in [Pool -> 0..MaxVersion] /\ events' \in Seq(Event) /\ EventsOwn'
        <4>1. Own(e) /\ e \in Event
          BY <2>1, <3>2, AnswersReturn DEF Own, Event
        <4>. HIDE DEF k, e
        <4>2. events' \in Seq(Event) /\ DOMAIN events' = 1..Len(events) + 1
              /\ events'[Len(events) + 1] = e /\ \A i \in 1..Len(events) : events'[i] = events[i]
          BY <3>2, <4>1
        <4>3. \A i \in DOMAIN events' : Own(events'[i])
          <5>1. \A i \in 1..Len(events) : Own(events[i])
            BY DEF EventsOwn
          <5>2. \A i \in 1..Len(events) + 1 : i \in 1..Len(events) \/ i = Len(events) + 1
            OBVIOUS
          <5>. QED
            BY <4>1, <4>2, <5>1, <5>2
        <4>4. EventsOwn'
          BY <4>3 DEF EventsOwn, Own
        <4>. QED
          BY <2>1, <3>2, <4>2, <4>4, VersionsRange
      <3>. QED
        BY <1>8, <3>1, <3>2 DEF Dispatch
    <2>. QED
      BY <1>8, <2>2, <2>3 DEF Dispatch, TasksFit, ItemsOwn, ResultsOwn
  <1>9. ASSUME Receive PROVE KindsInv'
    <2>1. /\ events' \in Seq(Event) /\ Head(events) = events[1] /\ 1 \in DOMAIN events
          /\ \A i \in DOMAIN events' : i + 1 \in DOMAIN events /\ events'[i] = events[i + 1]
      BY <1>9 DEF Receive
    <2>2. Own(Head(events)) /\ EventsOwn'
      BY <2>1 DEF EventsOwn, Own
    <2>3. item' \in [Pool -> Entry] /\ ItemsOwn' /\ task' \in [Tasks -> TaskRecord] /\ TasksFit'
      BY <1>0, <1>9, <2>2, HandleKeeps DEF Receive
    <2>. QED
      BY <1>9, <2>1, <2>2, <2>3 DEF Receive, ResultsOwn
  <1>. QED
    BY <1>0, <1>1, <1>2, <1>3, <1>4, <1>5, <1>6, <1>7, <1>8, <1>9
       DEF KindsStep, LoadServiceRule, LoadServices, LoadServiceInstances, LoadConfigFile,
           LoadConfigGroupFiles, Loading, Serving, Receiving

\* Neither does telling the listeners,
LEMMA NotifyKeeps ==
    ASSUME KindsInv, NEW p \in Tasks, Notify(p)
    PROVE  KindsInv'
  <1>. USE DEF KindsInv, KindsTypeOK, control, connector
  <1>. DEFINE label == IF p = Receiver THEN "idle" ELSE "reading"
              t == [task[p] EXCEPT !.at = label, !.event = NoEvent]
  <1>1. t \in TaskRecord /\ t.at = label /\ t.load = task[p].load
    BY DEF TaskRecord
  <1>2. Fits(p, t)
    BY <1>1 DEF Fits, TasksFit, Notify, At
  <1>3. task' = [task EXCEPT ![p] = t]
    BY DEF Notify
  <1>. HIDE DEF t
  <1>4. task' \in [Tasks -> TaskRecord] /\ TasksFit'
    BY <1>1, <1>2, <1>3, MoveKeeps
  <1>. QED
    BY <1>4 DEF Notify, EventsOwn, ItemsOwn, ResultsOwn

\* nor a publication, which only the next answer brings.
LEMMA VersionKeeps ==
    ASSUME KindsInv, NEW r \in Pool, NewVersion(r)
    PROVE  KindsInv'
  BY KindsAssumption DEF KindsInv, KindsTypeOK, connector, NewVersion, EventsOwn, TasksFit, ItemsOwn,
     ResultsOwn

\* Files of an earlier process hold what was saved for their own resources.
LEMMA KindsStart == KindsInit => KindsInv
  <1>. SUFFICES ASSUME KindsInit PROVE KindsInv
    OBVIOUS
  <1>. USE DEF KindsInit
  <1>1. active \in Selections /\ active \subseteq Pool
    BY KindsAssumption
  <1>2. /\ latest \in [Pool -> 0..MaxVersion]
        /\ revision \in [Pool -> 0..MaxVersion]
        /\ answers \in [Pool -> 0..MaxVersion]
    BY VersionsRange
  <1>3. watch \in [Pool -> {"none", "submitted", "registered"}] /\ events \in Seq(Event) /\ EventsOwn
    BY DEF EventsOwn
  <1>4. item \in [Pool -> Entry] /\ ItemsOwn
    BY VersionsRange DEF NewItem, Nothing, Entry, Value, ItemsOwn
  <1>5. task \in [Tasks -> TaskRecord] /\ TasksFit
    BY KindsAssumption DEF Idle, TaskRecord, TasksFit, Fits
  <1>6. result \in [Loaders -> [of : Pool \cup {NoKey}, value : Value]] /\ ResultsOwn
    BY VersionsRange DEF Nothing, Value, ResultsOwn
  <1>7. disk \subseteq Saved
    BY <1>1, KindsAssumption DEF Saved
  <1>. QED
    BY <1>1, <1>2, <1>3, <1>4, <1>5, <1>6, <1>7 DEF KindsInv, KindsTypeOK

-----------------------------------------------------------------------------
(* The APIs on top of it                                                   *)

WatcherRecord == [at : {"idle", "registering", "adding", "watching", "cancelled"},
                  on : Watchable \cup {NoKey}, heard : 0..MaxVersion, since : 0..MaxVersion]

\* What can be watched are resources.
LEMMA WatchableKeys == /\ Watchable \subseteq Pool
                       /\ NoKey \notin Watchable
                       /\ NoKey \notin Files
                       /\ Files \subseteq Pool
  BY PoolKeys DEF Watchable, Files

\* A watcher keeps its type and its resource.
LEMMA WatchersKeep ==
    ASSUME ConfigTypeOK, WatcherInv, KindsTypeOK', ConfigNext
    PROVE  /\ claimed' \subseteq {r.type : r \in Watchable} /\ listening' \subseteq claimed'
           /\ watcher' \in [Watchers -> WatcherRecord] /\ WatcherInv'
  <1>. DEFINE Goal == /\ claimed' \subseteq {r.type : r \in Watchable} /\ listening' \subseteq claimed'
                      /\ watcher' \in [Watchers -> WatcherRecord] /\ WatcherInv'
  <1>. USE DEF ConfigTypeOK
  <1>0. watcher \in [Watchers -> WatcherRecord]
    BY DEF WatcherRecord
  <1>1. CASE UNCHANGED watching
    BY <1>0, <1>1 DEF watching, WatcherInv
  <1>2. ASSUME NEW p \in Tasks, Tell(p) PROVE Goal
    <2>. DEFINE e == task[p].event
    <2>1. e.version \in 0..MaxVersion
      BY KindsAssumption DEF KindsTypeOK, TaskRecord, Event, NoEvent
    <2>2. UNCHANGED <<claimed, listening>>
      BY <1>2 DEF Tell
    <2>3. watcher' = [w \in Watchers |-> IF w \in Called(e) THEN [watcher[w] EXCEPT !.heard = e.version]
                                         ELSE watcher[w]]
      BY <1>2 DEF Tell
    <2>. HIDE DEF e
    <2>4. ASSUME NEW w \in Watchers
          PROVE  /\ watcher'[w] \in WatcherRecord
                 /\ watcher'[w].at = watcher[w].at
                 /\ watcher'[w].on = watcher[w].on
      BY <1>0, <2>1, <2>3 DEF WatcherRecord
    <2>. QED
      BY <2>2, <2>3, <2>4 DEF WatcherInv
  <1>3. ASSUME NEW w \in Watchers, NEW r \in Watchable, BeginWatch(w, r) PROVE Goal
    <2>1. claimed' = claimed \cup {r.type} /\ listening' = listening
      BY <1>3 DEF BeginWatch
    <2>. DEFINE to == IF r.type \in claimed THEN "adding" ELSE "registering"
                v == [watcher[w] EXCEPT !.at = to, !.on = r]
    <2>2. watcher' = [watcher EXCEPT ![w] = v]
      BY <1>3 DEF BeginWatch
    <2>3. v \in WatcherRecord /\ v.at = to /\ v.on = r
      BY <1>0 DEF WatcherRecord
    <2>. HIDE DEF v
    <2>4. claimed' \subseteq {x.type : x \in Watchable} /\ listening' \subseteq claimed'
      BY <2>1
    <2>5. watcher' \in [Watchers -> WatcherRecord]
      BY <1>0, <2>2, <2>3
    <2>6. WatcherInv'
      BY <1>0, <2>1, <2>2, <2>3 DEF WatcherInv
    <2>. QED
      BY <2>4, <2>5, <2>6
  <1>4. ASSUME NEW w \in Watchers, RegisterListener(w) PROVE Goal
    <2>. DEFINE type == watcher[w].on.type
    <2>1. watcher[w].on \in Watchable /\ type \in claimed
      BY <1>4 DEF RegisterListener, WatcherInv
    <2>2. claimed' = claimed /\ listening' = listening \cup {type}
      BY <1>4 DEF RegisterListener
    <2>3. watcher' = [v \in Watchers |->
                 IF v = w THEN [watcher[v] EXCEPT !.at = "adding"]
                 ELSE IF watcher[v].at = "watching" /\ watcher[v].on.type = type
                      THEN [watcher[v] EXCEPT !.since = latest[watcher[v].on]]
                 ELSE watcher[v]]
      BY <1>4 DEF RegisterListener
    <2>. HIDE DEF type
    <2>4. ASSUME NEW v \in Watchers
          PROVE  /\ watcher'[v] \in WatcherRecord /\ watcher'[v].on = watcher[v].on
                 /\ (watcher'[v].at = watcher[v].at \/ (watcher'[v].at = "adding" /\ v = w))
      <3>1. CASE v = w
        BY <1>0, <2>3, <3>1 DEF WatcherRecord
      <3>2. CASE v # w /\ watcher[v].at = "watching" /\ watcher[v].on.type = type
        <4>1. latest[watcher[v].on] \in 0..MaxVersion
          BY <3>2, WatchableKeys DEF WatcherInv, KindsTypeOK
        <4>. QED
          BY <1>0, <2>3, <3>2, <4>1 DEF WatcherRecord
      <3>3. CASE v # w /\ ~(watcher[v].at = "watching" /\ watcher[v].on.type = type)
        BY <1>0, <2>3, <3>3
      <3>. QED
        BY <3>1, <3>2, <3>3
    <2>5. watcher' \in [Watchers -> WatcherRecord]
      BY <2>3, <2>4
    <2>. QED
      BY <1>4, <2>1, <2>2, <2>4, <2>5 DEF WatcherInv, RegisterListener, type
  <1>5. ASSUME NEW w \in Watchers, AddWatcher(w) PROVE Goal
    <2>1. latest[watcher[w].on] \in 0..MaxVersion
      BY <1>5, WatchableKeys DEF AddWatcher, WatcherInv, KindsTypeOK
    <2>. DEFINE v == [watcher[w] EXCEPT !.at = "watching", !.since = latest[watcher[w].on]]
    <2>2. watcher' = [watcher EXCEPT ![w] = v] /\ UNCHANGED <<claimed, listening>>
      BY <1>5 DEF AddWatcher
    <2>3. v \in WatcherRecord /\ v.at = "watching" /\ v.on = watcher[w].on
      BY <1>0, <2>1 DEF WatcherRecord
    <2>4. watcher[w].at # "idle"
      BY <1>5 DEF AddWatcher
    <2>. HIDE DEF v
    <2>. QED
      BY <1>0, <2>2, <2>3, <2>4 DEF WatcherInv
  <1>6. ASSUME NEW w \in Watchers, CancelWatch(w) PROVE Goal
    <2>. DEFINE v == [watcher[w] EXCEPT !.at = "cancelled"]
    <2>2. watcher' = [watcher EXCEPT ![w] = v] /\ UNCHANGED <<claimed, listening>> /\ watcher[w].at # "idle"
      BY <1>6 DEF CancelWatch, Step
    <2>3. v \in WatcherRecord /\ v.at = "cancelled" /\ v.on = watcher[w].on
      BY <1>0 DEF WatcherRecord
    <2>. HIDE DEF v
    <2>. QED
      BY <1>0, <2>2, <2>3 DEF WatcherInv
  <1>7. ASSUME NEW q \in Publishers, (\E r \in Files : BeginPublish(q, r)) \/ Publishing(q)
        PROVE  UNCHANGED watching
    BY <1>7 DEF BeginPublish, Publishing, UpdateFile, CreateFile, RetryUpdate, ReleaseFile, CallFails
  <1>. QED
    BY <1>1, <1>2, <1>3, <1>4, <1>5, <1>6, <1>7 DEF ConfigNext

PublisherRecord == [at : {"idle", "update", "create", "retry", "release", "published", "failed", "lost"},
                    file : Files \cup {NoKey}]

\* A publisher moves on, and what it has stored stays there.
LEMMA PublisherMoves ==
    ASSUME stored \in [Files -> Publishers \cup {"absent"}], publisher \in [Publishers -> PublisherRecord],
           PublisherInv, NEW q \in Publishers, publisher[q].at # "idle",
           NEW label \in {"update", "create", "retry", "release", "published", "lost"}, Become(q, label),
           stored' = stored \/ stored' = [stored EXCEPT ![publisher[q].file] = q],
           label = "retry" => Has(publisher[q].file)
    PROVE  /\ stored' \in [Files -> Publishers \cup {"absent"}]
           /\ publisher' \in [Publishers -> PublisherRecord] /\ PublisherInv'
  <1>. DEFINE v == [publisher[q] EXCEPT !.at = label]
  <1>1. publisher' = [publisher EXCEPT ![q] = v]
    BY DEF Become
  <1>2. v \in PublisherRecord /\ v.at = label /\ v.file = publisher[q].file /\ v.file \in Files
    BY DEF PublisherRecord, PublisherInv
  <1>3. stored' \in [Files -> Publishers \cup {"absent"}]
    OBVIOUS
  <1>4. \A r \in Files : Has(r) => Has(r)'
    BY ConfigAssumption DEF Has
  <1>. HIDE DEF v
  <1>5. publisher' \in [Publishers -> PublisherRecord] /\ publisher'[q] = v
        /\ \A p \in Publishers \ {q} : publisher'[p] = publisher[p]
    BY <1>1, <1>2
  <1>. QED
    BY <1>2, <1>3, <1>4, <1>5 DEF PublisherInv

\* So the retry of an update finds the file.
LEMMA PublishersKeep ==
    ASSUME ConfigTypeOK, PublisherInv, ConfigNext
    PROVE  /\ stored' \in [Files -> Publishers \cup {"absent"}]
           /\ publisher' \in [Publishers -> PublisherRecord] /\ PublisherInv'
  <1>. DEFINE Goal == /\ stored' \in [Files -> Publishers \cup {"absent"}]
                      /\ publisher' \in [Publishers -> PublisherRecord] /\ PublisherInv'
  <1>0. stored \in [Files -> Publishers \cup {"absent"}] /\ publisher \in [Publishers -> PublisherRecord]
    BY DEF ConfigTypeOK, PublisherRecord
  <1>1. CASE UNCHANGED publishing
    BY <1>0, <1>1 DEF publishing, PublisherInv, Has
  <1>2. ASSUME NEW q \in Publishers, NEW r \in Files, BeginPublish(q, r) PROVE Goal
    <2>. DEFINE v == [publisher[q] EXCEPT !.at = "update", !.file = r]
    <2>1. publisher' = [publisher EXCEPT ![q] = v] /\ stored' = stored
      BY <1>2 DEF BeginPublish
    <2>2. v \in PublisherRecord /\ v.at = "update" /\ v.file = r
      BY <1>0 DEF PublisherRecord
    <2>. HIDE DEF v
    <2>. QED
      BY <1>0, <2>1, <2>2 DEF PublisherInv, Has
  <1>3. ASSUME NEW q \in Publishers, UpdateFile(q) PROVE Goal
    BY <1>0, <1>3, PublisherMoves DEF UpdateFile
  <1>4. ASSUME NEW q \in Publishers, CreateFile(q) PROVE Goal
    BY <1>0, <1>4, PublisherMoves DEF CreateFile
  \* The file somebody else created is still there.
  <1>5. ASSUME NEW q \in Publishers, RetryUpdate(q) PROVE Goal
    BY <1>0, <1>5, PublisherMoves DEF RetryUpdate, PublisherInv
  <1>6. ASSUME NEW q \in Publishers, ReleaseFile(q) PROVE Goal
    BY <1>0, <1>6, PublisherMoves DEF ReleaseFile
  <1>7. ASSUME NEW q \in Publishers, CallFails(q) PROVE Goal
    BY <1>0, <1>7, PublisherMoves DEF CallFails
  <1>8. ASSUME NEW w \in Watchers,
               \/ \E r \in Watchable : BeginWatch(w, r)
               \/ RegisterListener(w) \/ AddWatcher(w) \/ CancelWatch(w)
        PROVE UNCHANGED publishing
    BY <1>8 DEF BeginWatch, RegisterListener, AddWatcher, CancelWatch
  <1>9. ASSUME NEW p \in Tasks, Tell(p) PROVE UNCHANGED publishing
    BY <1>9 DEF Tell
  <1>. QED
    BY <1>1, <1>2, <1>3, <1>4, <1>5, <1>6, <1>7, <1>8, <1>9 DEF ConfigNext, Publishing

-----------------------------------------------------------------------------
(* The theorems                                                            *)

\* The cache, its connector and its files only move by their own steps.
LEMMA KindsMove == KindsInv /\ [ConfigNext]_configVars => KindsInv'
  <1>. SUFFICES ASSUME KindsInv, [ConfigNext]_configVars PROVE KindsInv'
    OBVIOUS
  <1>1. CASE UNCHANGED kindsVars
    BY <1>1 DEF kindsVars, control, connector, KindsInv, KindsTypeOK, EventsOwn, TasksFit, ItemsOwn,
       ResultsOwn
  <1>2. CASE KindsStep
    BY <1>2, KindsKeep
  <1>3. CASE \E r \in Pool : NewVersion(r)
    BY <1>3, VersionKeeps
  <1>4. CASE \E p \in Tasks : Notify(p)
    BY <1>4, NotifyKeeps
  <1>5. ASSUME NEW w \in Watchers,
               \/ \E r \in Watchable : BeginWatch(w, r)
               \/ RegisterListener(w) \/ AddWatcher(w) \/ CancelWatch(w)
        PROVE UNCHANGED kindsVars
    BY <1>5 DEF BeginWatch, RegisterListener, AddWatcher, CancelWatch
  <1>6. ASSUME NEW q \in Publishers,
               \/ \E r \in Files : BeginPublish(q, r)
               \/ UpdateFile(q) \/ CreateFile(q) \/ RetryUpdate(q) \/ CallFails(q)
        PROVE UNCHANGED kindsVars
    BY <1>6 DEF BeginPublish, UpdateFile, CreateFile, RetryUpdate, CallFails
  <1>7. ASSUME NEW q \in Publishers, ReleaseFile(q)
        PROVE  \E r \in Pool : NewVersion(r)
    <2>1. NewVersion(publisher[q].file)
      BY <1>7 DEF ReleaseFile
    <2>2. active \subseteq Pool
      BY KindsAssumption DEF KindsInv, KindsTypeOK
    <2>. QED
      BY <2>1, <2>2 DEF NewVersion
  <1>. QED
    BY <1>1, <1>2, <1>3, <1>4, <1>5, <1>6, <1>7 DEF ConfigNext, configVars, Tell, Publishing

\* The invariant holds of the whole of it.
LEMMA ConfigInvariant == ConfigSpec => []ConfigInv
  <1>1. ConfigInit => ConfigInv
    <2>. SUFFICES ASSUME ConfigInit PROVE ConfigInv
      OBVIOUS
    <2>1. KindsInv
      BY KindsStart DEF ConfigInit
    <2>2. watcher \in [Watchers -> WatcherRecord] /\ publisher \in [Publishers -> PublisherRecord]
      BY VersionsRange DEF ConfigInit, WatcherRecord, PublisherRecord
    <2>3. ConfigTypeOK
      BY <2>1, <2>2 DEF ConfigInit, ConfigTypeOK, KindsInv, WatcherRecord, PublisherRecord
    <2>. QED
      BY <2>1, <2>3 DEF ConfigInit, ConfigInv, WatcherInv, PublisherInv
  <1>2. ConfigInv /\ [ConfigNext]_configVars => ConfigInv'
    <2>. SUFFICES ASSUME ConfigInv, [ConfigNext]_configVars PROVE ConfigInv'
      OBVIOUS
    <2>1. KindsInv'
      BY KindsMove DEF ConfigInv
    <2>2. CASE ConfigNext
      <3>1. ConfigTypeOK' /\ WatcherInv' /\ PublisherInv'
        BY <2>1, <2>2, WatchersKeep, PublishersKeep
           DEF ConfigInv, ConfigTypeOK, KindsInv, WatcherRecord, PublisherRecord
      <3>. QED
        BY <2>1, <3>1 DEF ConfigInv
    <2>3. CASE UNCHANGED configVars
      BY <2>1, <2>3 DEF configVars, watching, publishing, ConfigInv, ConfigTypeOK, KindsInv, WatcherInv,
         PublisherInv, Has
    <2>. QED
      BY <2>2, <2>3
  <1>. QED
    BY <1>1, <1>2, PTL DEF ConfigSpec

\* Events, files, entries, watchers and publishers keep their types, whatever
\* resources a process uses and whatever files an earlier one left.
THEOREM ConfigTypeCorrect == ConfigSpec => []ConfigTypeOK
  <1>1. ConfigInv => ConfigTypeOK
    BY DEF ConfigInv
  <1>. QED
    BY <1>1, ConfigInvariant, PTL

\* An entry holds, and a load returns, only what was published for that very
\* resource: the five tables of the kinds agree, and nothing else could mix
\* the answers and the files of several resources up.
THEOREM OwnValues == ConfigSpec => []ValuesAreOwn
  <1>1. ConfigInv => ValuesAreOwn
    BY DEF ConfigInv, KindsInv, ItemsOwn, ResultsOwn, ValuesAreOwn
  <1>. QED
    BY <1>1, ConfigInvariant, PTL

\* A publisher that finds the file missing, and then there, finds it there
\* again: racing upserts do not fail each other.
THEOREM UpsertsSucceed == ConfigSpec => []RacingUpsertsSucceed
  <1>1. ConfigInv => RacingUpsertsSucceed
    BY DEF ConfigInv, PublisherInv, RacingUpsertsSucceed
  <1>. QED
    BY <1>1, ConfigInvariant, PTL
=============================================================================
