------------------------------ MODULE Identity ------------------------------
(***************************************************************************)
(* IdentityRuntime (core/identity.rs): the descriptor watch, the worker    *)
(* that keeps a workload credential for the descriptor it was last sent,   *)
(* and the shutdown, with the credential kept in IdentityState             *)
(* (identity/mod.rs).                                                      *)
(*                                                                         *)
(* The handler of the connector, the worker and the thread that drops the  *)
(* engine run concurrently; the worker is aborted at its awaits only.  Its *)
(* labels are the points where another of them may come in between.        *)
(*                                                                         *)
(* The content of descriptors and credentials is abstracted to the         *)
(* revision, times and whether validate_credential accepts; the back-off   *)
(* to a sleep of any length.                                               *)
(***************************************************************************)
EXTENDS Naturals

CONSTANTS
    Lifetime,      \* of the credentials the control plane issues
    RenewAfter,    \* when it wants them renewed
    MaxRevision,   \* bound of the model: descriptors published
    MaxFailures,   \* bound of the model: failing answers
    MaxTime        \* bound of the model: time

ASSUME IdentityAssumption ==
    /\ Lifetime \in Nat /\ RenewAfter \in Nat /\ RenewAfter < Lifetime
    /\ MaxRevision \in Nat \ {0} /\ MaxFailures \in Nat /\ MaxTime \in Nat

VARIABLES
    published,   \* revision of the control plane's descriptor, 0 for none
    descriptor,  \* revision in the watch channel, 0 for None
    unseen,      \* would descriptor_rx.changed() return at once?
    at,          \* where the worker is
    working,     \* the descriptor its iteration began with
    answer,      \* what the control plane answered the worker, see Answer
    credential,  \* IdentityState.credential, see NoCredential
    drop,        \* how far the drop of the runtime is
    late,        \* history: the drop cleared while the worker had an answer
    failures,
    now

channel == <<descriptor, unseen>>
worker == <<at, working, answer>>
shutdown == <<drop, late>>
vars == <<published, channel, worker, credential, shutdown, failures, now>>

Revision == 0..MaxRevision
Credential == [revision : Revision, renew : 0..MaxTime + RenewAfter, expires : 0..MaxTime + Lifetime]
NoCredential == [revision |-> 0, renew |-> 0, expires |-> 0]
NoAnswer == [given |-> FALSE, ok |-> FALSE, credential |-> NoCredential]
Answer == [given : BOOLEAN, ok : BOOLEAN, credential : Credential]

Awaits == {"lacking", "waiting", "issuing", "renewing", "sleeping"}
Labels == Awaits \cup {"top", "choosing", "answered", "storing", "gone"}

Init ==
    /\ published = 0 /\ descriptor = 0 /\ unseen = FALSE
    /\ at = "top" /\ working = 0 /\ answer = NoAnswer
    /\ credential = NoCredential
    /\ drop = "running" /\ late = FALSE
    /\ failures = 0 /\ now = 0

-----------------------------------------------------------------------------
(* The control plane and the handler of its descriptors                    *)

Publish ==
    /\ published < MaxRevision
    /\ published' = published + 1
    /\ UNCHANGED <<channel, worker, credential, shutdown, failures, now>>

\* handle_event; the connector may skip descriptors but not go back.
HandleDescriptor ==
    /\ descriptor < published
    /\ descriptor' \in descriptor + 1..published
    /\ unseen' = TRUE
    /\ UNCHANGED <<published, worker, credential, shutdown, failures, now>>

\* An issue or a renewal is answered, or fails.
Serve ==
    /\ at \in {"issuing", "renewing"} /\ ~answer.given
    /\ \/ /\ answer' = [given |-> TRUE, ok |-> TRUE, credential |->
                [revision |-> working, renew |-> now + RenewAfter, expires |-> now + Lifetime]]
          /\ UNCHANGED failures
       \/ /\ failures < MaxFailures
          /\ failures' = failures + 1
          /\ answer' = [NoAnswer EXCEPT !.given = TRUE]
    /\ UNCHANGED <<published, channel, at, working, credential, shutdown, now>>

Tick ==
    /\ now < MaxTime
    /\ now' = now + 1
    /\ UNCHANGED <<published, channel, worker, credential, shutdown, failures>>

-----------------------------------------------------------------------------
(* run_credential_worker                                                   *)

\* An await goes on unless the task has been aborted.
Awake == drop \in {"running", "stopped"}

\* The head of the loop: the flag, then the descriptor.
Top ==
    /\ at = "top"
    /\ at' = IF drop # "running" THEN "gone" ELSE IF descriptor = 0 THEN "lacking" ELSE "choosing"
    /\ working' = descriptor
    /\ UNCHANGED <<published, channel, answer, credential, shutdown, failures, now>>

\* descriptor_rx.changed() while there is none; the inner loop borrows again.
FirstDescriptor ==
    /\ at = "lacking" /\ unseen /\ Awake
    /\ unseen' = FALSE
    /\ working' = descriptor
    /\ at' = "choosing"
    /\ UNCHANGED <<published, descriptor, answer, credential, shutdown, failures, now>>

\* credential_refresh_action
Holds == credential.revision = working /\ credential.expires > now
Due == credential.renew <= now

\* Mutant: what was sent since the descriptor was borrowed counts as seen.
Wait_MarksSeen ==
    /\ at = "choosing" /\ Holds /\ ~Due
    /\ at' = "waiting"
    /\ unseen' = FALSE
    /\ UNCHANGED <<published, descriptor, working, answer, credential, shutdown, failures, now>>

Wait ==
    /\ at = "choosing" /\ Holds /\ ~Due
    /\ at' = "waiting"
    /\ UNCHANGED <<published, channel, working, answer, credential, shutdown, failures, now>>

\* The sleep is over or the descriptor changed.
Wake ==
    /\ at = "waiting" /\ Awake
    /\ \/ credential.renew <= now /\ UNCHANGED unseen
       \/ unseen /\ unseen' = FALSE
    /\ at' = "top"
    /\ UNCHANGED <<published, descriptor, working, answer, credential, shutdown, failures, now>>

Renew ==
    /\ at = "choosing" /\ Holds /\ Due
    /\ at' = "renewing"
    /\ UNCHANGED <<published, channel, working, answer, credential, shutdown, failures, now>>

\* Mutant: the credential is kept until another one is issued.
Issue_KeepsOld ==
    /\ at = "choosing" /\ ~Holds
    /\ at' = "issuing"
    /\ UNCHANGED <<published, channel, working, answer, credential, shutdown, failures, now>>

Issue ==
    /\ at = "choosing" /\ ~Holds
    /\ credential' = NoCredential
    /\ at' = "issuing"
    /\ UNCHANGED <<published, channel, working, answer, shutdown, failures, now>>

Answered ==
    /\ at \in {"issuing", "renewing"} /\ answer.given /\ Awake
    /\ at' = "answered"
    /\ UNCHANGED <<published, channel, working, answer, credential, shutdown, failures, now>>

\* The descriptor changed under the request: its answer is thrown away.
Discard ==
    /\ at = "answered" /\ descriptor # working
    /\ credential' = NoCredential
    /\ answer' = NoAnswer
    /\ at' = "top"
    /\ UNCHANGED <<published, channel, working, shutdown, failures, now>>

\* It did not, and credential_snapshot accepts the answer.
Valid(a) == a.ok /\ a.credential.expires > now

Accept ==
    /\ at = "answered" /\ descriptor = working /\ Valid(answer)
    /\ at' = "storing"
    /\ UNCHANGED <<published, channel, working, answer, credential, shutdown, failures, now>>

\* replace_credential
Store ==
    /\ at = "storing"
    /\ credential' = answer.credential
    /\ answer' = NoAnswer
    /\ at' = "top"
    /\ UNCHANGED <<published, channel, working, shutdown, failures, now>>

\* It does not: the worker sleeps, whatever descriptors come meanwhile.
Refuse ==
    /\ at = "answered" /\ descriptor = working /\ ~Valid(answer)
    /\ answer' = NoAnswer
    /\ at' = "sleeping"
    /\ UNCHANGED <<published, channel, working, credential, shutdown, failures, now>>

Retry ==
    /\ at = "sleeping" /\ Awake
    /\ at' = "top"
    /\ UNCHANGED <<published, channel, working, answer, credential, shutdown, failures, now>>

-----------------------------------------------------------------------------
(* Drop                                                                    *)

MarkStopped ==
    /\ drop = "running"
    /\ drop' = "stopped"
    /\ UNCHANGED <<published, channel, worker, credential, late, failures, now>>

Abort ==
    /\ drop = "stopped"
    /\ drop' = "aborted"
    /\ UNCHANGED <<published, channel, worker, credential, late, failures, now>>

\* clear_credential; the abort has not been waited for.
Withdraw ==
    /\ drop = "aborted"
    /\ credential' = NoCredential
    /\ drop' = "dropped"
    /\ late' = (at \in {"answered", "storing"})
    /\ UNCHANGED <<published, channel, worker, failures, now>>

\* The runtime drops the aborted task when it next yields.
Cancelled ==
    /\ ~Awake /\ at \in Awaits
    /\ at' = "gone"
    /\ answer' = NoAnswer
    /\ UNCHANGED <<published, channel, working, credential, shutdown, failures, now>>

-----------------------------------------------------------------------------
Worker ==
    \/ Top \/ FirstDescriptor \/ Wait \/ Wake \/ Renew \/ Issue \/ Answered
    \/ Discard \/ Accept \/ Store \/ Refuse \/ Retry \/ Cancelled

Drop == MarkStopped \/ Abort \/ Withdraw

Next == Worker \/ Drop \/ Serve \/ Publish \/ HandleDescriptor \/ Tick

Spec == Init /\ [][Next]_vars

\* The worker and the clock go on, and the control plane answers: the code
\* sets no timeout on its requests.  The engine need not be dropped.
FairSpec == Spec /\ WF_vars(Worker) /\ WF_vars(Serve) /\ WF_vars(Tick)

-----------------------------------------------------------------------------
(* Properties                                                              *)

\* Every variable has its type, and an answer is held only by an iteration
\* that has made a request.
TypeOK ==
    /\ published \in Revision /\ descriptor \in 0..published /\ unseen \in BOOLEAN
    /\ at \in Labels /\ working \in 0..descriptor
    /\ answer \in Answer
    /\ answer.given => at \in {"issuing", "renewing", "answered", "storing"}
    /\ credential \in Credential
    /\ drop \in {"running", "stopped", "aborted", "dropped"} /\ late \in BOOLEAN
    /\ failures \in 0..MaxFailures /\ now \in 0..MaxTime

Ready == credential.revision = descriptor /\ credential.expires > now

\* A credential of a superseded descriptor is found only until the worker turns to
\* the one in force: the change has still to be seen, or it is being acted upon at
\* the head of the loop.  That may take as long as a request or a back-off does,
\* during which the credential is still put into requests.  From then on the worker
\* leaves none but one of the descriptor it works for, and asks for the first of
\* them empty-handed.
SupersededIsNoticed ==
    /\ credential # NoCredential /\ credential.revision # descriptor =>
           unseen \/ at \in {"top", "choosing", "gone"}
    /\ at \in {"waiting", "issuing", "renewing", "answered", "storing", "sleeping"} =>
           credential = NoCredential \/ credential.revision = working
    /\ at = "issuing" => credential = NoCredential

\* When the runtime has been dropped and its worker has ended, whoever still holds
\* the identity finds a credential only if the drop withdrew it between the answer
\* and its storing: then that one is stored, and found until it expires.
DropWithdraws == drop = "dropped" /\ at = "gone" /\ credential # NoCredential => late

\* A credential taken back by a new descriptor goes when the worker turns to that,
\* and one taken back by the drop of the runtime goes with it, but for the answer
\* that was on its way into the store.
NoStaleCredential == SupersededIsNoticed /\ DropWithdraws

\* Once there is a descriptor, a valid credential for the last one is found in
\* the end, however descriptors, failures and renewals follow each other, or
\* the runtime is dropped.
CredentialCatchesUp == (descriptor # 0) ~> (Ready \/ drop # "running")
=============================================================================
