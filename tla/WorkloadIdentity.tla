-------------------------- MODULE WorkloadIdentity --------------------------
(***************************************************************************)
(* Both ends of a workload identity: the engine that keeps a credential    *)
(* (Identity) and the one that verifies credentials (TrustBundle).  They   *)
(* are two processes that share nothing but the passing of time, so a      *)
(* behaviour follows one of them.                                          *)
(***************************************************************************)
EXTENDS Identity, FiniteSets

CONSTANTS Keys, Ids, MaxListed, MaxSequence, BundleLife, TokenLife, Skew,
    CalleeTime  \* MaxTime of the verifier

ASSUME TrustAssumption ==
    /\ Keys # {} /\ IsFiniteSet(Keys) /\ MaxListed \in Nat /\ MaxSequence \in Nat /\ BundleLife \in Nat /\ TokenLife \in Nat
    /\ Skew \in Nat /\ CalleeTime \in Nat

VARIABLES side, bundles, bundle, request, newest, accepted

verifier == <<bundles, bundle, request, newest, accepted>>

T == INSTANCE TrustBundle WITH MaxTime <- CalleeTime

BothInit == Init /\ T!TrustInit /\ side \in {"caller", "callee"}

Caller(A) == side = "caller" /\ A /\ UNCHANGED <<side, verifier>>

Callee ==
    /\ side = "callee" /\ T!TrustNext
    /\ UNCHANGED <<side, published, channel, worker, credential, shutdown, failures>>

BothNext == Caller(Next) \/ Callee

bothVars == <<vars, side, verifier>>

\* The fairness of Identity; nothing is asked of the verifier.
BothSpec ==
    /\ BothInit /\ [][BothNext]_bothVars
    /\ WF_bothVars(Caller(Worker)) /\ WF_bothVars(Caller(Serve)) /\ WF_bothVars(Caller(Tick))

-----------------------------------------------------------------------------
(* Properties                                                              *)

\* What is left of a credential that was taken back.  The holder finds one of an
\* earlier descriptor only until its worker turns to the one in force, and after the
\* drop of the runtime only one whose answer the worker already had.  A verifier
\* accepts none that the newest bundle it has taken revokes or whose key that bundle
\* withdraws.
NoStaleIdentity == NoStaleCredential /\ T!RevokedStaysRefused
=============================================================================
