---------------------------- MODULE TrustBundle ----------------------------
(***************************************************************************)
(* The verifier's end of a workload identity: the trust bundles that       *)
(* TrustBundleResourceHandler (core/identity.rs) takes from the control    *)
(* plane, and WorkloadIdentity (identity/mod.rs), which puts a credential  *)
(* into a request and verifies the one a request carries.                  *)
(*                                                                         *)
(* Bundles come from several nodes of the control plane: an answer may be  *)
(* late, come from a node that lags behind, or from one that published     *)
(* other content under the same sequence.  A verification reads the clock  *)
(* first and the bundle later.                                             *)
(*                                                                         *)
(* A token whose form, signature, claims or audience are refused is        *)
(* Malformed, and so is the lack of one and a second one.                  *)
(***************************************************************************)
EXTENDS Naturals, FiniteSets

CONSTANTS
    Keys,         \* key ids of the control plane
    Ids,          \* ids of credentials
    MaxListed,    \* bound of the model: keys a bundle lists, one listed twice counted twice
    MaxSequence,  \* bound of the model: sequence numbers of bundles
    BundleLife,   \* how long a bundle is good for
    TokenLife,    \* how long a credential is good for
    Skew,         \* CLOCK_SKEW_SECONDS
    MaxTime       \* bound of the model: time

VARIABLES
    bundles,   \* the control plane's bundles: those of a sequence differ by version or content
    bundle,    \* IdentityState.trust_bundle
    request,   \* the request under way, see NoRequest
    newest,    \* history: the content of the newest bundle ever taken
    accepted,  \* history: the token just accepted, and newest at that time
    now

Time == 0..MaxTime + Skew + 1
\* subject is one past the last second whose credentials are revoked, 0 for none.
\* keys are the keys a bundle lists, which may be listed twice; size is how many.
Content == [version : {1, 2}, sequence : 0..MaxSequence, keys : SUBSET Keys, size : 0..MaxListed,
            subject : 0..MaxTime + 1, revoked : SUBSET Ids]
NoContent == [version |-> 1, sequence |-> 0, keys |-> {}, size |-> 0, subject |-> 0, revoked |-> {}]
NoBundle == [content |-> NoContent, from |-> 0, until |-> 0]
Token == [id : Ids, key : Keys, issued : Time]
Malformed == [id |-> "none"]
NoRequest == [at |-> "none"]

TrustInit ==
    /\ bundles = {} /\ bundle = NoBundle /\ request = NoRequest
    /\ newest = NoContent /\ accepted = {}

-----------------------------------------------------------------------------
(* The control plane                                                       *)

\* A list of keys has at least as many entries as keys.
Lists(c) == Cardinality(c.keys) <= c.size /\ (c.keys = {} => c.size = 0)
EachOnce(c) == c.size = Cardinality(c.keys)

Last == {b \in bundles : \A c \in bundles : c.sequence <= b.sequence}

\* A new sequence rotates keys and revokes more than the ones before; a key of
\* another algorithm, or neither active nor retiring, is not among keys.
PublishBundle(c) ==
    /\ \A b \in bundles : /\ b.sequence < c.sequence
                          /\ b.subject <= c.subject /\ b.revoked \subseteq c.revoked
    /\ c.sequence = 1 + (IF bundles = {} THEN 0 ELSE (CHOOSE b \in Last : TRUE).sequence)
    /\ c.version = 1 /\ Lists(c) /\ c.subject \in {0, now + 1} \cup {b.subject : b \in bundles}
    /\ bundles' = bundles \cup {c}
    /\ accepted' = {}
    /\ UNCHANGED <<bundle, request, newest, now>>

\* Another node has used the sequence for something else: another version,
\* fewer revocations or as many other keys; bound: once.
Fork(b) ==
    /\ \A c, d \in bundles : c.sequence = d.sequence => c = d
    /\ \E c \in Content :
          /\ Lists(c)
          /\ \/ c = [b EXCEPT !.version = 2]
             \/ c = [b EXCEPT !.revoked = {}, !.subject = 0]
             \/ c = [b EXCEPT !.keys = c.keys]
          /\ bundles' = bundles \cup {c}
    /\ accepted' = {}
    /\ UNCHANGED <<bundle, request, newest, now>>

-----------------------------------------------------------------------------
(* TrustBundleResourceHandler                                              *)

\* convert_trust_bundle: the windows of the keys default to the bundle's.
Converts(c, until) == until > now /\ c.keys # {}

\* same_trust_bundle_security_content: as many keys, and each that is held is
\* listed by the candidate; where one is held twice, the candidate may list
\* another beside it.
SameContent(held, c) ==
    /\ held.version = c.version
    /\ held.size = c.size /\ held.keys \subseteq c.keys
    /\ held.subject = c.subject /\ held.revoked = c.revoked

\* replace_trust_bundle
\* Mutant: any other bundle replaces the one that is held.
Replaces_Anything(c) == bundle.content.sequence = c.sequence => bundle.content.version = c.version

Replaces(c) ==
    \/ bundle.content.sequence < c.sequence
    \/ bundle.content.sequence = c.sequence /\ SameContent(bundle.content, c)

\* An answer issued at some time up to now, which was good for BundleLife.
TakeBundle(c, from) ==
    /\ from <= now
    /\ Converts(c, from + BundleLife) /\ Replaces(c)
    /\ bundle' = [content |-> c, from |-> from, until |-> from + BundleLife]
    /\ newest' = IF newest.sequence < c.sequence THEN c ELSE newest
    /\ accepted' = {}
    /\ UNCHANGED <<bundles, request, now>>

-----------------------------------------------------------------------------
(* WorkloadIdentity                                                        *)

Expires(t) == t.issued + TokenLife

\* inject_http and the client's interceptor: the current credential, unless it
\* has expired; the issuer's clock may be ahead.
Inject(t) ==
    /\ request = NoRequest
    /\ t # Malformed => t.issued <= now + Skew + 1 /\ Expires(t) > now
    /\ request' = [at |-> "sent", token |-> t]
    /\ accepted' = {}
    /\ UNCHANGED <<bundles, bundle, newest, now>>

\* verify_headers and the server's interceptor: one header, and the clock is read.
BeginVerify ==
    /\ request.at = "sent"
    /\ request' = [at |-> "read", token |-> request.token, now |-> now]
    /\ UNCHANGED <<bundles, bundle, newest, accepted, now>>

Revoked(t, c) == t.id \in c.revoked \/ t.issued < c.subject

\* verify_jwt_at
Verified(t, time) ==
    /\ t # Malformed
    /\ bundle.content.sequence # 0 /\ bundle.until > time
    /\ t.key \in bundle.content.keys /\ bundle.from <= time
    /\ t.issued <= time + Skew /\ Expires(t) > time
    /\ ~Revoked(t, bundle.content)

Verify ==
    /\ request.at = "read"
    /\ accepted' = IF Verified(request.token, request.now)
                   THEN {[token |-> request.token, now |-> request.now, newest |-> newest]} ELSE {}
    /\ request' = NoRequest
    /\ UNCHANGED <<bundles, bundle, newest, now>>

TrustTick ==
    /\ now < MaxTime
    /\ now' = now + 1
    /\ accepted' = {}
    /\ UNCHANGED <<bundles, bundle, request, newest>>

TrustNext ==
    \/ \E c \in Content : PublishBundle(c)
    \/ \E b \in bundles : Fork(b)
    \/ \E c \in bundles, from \in 0..MaxTime : TakeBundle(c, from)
    \/ \E t \in Token \cup {Malformed} : Inject(t)
    \/ BeginVerify \/ Verify \/ TrustTick

-----------------------------------------------------------------------------
(* Properties                                                              *)

\* Whatever order bundles come in, a token that is accepted has not expired, and
\* it is one the newest bundle taken until then accepts: it has not been revoked,
\* and, where that bundle lists each of its keys once, its key has not been
\* withdrawn, by late, lagging or contradicting answers neither.  (A bundle that
\* lists a key twice can be followed by one of the same sequence with a key more.)
RevokedStaysRefused ==
    \A a \in accepted :
        /\ ~Revoked(a.token, a.newest)
        /\ EachOnce(a.newest) => a.token.key \in a.newest.keys
        /\ Expires(a.token) > a.now
=============================================================================
