---------------------------- MODULE MCQuotaLease ----------------------------
(* Small instances of QuotaLease for TLC.                                  *)
EXTENDS QuotaLease, TLC

CONSTANTS qps, token, concurrency

Mixed == {qps, token, concurrency}
MixedQuotas == <<qps, token, concurrency>>
OneOfEach == [r \in Mixed |-> 1]
Initially == [r \in Mixed |-> IF r = qps THEN 1 ELSE 0]

\* Token is counted by the server, the others in process.
TokenDistributed == {token}
=============================================================================
