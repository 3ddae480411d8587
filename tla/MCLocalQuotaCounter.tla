------------------------- MODULE MCLocalQuotaCounter -------------------------
(***************************************************************************)
(* Small instances of LocalQuotaCounter.                                   *)
(***************************************************************************)
EXTENDS LocalQuotaCounter, TLC

CONSTANTS l1, l2, qps, token, conc, second, minute, tokens, occupied

LeaseSymmetry == Permutations(LeaseIds)

\* A QPS trigger limited to 2 per tick and 3 per two ticks, a token trigger of
\* 3 per two ticks whose first amount, zero, is no limit, and a concurrency
\* trigger of 1.
AllTriggers == {qps, token, conc}
AllKeys     == {second, minute, tokens, occupied}
ResourceOf  == [t \in AllTriggers |->
                  CASE t = qps -> "Qps" [] t = token -> "Token" [] t = conc -> "Concurrency"]
AmountsOf   == [t \in AllTriggers |->
                  CASE t = qps   -> <<[key |-> second, max |-> 2], [key |-> minute, max |-> 3]>>
                    [] t = token -> <<[key |-> second, max |-> 0], [key |-> tokens, max |-> 3]>>
                    [] t = conc  -> <<[key |-> occupied, max |-> 1]>>]
DurationOf  == [k \in AllKeys |-> IF k = second THEN 1 ELSE 2]
=============================================================================
