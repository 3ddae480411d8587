--------------------------- MODULE MCQuotaSession ---------------------------
(* Small instances of QuotaSession for TLC.                                *)
EXTENDS QuotaSession

CONSTANTS c1, c2, c3

ThreeCalls == {c1, c2, c3}

\* The calls the caller may drop: the last one always runs to its end.
MostCalls == {c1, c2}
=============================================================================
