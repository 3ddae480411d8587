--------------------------- MODULE MCQuotaManager ----------------------------
(* Two limits, the rule of one of which is revised in a way an Init does not *)
(* show; the two requests hash                                              *)
(* to different servers, so that they share a limit but not its window; a     *)
(* third has a limit without a total.                                        *)
EXTENDS QuotaManager, TLC

Want(limit, revision) == [limit |-> limit, revision |-> revision]
MCServers == <<"e1", "e2">>
MCRequests == {<<Want("qps", 1), Want("token", 1)>>, <<Want("qps", 2)>>, <<Want("bare", 1)>>}
MCBare == {Want("bare", 1)}
MCViews == {{"e1", "e2"}}
MCCarries == [l \in {"qps", "token", "bare"}, r \in {1, 2} |-> l]
MCHash == (<<"qps", "token">> :> 0) @@ (<<"qps">> :> 1) @@ (<<"bare">> :> 1)
=============================================================================
