--------------------------- MODULE MCConfigCenter ---------------------------
(* One resource of every kind for one service, and pairs of them that share *)
(* the stream, the channel and the directory; two publishers, and two       *)
(* watchers of what is alone.                                               *)
EXTENDS ConfigCenter

MCPool ==
    [type : NamingTypes, of : {"svc"}]
    \cup {[type |-> "RouterRule", of |-> "other"]}
    \cup {[type |-> "ConfigFile", of |-> "group/file"], [type |-> "ConfigGroup", of |-> "group"]}

Pair(t, u) == {r \in MCPool : r.of # "other" /\ r.type \in {t, u}}

\* Each kind comes with another one; two services share one of the kinds.
MCSelections ==
    {Pair("RouterRule", "CircuitBreakerRule"), Pair("RateLimitRule", "FaultDetectRule"),
     Pair("LaneRule", "LosslessRule"), Pair("TrafficSecurityRule", "TrafficMirrorRule"),
     Pair("TrafficMockRule", "Instance"), Pair("Service", "ConfigGroup"), Pair("ConfigFile", "ConfigFile")}
    \cup {{r \in MCPool : r.type = "RouterRule"}}
    \cup {Pair(t, t) : t \in {"Instance", "ConfigGroup"}}

MCWatched == {s \in MCSelections : \A r, q \in s : r = q}
=============================================================================
