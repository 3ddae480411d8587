----------------------------- MODULE MCProvider ------------------------------
(* One instance, two calls and two jobs at a time; a rule that delays the    *)
(* registration and one that does not.                                       *)
EXTENDS Provider

MCRules ==
    {[delay |-> "time", readiness |-> TRUE, offline |-> TRUE],
     [delay |-> "health", readiness |-> TRUE, offline |-> FALSE],
     [delay |-> "off", readiness |-> FALSE, offline |-> TRUE]}
=============================================================================
