---------------------------- MODULE MCFaultDetect ----------------------------
(* Two services: the rules of "a" change, and some of them give no plan; the  *)
(* cached instances of "b" say they are those of "a".                        *)
EXTENDS FaultDetect, TLC

Rule(id, target, protocol, off) ==
    [id |-> id, target |-> target, protocol |-> protocol, disable |-> off, expects |-> FALSE, word |-> FALSE]

MCRules ==
    "a" :> <<{Rule("r1", "a", "http", FALSE), Rule("r4", "b", "udp", FALSE)},
             {[Rule("r2", "a", "tcp", FALSE) EXCEPT !.expects = TRUE, !.word = TRUE], Rule("r3", "a", "udp", TRUE),
              Rule("r5", "a", "unknown", FALSE), Rule("r6", "none", "tcp", FALSE)}>>
    @@ "b" :> <<>>

\* Two of the instances have one host.
Instance(id, host, available) == [id |-> id, host |-> host, available |-> available]
MCInstances ==
    "a" :> <<{Instance("i1", "a1", TRUE), Instance("i2", "a1", TRUE), Instance("i3", "a2", FALSE)}>>
    @@ "b" :> <<{Instance("i4", "b1", TRUE)}>>

\* Targets of the application's own.
MCByHand == {[of |-> "none", plan |-> CHOOSE p \in BuildPlans(MCRules["a"][1]) : TRUE, instance |-> Instance("i5", "c1", TRUE)]}

MCNaming == "a" :> "a" @@ "b" :> "a"
=============================================================================
