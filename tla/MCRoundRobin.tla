---------------------------- MODULE MCRoundRobin ----------------------------
(***************************************************************************)
(* Small instances of RoundRobin.                                          *)
(***************************************************************************)
EXTENDS RoundRobin

CONSTANTS c1, c2, a, b, d

Of(id, weight) == [id |-> id, weight |-> weight]

\* What routing may leave of a service, and the service with new weights.
Routed == {<<Of(a, 1), Of(b, 2)>>, <<Of(b, 2), Of(d, 1)>>, <<Of(a, 2), Of(b, 1)>>, <<>>}
=============================================================================
