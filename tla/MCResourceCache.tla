--------------------------- MODULE MCResourceCache ---------------------------
(***************************************************************************)
(* Small instances of ResourceCache.                                       *)
(***************************************************************************)
EXTENDS ResourceCache

CONSTANTS c1, c2, receiver
=============================================================================
