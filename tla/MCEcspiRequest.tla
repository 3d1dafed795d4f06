--------------------------- MODULE MCEcspiRequest ---------------------------
(***************************************************************************)
(* EcspiRequest on two processors with a ring of two prepared transfers,   *)
(* so that a sequence of three fills, drains and wraps the ring.           *)
(***************************************************************************)
EXTENDS EcspiRequest

CONSTANTS c1, c2
=============================================================================
