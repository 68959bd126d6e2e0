--------------------------- MODULE MCLoadGenerator ---------------------------
(***************************************************************************)
(* Three requests over at most two connections, so that a descriptor is    *)
(* used again while the other is open, with one call that fails.           *)
(***************************************************************************)
EXTENDS LoadGenerator

MCDrawn == {1, 4}
=============================================================================
