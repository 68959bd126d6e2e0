---------------------------- MODULE MCObjectPool ----------------------------
(***************************************************************************)
(* The object pool with a ring of a few slots: pool.cfg lets all objects  *)
(* in circulation be in use at once, and pool_overrun.cfg one more.        *)
(***************************************************************************)
EXTENDS ObjectPool
=============================================================================
