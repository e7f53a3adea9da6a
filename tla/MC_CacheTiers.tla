---------------------------- MODULE MC_CacheTiers ----------------------------
(* Two goroutines (a lookup or a store against a purge) and one write slot,  *)
(* so that a store competes with its own second write.                       *)
EXTENDS CacheTiers
=============================================================================
