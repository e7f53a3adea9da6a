---------------------------- MODULE MC_ProxyPools ----------------------------
(* One backend, whose verdict may be turned once each way, and two rebuilds   *)
(* that may overlap.                                                          *)
EXTENDS ProxyPools
=============================================================================
