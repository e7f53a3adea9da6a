------------------------- MODULE MC_CircuitBreaker -------------------------
(* Three requests are the fewest that reach both orders the breaker fears: *)
(* an old request, a probe and a late caller; Threshold = 2 tells a trip   *)
(* by count from a trip by a failed probe.                                 *)
EXTENDS CircuitBreaker
=============================================================================
