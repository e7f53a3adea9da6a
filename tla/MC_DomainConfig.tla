--------------------------- MODULE MC_DomainConfig ---------------------------
(* Two hosts, one configured at first, and two settings; the router comes    *)
(* before the proxy pools.                                                   *)
EXTENDS DomainConfig

CONSTANTS h1, h2, v1, v2

TwoHosts == {h1, h2}
OneSite == [h \in TwoHosts |-> IF h = h1 THEN v1 ELSE Absent]
Order == <<"vhosts", "pools">>
=============================================================================
