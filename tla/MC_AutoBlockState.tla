-------------------------- MODULE MC_AutoBlockState --------------------------
(* Two operations interleave with the expiry goroutine, the firewall worker  *)
(* and the save worker; one restart separates what is kept from what is not. *)
EXTENDS AutoBlockState, TLC

\* Enforcing, and calibrating in dry-run mode.  Firewall sync is off at the
\* start, so that two addresses (and with them trimHistory) stay within reach.
Boots == {[safe |-> {}, fwOn |-> FALSE, dryRun |-> d] : d \in BOOLEAN}

\* The same with firewall sync on, for one address.
FirewallBoots == {[safe |-> {}, fwOn |-> TRUE, dryRun |-> d] : d \in BOOLEAN}

Symmetric == Permutations(Addrs) \cup Permutations(Actors)
=============================================================================
