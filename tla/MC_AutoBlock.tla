---------------------------- MODULE MC_AutoBlock ----------------------------
(* One address meets every order of its own operations; the queue holds one *)
(* operation, so that it is full whenever another is waiting.               *)
EXTENDS AutoBlock

\* firewall_sync on; enforcing, and calibrating in dry-run mode.
Boots == {[safe |-> {}, fwOn |-> TRUE, dryRun |-> d] : d \in BOOLEAN}
=============================================================================
