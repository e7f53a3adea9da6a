--------------------------- MODULE MC_InstallQueue ---------------------------
(* Four tasks over a channel of one: one running, one taken or buffered, one *)
(* waiting for room and one arriving after Stop can exist together.          *)
EXTENDS InstallQueue
=============================================================================
