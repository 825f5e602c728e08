---------------------------- MODULE MCOutboxRelay ----------------------------
(* Three alerts, one of them written with the lower priority and one that  *)
(* the formatter cannot print; the relays are processes.                   *)
EXTENDS OutboxRelay
=============================================================================
