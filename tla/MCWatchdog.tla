----------------------------- MODULE MCWatchdog -----------------------------
(* Watchdog for TLC. *)
EXTENDS Watchdog
=============================================================================
