----------------------------- MODULE MCCollector -----------------------------
(* Collector for TLC. *)
EXTENDS Collector, TLC

\* Threads are interchangeable.
Threads == Permutations(Thread)
=============================================================================
