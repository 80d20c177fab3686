-------------------------- MODULE MCSporkParallel --------------------------
(* SporkParallel for TLC. *)
EXTENDS SporkParallel

\* Tasks are interchangeable.
Tasks == Permutations(Task)
=============================================================================
