----------------------------- MODULE MCMembrane -----------------------------
(* Membrane for TLC. *)
EXTENDS Membrane

\* Objects, and strings, are interchangeable.
Values == Permutations(Object) \cup Permutations(String)
=============================================================================
