--------------------------- MODULE MCNileParallel ---------------------------
(* NileParallel for TLC.  Its run has a liveness property, so that there is no
   symmetry set. *)
EXTENDS NileParallel
=============================================================================
