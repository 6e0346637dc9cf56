------------------------------ MODULE MCRrdp ------------------------------
(***************************************************************************)
(* Rrdp for TLC.                                                           *)
(***************************************************************************)
EXTENDS Rrdp

Symmetric == Permutations(Der) \cup Permutations(URI)
=============================================================================
