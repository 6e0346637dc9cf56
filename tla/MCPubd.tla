------------------------------ MODULE MCPubd ------------------------------
(***************************************************************************)
(* Pubd for TLC.                                                           *)
(***************************************************************************)
EXTENDS Pubd, TLC

\* Hashes are compared for equality only, and no action prefers a URI.
Symmetric == Permutations(Der) \cup Permutations(URI) \cup Permutations(Client)
=============================================================================
