--------------------------- MODULE MCPublication ---------------------------
(***************************************************************************)
(* Publication for TLC: a tenant with two parents has two active details,  *)
(* each of which issues one certificate.                                   *)
(***************************************************************************)
EXTENDS Publication, TLC

CONSTANTS d1, d2, u1, u2

TwoDetails == <<d1, d2>>
IssuedByTwo == [u \in Product |-> IF u = u1 THEN d1 ELSE d2]
=============================================================================
