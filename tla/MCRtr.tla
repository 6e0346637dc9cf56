------------------------------- MODULE MCRtr -------------------------------
(***************************************************************************)
(* Rtr for TLC: with serial numbers modulo 16, 2 -> 5 -> 12 -> 2 go        *)
(* forward, the last one by wrapping around, and 2 -> 12 goes back.  A set *)
(* of 2 or 5 is older than a day at 12.                                    *)
(***************************************************************************)
EXTENDS Rtr

Clock == {2, 5, 12}
=============================================================================
