----------------------------- MODULE MCRequests -----------------------------
(***************************************************************************)
(* Requests for TLC: one CA with a key to roll over to, one ROA, one       *)
(* ghostbuster record, and one router whose request may grow or shrink.    *)
(***************************************************************************)
EXTENDS Requests

CONSTANTS ca, d1, d2, c1, r1, r2

MCCaOf == [d \in Detail |-> ca]
MCCovers == [x \in Ca |-> {r1, r2}]
MCNeed == [c \in Content |-> {r1}]
MCEeResources == {{r1}, {r1, r2}}
=============================================================================
