------------------------------ MODULE Replica ------------------------------
(***************************************************************************)
(* What a relying party may expect of following a Repository: it keeps     *)
(* copies of states that were the repository's.  Whatever the order in     *)
(* which files are written, read and removed, following takes the newest   *)
(* copy forward, never further than what is announced; only forgetting     *)
(* takes it back, to an older copy that was kept.                          *)
(***************************************************************************)
EXTENDS Repository

VARIABLES
    hist,       \* the repository's content under each number
    copies      \* the copies the relying party keeps, with their numbers

ReplicaInit == /\ Init
               /\ \A n \in DOMAIN hist : hist[n] = content
               /\ copies = {}

\* The history is written once.
Publish ==
    /\ Next
    /\ hist' = IF serial' = serial THEN hist ELSE [hist EXCEPT ![serial'] = content']
    /\ UNCHANGED copies

CopyOf(n) == [serial |-> n, objs |-> {hist[n][u] : u \in URI} \ {None}]
IsNewest(c) == \A d \in copies : d.serial <= c.serial

\* A newer copy, in the place of the newest one or besides.
Pull ==
    /\ \E n \in 1 .. public.serial :
          /\ \A c \in copies : c.serial < n
          /\ \/ copies' = copies \cup {CopyOf(n)}
             \/ \E c \in copies :
                   IsNewest(c) /\ copies' = (copies \ {c}) \cup {CopyOf(n)}
    /\ UNCHANGED <<repository, hist>>

Forget == copies' \subseteq copies /\ UNCHANGED <<repository, hist>>

ReplicaSpec == ReplicaInit /\ [][Publish \/ Pull \/ Forget]_<<repository, hist, copies>>
=============================================================================
