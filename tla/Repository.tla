---------------------------- MODULE Repository ----------------------------
(***************************************************************************)
(* What pubd promises, without its transactions, files and failures: a     *)
(* table of objects that the updates of its clients change as a whole,     *)
(* numbered in ascending order, and a public view that lags behind it but  *)
(* only ever moves on to what the table holds at that moment.              *)
(***************************************************************************)
EXTENDS Integers

CONSTANTS
    Client,     \* client handles
    URI,        \* publication URIs
    Der,        \* signed objects
    None        \* no object, no owner

VARIABLES
    base,       \* the URIs that each client may use
    content,    \* the object at each URI ...
    owner,      \* ... and the client that published it
    serial,     \* the number of the last update
    public      \* what relying parties are told, and its number

repository == <<base, content, owner, serial, public>>

\* An object is in one place, and somebody's.
Whole(objs, owners) ==
    /\ \A u \in URI : objs[u] = None <=> owners[u] = None
    /\ \A u, v \in URI : u # v /\ objs[u] # None => objs[u] # objs[v]

Init ==
    /\ base = [c \in Client |-> {}]
    /\ content = [u \in URI |-> None] /\ owner = [u \in URI |-> None]
    /\ serial = 0
    /\ public = [serial |-> 0, content |-> None]

\* An update changes only what its client may use and nobody else has.
Update(c) ==
    /\ serial' > serial
    /\ Whole(content', owner')
    /\ \A u \in URI :
          \/ content'[u] = content[u] /\ owner'[u] = owner[u]
          \/ u \in base[c] /\ {owner[u], owner'[u]} \subseteq {c, None}
    /\ UNCHANGED <<base, public>>

Announce ==
    /\ serial > public.serial
    /\ public' = [serial |-> serial, content |-> content]
    /\ UNCHANGED <<base, content, owner, serial>>

SetBase(c) ==
    /\ \A d \in Client \ {c} : base'[d] = base[d]
    /\ UNCHANGED <<content, owner, serial, public>>

\* A client is removed with all it has published, but that is no update.
Remove(c) ==
    /\ base' = [base EXCEPT ![c] = {}]
    /\ content' = [u \in URI |-> IF owner[u] = c THEN None ELSE content[u]]
    /\ owner' = [u \in URI |-> IF owner[u] = c THEN None ELSE owner[u]]
    /\ UNCHANGED <<serial, public>>

Next == Announce \/ \E c \in Client : Update(c) \/ SetBase(c) \/ Remove(c)

Spec == Init /\ [][Next]_repository
=============================================================================
