------------------------------- MODULE Rrdp -------------------------------
(***************************************************************************)
(* A relying party (Fetcher._rrdp_fetch and final_cleanup of               *)
(* src/rp/rcynic/rcynicng) that follows the RRDP files of one pubd, while  *)
(* pubd rewrites and removes them, fails and restarts.                     *)
(*                                                                         *)
(* The relying party's tables are those of src/rpki/rcynicdb/models.py,    *)
(* reduced to one RRDP session.  Objects are known by their hashes.  Every *)
(* load of a snapshot makes a row of RRDPSnapshot, and the earlier rows    *)
(* stay until final_cleanup finds nothing valid in them.  Rows whose       *)
(* "retrieved" is NULL sort last in the default database (SQLite), so the  *)
(* row that _rrdp_fetch selects is the complete one that was retrieved     *)
(* last, or an incomplete one if there is no other (the later one, if a    *)
(* relying party that is killed more than once has left several).          *)
(* Delta files are fetched as they are applied (fetch-ahead only makes the *)
(* fetch earlier).                                                         *)
(***************************************************************************)
EXTENDS Pubd, Functions, SequencesExt

CONSTANT MaxKilled  \* bound: the serial number of a snapshot whose load is cut off

ASSUME KilledAssumption == MaxKilled \in Nat

VARIABLES
    hist,       \* what pubd has committed under each serial number (history)
    rpc,        \* the step the relying party is about to take
    note,       \* the notification it is working from
    rows,       \* the complete RRDPSnapshot rows with their objects
    part,       \* an RRDPSnapshot row whose "retrieved" is still NULL
    store,      \* the RPKIObject table
    outcome     \* how the last fetch ended

rpVars == <<rpc, note, rows, part, store, outcome>>
allVars == <<vars, hist, rpVars>>

\* "retrieved" counts the loads of snapshots, since only their order matters;
\* 0 is NULL.
NoRow == [retrieved |-> 0, serial |-> 0, objs |-> {}]
Snap == [retrieved : Nat, serial : Nat, objs : SUBSET Der]

ObjectsIn(c) == Range(c) \ {None}

RpInit ==
    /\ hist = [n \in 0 .. MaxSerial |-> Empty]
    /\ rpc = "off" /\ note = NoNotify
    /\ rows = {} /\ part = NoRow /\ store = {}
    /\ outcome = "none"

\* RRDPSnapshot.objects.filter(...).order_by("-retrieved__started").first()
IsLatest(r) == \A s \in rows : s.retrieved <= r.retrieved
latest == IF rows = {} THEN NoRow ELSE CHOOSE r \in rows : IsLatest(r)
Selected == IF rows # {} THEN latest ELSE part

\* The fetch is over through one of the except clauses.
FetchFails ==
    /\ rpc' = "done" /\ outcome' = "failed"
    /\ note' = NoNotify
    /\ UNCHANGED <<rows, part, store>>

\* _rrdp_fetch up to the choice between snapshot and deltas.
FetchNotification ==
    LET offered == {f.serial : f \in notify.deltas}
        wanted == Selected.serial + 1 .. notify.serial
    IN
    /\ rpc = "off" /\ notify.serial # 0
    /\ \/ /\ Selected # NoRow /\ Selected.serial = notify.serial
          /\ rpc' = "done" /\ outcome' = "current"
          /\ note' = notify /\ UNCHANGED <<rows, part, store>>
       \/ /\ Selected = NoRow \/ (Selected.serial # notify.serial
                                  /\ Selected.serial + 1 \notin offered)
          /\ rpc' = "snapshot" /\ outcome' = "none"
          /\ note' = notify /\ UNCHANGED <<rows, part, store>>
       \/ /\ Selected # NoRow /\ Selected.serial # notify.serial
          /\ Selected.serial + 1 \in offered
          /\ IF wanted \subseteq offered
             THEN /\ rpc' = "deltas" /\ outcome' = "none"
                  /\ note' = notify /\ UNCHANGED <<rows, part, store>>
             ELSE FetchFails                                \* KeyError

\* _rrdp_fetch_data_file for the snapshot, and the row's creation.
FetchSnapshot ==
    LET wanted == [serial |-> note.serial, hash |-> note.snapshot] IN
    /\ rpc = "snapshot"
    /\ IF wanted \in snapFiles
       THEN /\ rpc' = "load"
            /\ part' = [NoRow EXCEPT !.serial = note.serial]
            /\ UNCHANGED <<note, rows, store, outcome>>
       ELSE FetchFails

\* _rrdp_bulk_create of some objects of the snapshot, outside a transaction.
LoadObjects ==
    /\ rpc = "load"
    /\ \E d \in ObjectsIn(note.snapshot) \ store : store' = store \cup {d}
    /\ UNCHANGED <<rpc, note, rows, part, outcome>>

\* Mutant: the row is linked before all of the snapshot has been stored.
LinkObjects_Early ==
    /\ rpc = "load"
    /\ part' = [part EXCEPT !.objs = ObjectsIn(note.snapshot) \cap store]
    /\ rpc' = "retrieved"
    /\ UNCHANGED <<note, rows, store, outcome>>

\* The snapshot's objects, new and old, are linked to the row.
LinkObjects ==
    /\ rpc = "load"
    /\ ObjectsIn(note.snapshot) \subseteq store
    /\ part' = [part EXCEPT !.objs = ObjectsIn(note.snapshot)]
    /\ rpc' = "retrieved"
    /\ UNCHANGED <<note, rows, store, outcome>>

\* "retrieved" is set: the row is complete and the latest.  The other rows stay.
CompleteSnapshot ==
    /\ rpc = "retrieved"
    /\ rows' = rows \cup {[part EXCEPT !.retrieved = latest.retrieved + 1]}
    /\ part' = NoRow
    /\ rpc' = "done" /\ outcome' = "loaded"
    /\ UNCHANGED <<note, store>>

\* Mutant: publish does not remove the object it replaces.
ApplyElement_KeepsOld(objs, p) ==
    LET removed == IF p.tag = "publish" THEN objs ELSE objs \ {p.hash}
    IN  IF p.tag = "publish" THEN removed \cup {p.der} ELSE removed

\* One element of a delta file, applied to a snapshot's objects; {None} stands
\* for rpkiobject_set.get() raising DoesNotExist.
ApplyElement(objs, p) ==
    LET removed == IF p.hash = None THEN objs ELSE objs \ {p.hash}
    IN  IF None \in objs \/ (p.hash # None /\ p.hash \notin objs) THEN {None}
        ELSE IF p.tag = "publish" THEN removed \cup {p.der} ELSE removed

ApplyDelta(objs, xml) == FoldLeft(ApplyElement, objs, xml)

\* snapshot.save() and the changes of snapshot.rpkiobject_set.
UpdateSelected(new) ==
    IF rows # {} THEN rows' = (rows \ {Selected}) \cup {new} /\ UNCHANGED part
                 ELSE part' = new /\ UNCHANGED rows

\* Mutant: a delta brings the row to the notification's serial number.
ApplyNextDelta_Skips ==
    LET wanted == {f \in note.deltas : f.serial = Selected.serial + 1}
        xml == (CHOOSE f \in wanted : TRUE).hash
        new == [Selected EXCEPT !.serial = note.serial,
                                !.objs = ApplyDelta(@, xml)]
    IN
    /\ rpc = "deltas" /\ Selected.serial < note.serial
    /\ None \notin new.objs
    /\ UpdateSelected(new)
    /\ store' = store \cup ({p.der : p \in Range(xml)} \ {None})
    /\ UNCHANGED <<rpc, note, outcome>>

\* One delta, fetched and applied in a transaction.
ApplyNextDelta ==
    LET next == Selected.serial + 1
        wanted == {f \in note.deltas : f.serial = next}
        xml == (CHOOSE f \in wanted : TRUE).hash
        objs == ApplyDelta(Selected.objs, xml)
        new == [retrieved |-> Selected.retrieved, serial |-> next, objs |-> objs]
    IN
    /\ rpc = "deltas" /\ Selected.serial < note.serial
    /\ IF ~(wanted \subseteq deltaFiles) \/ None \in objs
       THEN FetchFails
       ELSE /\ UpdateSelected(new)
            /\ store' = store \cup ({p.der : p \in Range(xml)} \ {None})
            /\ UNCHANGED <<rpc, note, outcome>>

DeltasDone ==
    /\ rpc = "deltas" /\ Selected.serial = note.serial
    /\ rpc' = "done" /\ outcome' = "loaded"
    /\ UNCHANGED <<note, rows, part, store>>

\* final_cleanup at the end of a run, which may have done without the fetch:
\* incomplete rows go, each row none of whose objects were found valid goes, the
\* latest one or an older one, and so do objects that are neither valid nor in a
\* remaining snapshot.  Which objects are valid is not modelled.
FinalCleanup ==
    /\ rpc \in {"off", "done"}
    /\ rpc' = "off"
    /\ part' = NoRow
    /\ \E valid \in SUBSET store :
          /\ rows' = {r \in rows : r.objs \cap valid # {}}
          /\ store' = valid \cup UNION {r.objs : r \in rows'}
    /\ note' = NoNotify /\ outcome' = "none"

\* rcynicng is killed during a fetch and runs again: only what it holds in
\* memory is lost, rows are written outside a transaction.  Beside a complete
\* row an incomplete one is never selected again, and is not remembered here.
Killed ==
    /\ \/ rpc \in {"snapshot", "deltas"}
       \/ rpc \in {"load", "retrieved"} /\ note.serial <= MaxKilled
    /\ rpc' = "off"
    /\ note' = NoNotify /\ outcome' = "none"
    /\ part' = IF rows = {} THEN part ELSE NoRow
    /\ UNCHANGED <<rows, store>>

RpStep ==
    /\ \/ FetchNotification \/ FetchSnapshot \/ LoadObjects \/ LinkObjects
       \/ CompleteSnapshot
       \/ ApplyNextDelta \/ DeltasDone \/ FinalCleanup \/ Killed
    /\ UNCHANGED <<vars, hist>>

\* A step of pubd; the history follows the commits.
PubdStep(next) ==
    /\ next
    /\ hist' = IF serial' # serial THEN [hist EXCEPT ![serial'] = content']
                                   ELSE hist
    /\ UNCHANGED rpVars

\* What rpkid does: the hash in a PDU is that of the object it replaces or
\* withdraws, and a PDU that replaces nothing has none.
HashNamesObject ==
    Len(delta'.hash) > Len(delta.hash) =>
        Last(delta'.hash).hash = tx.content[Last(delta'.hash).uri]

\* Clients may use every URI; MCPubd_crash is about the others.
WideBase == \A c \in Client : base'[c] \in {{}, URI}

\* The relying party against a pubd with such clients, none of them destroyed.
RrdpNext == (PubdStep(NextKept) /\ HashNamesObject /\ WideBase) \/ RpStep
RrdpSpec == Init /\ RpInit /\ [][RrdpNext]_allVars

-----------------------------------------------------------------------------
(***************************************************************************)
(* Properties.                                                             *)
(***************************************************************************)

\* The relying party's tables and the notification it reads have their types.
RpTypeOK ==
    /\ hist \in [0 .. MaxSerial -> Content]
    /\ rpc \in {"off", "snapshot", "load", "retrieved", "deltas", "done"}
    /\ note \in [serial : Nat, snapshot : Content \cup {None},
                 deltas : SUBSET DeltaFile]
    /\ rows \subseteq Snap /\ part \in Snap
    /\ store \subseteq Der
    /\ \A r \in rows \cup {part} : r.objs \subseteq store

\* A relying party never holds, under a serial number, anything but what pubd
\* committed under that number: snapshot and deltas lead to the same objects,
\* across pubd's failures and restarts and whatever is removed meanwhile, in the
\* row it works with and in older ones to which final_cleanup may take it back.
RpInSync == RpTypeOK /\ \A r \in rows : r.objs = ObjectsIn(hist[r.serial])

\* When a fetch ends saying that the data is current or loaded, the relying
\* party has every object of the repository as of the notification it read,
\* whatever was removed meanwhile or lost by a kill - unless it was killed while
\* loading its first snapshot: then the row without objects is the one that the
\* next run selects, and takes for complete (_rrdp_fetch).
SuccessMeansComplete ==
    rpc = "done" /\ outcome \in {"current", "loaded"} =>
        ObjectsIn(hist[note.serial]) \subseteq store \/ rows = {}

\* What makes RpInSync inductive.  Serial numbers stay within the model's bound.
MemBounded ==
    /\ mem <= MaxSerial /\ serial <= MaxSerial
    /\ pc \in {"pdus", "activate", "save"} => mem < MaxSerial

\* History: a notification describes what was committed under its number.
HistoryKept ==
    /\ hist[serial] = content
    /\ \A v \in {notify, note} : v.serial # 0 => v.snapshot = hist[v.serial]

\* The delta being built leads from the table to the transaction's view of it.
TxLeads ==
    InTransaction =>
        /\ delta.serial = 0 => delta.hash = << >> /\ tx.content = content
        /\ ApplyDelta(ObjectsIn(content), delta.hash) = ObjectsIn(tx.content)

\* Deltas: the files that may still be fetched, and the committed states that
\* pubd or the relying party may still start from.  A file leads from any of
\* those states that it follows directly to the state it is named for: also
\* when a rollback has left a gap or has let a number be used again.
Offered == {FileOf(d) : d \in deltas} \cup notify.deltas \cup note.deltas
Known == {0, note.serial, notify.serial, serial}
             \cup {r.serial : r \in rows} \cup {f.serial : f \in Offered}

DeltasLead ==
    /\ \A n \in Known : n <= serial
    /\ \A f \in Offered, n \in Known :
           n + 1 = f.serial =>
               ApplyDelta(ObjectsIn(hist[n]), f.hash) = ObjectsIn(hist[f.serial])

\* A row that was loaded later has a higher serial number, also after deltas.
RowsAscend ==
    /\ \A r \in rows : 1 <= r.retrieved
    /\ \A r, s \in rows : r.retrieved <= s.retrieved => r = s \/ r.serial < s.serial

\* The fetch: rows are never ahead of the notification, and one that is brought
\* forward by deltas finds all of them in it.
FetchInv ==
    /\ note.serial <= notify.serial
    /\ \A r \in rows \cup {part} : r.serial <= notify.serial
    /\ rpc \in {"snapshot", "load", "retrieved"} =>
           1 <= note.serial /\ \A r \in rows : r.serial < note.serial
    /\ rpc = "load" => part.retrieved = 0 /\ part.serial = note.serial
    /\ rpc = "retrieved" =>
           part = [retrieved |-> 0, serial |-> note.serial,
                   objs |-> ObjectsIn(note.snapshot)]
    /\ rpc = "deltas" =>
           /\ Selected # NoRow /\ Selected.serial <= note.serial
           /\ Selected.serial + 1 .. note.serial \subseteq {f.serial : f \in note.deltas}
    /\ rpc = "done" /\ outcome \in {"current", "loaded"} /\ rows # {} =>
           latest.serial = note.serial

\* The inductive invariant from which the properties are proved.
RpInv ==
    /\ RpInSync
    /\ MemBounded /\ HistoryKept /\ TxLeads
    /\ DeltasLead /\ RowsAscend /\ FetchInv

\* The relying party's complete rows are a Replica of pubd's Repository: a fetch
\* takes the newest one forward, or adds one that is newer than all of them, from
\* one committed state to a later one that has been announced, by snapshots and
\* by deltas (_rrdp_fetch).  Only final_cleanup takes it back, to a state that the
\* relying party has kept.
P == INSTANCE Replica WITH
        public <- [serial |-> notify.serial, content |-> notify.snapshot],
        copies <- {[serial |-> r.serial, objs |-> r.objs] : r \in rows}

ImplementsReplica == P!ReplicaSpec

=============================================================================
