------------------------------- MODULE Pubd -------------------------------
(***************************************************************************)
(* The publication server: src/rpki/pubd.py and src/rpki/pubdb/models.py.  *)
(*                                                                         *)
(* One client query is one database transaction that builds a delta, the   *)
(* delta's file is written inside the transaction, and after the commit    *)
(* the RRDP files and the rsync tree are brought up to date, one file at a *)
(* time.  Every write to the database or to the disk is a step of its own, *)
(* because any of them may fail and pubd may be killed between any two.    *)
(*                                                                         *)
(* Simplifications.                                                        *)
(*  - A DER object and its SHA-256 hash are the same model value, and a    *)
(*    file's hash is the file's content.                                   *)
(*  - The PDUs of a query are chosen one at a time as the handler's loop   *)
(*    reaches them, at most MaxPDUs of them.                               *)
(*  - Files are written to a .tmp name and renamed: a write is atomic.     *)
(*  - HTTP, CMS signatures and replay protection are left out: they reject *)
(*    a query before anything modelled here happens.                       *)
(*  - The server is single-threaded (http_simple.server), so two queries   *)
(*    are never processed at the same time.                                *)
(***************************************************************************)
EXTENDS Integers, Sequences, FiniteSets

CONSTANTS
    Client,     \* client handles
    URI,        \* publication URIs
    Der,        \* signed objects, identified with their hashes
    None,       \* no object, no owner, no file, no hash
    Interval,   \* rrdp-expiration-interval
    MaxPDUs,    \* bound: PDUs in one query
    MaxSerial,  \* bound: RRDP serial number
    MaxNow      \* bound: clock

ASSUME ConstantsAssumption ==
    /\ None \notin Client \cup Der
    /\ Interval \in Nat
    /\ MaxPDUs \in Nat /\ MaxSerial \in Nat /\ MaxNow \in Nat

VARIABLES
    \* The database, as committed.
    base,       \* Client table: allowed URIs, {} for a client that does not exist
    content,    \* PublishedObject table: the object at each URI ...
    owner,      \* ... and the client that published it
    serial,     \* Session.serial
    deltas,     \* Delta table
    \* The daemon's memory.
    pc,         \* the step the daemon is about to take
    mem,        \* self.session.serial, the in-memory copy of the Session row
    client,     \* the client whose query is being processed
    tx,         \* the open transaction's view of the PublishedObject table
    delta,      \* the Delta object being built, serial 0 if there is none
    todo,       \* PDUs that update_rsync_files has still to apply
    reply,      \* what the last query was answered with
    \* The disk.
    deltaFiles, \* <session>/deltas/<serial>.xml
    snapFiles,  \* <session>/snapshot/<serial>.xml
    notify,     \* notify.xml
    rsync,      \* the tree under publication-base
    now         \* rpki.sundial.now()

db == <<base, content, owner, serial, deltas>>
memory == <<mem, client, tx, delta, todo>>
disk == <<deltaFiles, snapFiles, notify, rsync>>
vars == <<base, content, owner, serial, deltas, pc, mem, client, tx, delta,
          todo, reply, deltaFiles, snapFiles, notify, rsync, now>>

PDU == [tag : {"publish", "withdraw"}, uri : URI, der : Der \cup {None},
        hash : Der \cup {None}]
Content == [URI -> Der \cup {None}]
Owner == [URI -> Client \cup {None}]
DeltaFile == [serial : Nat, hash : Seq(PDU)]
SnapFile == [serial : Nat, hash : Content]

Empty == [u \in URI |-> None]
NoTx == [content |-> Empty, owner |-> Empty]
NoDelta == [serial |-> 0, expires |-> 0, hash |-> << >>]
NoNotify == [serial |-> 0, snapshot |-> None, deltas |-> {}]

\* The file that a Delta row names, fn and hash together.
FileOf(d) == [serial |-> d.serial, hash |-> d.hash]

\* Rename f over any file of the same name.
Rename(dir, f) == {g \in dir : g.serial # f.serial} \cup {f}

\* A fresh installation; main() has created the Session row with serial 0.
Init ==
    /\ base = [c \in Client |-> {}]
    /\ content = Empty /\ owner = Empty
    /\ serial = 0 /\ deltas = {}
    /\ pc = "idle" /\ mem = 0
    /\ client = None /\ tx = NoTx /\ delta = NoDelta /\ todo = << >>
    /\ reply = "none"
    /\ deltaFiles = {} /\ snapFiles = {} /\ notify = NoNotify
    /\ rsync = Empty
    /\ now = 0

-----------------------------------------------------------------------------
(***************************************************************************)
(* client_handler: one query, one transaction.                             *)
(***************************************************************************)

\* The query is authenticated and its client found; transaction.atomic()
\* begins.  The bound on serial numbers is the model's, not the code's.
ClientQuery(c) ==
    /\ pc = "idle" /\ mem < MaxSerial
    /\ base[c] # {}
    /\ pc' = "pdus"
    /\ client' = c
    /\ tx' = [content |-> content, owner |-> owner]
    /\ delta' = NoDelta
    /\ reply' = "none"
    /\ UNCHANGED <<mem, todo, now>> /\ UNCHANGED db /\ UNCHANGED disk

\* new_delta() runs for the first publish or withdraw PDU of the query.
CurrentDelta ==
    IF delta.serial # 0 THEN delta
    ELSE [serial |-> mem + 1, expires |-> now + Interval, hash |-> << >>]

check_allowed_uri(u) == u \in base[client]

\* Mutant: the lookup in Delta.publish is not restricted to the client, and the
\* old row is deleted whoever owns it.
PublishAllowed_AnyClient(u, d, h) ==
    /\ tx.owner[u] # None => tx.content[u] = h
    /\ \A v \in URI \ {u} : tx.content[v] # d

\* Mutant: nothing keeps an object from being published at two URIs.
PublishAllowed_Twice(u, d, h) ==
    /\ tx.owner[u] = client => tx.content[u] = h
    /\ tx.owner[u] \in {client, None}

\* Delta.publish: an object this client already has at the URI must be the one
\* the PDU's hash names; the table's unique constraints refuse an object that
\* is already published elsewhere, and a URI that another client occupies.
PublishAllowed(u, d, h) ==
    /\ tx.owner[u] = client => tx.content[u] = h
    /\ tx.owner[u] \in {client, None}
    /\ \A v \in URI \ {u} : tx.content[v] # d

\* Delta.withdraw: this client's object at the URI is the one the hash names.
WithdrawAllowed(u, h) ==
    /\ tx.owner[u] = client
    /\ tx.content[u] = h

\* One iteration of the handler's loop: PDU p leaves object d, owned by o, at
\* the URI and is added to the delta's XML.
ApplyPDU(p, d, o) ==
    /\ Len(CurrentDelta.hash) < MaxPDUs
    /\ tx' = [content |-> [tx.content EXCEPT ![p.uri] = d],
              owner |-> [tx.owner EXCEPT ![p.uri] = o]]
    /\ delta' = [CurrentDelta EXCEPT !.hash = Append(@, p)]
    /\ UNCHANGED <<pc, mem, client, todo, reply, now>>
    /\ UNCHANGED db /\ UNCHANGED disk

PublishPDU(u, d, h) ==
    /\ pc = "pdus"
    /\ check_allowed_uri(u)
    /\ PublishAllowed(u, d, h)
    /\ ApplyPDU([tag |-> "publish", uri |-> u, der |-> d, hash |-> h], d, client)

WithdrawPDU(u, h) ==
    /\ pc = "pdus"
    /\ check_allowed_uri(u)
    /\ WithdrawAllowed(u, h)
    /\ ApplyPDU([tag |-> "withdraw", uri |-> u, der |-> None, hash |-> h],
                None, None)

\* An exception leaves the transaction: the database rolls back, the reply
\* reports the error.  The in-memory Session keeps whatever it holds.
Rollback ==
    /\ pc' = "idle"
    /\ reply' = "report_error"
    /\ client' = None /\ tx' = NoTx /\ delta' = NoDelta
    /\ UNCHANGED <<mem, todo, now>> /\ UNCHANGED db /\ UNCHANGED disk

\* ForbiddenURI, ExistingObjectAtURI, DifferentObjectAtURI, NoObjectAtURI or
\* IntegrityError.
RefusePDU(u) ==
    /\ pc = "pdus"
    /\ Len(CurrentDelta.hash) < MaxPDUs
    /\ \/ ~check_allowed_uri(u)
       \/ \E d \in Der, h \in Der \cup {None} : ~PublishAllowed(u, d, h)
       \/ \E h \in Der : ~WithdrawAllowed(u, h)
    /\ Rollback

\* The loop is done.  A query without publish or withdraw PDUs (a list, which
\* changes nothing) is answered at once.
EndOfQuery ==
    /\ pc = "pdus"
    /\ IF delta.serial = 0
       THEN /\ pc' = "idle" /\ reply' = "ok"
            /\ client' = None /\ tx' = NoTx /\ UNCHANGED delta
       ELSE /\ pc' = "activate" /\ UNCHANGED <<reply, client, tx, delta>>
    /\ UNCHANGED <<mem, todo, now>> /\ UNCHANGED db /\ UNCHANGED disk

\* Delta.activate up to os.rename(): the file is on disk, the row is not.
WriteDelta ==
    /\ pc = "activate"
    /\ deltaFiles' = Rename(deltaFiles, FileOf(delta))
    /\ pc' = "save"
    /\ UNCHANGED <<snapFiles, notify, rsync, reply, now>>
    /\ UNCHANGED db /\ UNCHANGED memory

\* The rest of Delta.activate: self.save(), session.serial += 1 and
\* session.save(), inside the transaction but for the in-memory serial.
SaveDelta ==
    /\ pc = "save"
    /\ mem' = mem + 1
    /\ pc' = "commit"
    /\ UNCHANGED <<client, tx, delta, todo, reply, now>>
    /\ UNCHANGED db /\ UNCHANGED disk

\* Mutant: session.save() is forgotten in Delta.activate.
Commit_NoSessionSave ==
    /\ pc = "commit"
    /\ content' = tx.content /\ owner' = tx.owner
    /\ serial' = serial
    /\ deltas' = {d \in deltas \cup {delta} : ~(d.expires < now)}
    /\ pc' = "snapshot"
    /\ UNCHANGED <<base, reply, now>> /\ UNCHANGED memory /\ UNCHANGED disk

\* expire_deltas() and the end of transaction.atomic().
Commit ==
    /\ pc = "commit"
    /\ content' = tx.content /\ owner' = tx.owner
    /\ serial' = mem
    /\ deltas' = {d \in deltas \cup {delta} : ~(d.expires < now)}
    /\ pc' = "snapshot"
    /\ UNCHANGED <<base, reply, now>> /\ UNCHANGED memory /\ UNCHANGED disk

\* assertValid(), a disk error or a database error in Delta.activate, before
\* the in-memory serial is incremented.
ActivateError == pc \in {"activate", "save"} /\ Rollback

\* A database error in session.save(), expire_deltas() or COMMIT, after it.
CommitError == pc = "commit" /\ Rollback

-----------------------------------------------------------------------------
(***************************************************************************)
(* After the commit: synchronize_rrdp_files and update_rsync_files.        *)
(***************************************************************************)

\* Mutant: notify.xml is written without the snapshot file it names.
WriteSnapshot_Skipped ==
    /\ pc = "snapshot"
    /\ pc' = "notify"
    /\ UNCHANGED <<deltaFiles, snapFiles, notify, rsync, reply, now>>
    /\ UNCHANGED db /\ UNCHANGED memory

WriteSnapshot ==
    /\ pc = "snapshot"
    /\ snapFiles' = Rename(snapFiles, [serial |-> mem, hash |-> content])
    /\ pc' = "notify"
    /\ UNCHANGED <<deltaFiles, notify, rsync, reply, now>>
    /\ UNCHANGED db /\ UNCHANGED memory

\* Mutant: the notification is built before the serial is incremented.
WriteNotify_OldSerial ==
    /\ pc = "notify"
    /\ notify' = [serial |-> mem - 1, snapshot |-> content,
                  deltas |-> {FileOf(d) : d \in deltas}]
    /\ pc' = "clean"
    /\ UNCHANGED <<deltaFiles, snapFiles, rsync, reply, now>>
    /\ UNCHANGED db /\ UNCHANGED memory

WriteNotify ==
    /\ pc = "notify"
    /\ notify' = [serial |-> mem, snapshot |-> content,
                  deltas |-> {FileOf(d) : d \in deltas}]
    /\ pc' = "clean"
    /\ UNCHANGED <<deltaFiles, snapFiles, rsync, reply, now>>
    /\ UNCHANGED db /\ UNCHANGED memory

\* current_filenames: the files that the walk keeps.
Current(f) == f.serial \in {d.serial : d \in deltas}
CurrentSnapshot(f) == f.serial = mem

\* os.remove() of one file, in whatever order os.walk() finds them.
RemoveDelta ==
    /\ pc = "clean"
    /\ \E f \in deltaFiles : ~Current(f) /\ deltaFiles' = deltaFiles \ {f}
    /\ UNCHANGED <<pc, snapFiles, notify, rsync, reply, now>>
    /\ UNCHANGED db /\ UNCHANGED memory

RemoveSnapshot ==
    /\ pc = "clean"
    /\ \E f \in snapFiles : ~CurrentSnapshot(f) /\ snapFiles' = snapFiles \ {f}
    /\ UNCHANGED <<pc, deltaFiles, notify, rsync, reply, now>>
    /\ UNCHANGED db /\ UNCHANGED memory

CleanupDone ==
    /\ pc = "clean"
    /\ \A f \in deltaFiles : Current(f)
    /\ \A f \in snapFiles : CurrentSnapshot(f)
    /\ pc' = "rsync"
    /\ todo' = delta.hash
    /\ UNCHANGED <<mem, client, tx, delta, reply, now>>
    /\ UNCHANGED db /\ UNCHANGED disk

\* Mutant: a withdrawn object's file is not removed.
RsyncPDU_NoRemove ==
    /\ pc = "rsync" /\ todo # << >>
    /\ rsync' = IF Head(todo).tag = "withdraw" THEN rsync
                ELSE [rsync EXCEPT ![Head(todo).uri] = Head(todo).der]
    /\ todo' = Tail(todo)
    /\ UNCHANGED <<pc, mem, client, tx, delta, reply, now>>
    /\ UNCHANGED <<deltaFiles, snapFiles, notify>> /\ UNCHANGED db

\* Mutant: the loop over the delta's PDUs never advances.
RsyncPDU_NoAdvance ==
    /\ pc = "rsync" /\ todo # << >>
    /\ rsync' = [rsync EXCEPT ![Head(todo).uri] = Head(todo).der]
    /\ UNCHANGED <<pc, mem, client, tx, delta, todo, reply, now>>
    /\ UNCHANGED <<deltaFiles, snapFiles, notify>> /\ UNCHANGED db

\* update_rsync_files: one PDU of the delta, in order.
RsyncPDU ==
    /\ pc = "rsync" /\ todo # << >>
    /\ rsync' = [rsync EXCEPT ![Head(todo).uri] = Head(todo).der]
    /\ todo' = Tail(todo)
    /\ UNCHANGED <<pc, mem, client, tx, delta, reply, now>>
    /\ UNCHANGED <<deltaFiles, snapFiles, notify>> /\ UNCHANGED db

\* The handler is done with the query and answers it.
Finish(r) ==
    /\ pc' = "idle"
    /\ reply' = r
    /\ client' = None /\ tx' = NoTx /\ delta' = NoDelta /\ todo' = << >>
    /\ UNCHANGED <<mem, now>> /\ UNCHANGED db /\ UNCHANGED disk

RsyncDone == pc = "rsync" /\ todo = << >> /\ Finish("ok")

\* An exception after the commit: the handler answers HTTP 500 although the
\* database has changed.
FileError == pc \in {"snapshot", "notify", "clean", "rsync"} /\ Finish("http_error")

-----------------------------------------------------------------------------
(***************************************************************************)
(* control_handler, crash and restart, the clock.                          *)
(***************************************************************************)

\* <client action="create"/> or "set" with a base_uri.
SetClient(c, uris) ==
    /\ pc = "idle"
    /\ uris # {}
    /\ base' = [base EXCEPT ![c] = uris]
    /\ UNCHANGED <<content, owner, serial, deltas, pc, reply, now>>
    /\ UNCHANGED memory /\ UNCHANGED disk

\* <client action="destroy"/>: deleting the Client row cascades to its
\* PublishedObject rows; no delta is made and no file is touched.
DestroyClient(c) ==
    /\ pc = "idle"
    /\ base[c] # {}
    /\ base' = [base EXCEPT ![c] = {}]
    /\ content' = [u \in URI |-> IF owner[u] = c THEN None ELSE content[u]]
    /\ owner' = [u \in URI |-> IF owner[u] = c THEN None ELSE owner[u]]
    /\ UNCHANGED <<serial, deltas, pc, reply, now>>
    /\ UNCHANGED memory /\ UNCHANGED disk

\* The process dies: memory and the open transaction are lost.
Crash ==
    /\ pc # "down"
    /\ pc' = "down"
    /\ mem' = 0 /\ client' = None /\ tx' = NoTx /\ delta' = NoDelta
    /\ todo' = << >>
    /\ reply' = "none"
    /\ UNCHANGED now /\ UNCHANGED db /\ UNCHANGED disk

\* Mutant: main() does not load the Session row.
Restart_NoSession ==
    /\ pc = "down"
    /\ pc' = "idle"
    /\ mem' = None
    /\ UNCHANGED <<client, tx, delta, todo, reply, now>>
    /\ UNCHANGED db /\ UNCHANGED disk

\* main(): the Session row is loaded; no file is looked at.
Restart ==
    /\ pc = "down"
    /\ pc' = "idle"
    /\ mem' = serial
    /\ UNCHANGED <<client, tx, delta, todo, reply, now>>
    /\ UNCHANGED db /\ UNCHANGED disk

Tick ==
    /\ now < MaxNow
    /\ now' = now + 1
    /\ UNCHANGED <<pc, reply>>
    /\ UNCHANGED db /\ UNCHANGED memory /\ UNCHANGED disk

-----------------------------------------------------------------------------
\* Every step the daemon takes by itself once a query has arrived.
Step ==
    \/ \E u \in URI, d \in Der, h \in Der \cup {None} : PublishPDU(u, d, h)
    \/ \E u \in URI, h \in Der : WithdrawPDU(u, h)
    \/ \E u \in URI : RefusePDU(u)
    \/ EndOfQuery \/ WriteDelta \/ SaveDelta \/ Commit
    \/ WriteSnapshot \/ WriteNotify
    \/ RemoveDelta \/ RemoveSnapshot \/ CleanupDone
    \/ RsyncPDU \/ RsyncDone

Environment ==
    \/ \E c \in Client : ClientQuery(c)
    \/ \E c \in Client, uris \in SUBSET URI : SetClient(c, uris)
    \/ Tick

Failure == ActivateError \/ FileError \/ Crash \/ Restart

\* NextReliable leaves out a database that fails between the increment of the
\* in-memory serial and the end of COMMIT, and the destruction of a client.
NextReliable == Step \/ Environment \/ Failure
NextKept == NextReliable \/ CommitError
Next == NextKept \/ \E c \in Client : DestroyClient(c)

Spec == Init /\ [][Next]_vars

\* The same daemon where COMMIT never fails.
SpecReliable == Init /\ [][NextReliable]_vars

\* The handler runs to its end once called: nothing in it waits.
Fairness == WF_vars(Step) /\ WF_vars(Restart)
SpecFair == Spec /\ Fairness
SpecFairReliable == SpecReliable /\ Fairness

-----------------------------------------------------------------------------
(***************************************************************************)
(* Properties.                                                             *)
(***************************************************************************)

PCs == {"idle", "pdus", "activate", "save", "commit", "snapshot", "notify",
        "clean", "rsync", "down"}

\* Every variable has the type its declaration gives it: the tables, the
\* handler's locals and the files of pubd.
TypeOK ==
    /\ base \in [Client -> SUBSET URI]
    /\ content \in Content /\ owner \in Owner
    /\ serial \in Nat
    /\ deltas \subseteq [serial : Nat, expires : Nat, hash : Seq(PDU)]
    /\ pc \in PCs
    /\ mem \in Nat
    /\ client \in Client \cup {None}
    /\ tx \in [content : Content, owner : Owner]
    /\ delta \in [serial : Nat, expires : Nat, hash : Seq(PDU)]
    /\ todo \in Seq(PDU)
    /\ reply \in {"none", "ok", "report_error", "http_error"}
    /\ deltaFiles \subseteq DeltaFile
    /\ snapFiles \subseteq SnapFile
    /\ notify \in [serial : Nat, snapshot : Content \cup {None},
                   deltas : SUBSET DeltaFile]
    /\ rsync \in Content
    /\ now \in Nat

\* Whatever has failed and wherever pubd has been killed, the snapshot and every
\* delta that notify.xml names are on disk with the hash notify.xml gives: the
\* order of activate, commit, synchronize_rrdp_files and its clean-up never
\* leaves a relying party with a dangling or a wrong reference.
NotifyIntact ==
    notify.serial # 0 =>
        /\ [serial |-> notify.serial, hash |-> notify.snapshot] \in snapFiles
        /\ notify.deltas \subseteq deltaFiles

\* A serial number names one delta for ever, although a rolled back or crashed
\* query leaves its delta file behind and its serial number is used again:
\* notify.xml only moves forward, and a delta it keeps is the same delta.
NotifyMonotone ==
    [][/\ notify'.serial > notify.serial
       /\ \A f \in notify.deltas, g \in notify'.deltas :
              f.serial = g.serial => f = g]_notify

\* A query changes only URIs that its client may use and that no other client
\* occupies, before and after (check_allowed_uri and the per-client lookups of
\* Delta.publish and Delta.withdraw).
ClientIsolation ==
    [][serial' # serial =>
         \A u \in URI : content'[u] # content[u] =>
             /\ u \in base[client]
             /\ {owner[u], owner'[u]} \subseteq {client, None}]_vars

\* The deltas that notify.xml offers are consecutive and end at its serial
\* number: what rrdp-test-tool and rcynicng need to apply them in turn.
NotifyContiguous ==
    LET offered == {f.serial : f \in notify.deltas}
    IN  offered = (notify.serial - Cardinality(offered) + 1) .. notify.serial

\* The step that answers a query whose delta has been committed and written.
AnswersDelta == pc = "rsync" /\ pc' = "idle" /\ reply' = "ok"

\* When a query is answered without an error, the rsync tree agrees with the
\* database on every object the query touched, whatever has failed before and
\* however many PDUs name one URI: update_rsync_files replays them in order.
RsyncAgrees ==
    [][AnswersDelta =>
         \A i \in DOMAIN delta.hash :
             LET u == delta.hash[i].uri IN rsync'[u] = content'[u]]_vars

\* When a query is answered without an error, notify.xml is current, whatever
\* earlier queries have left behind: it names the whole repository and every
\* delta that is still in the database.
AnsweredMeansAnnounced ==
    [][AnswersDelta =>
         /\ notify'.serial = serial' /\ notify'.snapshot = content'
         /\ notify'.deltas = {FileOf(d) : d \in deltas'}]_vars

\* What makes NotifyIntact inductive.  Serial numbers: notify.xml is never ahead
\* of the database, nor the database of the in-memory Session, and the delta
\* being built has a number that neither notify.xml nor the Delta table knows.
SerialsOrdered ==
    /\ notify.serial <= serial
    /\ \A f \in notify.deltas : f.serial <= serial
    /\ \A d \in deltas : d.serial <= serial
    /\ pc # "down" => serial <= mem
    /\ pc \in {"pdus", "activate", "save"} /\ delta.serial # 0 =>
           delta.serial = mem + 1
    /\ pc \in {"activate", "save"} => delta.serial = mem + 1
    /\ pc = "commit" => serial < mem /\ delta.serial = mem
    /\ pc \in {"snapshot", "notify"} => notify.serial < serial /\ serial = mem
    /\ pc = "clean" => serial = mem

\* Files: a committed delta's file is on disk, and so are the files that the
\* handler has written so far; while it removes files, notify.xml names exactly
\* the files that current_filenames keeps.
FilesWritten ==
    /\ \A f, g \in deltaFiles : f.serial = g.serial => f = g
    /\ notify.serial = 0 => notify.deltas = {}
    /\ \A d \in deltas : FileOf(d) \in deltaFiles
    /\ pc \in {"save", "commit"} => FileOf(delta) \in deltaFiles
    /\ pc = "notify" => [serial |-> mem, hash |-> content] \in snapFiles
    /\ pc = "clean" => /\ notify.serial = mem
                       /\ notify.deltas = {FileOf(d) : d \in deltas}

\* The inductive invariant from which NotifyIntact is proved for all of pubd.
FileInv == SerialsOrdered /\ FilesWritten /\ NotifyIntact

\* What makes ClientIsolation inductive: the open transaction differs from the
\* database only at URIs that the client may use and nobody else occupies.
InTransaction == pc \in {"pdus", "activate", "save", "commit"}

TxTouchesOwn ==
    InTransaction =>
        \A u \in URI :
            \/ tx.content[u] = content[u] /\ tx.owner[u] = owner[u]
            \/ /\ u \in base[client]
               /\ {owner[u], tx.owner[u]} \subseteq {client, None}

\* The abstract specification, with notify.xml as the public view.
R == INSTANCE Repository WITH
        public <- [serial |-> notify.serial, content |-> notify.snapshot]

\* The unique constraints of the table: no object is published twice, in the
\* database or in the transaction, and each has an owner.
TablesWhole ==
    /\ R!Whole(content, owner)
    /\ InTransaction => client \in Client /\ R!Whole(tx.content, tx.owner)

\* The inductive invariant from which ClientIsolation and ImplementsRepository
\* are proved.
TxInv == TxTouchesOwn /\ TablesWhole

\* pubd implements Repository: whatever fails and wherever it is killed, a query
\* is one update or none, by its client only, and notify.xml goes from one state
\* of the tables to a later one (client_handler, control_handler,
\* synchronize_rrdp_files).
ImplementsRepository == R!Spec

\* What makes AnsweredMeansAnnounced inductive: from its rewriting to the answer,
\* notify.xml is current.
AnnouncedInv ==
    pc \in {"clean", "rsync"} =>
        notify = [serial |-> serial, snapshot |-> content,
                  deltas |-> {FileOf(d) : d \in deltas}]

\* What makes RsyncAgrees inductive: the last PDU for a URI says what the table
\* has there, in the transaction and after the commit, and a URI that the delta
\* touches agrees in the rsync tree or has a PDU that is still to be applied.
LastSays(xml, objs) ==
    \A i \in DOMAIN xml :
        (\A j \in DOMAIN xml : i < j => xml[j].uri # xml[i].uri)
            => objs[xml[i].uri] = xml[i].der

RsyncInv ==
    /\ InTransaction => /\ delta.serial = 0 => delta.hash = << >>
                        /\ LastSays(delta.hash, tx.content)
    /\ pc \in {"snapshot", "notify", "clean", "rsync"} =>
           LastSays(delta.hash, content)
    /\ pc = "rsync" =>
           /\ LastSays(todo, content)
           /\ \A i \in DOMAIN delta.hash :
                  LET u == delta.hash[i].uri
                  IN  rsync[u] = content[u] \/ \E j \in DOMAIN todo : todo[j].uri = u

\* What makes NotifyContiguous inductive where COMMIT never fails: the in-memory
\* serial number keeps step with the database, a later delta expires no earlier,
\* and the deltas of the database end at its serial number.
UpTo(from, to, files) == {f.serial : f \in files} = from + 1 .. to

ContiguousInv ==
    /\ pc = "commit" => mem = serial + 1
    /\ pc \notin {"commit", "down"} => mem = serial
    /\ \A d \in deltas : d.expires <= now + Interval
    /\ delta.expires <= now + Interval
    /\ \A d, e \in deltas : d.serial <= e.serial => d.expires <= e.expires
    /\ InTransaction /\ delta.serial # 0 =>
           \A d \in deltas : d.expires <= delta.expires
    /\ \E n \in 0 .. serial : UpTo(n, serial, deltas)
    /\ \E n \in 0 .. notify.serial : UpTo(n, notify.serial, notify.deltas)

\* Every query is answered (or the daemon restarted): the clean-up and the
\* rsync loops end.
QueryAnswered == (pc # "idle") ~> (pc = "idle")

=============================================================================
