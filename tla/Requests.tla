----------------------------- MODULE Requests -----------------------------
(***************************************************************************)
(* From the operator's requests in the IRDB to signed objects: irdbd's     *)
(* answers, the tasks of src/rpki/rpkid_tasks.py that compare them with    *)
(* rpkid's rows (UpdateROAs, UpdateGhostbusters, UpdateEECertificates),    *)
(* the tasks that regenerate manifests and retry publication, and a key    *)
(* rollover, which a left-right command runs between two steps of a task.  *)
(*                                                                         *)
(* irdbd answers from several SELECTs, each its own transaction, while     *)
(* rpkic or the web interface commits.  UpdateROAs yields between two      *)
(* ROAs, and goes on with the instances it has loaded.                     *)
(*                                                                         *)
(* Simplifications.                                                        *)
(*  - One tenant, whose parents have one CA each.  Children's certificates *)
(*    are in Publication.tla and CALifecycle.tla.                          *)
(*  - A message for pubd is sent when it is complete.  What others may do  *)
(*    while it waits for the HTTP lock is in Publication.tla.              *)
(*  - A manifest and its CRL are one object, equal to another one that     *)
(*    lists the same objects.                                              *)
(*  - Nothing expires, and a CA's resources do not change.                 *)
(***************************************************************************)
EXTENDS Naturals, Sequences, FiniteSets, FiniteSetsExt, Functions

CONSTANTS
    Ca,          \* one for each parent
    Detail,      \* ca_details
    CaOf,        \* ca_detail.ca
    FirstActive, \* the details that are active at first; others are pending
    Covers,      \* the resources of a CA
    Content,     \* what a ROA may say
    Need,        \* the resources it needs
    Vcard,       \* ghostbuster records
    Gski,        \* router keys
    EeResources, \* the sets of resources a router certificate may ask for
    MaxChanges,  \* bound: changes in the IRDB
    MaxTroubles  \* bound: messages that do not reach pubd, time slices used up

Scope == Ca \cup {"any"}

ASSUME RequestsAssumption ==
    /\ CaOf \in [Detail -> Ca] /\ FirstActive \subseteq Detail
    /\ DOMAIN Covers = Ca /\ DOMAIN Need = Content
    /\ {} \notin EeResources /\ {} \notin Detail
    /\ MaxChanges \in Nat /\ MaxTroubles \in Nat

VARIABLES
    irdb,     \* the requests, and the number of the last change
    rpkid,    \* rpkid's rows
    pubd,     \* what pubd holds at each URI
    task,     \* the task that runs, or the one to run next
    steady,   \* history: ROAs asked for ever since UpdateROAs asked irdbd
    broken,   \* history: an EE reissue failed half way, or a rollover came between
    failures, \* messages that did not reach pubd, so far
    slices    \* time slices used up, so far

vars == <<irdb, rpkid, pubd, task, steady, broken, failures, slices>>

None == [ver |-> 0, what |-> {}, lists |-> {}]

\* A row of ROA, Ghostbuster or EECertificate; stamp: "published" is set.
Product(kind, name, d, ver, what) ==
    [kind |-> kind, name |-> name, detail |-> d, stamp |-> kind # "ee",
     obj |-> [ver |-> ver, what |-> what, lists |-> {}]]

\* A ROA's or a ghostbuster's file is named for a key made for it, a router
\* certificate's for the router's key.
Uri(r) == IF r.kind = "ee" THEN <<r.kind, CaOf[r.detail], r.name>>
                           ELSE <<r.kind, CaOf[r.detail], r.name, r.detail, r.obj.ver>>
ManifestUri(d) == <<"mft", CaOf[d], d>>

\* r and x are instances of the same row.
SameRow(r, x) == /\ r.kind = x.kind /\ r.name = x.name
                 /\ r.kind = "roa" \/ r.detail = x.detail

RowsOf(kind) == {r \in rpkid.rows : r.kind = kind}
Issued(rows, d) == {r \in rows : r.detail = d}
Active == {d \in Detail : rpkid.state[d] = "active"}
Held(u) == IF u \in DOMAIN pubd THEN pubd[u] ELSE None

\* What generate_crl_and_manifest puts on d's manifest.
Manifest(rows, d) == [ver |-> 0, what |-> d,
                      lists |-> {<<Uri(r), r.obj.ver>> : r \in Issued(rows, d)}]

Kinds == <<"roa", "gbr", "ee", "regen", "retry">>
After(kind) == Kinds[1 + ((CHOOSE i \in DOMAIN Kinds : Kinds[i] = kind) % Len(Kinds))]

Ready(kind) == [kind |-> kind, at |-> "idle", unread |-> {}, scope |-> "any", got |-> {},
                torn |-> FALSE, items |-> {}, orphans |-> {}, details |-> {},
                new |-> {}, gone |-> {}]

Init ==
    /\ irdb \in [roa : SUBSET Content, batch : {0}, ee : {{}}, gbr : {{}}, changes : {0}]
    /\ LET state == [d \in Detail |-> IF d \in FirstActive THEN "active" ELSE "pending"]
           signed == [d \in Detail |-> IF d \in FirstActive THEN Manifest({}, d) ELSE None]
       IN  /\ rpkid = [state |-> state, rows |-> {}, revoked |-> {}, serial |-> 0,
                       mfts |-> signed, unsent |-> {}]
           /\ pubd = [u \in {ManifestUri(d) : d \in FirstActive} |-> signed[u[3]]]
    /\ task = Ready("roa")
    /\ steady = {}
    /\ broken = [ees |-> {}, rolled |-> FALSE]
    /\ failures = 0 /\ slices = 0

-----------------------------------------------------------------------------
(***************************************************************************)
(* What a coroutine signs, revokes and sends in one message.               *)
(***************************************************************************)
NextVersion == rpkid.serial + 1

\* The rows when `new' are saved and `gone' deleted.  delete() deletes the row
\* as it is now, whatever the instance says.
Saved(new, gone) ==
    {r \in rpkid.rows : \A x \in new \cup gone : ~SameRow(r, x)} \cup new

ObjectAt(rows, u) == IF \E r \in rows : Uri(r) = u
                     THEN (CHOOSE r \in rows : Uri(r) = u).obj ELSE None

\* publication_queue.queue: one PDU for each URI, with what it replaces.
Pdus(new, gone) ==
    {[uri |-> u, old |-> ObjectAt(gone, u), new |-> ObjectAt(new, u)] :
        u \in {Uri(r) : r \in new \cup gone}}

\* generate_crl_and_manifest.  It begins with check_failed_publication, whose
\* PDU without a hash the new one replaces.
ManifestPdus(mfts) ==
    {[uri |-> ManifestUri(d), new |-> mfts[d],
      old |-> IF d \in rpkid.unsent THEN None ELSE rpkid.mfts[d]] : d \in DOMAIN mfts}

\* CADetail.check_failed_publication: the products.  What this message has
\* published is too recent to be retried.
RetryPdus(details, rows, new) ==
    {[uri |-> Uri(r), old |-> None, new |-> r.obj] :
        r \in {x \in rows \ new : x.stamp /\ x.detail \in details}}

Manifests(details, rows) == [d \in details |-> Manifest(rows, d)]

Accepts(pdus) ==
    \A pdu \in pdus : IF pdu.new = None THEN Held(pdu.uri) = pdu.old /\ pdu.old # None
                                       ELSE Held(pdu.uri) \in {None, pdu.old}

Applied(pdus) ==
    LET published == {pdu \in pdus : pdu.new # None}
        kept == DOMAIN pubd \ {pdu.uri : pdu \in pdus}
    IN  [u \in kept \cup {pdu.uri : pdu \in published} |->
            IF u \in kept THEN pubd[u]
                          ELSE (CHOOSE pdu \in published : pdu.uri = u).new]

\* publication_queue.resync: what pubd holds becomes the objects of the active
\* detail that the query returned last.
Resynced(s, d) ==
    [u \in {ManifestUri(d)} \cup {Uri(r) : r \in Issued(s.rows, d)} |->
        IF u = ManifestUri(d) THEN s.mfts[d] ELSE ObjectAt(s.rows, u)]

\* The callbacks, after success.
Delivered(s, pdus) ==
    LET uris == {pdu.uri : pdu \in pdus}
    IN  [s EXCEPT !.rows = {[r EXCEPT !.stamp = @ /\ Uri(r) \notin uris] : r \in @},
                  !.unsent = {d \in @ : ManifestUri(d) \notin uris}]

MoreTroubles == failures + slices < MaxTroubles

\* publication_queue.call_pubd, when rpkid's rows are s.
CallPubd(s, pdus) ==
    \/ /\ Accepts(pdus)
       /\ pubd' = Applied(pdus)
       /\ rpkid' = Delivered(s, pdus)
       /\ UNCHANGED failures
    \/ /\ ~Accepts(pdus)
       /\ \E d \in {x \in Detail : s.state[x] = "active"} : pubd' = Resynced(s, d)
       /\ rpkid' = s
       /\ UNCHANGED failures
    \/ /\ pdus # {}
       /\ MoreTroubles /\ failures' = failures + 1
       /\ rpkid' = s
       /\ UNCHANGED pubd

\* Mutant: nothing is put on the list of revoked certificates.
Rpkid_NotRevoked(new, gone, revoked, mfts) ==
    [rpkid EXCEPT !.rows = Saved(new, gone),
                  !.serial = IF new = {} THEN @ ELSE NextVersion,
                  !.mfts = [d \in Detail |-> IF d \in DOMAIN mfts THEN mfts[d] ELSE @[d]],
                  !.unsent = @ \cup DOMAIN mfts]

\* The rows after saving, deleting and revoking, with the manifests mfts.
Rpkid(new, gone, revoked, mfts) ==
    [rpkid EXCEPT !.rows = Saved(new, gone),
                  !.revoked = @ \cup {Uri(r) : r \in revoked},
                  !.serial = IF new = {} THEN @ ELSE NextVersion,
                  !.mfts = [d \in Detail |-> IF d \in DOMAIN mfts THEN mfts[d] ELSE @[d]],
                  !.unsent = @ \cup DOMAIN mfts]

\* Sign `new', withdraw and revoke `gone', replace without revoking, make new
\* manifests, and send it all with what the task has collected before.
Publish(new, gone, replaced, details) ==
    LET rows == Saved(new, gone \cup replaced)
        mfts == Manifests(details, rows)
        signed == new \cup task.new
    IN  CallPubd(Rpkid(new, gone \cup replaced, gone, mfts),
                 Pdus(signed, gone \cup replaced \cup task.gone)
                 \cup ManifestPdus(mfts) \cup RetryPdus(details, rows, signed))

Done == task' = Ready(After(task.kind))

-----------------------------------------------------------------------------
(***************************************************************************)
(* The IRDB.  Each command is one transaction.                             *)
(***************************************************************************)
Change(f) ==
    /\ irdb.changes < MaxChanges
    /\ irdb' = [f EXCEPT !.changes = @ + 1]
    /\ steady' = steady \cap f.roa
    /\ UNCHANGED <<rpkid, pubd, task, broken, failures, slices>>

\* Zookeeper.load_roa_requests: new rows, even for what does not change.
LoadRoaRequests(contents) ==
    Change([irdb EXCEPT !.roa = contents, !.batch = irdb.changes + 1])

\* Zookeeper.load_ghostbuster_requests, for one parent or for any.
LoadGhostbusterRequests(scope, vcards) ==
    Change([irdb EXCEPT !.gbr = {g \in @ : g[1] # scope} \cup ({scope} \X vcards)])

\* Zookeeper.add_router_certificate_request.
AddRouterCertificateRequest(g, what) ==
    /\ \A e \in irdb.ee : e.gski # g
    /\ Change([irdb EXCEPT !.ee = @ \cup {[gski |-> g, id |-> irdb.changes + 1, what |-> what]}])

\* Zookeeper.delete_router_certificate_request.
DeleteRouterCertificateRequest(e) ==
    Change([irdb EXCEPT !.ee = @ \ {e}])

-----------------------------------------------------------------------------
(***************************************************************************)
(* irdbd's answer.  The rows come from one SELECT; what hangs from a row   *)
(* comes from one more for each, and is empty if the row is gone by then.  *)
(***************************************************************************)
Ask(kind, at, unread) ==
    /\ task.kind = kind /\ task.at = "idle"
    /\ task' = [task EXCEPT !.at = IF unread = {} THEN "reply" ELSE at, !.unread = unread]
    /\ UNCHANGED <<irdb, rpkid, pubd, broken, failures, slices>>

AskRoas == /\ Ask("roa", "read", irdb.roa \X {irdb.batch})
           /\ steady' = irdb.roa

AskGhostbusters == Ask("gbr", "count", Ca) /\ UNCHANGED steady

AskEes == Ask("ee", "read", irdb.ee) /\ UNCHANGED steady

Reading(x, got) ==
    /\ task' = [task EXCEPT !.unread = @ \ {x}, !.got = @ \cup got, !.at =
                   IF task.unread # {x} THEN IF task.kind = "gbr" THEN "count" ELSE "read"
                                        ELSE "reply",
                            !.torn = @ \/ (task.kind = "roa" /\ got = {})]
    /\ UNCHANGED <<irdb, rpkid, pubd, steady, broken, failures, slices>>

\* handle_list_roa_requests.  A request without prefixes makes generate raise
\* EmptyROAPrefixList, so it is as good as absent.
ReadRoa ==
    /\ task.kind = "roa" /\ task.at = "read"
    /\ \E x \in task.unread : Reading(x, IF x[2] = irdb.batch THEN {x[1]} ELSE {})

\* handle_list_ee_certificate_requests.
ReadEe ==
    /\ task.kind = "ee" /\ task.at = "read"
    /\ \E x \in task.unread :
        Reading(x, {[gski |-> x.gski, what |-> IF x \in irdb.ee THEN x.what ELSE {}]})

\* handle_list_ghostbuster_requests: a COUNT for this parent, then a SELECT for
\* this parent or for requests without one.
CountGhostbusters ==
    /\ task.at = "count"
    /\ \E ca \in task.unread :
        task' = [task EXCEPT !.at = "filter",
                    !.unread = {ca} \cup @, !.items = {ca},
                    !.scope = IF \E g \in irdb.gbr : g[1] = ca THEN ca ELSE "any"]
    /\ UNCHANGED <<irdb, rpkid, pubd, steady, broken, failures, slices>>

ReadGhostbusters ==
    /\ task.at = "filter"
    /\ \E ca \in task.items :
        Reading(ca, {<<ca, g[2]>> : g \in {x \in irdb.gbr : x[1] = task.scope}})

-----------------------------------------------------------------------------
(***************************************************************************)
(* UpdateROAsTask.                                                         *)
(***************************************************************************)
Same == UNCHANGED <<irdb, steady, broken, slices>>

\* Mutant: a ROA that has been found is not taken off the list of the others.
CompareRoas_AllOrphans ==
    LET rows(c) == {r \in RowsOf("roa") : r.name = c}
    IN  /\ task.kind = "roa" /\ task.at = "reply"
        /\ task' = [task EXCEPT !.at = "items",
               !.items = {<<c, rows(c)>> : c \in task.got}, !.orphans = RowsOf("roa")]
        /\ UNCHANGED <<rpkid, pubd, failures>> /\ Same

\* The reply is compared with the rows, which are loaded now: creates, updates
\* and orphans.  An item is a content and the instance loaded for it, if any.
CompareRoas ==
    LET rows(c) == {r \in RowsOf("roa") : r.name = c}
    IN  /\ task.kind = "roa" /\ task.at = "reply"
        /\ task' = [task EXCEPT !.at = "items",
               !.items = {<<c, rows(c)>> : c \in task.got},
               !.orphans = {r \in RowsOf("roa") : r.name \notin task.got}]
        /\ UNCHANGED <<rpkid, pubd, failures>> /\ Same

\* ROA.generate looks for an active detail that covers it.
Covering(active, c) == {d \in active : Need[c] \subseteq Covers[CaOf[d]]}

\* New ROAs come first.
Turn(x) ==
    /\ task.at = "items" /\ x \in task.items
    /\ x[2] = {} \/ \A y \in task.items : y[2] # {}
    /\ UNCHANGED <<pubd, failures>> /\ Same

\* ROA.update: the instance's detail is active, or no detail covers a ROA that
\* has none (NoCoveringCertForROA).
SkipRoa(x) ==
    LET active == {r.detail : r \in x[2]} \cap Active
    IN  /\ Turn(x)
        /\ active # {} \/ Covering(Active, x[1]) = {}
        /\ task' = [task EXCEPT !.items = @ \ {x}, !.details = @ \cup active]
        /\ UNCHANGED rpkid

\* ROA.generate, and ROA.regenerate when there is an instance to withdraw.
SignRoa(x, d) ==
    LET new == {Product("roa", x[1], d, NextVersion, x[1])}
    IN  /\ Turn(x)
        /\ {r.detail : r \in x[2]} \cap Active = {}
        /\ d \in Covering(Active, x[1])
        /\ rpkid' = Rpkid(new, {}, x[2], <<>>)
        /\ task' = [task EXCEPT !.items = @ \ {x}, !.details = @ \cup {d},
                                !.new = @ \cup new, !.gone = @ \cup x[2]]

\* Mutant: only what was signed asks for new manifests.
ManifestsFor_OnlyNew(gone, details) ==
    IF task.new = {} THEN {} ELSE details

\* New CRLs and manifests, if there is anything to publish.
ManifestsFor(gone, details) ==
    IF task.new \cup task.gone \cup gone = {} THEN {} ELSE details

\* All ROAs are treated: what is left over is withdrawn.
FinishRoas ==
    /\ task.at = "items" /\ task.items = {}
    /\ Publish({}, task.orphans, {}, ManifestsFor(task.orphans,
                    task.details \cup {r.detail : r \in task.orphans}))
    /\ Done /\ Same

\* The time slice is used up; the next run begins again with a new query.
PostponeRoas ==
    /\ task.at = "items" /\ task.items # {}
    /\ MoreTroubles /\ slices' = slices + 1
    /\ Publish({}, {}, {}, ManifestsFor({}, task.details))
    /\ Done /\ UNCHANGED <<irdb, steady, broken>>

-----------------------------------------------------------------------------
(***************************************************************************)
(* The other tasks.  They do not yield between the reply and call_pubd.    *)
(***************************************************************************)
\* UpdateGhostbustersTask: each active detail of the parent should have each
\* record once.
UpdateGhostbusters ==
    LET wanted == {x \in Active \X Vcard : <<CaOf[x[1]], x[2]>> \in task.got}
        has == {<<r.detail, r.name>> : r \in RowsOf("gbr")}
        orphans == {r \in RowsOf("gbr") : <<r.detail, r.name>> \notin wanted}
        made == {Product("gbr", x[2], x[1], NextVersion, x[2]) : x \in wanted \ has}
    IN  /\ task.kind = "gbr" /\ task.at = "reply"
        /\ Publish(made, orphans, {}, {x[1] : x \in wanted} \cup {r.detail : r \in orphans})
        /\ Done /\ Same

\* Tenant.find_covering_ca_details.
CoveringEe(what) == {d \in Active : what \subseteq Covers[CaOf[d]]}

RowsFor(x) == {r \in RowsOf("ee") : r.name = x.gski}

\* The rows that EECertificate.reissue changes, and what they become.
Reissued(x) == {r \in RowsFor(x) : r.detail \in CoveringEe(x.what) /\ r.obj.what # x.what}
Reissue(r, what) == Product("ee", r.name, r.detail, NextVersion, what)

\* A certificate that loses resources has to be revoked, which fails: the
\* certificate that replaces it is in the database by then.
Shrinks(x) == \E r \in Reissued(x) : ~(r.obj.what \subseteq x.what)

\* What UpdateEECertificatesTask does for a request.
MadeFor(x) == {Reissue(r, x.what) : r \in Reissued(x)} \cup
              {Product("ee", x.gski, d, NextVersion, x.what) :
                  d \in CoveringEe(x.what) \ {r.detail : r \in RowsFor(x)}}
\* Mutant: certificates that no detail covers any more are kept.
Uncovered_Never(x) == {}

Uncovered(x) == {r \in RowsFor(x) : r.detail \notin CoveringEe(x.what)}
Orphans == {r \in RowsOf("ee") : \A x \in task.got : r.name # x.gski}

UpdateEes ==
    LET gone == Orphans \cup UNION {Uncovered(x) : x \in task.got}
    IN  /\ task.kind = "ee" /\ task.at = "reply"
        /\ \A x \in task.got : ~Shrinks(x)
        /\ Publish(UNION {MadeFor(x) : x \in task.got}, gone,
                   UNION {Reissued(x) : x \in task.got},
                   {r.detail : r \in gone} \cup UNION {CoveringEe(x.what) : x \in task.got})
        /\ Done /\ Same

\* The rows when the requests `done' are treated, and of x the rows in `part'.
EesAfter(done, x, part) ==
    [made |-> {Reissue(r, x.what) : r \in part \cap Reissued(x)}
              \cup UNION {MadeFor(y) : y \in done},
     gone |-> (part \ Reissued(x)) \cup UNION {Uncovered(y) : y \in done},
     replaced |-> (part \cap Reissued(x)) \cup UNION {Reissued(y) : y \in done}]

\* The requests up to the last one in rank for which a row of d is reissued.
UpTo(d, done, rank) ==
    {y \in done : \E z \in done : rank[y] <= rank[z] /\ \E q \in Reissued(z) : q.detail = d}

\* The exception ends the task in the middle of request x, at row r; requests
\* are treated in irdbd's order, the rows of one in any.  What came before is in
\* the database too, with a manifest for each detail that has reissued, from
\* when it did so last, and nothing is published.
AbortEes(x, r, part, rank) ==
    LET before == {y \in task.got : rank[y] < rank[x]}
        last == EesAfter(before, x, part \cup {r})
        details(rows) == {q.detail : q \in rows}
        here == details(part \cap Reissued(x))
        listed(d) == LET f == IF d \in here THEN EesAfter(before, x, part)
                                            ELSE EesAfter(UpTo(d, before, rank), x, {})
                     IN  Saved(f.made, f.gone \cup f.replaced)
        mfts == [d \in here \cup details(UNION {Reissued(y) : y \in before}) |->
                    Manifest(listed(d), d)]
    IN  /\ task.kind = "ee" /\ task.at = "reply"
        /\ \A y \in before : ~Shrinks(y)
        /\ r \in Reissued(x) \ part /\ ~(r.obj.what \subseteq x.what)
        /\ \A q \in part \cap Reissued(x) : q.obj.what \subseteq x.what
        /\ rpkid' = Rpkid(last.made, last.gone \cup last.replaced, last.gone, mfts)
        /\ broken' = [broken EXCEPT !.ees = @ \cup {y.gski : y \in before \cup {x}}]
        /\ Done /\ UNCHANGED <<irdb, pubd, steady, failures, slices>>

\* RegenerateCRLsAndManifestsTask, for the details that are due.
Regenerate(due) ==
    /\ task.kind = "regen"
    /\ Publish({}, {}, {}, due)
    /\ Done /\ Same

Signing == {d \in Detail : rpkid.state[d] \in {"active", "deprecated"}}

\* The CheckFailedPublication task.
Retry ==
    LET manifests == {[uri |-> ManifestUri(d), old |-> None, new |-> rpkid.mfts[d]] :
                         d \in Active \cap rpkid.unsent}
    IN  /\ task.kind = "retry"
        /\ CallPubd(rpkid, manifests \cup RetryPdus(Active, rpkid.rows, {}))
        /\ Done /\ Same

\* CADetail.activate, at the end of a key rollover: the new detail's manifest,
\* the products of its predecessor, then that one's manifest.  A ROA looks for
\* a detail, a ghostbuster keeps its own, and so does the row of a router
\* certificate, whose reissue makes one more manifest for the new detail.
Activate(d, e) ==
    LET mine(kind) == Issued(RowsOf(kind), d)
        found(r) == CHOOSE x \in Covering((Active \ {d}) \cup {e}, r.name) : TRUE
        new == {Product("roa", r.name, found(r), NextVersion, r.name) : r \in mine("roa")}
               \cup {Product("gbr", r.name, d, NextVersion, r.name) : r \in mine("gbr")}
               \cup {Reissue(r, r.obj.what) : r \in mine("ee")}
        gone == mine("roa") \cup mine("gbr")
        rows == Saved(new, gone \cup mine("ee"))
        mfts == [x \in {d, e} |->
                    Manifest(IF x = e /\ mine("ee") = {} THEN rpkid.rows ELSE rows, x)]
        s == [Rpkid(new, gone \cup mine("ee"), gone, mfts) EXCEPT
                 !.state[d] = "deprecated", !.state[e] = "active"]
    IN  /\ rpkid.state[d] = "active" /\ rpkid.state[e] = "pending" /\ CaOf[d] = CaOf[e]
        /\ CallPubd(s, Pdus(new, gone \cup mine("ee")) \cup ManifestPdus(mfts)
                       \cup RetryPdus({d, e}, rows, new))
        /\ broken' = [broken EXCEPT !.rolled = @ \/ task.at = "items"]
        /\ UNCHANGED <<irdb, task, steady, slices>>

AbortedEes ==
    /\ task.kind = "ee"
    /\ \E x \in task.got, rank \in Injection(task.got, 1..Cardinality(task.got)) :
        \E r \in Reissued(x), part \in SUBSET (Reissued(x) \cup Uncovered(x)) :
            AbortEes(x, r, part, rank)

-----------------------------------------------------------------------------
IrdbChanges ==
    \/ \E contents \in SUBSET Content : LoadRoaRequests(contents)
    \/ \E scope \in Scope, vcards \in SUBSET Vcard : LoadGhostbusterRequests(scope, vcards)
    \/ \E g \in Gski, what \in EeResources : AddRouterCertificateRequest(g, what)
    \/ \E e \in irdb.ee : DeleteRouterCertificateRequest(e)

TaskStep ==
    \/ AskRoas \/ ReadRoa \/ CompareRoas \/ FinishRoas \/ PostponeRoas
    \/ AskGhostbusters \/ CountGhostbusters \/ ReadGhostbusters \/ UpdateGhostbusters
    \/ AskEes \/ ReadEe \/ UpdateEes
    \/ \E x \in task.items : SkipRoa(x) \/ \E d \in Detail : SignRoa(x, d)
    \/ AbortedEes
    \/ \E due \in SUBSET Signing : Regenerate(due)
    \/ Retry

Next == IrdbChanges \/ TaskStep \/ \E d, e \in Detail : Activate(d, e)

Spec == Init /\ [][Next]_vars

\* cron runs the tasks for ever, and a manifest becomes due again and again.
LiveSpec == Spec /\ WF_vars(TaskStep) /\ SF_vars(Regenerate(Signing))

-----------------------------------------------------------------------------
TypeOK ==
    /\ irdb.roa \subseteq Content /\ irdb.gbr \subseteq Scope \X Vcard
    /\ \A r \in rpkid.rows : r.detail \in Detail /\ r.obj.ver \in 1..rpkid.serial
    /\ rpkid.state \in [Detail -> {"pending", "active", "deprecated"}]
    /\ rpkid.unsent \subseteq Detail
    /\ \A u \in DOMAIN pubd : pubd[u] # None
    /\ task.at \in {"idle", "read", "count", "filter", "reply", "items"}
    /\ steady \subseteq Content /\ {failures, slices} \subseteq 0..MaxTroubles

\* CRL and manifest are generated when a task is ready to publish, so between
\* two tasks a detail's manifest lists the rows it has issued, unless a
\* rollover has come or an EE certificate could not be reissued.
ManifestExact ==
    TypeOK /\ (broken.ees = {} /\ task.at = "idle" /\ Active = FirstActive =>
        \A d \in Active : rpkid.mfts[d] = Manifest(rpkid.rows, d))

RoasAt(p) == {p[u].what : u \in {x \in DOMAIN p : x[1] = "roa"}}

\* resync keeps the objects of one active ca_detail, and c's ROA is another's.
ResyncDrops(c) ==
    \E d \in Active', r \in RowsOf("roa")' :
        pubd' = Resynced(rpkid', d) /\ r.name = c /\ r.detail # d

\* Whatever is changed around it, and through a key rollover, a ROA that pubd
\* and the database have stays at pubd as long as it is asked for, except when
\* irdbd reads a request that load_roa_requests is replacing, and when resync
\* drops the objects of a ca_detail, as it does with those of all but the last.
RoaKept ==
    [][LET held == RoasAt(pubd) \cap {r.name : r \in RowsOf("roa")}
       IN  ~task.torn =>
            \A c \in steady' \cap held : c \in RoasAt(pubd') \/ ResyncDrops(c)]_vars

\* A ROA or ghostbuster that leaves pubd has had its certificate revoked (or
\* will be back: its row is there), unless a rollover replaced it under a running UpdateROAs.
WithdrawnIsRevoked ==
    [][~broken'.rolled => \A u \in DOMAIN pubd \ DOMAIN pubd' :
            u[1] \in {"roa", "gbr"} =>
                u \in rpkid'.revoked \cup {Uri(r) : r \in rpkid'.rows}]_vars

Wanted(kind) ==
    CASE kind = "roa" -> {<<c, c>> : c \in {x \in irdb.roa : Covering(Active, x) # {}}}
      [] kind = "gbr" -> {<<v, v>> : v \in {x \in Vcard : \E d \in Active :
            <<IF \E g \in irdb.gbr : g[1] = CaOf[d] THEN CaOf[d] ELSE "any", x>> \in irdb.gbr}}
      [] kind = "ee" -> {<<e.gski, e.what>> : e \in {x \in irdb.ee :
            x.gski \notin broken.ees /\ CoveringEe(x.what) # {}}}

\* pubd holds what is asked for and nothing else, and the manifests say so.
Agreed ==
    LET products == {u \in DOMAIN pubd : u[1] # "mft" /\ (u[1] = "ee" => u[3] \notin broken.ees)}
        shown == {<<IF u[1] = "ee" THEN u[3] ELSE pubd[u].what, pubd[u].what>> : u \in products}
    IN  /\ shown = UNION {Wanted(kind) : kind \in {"roa", "gbr", "ee"}}
        /\ Cardinality(products) = Cardinality({r \in rpkid.rows : r.name \notin broken.ees})
        /\ \A d \in Active : Held(ManifestUri(d)) = Manifest(rpkid.rows, d)

(***************************************************************************)
(* The inductive invariant from which the safety properties are proved.    *)
(***************************************************************************)
\* A deprecated ca_detail never becomes active again.
NoRollover == Active = FirstActive
RolloverInv ==
    \/ NoRollover /\ ~broken.rolled
    \/ \E d \in FirstActive : rpkid.state[d] = "deprecated"

\* A ROA has one row, under an active ca_detail that covers it.
RoaRowsInv ==
    /\ \A r \in RowsOf("roa") : r.obj.what = r.name /\ r.detail \in Covering(Active, r.name)
    /\ \A r, x \in RowsOf("roa") : r.name = x.name => r.detail = x.detail

\* What a running UpdateROAs keeps: its answer covers what has been asked for
\* all the time, and what it withdraws without being asked it has signed anew.
LoadedInv ==
    /\ task.kind = "roa" /\ ~task.torn =>
        /\ task.at = "read" => steady \subseteq task.got \cup {x[1] : x \in task.unread}
        /\ task.at \in {"reply", "items"} => steady \subseteq task.got
    /\ task.at # "items" => task.new = {} /\ task.gone = {}
    /\ task.at = "items" =>
        /\ \A x \in task.items : x[1] \in task.got /\ \A r \in x[2] : r.kind = "roa" /\ r.name = x[1]
        /\ \A r \in task.orphans : r.kind = "roa" /\ r.name \notin task.got
        /\ \A r \in task.new : r.kind = "roa" /\ r.obj.what = r.name /\ r.obj.ver # 0
        /\ \A r \in task.gone : r.kind = "roa" /\ \E x \in task.new : x.name = r.name

\* While no rollover has come between, its instances are the rows.
InstancesInv ==
    task.at = "items" /\ ~broken.rolled =>
        /\ task.orphans = {r \in RowsOf("roa") : r.name \notin task.got}
        /\ \A x \in task.items : x[2] = {r \in RowsOf("roa") : r.name = x[1]}
        /\ task.new \subseteq rpkid.rows /\ task.gone = {}
        /\ \A r \in task.new : r.name \in task.got /\ \A x \in task.items : x[1] # r.name

\* Manifests may be behind for the ca_details that the task has written down.
ManifestsInv ==
    /\ \A d \in Detail : rpkid.state[d] # "pending" => rpkid.mfts[d].what = d
    /\ NoRollover /\ broken.ees = {} =>
        \A d \in Active : \/ task.at = "items" /\ task.new # {} /\ d \in task.details
                          \/ rpkid.mfts[d] = Manifest(rpkid.rows, d)

\* What pubd has, rpkid has or has revoked.
PubdInv ==
    /\ \A u \in DOMAIN pubd : u[1] = "roa" => pubd[u].what = u[3]
    /\ ~broken.rolled => \A u \in DOMAIN pubd : u[1] \in {"roa", "gbr"} =>
            u \in rpkid.revoked \cup {Uri(r) : r \in rpkid.rows}

RequestsInv == /\ RolloverInv /\ RoaRowsInv /\ LoadedInv /\ InstancesInv
               /\ ManifestsInv /\ PubdInv

\* However the changes, the tasks, lost messages and a rollover interleave, the
\* tasks end by publishing what the IRDB asks for.
Settles == <>[]Agreed
=============================================================================
