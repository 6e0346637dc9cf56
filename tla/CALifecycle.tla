---------------------------- MODULE CALifecycle ----------------------------
(***************************************************************************)
(* rpkid: the life of a CA's keys and of what is issued under them, from   *)
(* src/rpki/rpkidb/models.py, src/rpki/rpkid_tasks.py and the up-down      *)
(* handlers: polling the parent, key rollover, revocation, the child's     *)
(* requests and the periodic tasks.                                        *)
(*                                                                         *)
(* One tenant with one parent and one resource class, which is one row of  *)
(* CA.  A coroutine is split at its yields: each request to the parent and *)
(* each reply is a step of its own, and what the code does between two     *)
(* yields is one step.                                                     *)
(*                                                                         *)
(* Simplifications.                                                        *)
(*  - A certificate is identified with its resources; validity, SIA and    *)
(*    AIA, which also make the code reissue, are left out.                 *)
(*  - Coroutines do not overlap: a task, a left-right command and an       *)
(*    up-down request each run to their end before another one begins.     *)
(*    The code does not guarantee it (see the README on stale instances).  *)
(*  - A ROA is for one resource; Ghostbuster records and router            *)
(*    certificates are left out.                                           *)
(*  - A manifest and a CRL are represented by their difference to the      *)
(*    database: an object that is not "listed", and a ca_detail whose "lag" *)
(*    is TRUE because something was revoked or taken away since.           *)
(*  - A task is not postponed half way.                                    *)
(*  - Publication is the subject of module Publication.                    *)
(***************************************************************************)
EXTENDS Integers, FiniteSets, FiniteSetsExt

CONSTANTS
    Res,        \* Internet number resources
    Key,        \* key pairs, identified with the CADetail rows that hold them
    Child,      \* children of this CA, with one key each
    None,       \* no row, no certificate
    Faults,     \* what may fail: a subset of {"request", "reply", "publish"}
    MaxFaults,  \* bound: failures of each kind
    MaxChanges  \* bound: changes of the IRDBs, rekeys and children's revocations

ASSUME ConstantsAssumption ==
    /\ IsFiniteSet(Res) /\ IsFiniteSet(Key) /\ IsFiniteSet(Child)
    /\ None \notin Key \cup Child
    /\ Faults \subseteq {"request", "reply", "publish"}
    /\ MaxFaults \in Nat /\ MaxChanges \in Nat

VARIABLES
    db,         \* rpkid's database: ca, details, certs, roas
    task,       \* the coroutine under way
    grant,      \* what the parent's IRDB gives this CA
    issued,     \* the parent's ChildCert rows for this CA, by key
    irdb,       \* what the IRDB gives each child
    want,       \* the ROA requests in the IRDB
    faults,     \* how often each kind of failure has happened
    changes

vars == <<db, task, grant, issued, irdb, want, faults, changes>>

States == {"pending", "active", "deprecated", "revoked"}
Detail == [state : States, cert : SUBSET Res, lag : BOOLEAN]
Cert == [child : Child, detail : Key, res : SUBSET Res, listed : BOOLEAN]
Roa == [for : Res, detail : Key, listed : BOOLEAN]

ASSUME NoneAssumption ==
    /\ \A row \in Detail : row # None
    /\ \A res \in SUBSET Res : res # None

NoTask == [name |-> "none", at |-> "none", key |-> None, old |-> None,
           todo |-> {}, list |-> None, cert |-> {}]

Init ==
    /\ db = [ca |-> FALSE, details |-> [k \in Key |-> None], certs |-> {}, roas |-> {}]
    /\ task = NoTask
    /\ grant = Res
    /\ issued = [k \in Key |-> None]
    /\ irdb = [c \in Child |-> Res]
    /\ want = Res
    /\ faults = [f \in Faults |-> 0] /\ changes = 0

Known(d) == {k \in Key : d.details[k] # None}
In(d, states) == {k \in Known(d) : d.details[k].state \in states}
Active(d) == In(d, {"active"})
CertsOf(d, k) == {c \in d.certs : c.detail = k}
RoasOf(d, k) == {a \in d.roas : a.detail = k}

\* A key pair that is in nobody's database.
FreshKeys == {k \in Key : db.details[k] = None /\ issued[k] = None}

-----------------------------------------------------------------------------
(***************************************************************************)
(* CADetail, ChildCert and ROA: what the methods make of the database.     *)
(***************************************************************************)

\* generate_crl_and_manifest lists every object under the ca_detail.
Generate(d, k) ==
    [d EXCEPT !.details[k].lag = FALSE,
              !.certs = {IF c.detail = k THEN [c EXCEPT !.listed = TRUE] ELSE c : c \in @},
              !.roas = {IF a.detail = k THEN [a EXCEPT !.listed = TRUE] ELSE a : a \in @}]

GenerateOne(k, d) == Generate(d, k)
GenerateAll(d, ks) == FoldSet(GenerateOne, d, ks)

Lag(d, ks) ==
    [d EXCEPT !.details = [k \in Key |-> IF k \in ks THEN [@[k] EXCEPT !.lag = TRUE] ELSE @[k]]]

\* Certificates and ROAs that are no longer under their ca_details: revoked and
\* withdrawn, or replaced by others under another ca_detail.
DropCerts(d, cs) == Lag([d EXCEPT !.certs = @ \ cs], {c.detail : c \in cs})
DropRoas(d, as) == Lag([d EXCEPT !.roas = @ \ as], {a.detail : a \in as})

\* CADetail.issue: a new row, or the row in old updated in place.
Issue(d, k, child, res, old) ==
    LET row == [child |-> child, detail |-> k, res |-> res, listed |-> FALSE]
        d1 == DropCerts(d, old)
    IN  Generate([d1 EXCEPT !.certs = @ \cup {row}], k)

\* ChildCert.reissue: nothing if nothing changes; when resources are lost, the
\* certificates under k for this key are revoked and a new row is made.
Reissue(d, c, k, res) ==
    LET same == {x \in CertsOf(d, k) : x.child = c.child}
    IN  IF res = c.res /\ k = c.detail THEN d
        ELSE IF c.res \subseteq res THEN Issue(d, k, c.child, res, {c})
        ELSE Issue(Generate(DropCerts(d, same), k), k, c.child, res, {})

\* One turn of a loop that reissues certificates; ask says which, under which
\* ca_detail, and with which resources.
ReissueOne(ask, d) == Reissue(d, ask.cert, ask.detail, ask.res)
ReissueOrRevoke(ask, d) ==
    IF ask.res = {} THEN Generate(DropCerts(d, {ask.cert}), ask.detail) ELSE ReissueOne(ask, d)

\* The ca_details that ROA.generate may use: the ROA's own one as long as it is
\* active, whether or not it covers the ROA; else any active one that does.
Covering(d, r) == {k \in Active(d) : r \in d.details[k].cert}
RoaDetails(d, a) == IF a.detail \in Active(d) THEN {a.detail} ELSE Covering(d, a.for)

NewRoa(r, ks) == [for |-> r, detail |-> CHOOSE k \in ks : TRUE, listed |-> FALSE]

\* ROA.regenerate: the new ROA under the chosen ca_detail, the old one withdrawn
\* and its certificate revoked.  Only for ROAs with a ca_detail to choose.
Regenerate(d, as) ==
    LET d1 == DropRoas(d, as)
    IN  [d1 EXCEPT !.roas = @ \cup {NewRoa(a.for, RoaDetails(d, a)) : a \in as}]

\* CADetail.destroy.
Destroy(d, ks) ==
    [d EXCEPT !.details = [k \in Key |-> IF k \in ks THEN None ELSE @[k]],
              !.certs = {c \in @ : c.detail \notin ks},
              !.roas = {a \in @ : a.detail \notin ks}]

\* CA.create_detail, and the row of CA if it is new.
CreateDetail(d, k) ==
    [d EXCEPT !.ca = TRUE,
              !.details[k] = [state |-> "pending", cert |-> {}, lag |-> FALSE]]

SetState(d, k, state) == [d EXCEPT !.details[k].state = state]
SetCert(d, k, cert) == Generate([d EXCEPT !.details[k].cert = cert], k)

\* Mutant: the predecessor's children are not reissued.
Activate_ChildrenStay(d, k, cert, old) ==
    LET d1 == SetState(SetCert(d, k, cert), k, "active")
    IN  {IF old = None THEN d1 ELSE SetState(d1, old, "deprecated")}

\* CADetail.activate: the databases it may leave behind.  A ROA that no active
\* ca_detail covers raises NoCoveringCertForROA: the ROAs that come after it
\* stay where they are, and the predecessor's manifest is not made again.
Activate(d, k, cert, old) ==
    LET d1 == SetState(SetCert(d, k, cert), k, "active")
        d2 == IF old = None THEN d1 ELSE SetState(d1, old, "deprecated")
        d3 == FoldSet(ReissueOne, d2, {[cert |-> c, detail |-> k, res |-> c.res] : c \in CertsOf(d2, old)})
        movable == {a \in RoasOf(d3, old) : RoaDetails(d3, a) # {}}
    IN  IF old = None THEN {d1}
        ELSE IF movable = RoasOf(d3, old) THEN {Generate(Regenerate(d3, movable), old)}
        ELSE {Regenerate(d3, moved) : moved \in SUBSET movable}

\* CADetail.update, after the answer, for a ca_detail that is not pending.
UpdateDetail(d, k, cert) ==
    LET old == d.details[k].cert
        d1 == IF cert = old THEN d ELSE SetCert(d, k, cert)
        over == {c \in CertsOf(d1, k) : ~(c.res \subseteq cert)}
        d2 == FoldSet(ReissueOne, d1,
                      {[cert |-> c, detail |-> k, res |-> c.res \cap cert] : c \in over})
    IN  IF old \subseteq cert THEN d1
        ELSE Regenerate(d2, {a \in RoasOf(d2, k) : a.for \notin cert})

\* Mutant: the IRDB is not asked.
Shrunk_CertOnly(d, c) == c.res \cap d.details[c.detail].cert

\* UpdateChildrenTask: certificates under active ca_details lose what the IRDB or
\* the ca_detail has lost.  They never gain: that is for the child to ask.
Shrunk(d, c) == c.res \cap irdb[c.child] \cap d.details[c.detail].cert

UpdateChildrenIn(d) ==
    FoldSet(ReissueOrRevoke, d, {[cert |-> c, detail |-> c.detail, res |-> Shrunk(d, c)] :
                                    c \in {x \in d.certs : x.detail \in Active(d)}})

\* UpdateROAsTask: ROAs under a ca_detail that is not active or does not cover
\* them are regenerated, missing ones made, others revoked.  If anything is
\* queued, the ca_details of the ROAs get a new manifest: the ones they are under
\* now, and the ones of revoked ROAs.
UpdateROAsIn(d) ==
    LET wanted == {a \in d.roas : a.for \in want}
        orphans == d.roas \ wanted
        stale == {a \in wanted : /\ RoaDetails(d, a) # {}
                                 /\ a.detail \notin Covering(d, a.for)}
        created == {r \in want \ {a.for : a \in wanted} : Covering(d, r) # {}}
        d1 == Regenerate(d, stale)
        d2 == [d1 EXCEPT !.roas = @ \cup {NewRoa(r, Covering(d, r)) : r \in created}]
        touched == {a.detail : a \in {b \in d2.roas : b.for \in want /\ RoaDetails(d2, b) # {}}}
                   \cup {a.detail : a \in orphans}
    IN  IF stale = {} /\ created = {} /\ orphans = {} THEN d
        ELSE GenerateAll(DropRoas(d2, orphans), touched)

-----------------------------------------------------------------------------
(***************************************************************************)
(* What may fail, and how a coroutine goes on.                             *)
(***************************************************************************)
Fail(f) == /\ f \in Faults /\ faults[f] < MaxFaults
           /\ faults' = [faults EXCEPT ![f] = @ + 1]

Change == /\ changes < MaxChanges
          /\ changes' = changes + 1

\* The loop over todo goes on, or ends.
Continue == task' = IF task.todo = {} THEN NoTask ELSE [task EXCEPT !.at = "next"]

\* call_pubd at the end of an iteration: what it raises ends the whole task.
Published ==
    \/ Continue /\ UNCHANGED faults
    \/ task.todo # {} /\ Fail("publish") /\ task' = NoTask

Ask(name, k, old) ==
    task' = [task EXCEPT !.name = name, !.at = "request", !.key = k, !.old = old]

\* A new ca_detail asks for its first certificate.
StartRekey(old) ==
    \E k \in FreshKeys : db' = CreateDetail(db, k) /\ Ask("rekey", k, old)

-----------------------------------------------------------------------------
(***************************************************************************)
(* Polling the parent.  Its list response has the class if there is        *)
(* anything in it, and the certificates it has issued.                     *)
(***************************************************************************)
PollList ==
    /\ task = NoTask
    /\ UNCHANGED <<grant, issued, irdb, want, changes>>
    /\ \/ \* a class that is new: PollParentTask.create
          /\ ~db.ca /\ grant # {}
          /\ StartRekey(None)
          /\ UNCHANGED faults
       \/ \* a class that is gone: CA.destroy, which keeps the CA if pubd fails
          /\ db.ca /\ grant = {}
          /\ task' = NoTask
          /\ LET gone == Destroy(db, Known(db))
             IN  \/ db' = [gone EXCEPT !.ca = FALSE] /\ UNCHANGED faults
                 \/ db' = gone /\ Fail("publish")
       \/ \* nothing but revoked ca_details
          /\ db.ca /\ grant # {}
          /\ In(db, States \ {"revoked"}) = {}
          /\ StartRekey(None)
          /\ UNCHANGED faults
       \/ /\ db.ca /\ grant # {}
          /\ In(db, States \ {"revoked"}) # {}
          /\ task' = [NoTask EXCEPT !.name = "poll", !.at = "next",
                                    !.todo = In(db, States \ {"revoked"}),
                                    !.list = [grant |-> grant, certs |-> issued]]
          /\ UNCHANGED <<db, faults>>

\* The next ca_detail in PollParentTask.update.
PollNext ==
    /\ task.name = "poll" /\ task.at = "next"
    /\ \E k \in task.todo :
        LET row == db.details[k]
            listed == task.list.certs[k]
            rest == task.todo \ {k}
            current == row.state = "active" /\ {row.cert, listed} = {task.list.grant}
        IN  \/ \* the parent does not list its key
               /\ listed = None
               /\ db' = Destroy(db, {k})
               /\ \/ /\ task' = IF rest = {} THEN NoTask ELSE [task EXCEPT !.todo = rest]
                     /\ UNCHANGED faults
                  \/ rest # {} /\ Fail("publish") /\ task' = NoTask
            \/ /\ listed # None
               /\ row.state = "deprecated" \/ current
               /\ task' = IF rest = {} THEN NoTask ELSE [task EXCEPT !.todo = rest]
               /\ UNCHANGED <<db, faults>>
            \/ /\ listed # None
               /\ row.state = "pending" \/ (row.state = "active" /\ ~current)
               /\ task' = [task EXCEPT !.at = "request", !.key = k, !.todo = rest]
               /\ UNCHANGED <<db, faults>>
    /\ UNCHANGED <<grant, issued, irdb, want, changes>>

-----------------------------------------------------------------------------
(***************************************************************************)
(* Requests to the parent, and the answers.  The parent certifies any key  *)
(* for what it grants, and refuses when that is nothing.                   *)
(***************************************************************************)
Parent ==
    /\ task.at = "request"
    /\ \/ /\ task.name \in {"poll", "rekey"} /\ grant # {}
          /\ issued' = [issued EXCEPT ![task.key] = grant]
          /\ task' = [task EXCEPT !.at = "reply", !.cert = grant]
       \/ /\ task.name \in {"poll", "rekey"} /\ grant = {}
          /\ task' = NoTask
          /\ UNCHANGED issued
       \/ /\ task.name \in {"revoke", "forget"}
          /\ issued' = [issued EXCEPT ![task.key] = None]
          /\ task' = [task EXCEPT !.at = "reply"]
    /\ UNCHANGED <<db, grant, irdb, want, faults, changes>>

\* The exception ends the coroutine.
Lose ==
    /\ task.at \in {"request", "reply"} /\ Fail(task.at)
    /\ task' = NoTask
    /\ UNCHANGED <<db, grant, issued, irdb, want, changes>>

GotCert ==
    /\ task.at = "reply" /\ task.name \in {"poll", "rekey"}
    /\ IF db.details[task.key].state = "pending"
       THEN db' \in Activate(db, task.key, task.cert, task.old)
       ELSE db' = UpdateDetail(db, task.key, task.cert)
    /\ Published
    /\ UNCHANGED <<grant, issued, irdb, want, changes>>

\* Mutant: ROAs are left under the revoked ca_detail.
FinishRevoke_RoasStay(d, k) ==
    SetState(Generate(DropCerts(d, CertsOf(d, k)), k), k, "revoked")

\* CA.revoke, one deprecated ca_detail: everything under it is revoked, a last
\* CRL and manifest are made, and the keys are thrown away.
FinishRevoke(d, k) ==
    LET d1 == DropRoas(DropCerts(d, CertsOf(d, k)), RoasOf(d, k))
    IN  SetState(Generate(d1, k), k, "revoked")

GotRevoked ==
    /\ task.at = "reply" /\ task.name \in {"revoke", "forget"}
    /\ db' = IF task.name = "revoke" THEN FinishRevoke(db, task.key) ELSE db
    /\ Continue
    /\ UNCHANGED <<grant, issued, irdb, want, faults, changes>>

RevokeNext ==
    /\ task.name \in {"revoke", "forget"} /\ task.at = "next"
    /\ \E k \in task.todo :
        task' = [task EXCEPT !.at = "request", !.key = k, !.todo = @ \ {k}]
    /\ UNCHANGED <<db, grant, issued, irdb, want, faults, changes>>

-----------------------------------------------------------------------------
(***************************************************************************)
(* The operator's commands.                                                *)
(***************************************************************************)

\* CA.rekey.  With two active ca_details it raises MultipleObjectsReturned.
Rekey ==
    /\ task = NoTask /\ db.ca /\ Change
    /\ Cardinality(Active(db)) <= 1
    /\ StartRekey(IF Active(db) = {} THEN None ELSE CHOOSE k \in Active(db) : TRUE)
    /\ UNCHANGED <<grant, issued, irdb, want, faults>>

Revoke ==
    /\ task = NoTask /\ In(db, {"deprecated"}) # {}
    /\ task' = [NoTask EXCEPT !.name = "revoke", !.at = "next", !.todo = In(db, {"deprecated"})]
    /\ UNCHANGED <<db, grant, issued, irdb, want, faults, changes>>

\* Parent.serve_revoke_forgotten: keys the parent lists and we do not have.  A
\* pending ca_detail has no certificate to compare, and raises AttributeError.
RevokeForgotten ==
    LET forgotten == {k \in Key : issued[k] # None} \ In(db, States \ {"revoked"})
    IN  /\ task = NoTask /\ grant # {}
        /\ In(db, {"pending"}) = {} /\ forgotten # {}
        /\ task' = [NoTask EXCEPT !.name = "forget", !.at = "next", !.todo = forgotten]
        /\ UNCHANGED <<db, grant, issued, irdb, want, faults, changes>>

-----------------------------------------------------------------------------
(***************************************************************************)
(* The periodic tasks.                                                     *)
(***************************************************************************)
UpdateChildren ==
    /\ task = NoTask /\ db' = UpdateChildrenIn(db)
    /\ UNCHANGED <<task, grant, issued, irdb, want, faults, changes>>

UpdateROAs ==
    /\ task = NoTask /\ db' = UpdateROAsIn(db)
    /\ UNCHANGED <<task, grant, issued, irdb, want, faults, changes>>

\* Mutant: deprecated ca_details are forgotten.
RegenerateCRL_ActiveOnly(k) ==
    /\ task = NoTask /\ k \in In(db, {"active"})
    /\ db' = Generate(db, k)
    /\ UNCHANGED <<task, grant, issued, irdb, want, faults, changes>>

\* RegenerateCRLsAndManifestsTask, for a ca_detail whose CRL is due and for a
\* revoked one whose last CRL has run out.
RegenerateCRL(k) ==
    /\ task = NoTask /\ k \in In(db, {"active", "deprecated"})
    /\ db' = Generate(db, k)
    /\ UNCHANGED <<task, grant, issued, irdb, want, faults, changes>>

DestroyTombstone(k) ==
    /\ task = NoTask /\ k \in In(db, {"revoked"})
    /\ db' = Destroy(db, {k})
    /\ UNCHANGED <<task, grant, issued, irdb, want, faults, changes>>

-----------------------------------------------------------------------------
(***************************************************************************)
(* The children.  A child polls as this CA does: it asks for what the list *)
(* response offers and it does not have.                                   *)
(***************************************************************************)
ChildIssue(c) ==
    /\ task = NoTask
    /\ \E k \in Active(db) :
        LET res == irdb[c] \cap db.details[k].cert
            mine == {x \in CertsOf(db, k) : x.child = c}
        IN  /\ Active(db) = {k} /\ res # {}
            /\ db' = IF mine = {} THEN Issue(db, k, c, res, {})
                     ELSE Reissue(db, CHOOSE x \in mine : TRUE, k, res)
    /\ UNCHANGED <<task, grant, issued, irdb, want, faults, changes>>

ChildRevoke(c) ==
    LET mine == {x \in db.certs : x.child = c}
    IN  /\ task = NoTask /\ mine # {} /\ Change
        /\ db' = GenerateAll(DropCerts(db, mine), {x.detail : x \in mine})
        /\ UNCHANGED <<task, grant, issued, irdb, want, faults>>

-----------------------------------------------------------------------------
(***************************************************************************)
(* The world: the parent's IRDB and its UpdateChildrenTask, and our IRDB.  *)
(***************************************************************************)
SetGrant ==
    /\ Change /\ grant' \in (SUBSET Res) \ {grant}
    /\ UNCHANGED <<db, task, issued, irdb, want, faults>>

ParentUpdates ==
    /\ issued' = [k \in Key |-> IF issued[k] = None \/ issued[k] \cap grant = {} THEN None
                                ELSE issued[k] \cap grant]
    /\ UNCHANGED <<db, task, grant, irdb, want, faults, changes>>

SetIrdb ==
    /\ Change
    /\ \/ \E c \in Child, r \in SUBSET Res : irdb' = [irdb EXCEPT ![c] = r] /\ UNCHANGED want
       \/ want' \in SUBSET Res /\ UNCHANGED irdb
    /\ UNCHANGED <<db, task, grant, issued, faults>>

Next ==
    \/ PollList \/ PollNext \/ Parent \/ Lose \/ GotCert \/ GotRevoked \/ RevokeNext
    \/ Rekey \/ Revoke \/ RevokeForgotten
    \/ UpdateChildren \/ UpdateROAs
    \/ \E k \in Key : RegenerateCRL(k) \/ DestroyTombstone(k)
    \/ \E c \in Child : ChildIssue(c) \/ ChildRevoke(c)
    \/ SetGrant \/ ParentUpdates \/ SetIrdb

Spec == Init /\ [][Next]_vars

\* What cron and the children's polls do between two coroutines.
Upkeep ==
    \/ UpdateChildren \/ UpdateROAs
    \/ \E k \in Key : RegenerateCRL(k)
    \/ \E c \in Child : ChildIssue(c)

\* A coroutine that was begun goes on.  cron queues every task again and again,
\* and children poll: between coroutines the poll gets its turn, and so does some
\* upkeep that changes anything (fairness to each task would be justified too).
\* The parent runs its own cron.  Nobody has to rekey, revoke or change anything.
Fairness ==
    /\ WF_vars(PollNext \/ Parent \/ GotCert \/ GotRevoked \/ RevokeNext)
    /\ SF_vars(PollList)
    /\ SF_vars(Upkeep)
    /\ WF_vars(ParentUpdates)

FairSpec == Spec /\ Fairness

-----------------------------------------------------------------------------
(***************************************************************************)
(* Properties                                                              *)
(***************************************************************************)

\* Type correctness.
TypeOK ==
    /\ db \in [ca : BOOLEAN, details : [Key -> {None} \cup Detail],
               certs : SUBSET Cert, roas : SUBSET Roa]
    /\ task.at \in {"none", "next", "request", "reply"}
    /\ task.todo \cup {task.key} \subseteq
            IF task.name = "forget" THEN Key \cup {None} ELSE Known(db) \cup {None}
    /\ issued \in [Key -> {None} \cup SUBSET Res]
    /\ grant \in SUBSET Res /\ want \in SUBSET Res /\ irdb \in [Child -> SUBSET Res]
    /\ faults \in [Faults -> 0..MaxFaults] /\ changes \in 0..MaxChanges

\* A rollover hands over from one active ca_detail to the next.  It fails to when
\* the reply to the rekey's request is lost: the poll then activates the pending
\* ca_detail, and does not know its predecessor.
OneActive == Cardinality(Active(db)) <= 1

\* As long as no reply is lost, OneActive holds through requests lost, failed
\* publications, changes of resources, and rekeys of a CA whose last rekey failed.
OneActiveUnlessLost == ("reply" \in Faults => faults["reply"] = 0) => OneActive

\* Once a key is thrown away the parent's certificate for it is gone and nothing
\* is left that it has signed, so that its last CRL and manifest, which can never
\* be made again, are right until they expire.
KeyGone ==
    \A k \in In(db, {"revoked"}) :
        /\ issued[k] = None /\ ~db.details[k].lag
        /\ CertsOf(db, k) = {} /\ RoasOf(db, k) = {}

\* Every certificate a child has is under a ca_detail that can still sign, and is
\* on that ca_detail's manifest whenever a task lets go of the database.
ManifestListsCerts ==
    \A c \in db.certs : /\ c.detail \in In(db, {"active", "deprecated"})
                        /\ c.listed

\* The keys of a CA are in order whatever fails and whatever changes: one active
\* ca_detail, every certificate under a key that can still sign for it, and
\* nothing left of a key that is thrown away (rekey, activate, revoke, destroy).
KeysInOrder == TypeOK /\ OneActiveUnlessLost /\ KeyGone /\ ManifestListsCerts

\* What makes KeysInOrder and MakeBeforeBreak inductive.  What the methods make of
\* a database: certificates are under active ca_details and on their manifests,
\* ROAs under keys that can still sign.
Databases == [ca : BOOLEAN, details : [Key -> {None} \cup Detail],
              certs : SUBSET Cert, roas : SUBSET Roa]

Sane(d) ==
    /\ d \in Databases
    /\ \A c \in d.certs : c.detail \in Active(d) /\ c.listed
    /\ \A a \in d.roas : a.detail \in In(d, {"active", "deprecated"})
    /\ \A k \in In(d, {"revoked"}) : ~d.details[k].lag
    /\ ~d.ca => Known(d) = {}

\* What the parent lists, and what a coroutine knows when it goes on.
Lists == [grant : SUBSET Res, certs : [Key -> {None} \cup SUBSET Res]]

Tasks == [name : {"none", "poll", "rekey", "revoke", "forget"},
          at : {"none", "next", "request", "reply"},
          key : Key \cup {None}, old : Key \cup {None}, todo : SUBSET Key,
          list : {None} \cup Lists, cert : SUBSET Res]

PollInv ==
    /\ task.old = None /\ task.list \in Lists
    /\ task.key \in Known(db) \cup {None} /\ task.todo \subseteq In(db, States \ {"revoked"})
    /\ task.at # "next" => task.key \in In(db, {"pending", "active"})

RekeyInv ==
    /\ task.at # "next" /\ task.key \in In(db, {"pending"}) /\ task.todo = {}
    /\ Active(db) = IF task.old = None THEN {} ELSE {task.old}

RevokeInv ==
    /\ task.key \in Known(db) \cup {None} /\ task.todo \subseteq In(db, {"deprecated"})
    /\ task.at # "next" => task.key \in In(db, {"deprecated"})
    /\ task.at = "reply" => issued[task.key] = None

TaskInv ==
    /\ task \in Tasks /\ task.key \notin task.todo
    /\ task.name = "none" \/ task.at = "none" => task = NoTask
    /\ task.name = "poll" => PollInv
    /\ task.name = "rekey" => RekeyInv
    /\ task.name = "revoke" => RevokeInv
    /\ task.name = "forget" /\ task.at # "next" => task.key \in Key

\* As long as no reply is lost, a ca_detail is pending only while its rekey runs,
\* or when the parent has not certified its key, so that a poll removes it.
NoReplyLost == "reply" \in Faults => faults["reply"] = 0
PendingInv ==
    /\ \A k, l \in Active(db) : k = l
    /\ \A k \in In(db, {"pending"}) :
          issued[k] = None \/ (task.name = "rekey" /\ task.at = "reply" /\ task.key = k)
    /\ task.name = "poll" =>
          /\ \A k \in In(db, {"pending"}) : task.list.certs[k] = None
          /\ task.at # "next" => task.key \in Active(db)

KeysInv ==
    /\ Sane(db) /\ TaskInv
    /\ NoReplyLost => PendingInv
    /\ \A k \in In(db, {"revoked"}) : issued[k] = None

\* A rollover is make before break: neither the rekey nor the revocation of the
\* old key takes a resource from a child, or the active ca_detail from the CA.
\* (ROAs have no such guarantee: see RoaDetails and Activate.)
Held(d) == UNION {{c.child} \X c.res : c \in d.certs}

MakeBeforeBreak ==
    [][(task.name = "rekey" /\ task.old # None) \/ task.name = "revoke"
        => /\ Held(db) \subseteq Held(db')
           /\ Active(db) # {} => Active(db') # {}]_vars

\* Once nothing changes any more the CA has what the parent grants, under one
\* active ca_detail unless a reply was lost; each child has what both the
\* certificate and the IRDB give it, and there is a ROA for every request that is
\* covered and for nothing that was not requested.
Settled ==
    IF grant = {} THEN ~db.ca
    ELSE \E k \in Active(db) :
            /\ db.details[k].cert = grant
            /\ OneActive =>
                /\ {a.for : a \in {b \in db.roas : b.detail = k}} \cap grant = want \cap grant
                /\ \A c \in Child : \A x \in CertsOf(db, k) :
                        x.child = c => x.res = grant \cap irdb[c]
                /\ \A c \in Child : grant \cap irdb[c] # {} =>
                        \E x \in CertsOf(db, k) : x.child = c

Converged == <>[](task = NoTask => Settled)

\* A manifest or CRL that was left behind by a task is made again: always again
\* each key has one that lists what is under it and no more.
CaughtUp(k) ==
    /\ k \in Known(db) => ~db.details[k].lag
    /\ \A a \in RoasOf(db, k) : a.listed

ManifestCatchesUp == \A k \in Key : []<>CaughtUp(k)
=============================================================================
