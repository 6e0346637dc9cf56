---------------------------- MODULE Publication ----------------------------
(***************************************************************************)
(* How rpkid publishes what it signs: publication_queue in                 *)
(* src/rpki/rpkid.py, Repository.call_pubd, the "published" timestamps and *)
(* check_failed_publication in src/rpki/rpkidb/models.py, and the tasks of *)
(* src/rpki/rpkid_tasks.py that drive them.                                *)
(*                                                                         *)
(* Every coroutine (a task, an up-down or left-right request) has a queue  *)
(* of its own.  It changes rows of rpkid's database, queues the matching   *)
(* PDUs, and then yields in call_pubd.  The other coroutines run while it  *)
(* waits for the HTTP lock and for pubd's reply, and also between two      *)
(* operations of a task, which yields after each.  The callbacks that the  *)
(* reply triggers save the Django instances this coroutine has in memory,  *)
(* all their columns included.                                             *)
(*                                                                         *)
(* Simplifications.                                                        *)
(*  - One tenant with one repository.  Every detail is in state "active".  *)
(*  - A detail's CRL and manifest are always generated, saved and queued   *)
(*    together: one URI, the detail itself, stands for the pair.           *)
(*  - A product is a child certificate, which keeps its URI when it is     *)
(*    reissued.  A new object is the number of the operation that made it, *)
(*    and its hash is the object itself.                                   *)
(*  - pubd is what Pubd.tla shows it to be for one client: a query is      *)
(*    applied as a whole or not at all.                                    *)
(***************************************************************************)
EXTENDS Integers, Sequences, FiniteSets, SequencesExt, FiniteSetsExt

CONSTANTS
    Proc,        \* coroutines of rpkid that publish
    Task,        \* the ones that may run a task: task_loop runs one at a time
    Detail,      \* active ca_details, each standing for its CRL and manifest
    Product,     \* URIs of child certificates
    DetailOf,    \* the ca_detail that issues at a product's URI
    Listed,      \* the order in which a query returns the details
    Failures,    \* the kinds of failure that may happen
    MaxFailures, \* bound: failures
    MaxVersion   \* bound: operations that sign something

URI == Detail \cup Product
Version == 1..MaxVersion
None == 0
Kind == {"request", "reply", "rollback"}

ASSUME PublicationAssumption ==
    /\ IsFiniteSet(Product)
    /\ Task \subseteq Proc
    /\ DetailOf \in [Product -> Detail]
    /\ Listed \in Seq(Detail) /\ Range(Listed) = Detail
    /\ Detail \cap Product = {}
    /\ Failures \subseteq Kind
    /\ MaxFailures \in Nat /\ MaxVersion \in Nat \ {0}

VARIABLES
    objs,     \* rpkid's database: the object at each URI, None if no row
    stamp,    \* the row's "published" column: "clear", "recent", or "stale"
    listing,  \* what the manifest made by each operation lists
    pubd,     \* pubd's PublishedObject table
    pc,       \* where each coroutine is
    queue,    \* publication_queue.msgs: the PDUs queued so far, or in flight
    handlers, \* publication_queue.handlers: the object its instance holds
    touched,  \* products this coroutine has issued or revoked in this queue
    reply,    \* what pubd answered: how many successes, and the error
    line,     \* http_client_serialize: the lock's holder and those behind it
    version,  \* number of operations so far
    failures  \* number of failures of each kind so far

vars == <<objs, stamp, listing, pubd, pc, queue, handlers, touched, reply,
          line, version, failures>>

PDU == [uri : URI, hash : {None} \cup Version, new : {None} \cup Version]
Products(o) == [u \in Product |-> o[u]]
NoReply == [ok |-> 0, error |-> "none"]
NoHandlers == [u \in URI |-> None]

TypeOK ==
    /\ objs \in [URI -> {None} \cup Version]
    /\ stamp \in [URI -> {"clear", "recent", "stale"}]
    /\ pubd \in [URI -> {None} \cup Version]
    /\ pc \in [Proc -> {"idle", "queue", "ready", "sent", "world",
                       "list", "resync", "resent"}]
    /\ \A p \in Proc : Range(queue[p]) \subseteq PDU
    /\ handlers \in [Proc -> [URI -> {None} \cup Version]]
    /\ touched \in [Proc -> SUBSET Product]
    /\ \A p \in Proc : /\ reply[p].ok \in 0..Len(queue[p])
                       /\ reply[p].error \in {"none", "sync", "other"}
    /\ Range(line) = {p \in Proc : pc[p] \notin {"idle", "queue"}}
    /\ IsInjective(line)
    /\ \A v \in 1..version : listing[v] \in [Product -> {None} \cup Version]
    /\ version \in Version
    /\ failures \in [Kind -> 0..MaxFailures]

Init ==
    /\ objs = [u \in URI |-> IF u \in Detail THEN 1 ELSE None]
    /\ stamp = [u \in URI |-> "clear"]
    /\ listing = <<[u \in Product |-> None]>>
    /\ pubd = objs
    /\ pc = [p \in Proc |-> "idle"]
    /\ queue = [p \in Proc |-> <<>>]
    /\ handlers = [p \in Proc |-> NoHandlers]
    /\ touched = [p \in Proc |-> {}]
    /\ reply = [p \in Proc |-> NoReply]
    /\ line = <<>>
    /\ version = 1
    /\ failures = [k \in Kind |-> 0]

-----------------------------------------------------------------------------
(***************************************************************************)
(* The queue.  s is what one coroutine changes before it yields: the rows  *)
(* and their timestamps, its PDUs and its handlers.                        *)
(***************************************************************************)
\* Where the queue has a PDU for u, 0 if it has none.
PlaceOf(s, u) == SelectInSeq(s.pdus, LAMBDA e : e.uri = u)

\* A handler holds the instance whose published_callback it is, so the object
\* that callback will save; a withdrawal brings no handler.
Put(s, pdus, u, hash, new, handler) ==
    IF hash = None /\ new = None
    THEN [s EXCEPT !.pdus = pdus]
    ELSE [s EXCEPT !.pdus = Append(pdus, [uri |-> u, hash |-> hash, new |-> new]),
                   !.handlers[u] = IF handler = None THEN @ ELSE handler]

\* Mutant: the second action on a URI brings its own hash.
Enqueue_NewestHash(s, u, old, new, handler) ==
    LET i == PlaceOf(s, u)
    IN  Put(s, IF i = 0 THEN s.pdus ELSE RemoveAt(s.pdus, i), u, old, new, handler)

\* publication_queue.queue: a second action on a URI replaces the first and
\* keeps the hash the first one would have replaced.
Enqueue(s, u, old, new, handler) ==
    LET i == PlaceOf(s, u)
    IN  IF i = 0 THEN Put(s, s.pdus, u, old, new, handler)
        ELSE Put(s, RemoveAt(s.pdus, i), u, s.pdus[i].hash, new, handler)

\* Mutant: what is younger than a minute is retried.
Stale_Inverted(s, u) == s.objs[u] # None /\ s.stamp[u] = "recent"

\* The timestamp is set, and older than a minute.
Stale(s, u) == s.objs[u] # None /\ s.stamp[u] = "stale"

\* CRL and manifest first, then the products.
StaleOf(s, d) ==
    (IF Stale(s, d) THEN <<d>> ELSE <<>>)
    \o SetToSeq({u \in Product : DetailOf[u] = d /\ Stale(s, u)})

\* Retry without a hash.
Again(s, u) == Enqueue(s, u, None, s.objs[u], s.objs[u])

\* CADetail.check_failed_publication.
CheckFailed(s, d) ==
    FoldLeft(Again, s, StaleOf(s, d))

\* CADetail.generate_crl_and_manifest.
Generate(s, d, v) ==
    LET t == CheckFailed(s, d)
    IN  Enqueue([t EXCEPT !.objs[d] = v, !.stamp[d] = "recent"],
                d, t.objs[d], v, v)

\* CADetail.issue, for a new certificate or for a new version of one.
Issue(s, u, v) ==
    LET t == CheckFailed(s, DetailOf[u])
        r == Enqueue([t EXCEPT !.objs[u] = v, !.stamp[u] = "recent"],
                     u, t.objs[u], v, v)
    IN  Generate(r, DetailOf[u], v)

\* ChildCert.revoke: the row is deleted.
Revoke(s, u) ==
    [Enqueue(s, u, s.objs[u], None, None) EXCEPT !.objs[u] = None,
                                                 !.stamp[u] = "clear"]

-----------------------------------------------------------------------------
(***************************************************************************)
(* What a coroutine does before it calls pubd.  One queue takes several    *)
(* operations (UpdateChildrenTask walks over all the children), and each   *)
(* certificate is treated once.                                            *)
(***************************************************************************)
State(p) == [objs |-> objs, stamp |-> stamp, pdus |-> queue[p],
             handlers |-> handlers[p]]

\* The next action of p's coroutine: a task may go on queueing, everything
\* else goes to the end of the line for the lock.
Queueing(p, s, uris, next) ==
    /\ next = "queue" => p \in Task
    /\ objs' = s.objs
    /\ stamp' = s.stamp
    /\ queue' = [queue EXCEPT ![p] = s.pdus]
    /\ handlers' = [handlers EXCEPT ![p] = s.handlers]
    /\ touched' = [touched EXCEPT ![p] = @ \cup uris]
    /\ pc' = [pc EXCEPT ![p] = next]
    /\ line' = IF next = "queue" THEN line ELSE Append(line, p)
    /\ UNCHANGED <<pubd, reply, failures>>

\* Mutant: the manifest is made before the operation.
Signing_ListsBefore(p, s, uris, next) ==
    /\ pc[p] \in {"idle", "queue"}
    /\ version < MaxVersion
    /\ version' = version + 1
    /\ Queueing(p, s, uris, next)
    /\ listing' = Append(listing, Products(objs))

\* The operation signs new objects, and its last act is to generate the CRL
\* and the manifest, which lists the rows as they are then.
Signing(p, s, uris, next) ==
    /\ pc[p] \in {"idle", "queue"}
    /\ version < MaxVersion
    /\ version' = version + 1
    /\ Queueing(p, s, uris, next)
    /\ listing' = Append(listing, Products(s.objs))

\* A child asks for a certificate, or one is reissued in place
\* (Child.up_down_handle_issue, ChildCert.reissue without must_revoke).
IssueCert(p, u, next) ==
    /\ u \notin touched[p]
    /\ next = "queue" => objs[u] # None
    /\ Signing(p, Issue(State(p), u, version + 1), {u}, next)

\* ChildCert.reissue with must_revoke: revoke, new CRL, issue again at the
\* same URI in a new row.
RevokeAndIssue(p, u, next) ==
    LET d == DetailOf[u]
        s == Issue(Generate(Revoke(State(p), u), d, version + 1), u, version + 2)
    IN  /\ pc[p] \in {"idle", "queue"}
        /\ u \notin touched[p]
        /\ objs[u] # None
        /\ version + 1 < MaxVersion
        /\ version' = version + 2
        /\ Queueing(p, s, {u}, next)
        /\ listing' = listing \o <<[Products(objs) EXCEPT ![u] = None],
                                   Products(s.objs)>>

\* Child.up_down_handle_revoke, or a child whose resources are gone
\* (UpdateChildrenTask).
RevokeCert(p, u, next) ==
    /\ u \notin touched[p]
    /\ objs[u] # None
    /\ Signing(p, Generate(Revoke(State(p), u), DetailOf[u], version + 1), {u}, next)

\* UpdateChildrenTask has treated the last child, or is overdue.
EndTask(p) ==
    /\ pc[p] = "queue"
    /\ pc' = [pc EXCEPT ![p] = "ready"]
    /\ line' = Append(line, p)
    /\ UNCHANGED <<objs, stamp, listing, pubd, queue, handlers, touched, reply,
                   version, failures>>

\* RegenerateCRLsAndManifestsTask.
Regenerate(p, d) ==
    /\ p \in Task
    /\ pc[p] = "idle"
    /\ Signing(p, Generate(State(p), d, version + 1), {}, "ready")

\* The CheckFailedPublication task: all active details, nothing new signed.
CanRetry(p) == p \in Task /\ pc[p] = "idle" /\ \E u \in URI : Stale(State(p), u)

Retry(p) ==
    /\ CanRetry(p)
    /\ Queueing(p, FoldLeft(CheckFailed, State(p), Listed), {}, "ready")
    /\ UNCHANGED <<version, listing>>

\* Tenant.serve_publish_world_now begins with a list query.
StartPublishWorld(p) ==
    /\ pc[p] = "idle"
    /\ Queueing(p, State(p), {}, "world")
    /\ UNCHANGED <<version, listing>>

-----------------------------------------------------------------------------
(***************************************************************************)
(* pubd (see Pubd.tla).  The PDUs of a message have distinct URIs, so each *)
(* is judged by what pubd holds at its URI.                                *)
(***************************************************************************)
Accepts(pdu) ==
    IF pdu.new = None THEN pubd[pdu.uri] # None /\ pubd[pdu.uri] = pdu.hash
                      ELSE pubd[pdu.uri] \in {None, pdu.hash}

Refused(msg) == {i \in DOMAIN msg : ~Accepts(msg[i])}

Applied(msg) ==
    [u \in URI |-> IF \E i \in DOMAIN msg : msg[i].uri = u
                   THEN msg[CHOOSE i \in DOMAIN msg : msg[i].uri = u].new
                   ELSE pubd[u]]

\* The request reaches pubd.  It answers with one PDU for each success and,
\* if it rolled back, an error that has no URI.
Answer(p) ==
    LET bad == Refused(queue[p])
    IN  IF bad = {}
        THEN /\ pubd' = Applied(queue[p])
             /\ reply' = [reply EXCEPT ![p] = [ok |-> Len(queue[p]), error |-> "none"]]
        ELSE /\ pubd' = pubd
             /\ reply' = [reply EXCEPT ![p] =
                    [ok |-> (CHOOSE i \in bad : \A j \in bad : i <= j) - 1,
                     error |-> "sync"]]

HasLock(p) == line # <<>> /\ Head(line) = p

\* Repository.call_pubd sends the message once the lock is free.
Send(p) ==
    /\ HasLock(p)
    /\ pc[p] \in {"ready", "resync"}
    /\ queue[p] # <<>>
    /\ Answer(p)
    /\ pc' = [pc EXCEPT ![p] = IF @ = "ready" THEN "sent" ELSE "resent"]
    /\ UNCHANGED <<objs, stamp, listing, queue, handlers, touched, line, version, failures>>

\* The coroutine is over: its queue goes away, or is cleared.
Idle(p) ==
    /\ line' = RemoveFirst(line, p)
    /\ pc' = [pc EXCEPT ![p] = "idle"]
    /\ queue' = [queue EXCEPT ![p] = <<>>]
    /\ handlers' = [handlers EXCEPT ![p] = NoHandlers]
    /\ touched' = [touched EXCEPT ![p] = {}]
    /\ reply' = [reply EXCEPT ![p] = NoReply]

\* An empty message is not sent.
SendNothing(p) ==
    /\ pc[p] \in {"ready", "resync"}
    /\ queue[p] = <<>>
    /\ Idle(p)
    /\ UNCHANGED <<objs, stamp, listing, pubd, version, failures>>

Saved(p) == {u \in URI : /\ handlers[p][u] # None
                         /\ \E i \in 1..reply[p].ok : queue[p][i].uri = u}

\* The published_callback of every PDU answered with success, in order, until
\* the error: it saves this coroutine's instance with "published" cleared.
\* Saving an instance whose row is gone inserts the row again.
RunHandlers(p) ==
    /\ objs' = [u \in URI |-> IF u \in Saved(p) THEN handlers[p][u] ELSE objs[u]]
    /\ stamp' = [u \in URI |-> IF u \in Saved(p) THEN "clear" ELSE stamp[u]]

\* All PDUs succeeded, or an error that is not about synchronization makes
\* call_pubd raise: either way this coroutine's queue is done with.
Reply(p) ==
    /\ pc[p] = "sent"
    /\ reply[p].error # "sync"
    /\ RunHandlers(p)
    /\ Idle(p)
    /\ UNCHANGED <<listing, pubd, version, failures>>

\* publication_queue.call_pubd: lost synchronization.
ReplyOutOfSync(p) ==
    /\ pc[p] = "sent"
    /\ reply[p].error = "sync"
    /\ RunHandlers(p)
    /\ pc' = [pc EXCEPT ![p] = "list"]
    /\ queue' = [queue EXCEPT ![p] = <<>>]
    /\ reply' = [reply EXCEPT ![p] = NoReply]
    /\ line' = Append(Tail(line), p)
    /\ UNCHANGED <<listing, pubd, handlers, touched, version, failures>>

\* The loop over the active details assigns our_objs instead of extending it.
OurDetails == {Listed[Len(Listed)]}

IssuedBy(u) == IF u \in Detail THEN u ELSE DetailOf[u]

OurObjs == {u \in URI : objs[u] # None /\ IssuedBy(u) \in OurDetails}

\* What pubd would have if it had our_objs and nothing else.
Ours == [u \in URI |-> IF u \in OurObjs THEN objs[u] ELSE None]

\* Mutant: only what pubd does not list is published.
ResyncMessage_AddOnly ==
    [i \in 1..Cardinality({u \in OurObjs : pubd[u] = None}) |->
        LET s == SetToSeq({u \in OurObjs : pubd[u] = None})
        IN  [uri |-> s[i], hash |-> None, new |-> objs[s[i]]]]

\* What turns the objects pubd lists into ours.
ResyncMessage ==
    LET publish == SetToSeq({u \in OurObjs : pubd[u] # objs[u]})
        withdraw == SetToSeq({u \in URI \ OurObjs : pubd[u] # None})
        pdu(u) == [uri |-> u, hash |-> pubd[u],
                   new |-> IF u \in OurObjs THEN objs[u] ELSE None]
        all == publish \o withdraw
    IN  [i \in DOMAIN all |-> pdu(all[i])]

\* The answer to a list query.  While p holds the lock nobody else talks to
\* pubd, so what it lists is what it holds.  p then makes a message from the
\* answer and waits for its next turn; no PDU of that message has a handler.
Listing(p, msg, next) ==
    /\ HasLock(p)
    /\ queue' = [queue EXCEPT ![p] = msg]
    /\ handlers' = [handlers EXCEPT ![p] = NoHandlers]
    /\ pc' = [pc EXCEPT ![p] = next]
    /\ line' = Append(Tail(line), p)
    /\ UNCHANGED <<objs, stamp, listing, pubd, touched, reply, version, failures>>

\* publication_queue.resync.
ResyncList(p) == pc[p] = "list" /\ Listing(p, ResyncMessage, "resync")

\* Tenant.serve_publish_world_now: publish every object of every active detail
\* over what pubd has, and withdraw the rest.
WorldMessage ==
    LET all == SetToSeq({u \in URI : objs[u] # None})
               \o SetToSeq({u \in URI : objs[u] = None /\ pubd[u] # None})
    IN  [i \in DOMAIN all |-> [uri |-> all[i], hash |-> pubd[all[i]], new |-> objs[all[i]]]]

PublishWorld(p) == pc[p] = "world" /\ Listing(p, WorldMessage, "ready")

\* The reply to the second message; an error in it is raised to the caller.
ReplyResync(p) ==
    /\ pc[p] = "resent"
    /\ Idle(p)
    /\ UNCHANGED <<objs, stamp, listing, pubd, version, failures>>

-----------------------------------------------------------------------------
(***************************************************************************)
(* Failures.  The exception ends the coroutine, which logs it.             *)
(***************************************************************************)
Fail(kind) == /\ kind \in Failures
              /\ failures["request"] + failures["reply"] + failures["rollback"]
                    < MaxFailures
              /\ failures' = [failures EXCEPT ![kind] = @ + 1]

\* pubd cannot be reached, or rpkid stops before it sends.
LoseRequest(p) ==
    /\ Fail("request")
    /\ pc[p] \in {"queue", "ready", "world", "list", "resync"}
    /\ Idle(p)
    /\ UNCHANGED <<objs, stamp, listing, pubd, version>>

\* pubd did the work, but the reply does not come: a timeout, or an error 500
\* from writing the RRDP or rsync files.
LoseReply(p) ==
    /\ Fail("reply")
    /\ pc[p] \in {"sent", "resent"}
    /\ Idle(p)
    /\ UNCHANGED <<objs, stamp, listing, pubd, version>>

\* pubd's transaction fails when it commits: every PDU has been answered with
\* success before the error is added to the reply.
PubdRollsBack(p) ==
    /\ Fail("rollback")
    /\ HasLock(p)
    /\ pc[p] = "ready"
    /\ queue[p] # <<>>
    /\ Refused(queue[p]) = {}
    /\ reply' = [reply EXCEPT ![p] = [ok |-> Len(queue[p]), error |-> "other"]]
    /\ pc' = [pc EXCEPT ![p] = "sent"]
    /\ UNCHANGED <<objs, stamp, listing, pubd, queue, handlers, touched, line, version>>

\* Sixty seconds pass.
Tick ==
    /\ \E u \in URI : stamp[u] = "recent"
    /\ stamp' = [u \in URI |-> IF stamp[u] = "recent" THEN "stale" ELSE stamp[u]]
    /\ UNCHANGED <<objs, listing, pubd, pc, queue, handlers, touched, reply,
                   line, version, failures>>

-----------------------------------------------------------------------------
\* The steps of a coroutine that has something to publish.
Calling(p) == \/ EndTask(p) \/ Send(p) \/ SendNothing(p) \/ Reply(p)
              \/ ReplyOutOfSync(p) \/ ResyncList(p) \/ ReplyResync(p)
              \/ PublishWorld(p)

Failing(p) == LoseRequest(p) \/ LoseReply(p) \/ PubdRollsBack(p)

Next ==
    \/ Tick
    \/ \E p \in Proc :
        \/ \E u \in Product, next \in {"queue", "ready"} :
            IssueCert(p, u, next) \/ RevokeAndIssue(p, u, next) \/ RevokeCert(p, u, next)
        \/ \E d \in Detail : Regenerate(p, d)
        \/ Retry(p)
        \/ StartPublishWorld(p)
        \/ Calling(p)
        \/ Failing(p)

Spec == Init /\ [][Next]_vars

\* A coroutine that has started goes on (the I/O loop), time passes, and cron
\* runs CheckFailedPublication again and again.  (Weak fairness of Retry,
\* written with its guard.)
LiveSpec ==
    /\ Spec
    /\ WF_vars(Tick)
    /\ \A p \in Proc : WF_vars(Calling(p)) /\ ([]<>~CanRetry(p) \/ []<><<Retry(p)>>_vars)

-----------------------------------------------------------------------------
NoFailures == \A k \in Kind : failures[k] = 0
Quiet == \A p \in Proc : pc[p] = "idle"

\* A message never has two PDUs for one URI, and while nothing has failed the
\* message of a lone coroutine is exact: pubd accepts every PDU, and what it
\* then holds is rpkid's database (publication_queue.queue).
QueueExact ==
    TypeOK /\ \A p \in Proc : pc[p] \in {"queue", "ready"} /\ NoFailures =>
        /\ \A i, j \in DOMAIN queue[p] : queue[p][i].uri = queue[p][j].uri => i = j
        /\ Refused(queue[p]) = {}
        /\ Applied(queue[p]) = objs

\* The manifest in the database lists the certificates in the database.
ManifestComplete ==
    Quiet => \A d \in Detail, u \in Product :
                DetailOf[u] = d => listing[objs[d]][u] = objs[u]

\* A resynchronization whose message pubd accepted has repaired everything of
\* the last detail that the query listed, and has withdrawn all the rest: with
\* one detail pubd then has what rpkid has, with several it has lost what the
\* others issued (publication_queue.resync).
ResyncRepairs ==
    [][\A p \in Proc : ReplyResync(p) /\ reply[p].error = "none" => pubd' = Ours']_vars

\* Whatever requests and replies were lost, the retries make pubd agree with
\* rpkid in the end: on all objects, unless a resynchronization has met several
\* details, and always on those of the detail it keeps (CheckFailedPublication).
EventuallyAgrees ==
    /\ <>[](failures["rollback"] = 0 =>
              \A u \in URI : IssuedBy(u) \in OurDetails => pubd[u] = objs[u])
    /\ \/ <>[](failures["rollback"] = 0 => pubd = objs)
       \/ Detail # OurDetails /\ <>(\E p \in Proc : pc[p] = "resync")
=============================================================================
