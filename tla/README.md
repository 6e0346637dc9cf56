# TLA+ verification of rpki.net

This directory models the protocol engines of the RPKI toolkit in TLA+, checks the models
with TLC, and proves the main results about eight of the components with TLAPS. Paths below
are relative to the root of the repository; every definition that models code is listed
with its file and lines under `map` in `PROJECT.json`.

    tlc -workers 2 -config MCPubd_crash.cfg MCPubd.tla     # a run
    tlapm RrdpProofs.tla                                   # the proofs of a component


## 1. The system

    parent's rpkid          child's rpkid            operator
         ^  up-down             |  up-down              |
         |                      v                       v
         +---------------- rpkid <---- left-right --- rpkic / GUI
                             |  \------- queries ----> irdbd --- IRDB
                             |  publication
                             v
                           pubd  --- files: RRDP, rsync tree
                             :
                             v  RRDP, rsync
                          rcynicng --- validated objects
                             |
                             v
                     rpki-rtr cronjob --- files: <serial>.ax, .ix, current
                             |
                        rpki-rtr server <--- TCP ---> rpki-rtr client, router

The daemons share nothing but the messages and files in this picture. Each has a database
of its own. rpkid and rcynicng are Tornado programs with coroutines that interleave at
their `yield`s; pubd, irdbd and rootd serve one request at a time.

### 1.1 Inventory

**pubd** (`src/rpki/pubd.py`, `src/rpki/pubdb/models.py`). *State:* the tables Client,
PublishedObject, Session and Delta; `self.session`, a Session instance that lives as long
as the daemon; the RRDP files (`notify.xml`, snapshots, deltas) and the rsync tree.
*Operations:* a client's query of publish, withdraw and list PDUs, processed in one
transaction; the operator's create, set and destroy of clients. After the commit the files
are brought up to date one by one. *Hard:* the delta's file is written before the commit,
everything else after it; each write may fail, the daemon may be killed between any two,
and the Session in memory survives a rollback; relying parties read the files at any
moment. *Correct when:* what `notify.xml` names exists with the hash it gives; a serial
number never names two contents; deltas are consecutive; clients cannot touch each other's
objects; an answered query is visible in RRDP and in the rsync tree; every query ends.

**rcynicng: RRDP fetch** (`src/rp/rcynic/rcynicng`, `src/rpki/rcynicdb/models.py`).
*State:* rows RRDPSnapshot and RPKIObject. *Operations:* one fetch per run: read
`notify.xml`, then nothing, a chain of deltas, or the snapshot, which becomes a row of its
own; cleanup at the end, which deletes each row that nothing valid came from.
*Hard:* files change and disappear while it reads; killed half way. *Correct when:* what
it holds under a serial number is what pubd committed under it, and a fetch that ends well
leaves it with the whole repository.

**rcynicng: validation** (`src/rp/rcynic/rcynicng` WalkFrame, WalkTask, Fetcher, `worker`).
*State:* a queue of tasks, each a stack of frames, one frame per CA certificate; the
history of rsync and RRDP fetches of this run; the validation status per URI; the table of
objects. *Operations:* fetch a publication point or wait for whoever fetches it, pick the
newest CRL and manifest that pass, judge each file of the manifest, descend into CA
certificates; with `--spawn-on-fetch` a task that would fetch leaves that to a copy of
itself. *Hard:* copies share frames and their iterators; a directory is fetched because
one above it is; waiters of a fetch that fails; when the walk is over. *Correct when:* it
ends, each CA is scanned after its repository has been fetched, and exactly what is sound
is accepted. (The sets of dead hosts are read, but nothing ever adds to them.)

**rpkid: publication** (`src/rpki/rpkid.py` `publication_queue`,
`src/rpki/rpkidb/models.py` Repository, `published` columns). *State:* the objects in
rpkid's database, a timestamp `published` on each from its generation to the reply of
pubd; a queue per coroutine. *Operations:* queue PDUs (several for one URI collapse), send
them, run a handler for each PDU of the reply, resynchronize after a synchronization
error, retry what has a timestamp older than a minute, publish the whole world anew.
*Hard:* a lost reply leaves pubd ahead of what rpkid knows; the instances that handlers
save were loaded before the coroutine waited. *Correct when:* messages are exact, nothing
is taken for published that is not, and pubd ends up with what rpkid has.

**rpkid: life of a CA's keys** (`src/rpki/rpkidb/models.py` CA, CADetail, ChildCert, ROA;
`src/rpki/rpkid_tasks.py`). *State:* a ca_detail per key pair, pending, active, deprecated
or revoked, with its CRL, its manifest and the certificates and ROAs it has signed.
*Operations:* poll the parent (create, update or destroy CAs and ca_details), rekey,
revoke, revoke forgotten keys, a child's issue and revoke requests, and the tasks
UpdateChildren, UpdateROAs, RegenerateCRLsAndManifests. *Hard:* each request to the parent
can be lost in either direction; the parent's grant, the IRDB and the rows change
meanwhile; publication may fail after the rows are changed; coroutines overlap. *Correct
when:* a rollover takes nothing from anybody, one ca_detail at a time is active, nothing
outlives a key that is thrown away, CRL and manifest say what is under them, and
everything converges to what parent and IRDB say.

**rpkid: task scheduler** (`src/rpki/rpkid.py` `task_add`, `task_run`, `task_loop`,
`src/rpki/rpkid_tasks.py` AbstractTask). *State:* the queue, the set of ready tasks, the
task that runs, a `done_this` and a `done_next` condition per task. *Operations:* cron and
`run_now` add tasks, the loop runs one after the other, a long one postpones itself when
its slice is over and others wait. *Hard:* a task is asked for while it runs, it postpones
itself, `run_now` waits for the right run. *Correct when:* what was asked for is done when
the answer comes, every waiter is answered, and long tasks take turns.

**rpkid: ROAs, Ghostbusters, router certificates** (`src/rpki/rpkid_tasks.py`,
`src/rpki/rpkidb/models.py` ROA, Ghostbuster, EECertificate). *State:* a row per product
with the ca_detail that signed it. *Operations:* each task asks irdbd, compares the answer
with its rows, signs, revokes, regenerates manifests and publishes. *Hard:* irdbd answers
from several SELECTs while rpkic commits; UpdateROAs yields between two ROAs and a key
rollover comes in between; half of an update is saved when an exception ends the task.
*Correct when:* pubd ends up with what the IRDB asks for, listed by the manifests; a ROA
that is asked for never disappears on the way; what is withdrawn is revoked.

**rpkid: left-right server** (`src/rpki/rpkid.py` `left_right_handler`,
`src/rpki/rpkidb/models.py` XMLTemplate, XMLManager, the models' hooks). *State:* rows of
tenants, BSCs, repositories, parents and children. *Operations:* create, set, destroy, one
PDU after the other, up to the first error; hooks of a deletion call parents and pubd.
*Hard:* Django's cascades, rows saved late, the order of PDUs. The commands that start CA
operations (rekey, revoke, revoke_forgotten) are modelled where those operations are.

**Resource sets** (`src/rpki/resource_set.py`). *State:* none, lists of ranges.
*Operations:* canonize, union, intersection, difference and symmetric difference (`_comm`),
contains, issubset, chopping into prefixes, turning ROA prefixes into a set. *Hard:* off-by-one where ranges meet and at the last address. *Correct
when:* the result is what set theory says: rpkid issues, shrinks and revokes on it.

**rpki-rtr** (`src/rpki/rtr/generator.py`, `server.py`, `client.py`). *State:* files of
full sets, files of differences, the file `current`; the server's current serial and
nonce; the client's SQL tables. *Operations:* cronjob (write a new set, the differences to
old ones, delete old files, replace `current`, kick the servers); the server's answers and
notifications; the client's handlers and timers. *Hard:* the files change while servers
answer from them; serial numbers are seconds and wrap around; answers and notifications
cross. *Correct when:* a router holds, under a serial number and nonce, the set that was
current under them, and catches up.

**IRDB and zookeeper** (`src/rpki/irdb/models.py`, `src/rpki/irdb/zookeeper.py`), driven by
rpkic and the web interface. *State:* tenants, parents, repositories, children, clients,
requests. *Operations:* commands change the IRDB; a synchronization asks rpkid and pubd
what they have and sends the differences. *Hard:* several processes synchronize at a time,
each with the IRDB as it was when its transaction began; an error drops the rest. *Correct
when:* a synchronization that ends well has configured everything, repeating it always
gets there, and no CA loses its keys on the way.

**irdbd** (`src/rpki/irdbd.py`) answers rpkid's queries from the IRDB, several SELECTs per
query.

**Everything else** (message formats, X.509 and CMS wrappers, XML schemas, HTTP client and
server, configuration, rootd, the C rcynic, report scripts, tests, packaging) is listed in
`PROJECT.json` with the reason it is not modelled.

### 1.2 How the parts interact

- rpkid to pubd: one HTTP request with a signed message of PDUs, one reply. A
  request or its reply may be lost; rpkid retries from its `published` timestamps.
  (`Publication` models rpkid's side with pubd as what `Pubd` shows it to be.)
- pubd to rcynicng: files only, without any synchronization. (`Rrdp` composes
  rcynicng's fetch with all of `Pubd`.)
- rpkid to its parent and from its children: up-down requests. (`CALifecycle`.)
- rcynicng to the rtr cron job: the table of validated objects, an input of `Rtr`.
- rpkic and the web interface to rpkid and pubd: left-right and control messages;
  rpkid to irdbd: queries. (`Zookeeper` with `LeftRight`; `Requests`.)
- cron job to rtr servers: files and a datagram; server to client: a TCP stream.
  (`Rtr` has all three.)


## 2. Modules

| module | EXTENDS | models | proofs |
|---|---|---|---|
| `Repository` | | what pubd promises: updates by clients, and a public view that lags behind | |
| `Pubd` | | the publication server; implements `Repository` | `RrdpProofs` |
| `Replica` | `Repository` | what a relying party may expect | |
| `Rrdp` | `Pubd` | the relying party's RRDP fetch against pubd; implements `Replica` | `RrdpProofs` |
| `Publication` | | rpkid's publication queue, retries, resynchronization | `PublicationProofs` |
| `CALifecycle` | | keys, certificates and ROAs of a CA in rpkid | `CALifecycleProofs` |
| `Rtr` | | rpki-rtr cron job, server and client | `RtrProofs` |
| `ResourceSet` | | the algorithms on lists of ranges | |
| `Scheduler` | | rpkid's task queue, time slices, `run_now` | `TaskProofs` |
| `Requests` | | requests in the IRDB, irdbd's answers, and the objects rpkid signs for them | `RequestsProofs` |
| `LeftRight` | | rpkid's and pubd's configuration, and the messages that change it | |
| `Zookeeper` | `LeftRight` | the IRDB, and the processes that synchronize it into the daemons | `ZookeeperProofs` |
| `Walk` | | rcynicng's validation walk | `TaskProofs` |
| `FoldLemmas` | | what `FoldLeft` and `FoldSet` preserve, for any operator | itself |

For each module `MC<module>` gives TLC the model values, symmetries and small sets. A
definition named `X_...` and marked "Mutant" (`Woken_NotWaiters`) is a deliberately
broken variant of the definition `X`, used by no specification; `mutants` in
`PROJECT.json` says which property each one breaks, so that no property passes because
nothing could violate it.

Common to all modules: an object, its hash and its file are one model value where only
equality matters; a step is what the program does between two points at which something
else can happen (a write that may fail, a yield, a message).

### 2.1 Pubd

| model | code |
|---|---|
| `base` | Client rows: `base_uri`, {} if there is no such client |
| `content`, `owner` | PublishedObject rows by URI |
| `serial`, `mem` | `Session.serial` in the database and in `self.session` |
| `deltas` | Delta rows; a delta's hash is its content |
| `pc`, `client`, `tx`, `delta`, `todo`, `reply` | the handler's progress, transaction and locals |
| `deltaFiles`, `snapFiles`, `notify`, `rsync` | the disk |
| `ClientQuery`, `PublishPDU`, `WithdrawPDU`, `RefusePDU`, `EndOfQuery` | `client_handler`, `Delta.publish`, `Delta.withdraw`, `check_allowed_uri` |
| `WriteDelta`, `SaveDelta`, `Commit` | `Delta.activate`, `expire_deltas`, the end of the atomic block |
| `WriteSnapshot`, `WriteNotify`, `RemoveDelta`, `RemoveSnapshot`, `CleanupDone` | `Session.synchronize_rrdp_files` |
| `RsyncPDU`, `RsyncDone` | `Delta.update_rsync_files` |
| `ActivateError`, `CommitError`, `FileError`, `Crash`, `Restart` | exceptions at each of these writes, a kill, `main()` |
| `SetClient`, `DestroyClient` | `control_handler` |

A query is chosen PDU by PDU, as the handler's loop reaches them, with any URI, object and
hash: wrong hashes and foreign URIs included. CMS, HTTP and replay protection come before
all of this and are left out. A file is written under a temporary name and renamed, hence
at once. The clock does not go back. The Session row is not replaced (no command does
that).

`Repository` is the abstract specification. Its actions are a client's update (the whole
query at once, to URIs the client may use and nobody else has, no object in two places, a
higher serial number), the announcement of what the tables hold now, a change of a
client's base URIs, and the removal of a client. Transactions, files and failures are not
in it. `Pubd` instantiates it with `notify.xml` as the public view (`R`), and
`ImplementsRepository` says that every step of pubd is one of these or a stutter: `Commit`
is the update, `WriteNotify` the announcement.

### 2.2 Rrdp

pubd of module `Pubd`, every failure and crash included, and one relying party that runs
again and again. `FetchNotification`, `FetchSnapshot`, `LoadObjects`, `LinkObjects`,
`CompleteSnapshot`, `ApplyNextDelta` and `DeltasDone` are the parts of `_rrdp_fetch`
between which pubd may change the files; `FinalCleanup` is `final_cleanup` at the end of a
run, with or without a fetch before it and with any set of objects found valid. `Killed`
ends a fetch in the middle: the rows stay as they are. Each load of a snapshot adds a row
to `rows`, and the earlier complete rows stay; a fetch works with the latest
(`order_by("-retrieved__started")`; `retrieved` counts the loads, since only their order
matters). `FinalCleanup` deletes each row without a valid object by itself, so that the
newest may go while an older one stays: the next fetch then starts from the older row.
`hist` remembers what pubd committed under each serial number.

`Replica` is the abstract specification of the pair: next to a `Repository` there are
copies of states it has had; `Pull` puts a later state which has been announced in the
place of the newest copy, or adds it; `Forget` drops copies, the newest included, and is
the only step that takes the relying party back. `ImplementsReplica` maps the complete
RRDPSnapshot rows to the copies.

Assumed, and why: clients send the hash of the object they replace (`HashNamesObject`), as
a synchronized rpkid does; without it pubd makes deltas that withdraw what is not there.
No client is destroyed: `control_handler` removes its objects without a delta, so a
relying party that follows deltas keeps them for ever. An incomplete RRDPSnapshot row
sorts after the complete ones (true of SQLite, the default database).

### 2.3 Publication

| model | code |
|---|---|
| `objs`, `listing` | rpkid's rows: certificates, and CRL with manifest per ca_detail; what a manifest lists |
| `stamp` | the `published` columns: clear, recent, or stale after a minute |
| `pubd` | what pubd has |
| `pc`, `queue`, `handlers`, `touched`, `reply` | a coroutine: its publication_queue and where it waits |
| `line` | the HTTP lock of `http_fetch` |
| `IssueCert`, `RevokeAndIssue`, `RevokeCert`, `Regenerate` | `CADetail.issue`, `ChildCert.reissue`, `revoke`, the regeneration tasks |
| `Send`, `Reply` | `publication_queue.call_pubd`, `Repository.call_pubd`, the callbacks |
| `ReplyOutOfSync`, `ResyncList`, `ReplyResync` | `publication_queue.resync` |
| `Retry` | CheckFailedPublication, `Tenant.check_failed_publication` |
| `StartPublishWorld`, `PublishWorld` | `serve_publish_world_now` |
| `LoseRequest`, `LoseReply`, `PubdRollsBack`, `Tick` | the network, pubd's errors, time |

One tenant with one repository. Objects are numbered as they are signed, so a number is an
object, its hash and its manifest number at once. A CRL and its manifest are always made
together and count as one object. `Quiet` means that no coroutine is under way.

### 2.4 CALifecycle

| model | code |
|---|---|
| `db` | CA, CADetail, ChildCert and ROA rows |
| `listed`, `lag` | whether an object is on its ca_detail's manifest; whether CRL or manifest has still to follow a removal |
| `task` | the coroutine under way: waiting for nothing, a request or a reply |
| `grant`, `issued` | the parent's IRDB and its ChildCert rows for this CA |
| `irdb`, `want` | what irdbd answers about children and ROA requests |
| `PollList`, `PollNext`, `GotCert`, `GotRevoked` | PollParent, `CADetail.update`, `activate`, `destroy`, `CA.destroy` |
| `Rekey`, `Revoke`, `RevokeForgotten`, `RevokeNext` | the left-right commands of that name |
| `UpdateChildren`, `UpdateROAs`, `RegenerateCRL`, `DestroyTombstone` | the tasks |
| `ChildIssue`, `ChildRevoke` | `Child.up_down_handle_issue`, `up_down_handle_revoke` |
| `Parent`, `ParentUpdates` | the parent's side of the same handlers |
| `Lose` and the failed alternatives of actions | a lost request, a lost reply, publication that fails |

One tenant, one parent, one resource class. A certificate is its resources. The code's
loops over certificates and ca_details are folds of one turn (`GenerateOne`, `ReissueOne`,
`ReissueOrRevoke`), in no particular order, as the code's queries have none.

**Instances that become stale.** Every coroutine loads Django instances, waits, and saves
them with all their columns; the code has no locks on rows. The model lets one coroutine
run to its end before another one begins (with the parent's and the IRDB's changes between
its steps). For the background tasks this is what the code does: `task_loop`
(`src/rpki/rpkid.py:204`) runs one at a time. It is not guaranteed for left-right commands
and children's requests, which may run while a task waits. What `CALifecycle` shows
therefore holds when those do not fall into a task. `Requests` lets a key rollover fall
into a task, and `LeftRight` saves stale rows; the rest is listed as hazards.

### 2.5 Rtr

`StartJob` to `DeleteOldIxfrs` are `cronjob_main`, one step per file operation, and
`CrashJob` may come between any two, leaving a torn file if it comes in `save_axfr`.
`ReadCurrent`, `Reply` and `Notify` are the server's handlers, `Consume...` the client's
handlers of each PDU, `Poll` and `Expire` its timers. `up` and `down` are the two
directions of the connection, which `Disconnect` and `Restart` cut and open again.
`seq_ge` is the comparison of serial numbers of RFC 1982 as the code computes it, modulo
`Modulus`. Prefix and router key PDUs are the same to the model.

The client's two timers may fire at any time, also while an answer or a notification is
under way, and a notification is answered with a query whatever else is under way, as in
the code. Then a client may apply an answer to a table it was not made for, or commit
what is left of it as if it were complete, under a valid serial number. Three history
variables record it, which no step of the system reads:

- `crossed`: two queries (or a query and what will cause another) were open when
  `current` changed (`NoOverlap` is false), or a timer fired before the answer
  was complete. It lasts until the client has nothing, in memory or in its database, and
  asks for everything (`Afresh`). `RouterInSync` excuses the table as long.
- `early`: how many timers have fired during an answer; the bound `MaxCrashes` is on these
  and the crashes together.
- `reused`: the cron job has run at a second that named a set or a difference before
  (section 4.6).

Assumptions that the code does not enforce:

- `Fresh`: the clock does not show a second again while a full set or a server still
  uses it as its serial number.
- nonces are distinct (they are 16 random bits, or always 0 with `--force_zero_nonce`).

### 2.6 ResourceSet

Each behaviour calls one method on one input and executes its loop one iteration per step,
with the exceptions of the code as ways to end. `Address` has `Width` bits:
`rpki.POW.IPAddress` raises OverflowError for results that do not fit. Sets are
represented by canonical lists in both directions (`CanonicalOf`, `Cover`). `Log2` rounds
as `math.log()` does: up, for large sizes just below a power of two.

`union` is not right for every input: a range that bridges two ranges of the other set
raises ResourceOverlap or leaves them overlapping, and the properties name these inputs.
`roa_prefix_set.to_resource_set`, which is built on `union`, cannot meet them: its
prefixes are sorted, and prefixes are nested or disjoint. TLC checks that it never raises.

### 2.7 Scheduler

| model | code |
|---|---|
| `queue`, `ready` | `task_queue`, `task_ready` |
| `postponed`, `doneThis`, `doneNext` | the attributes of a task, and whether a condition has a waiter |
| `run` | what `task_loop` is in: which task, which item, whether the slice is over |
| `owner`, `awaiting` | the tenant instances in memory; what a `run_now` waits for |
| `CronRun`, `RunNow`, `Forget` | `cron_run`, `serve_run_now`; an instance whose tasks are gone |
| `Start`, `Queried`, `QueryFails`, `Check`, `Handle`, `Published`, `PublishFails` | `AbstractTask.start`, the mains of UpdateChildren and UpdateROAs |
| `Late`, `Overdue`, `After` | the clock, `overdue`, `postpone` |

Every cron run and every command loads the tenant anew, and with it makes new task
objects. "Already in the queue" is therefore never true across two of them: when a pass
takes longer than cron's period, the same work is queued again (`src/rpki/rpkid.py:246`).
The model has these instances, and bounds their number.

A run works with irdbd's answer and the time of its start (`src/rpki/rpkid_tasks.py:290`,
`:297`, `:379`). An item that changes after the answer (`run.missed`) stays stale, whether
the run updates it or not.

### 2.8 Requests

| model | code |
|---|---|
| `irdb` | ROARequest, GhostbusterRequest and EECertificateRequest rows |
| `rpkid` | ROA, Ghostbuster and EECertificate rows, the ca_details' states, manifests and revocations |
| `pubd` | what pubd holds at each URI |
| `task` | the task of the cycle and where it waits: for irdbd's SELECTs, or between two ROAs |
| `LoadRoaRequests`, `LoadGhostbusterRequests`, ... | the commands of `zookeeper.py` |
| `AskRoas`, `ReadRoa`, `CompareRoas`, `SignRoa`, `SkipRoa`, `PostponeRoas`, `FinishRoas` | `list_roa_requests`, UpdateROAsTask |
| `AskGhostbusters` ... `UpdateGhostbusters`, `AskEes` ... `UpdateEes`, `AbortedEes` | the same for the other two kinds |
| `Regenerate`, `Retry` | RegenerateCRLsAndManifests, CheckFailedPublication |
| `Activate` | `CADetail.activate` at the end of a key rollover |

What the code does wrong is in the model and excused by name in the properties:

- `task.torn`: each SELECT of irdbd is a transaction of its own, so a request that
  `load_roa_requests` is replacing may be read without its prefixes.
- `broken.ees`: `EECertificate.reissue` saves the new certificate before
  `old_cert.cert` raises AttributeError when it should revoke the old one
  (`src/rpki/rpkidb/models.py:2056`). The task dies in the middle of its loops, nothing is
  published, and since `published` is never set on these rows nothing retries. The requests
  and rows before this one are done, and each that was reissued has made a manifest for its
  ca_detail, which may list what later steps have replaced (`AbortEes`).
- `broken.rolled`: a rollover that falls between two steps of UpdateROAs regenerates ROAs
  whose old instances the task then saves or withdraws.

`activate` makes the new ca_detail's manifest before it moves the ROAs that it should list
(`src/rpki/rpkidb/models.py:1231`), although `ROA.revoke`, which it uses, wants "to preserve
make-before-break properties" (line 2417): for a moment, and until the next regeneration, the ROAs are at pubd
without being on a manifest. `ManifestExact` is therefore about the time before the first
rollover and `Settles` about the end. A ROA that is asked for stays at pubd throughout
(`RoaKept`), except in a resynchronization: with more than one active ca_detail `resync`
keeps what the last of them has and withdraws the rest, which the property names
(`ResyncDrops`).

### 2.9 LeftRight and Zookeeper

| model | code |
|---|---|
| `tenants`, `rows`, `cas` | rpkid's tables; `tenants` counts rows, for nothing makes a tenant's handle unique |
| `clients`, `published` | pubd's clients, and links whose CA has objects there |
| `call` | a call of rpkid to pubd or a parent; its reply saves the row loaded before it |
| `Save`, `Destroy`, `Cascade`, `DestroyParent`, `DestroyTenant` | `left_right_handler` for one PDU, with hooks and cascades |
| `Control` | pubd's `control_handler`, a transaction per message |
| `irdb`, `ConfigureParent` ... `DeleteClient` | the IRDB and the commands of `Zookeeper` that change it |
| `sync` | a process: its job, its view of the IRDB, what is left of its message |
| `ReadTenant`, `SendMain`, `ServePdu`, `End`, ... | `synchronize_rpkid_one_ca_core` and its siblings |
| `GiveUp`, `PduFails`, `DaemonFails` | the errors that end a command |

A command sees the IRDB as it was when its transaction began (REPEATABLE READ). A message
is a set of PDUs served in the order in which the code composes them (`Rank`). Hooks that
call several parties run at once.

Known and in the model: two processes may create one tenant twice, after which no PDU for
it is accepted (`Converges` excuses it); a notification URI that is taken out of the IRDB
stays in rpkid; a CA whose objects cannot be withdrawn is skipped by `Parent.destroy` and
then removed by the cascade with its keys; a parent without a repository is ignored.

### 2.10 Walk

| model | code |
|---|---|
| `frames`, `work`, `queue` | WalkFrame; the tasks the workers have, with their stacks; `task_queue` |
| `history` | `Fetcher`'s histories: nothing, pending, done |
| `db`, `rejected`, `accepted` | RPKIObject rows; `Status`; `authenticated` |
| `GetTask`, `CheckTAL` | `worker`, CheckTALTask |
| `initial`, `fetch`, `ready`, `NextFile`, `JudgeFile`, `EndLoop` | the states of a WalkFrame |
| `StoreSome`, `EndTransfer` | `_rsync_fetch` and `_rrdp_fetch` as others see them |
| `TaskDies` | an exception that `worker` logs |
| `Join` | `task_queue.join` in `launcher` |

A task that forks leaves its stack in the queue and goes on below its top; from then on
the frames below are shared, and both tasks take files from one iterator.
`SharedFramesLoop`, a part of `WalkComplete`, says that this happens to frames in their
loop only. Excused by name:

- `Status` has one set of codes per URI and nothing clears it, so that a bad new
  manifest hides the good old one under its URI.
- For the same reason a sound file may be refused because another object with its URI is
  bad or revoked, or because the manifest of another CA lists it too: the loop takes
  files by their hash whatever manifest has it, `X509.check` refuses what the frame's CA
  has not signed, and the refusal stays with the URI (`Shadowed`, `Misplaced`). The run
  has such a manifest, and without the excuse it fails.
- A completed RRDP fetch does not stop the next `fetch` of the same point (an rsync fetch
  does): files may arrive after a manifest was read, and are missed in this run
  (`overtaken`).
- A task that dies takes its part of the tree with it (`failed`).

Simplifications: one URI per publication point, `--fetch` on, no warnings, numbers in the
order of retrieval. A trust anchor is fetched or not, in one step: its fetch goes through
the same history in the code, so that it may wait for an rsync fetch of a directory above
it or rely on one that is done, and its own entry is that of a file (rsync) or of a
trust anchor's URI (https), which is no publication point's. An exception from its rsync
ends the task (`TaskDies`); one from HTTP is logged. An rsync fetch looks for entries at and
above its directory only, so that a directory can be fetched while one below it is being
fetched; the model has these two transfers at once, but not what two `rsync --delete` do
to each other's files.

What a repository holds is an input, subject to three named assumptions besides types.
A manifest may list anything. `Issuer` is a function: an object names one issuer key, and
CA certificates have different keys. `DirectoriesAssumption`: of two
directories that are above a third, one is above the other, and an RRDP point is a
notification's URI and not a directory. The other two are used by `FreshScan` alone.
`NamesAssumption`: the URI of a CA's manifest or CRL names nothing else; a CA that gives
the name of another CA's manifest to a product of its own is outside the theorem.
`VersionsAssumption`: a repository does not go back to an older manifest, a directory
brings what is below it, and a manifest comes with a CRL that it lists.


## 3. Runs

Deadlock checking is on where the system never stops: cron, the tasks, the operator's
commands and the parent may always go on (`CALifecycle`, `Scheduler`, `Zookeeper`,
`Requests`). The other runs switch it off, because their bounds on serial numbers,
versions or runs end every behaviour, a method of `ResourceSet` ends by itself, and a
validation run is over when it is.

### 3.1 Runs that hold

**pubd_crash** (`Pubd`, Spec). Two clients, two URIs, two objects; one PDU per query,
serial numbers up to 2, a clock of two values with `Interval` 0, so that the first delta
can have expired when the second one is made; every error, crash, restart, change and
destruction of a client. Checks `TypeOK`, `NotifyIntact`, `NotifyMonotone`, `AnsweredMeansAnnounced`,
`ClientIsolation`, and the refinement `ImplementsRepository`. Two serial numbers are the
least with which an old delta and snapshot are removed, and one is used again after a
rollback; the proofs remove the bounds.

**pubd_live** (`Pubd`, SpecFairReliable). One client, one URI, queries of up to two PDUs,
three serial numbers, with crashes and disk errors, but a COMMIT that does not fail.
`NotifyContiguous`: the deltas of `notify.xml` are consecutive. `RsyncAgrees`: an answered
query's objects are in the rsync tree as in the database, also if both PDUs name one URI.
`QueryAnswered`: every query ends, under weak fairness of the daemon's steps (it is
single-threaded, and nothing in the handler waits) and of its restart. What an earlier
failure left wrong in the rsync tree is never repaired; `RsyncAgrees` does not claim it.

**rrdp** (`Rrdp`). Two URIs, two objects, three serial numbers and deltas that expire:
chains of two deltas, skipped deltas, a fallback to the snapshot, all interleaved with
pubd's failures and kills of the relying party (during the load of a snapshot up to serial
number `MaxKilled`, and during any chain of deltas). `RpInSync`: what the relying party has under a serial number is what pubd
committed under it. `SuccessMeansComplete`: a fetch that ends well has loaded every object
of the notification it read. `ImplementsReplica`: a fetch takes the newest row forward, or
adds a newer one, from one committed state to a later one that has been announced; only
`final_cleanup` takes the relying party back, to an older row that it has kept. The run
has up to two complete rows at a time, and fetches that start from such an older row.

**publication** (`Publication`, LiveSpec). One coroutine, two active ca_details with a
certificate each, four versions, two failures of any kind. Four versions are enough for
each way in which two actions on one URI collapse, with a failure between them.
`QueueExact`: no two PDUs of a message name one URI and pubd accepts each one.
`ManifestComplete`. `ResyncRepairs`: an accepted resynchronization leaves pubd with
exactly rpkid's objects of the ca_detail that the query lists last, and so withdraws the
other one's. `EventuallyAgrees`: whatever is lost, pubd and rpkid agree in the end; about
the objects of the other ca_detail it says so unless such a resynchronization has come,
and TLC refutes it without this excuse: nothing stale is left for the retries to see. Weak
fairness: of a coroutine that has started (the I/O loop resumes it), of time, and of the
retry that cron starts again and again (written with the guard `CanRetry`, which is when
the task has something to do). `EventuallyAgrees` is claimed for behaviours without a
rollback of pubd, which breaks it (section 5).

**ca** (`CALifecycle`, FairSpec). One child, two resources, three keys, so that a CA can
be rolled over twice with the first key still being revoked; two changes (of the grant,
the IRDB or the key) and one failure of each kind, which gives every pair of a rollover
with something that happens during it. `KeysInOrder` has three parts: one ca_detail is
active (unless a rekey's reply was lost, section 5), a revoked key has nothing under it and
no certificate at the parent, and manifests list the certificates.
`MakeBeforeBreak` (no step of a rollover takes a resource from a child, or the active
ca_detail from the CA), `Converged` (CA, children and ROAs end up with what parent and
IRDB say), `ManifestCatchesUp` (no manifest stays behind for ever). Fairness: weak for a
coroutine that has started and for the parent's own cron; strong for the poll and for the
upkeep taken together, since cron puts each task into the queue again and again and
`task_loop` takes them in turn, while coroutines in between disable them. Fairness of each
single task would be justified as well; less is assumed because less suffices. Nothing
obliges anyone to rekey or revoke. The safety properties also hold with three changes (3.7
million states, not among the runs).

**rtr** (`Rtr`, LiveSpec). One prefix, serial numbers modulo 16 from a clock with the
values 2, 5 and 12: forward steps, a wrap-around, a step back, a set that is more than a
day old; three runs of the cron job, so that a client can be two sets behind, and one
crash, lost connection or timer that fires during an answer. `CurrentIsServable` says
exactly when the set that `current` names can be missing: between `destroy_old_data` and
`write_current` of a job whose clock went back, and after a crash there. `RouterInSync`: a
serial number and nonce name one set for ever, unless the clock comes round, and what a
client has committed under a serial number and nonce is the set that was current under
them, unless answers have crossed. TLC refutes it without this excuse (after 20 steps), and with it when differences are computed the wrong way round, or a
job whose clock went back keeps the nonce. `RouterCatchesUp`: the client gets to the current
label, whatever has crossed, as long as that set is on disk.

Weak fairness of a job that has started, of the server's and client's handlers of what has
arrived, of the poll timer and of the client's restart. Strong fairness of `Expire \/
ConsumeEnd`: data for which no End of Data arrives gets older than the server allows at
last, and `client_main` looks for that whenever it wakes up (`client.py:484`). It is
needed, and TLC shows why: a client that has kept a row under an old label dies of
the UNIQUE constraint at every answer, is restarted with the same row, and only
the expiry ends that.

**resource_set** (`ResourceSet`, Spec). Every pair of sets of six addresses (64 x 64),
every range of four-bit addresses against `chop_into_prefixes`, every list of up to three
ranges with ends at 0, 3, 4, 5 and 15 against `canonize` (adjacent, overlapping, nested
and equal ranges, and those that end in the last address), and short lists of ROA
prefixes. Each result is compared with its definition on sets of addresses
(`SetOpsAreRight`, one conjunct per method, and `ChopIsRight`), each exception with the
inputs for which it is raised.

**scheduler** (`Scheduler`, LiveSpec). Two tenant instances, so that cron and `run_now`
both have their own tasks; a class of each of the two kinds of long task and a short one
(the other four behave like it); two items, so that a slice can end before, between and
after them; two changes of the IRDB, so that something can become stale again behind the
task's back. `RunNowMeansDone`: when `run_now` is answered, what was stale when it was
asked has been attended to since by the very task it has waited for. `GivesWay`: a task is put off only in favour of one that
has not had its turn. `RunNowAnswered`: every waiter is answered, unless a slice is used
up by the question to irdbd alone: then a task comes back to the same point for ever.
Fairness: weak, of the loop (requests end, if only by their timeout).

**requests** (`Requests`, LiveSpec). One CA with two keys, one ROA, one Ghostbuster record
and one router whose request may grow or shrink; two changes of the IRDB (a request
replaced while irdbd reads it, or removed and made again), one lost message or used-up
slice, a rollover at any moment. `ManifestExact`, `RoaKept`, `WithdrawnIsRevoked`, and
`Settles`: the tasks end by publishing exactly what the IRDB asks for. Fairness: weak for
the tasks, since cron adds them for ever; strong for regeneration that finds every
manifest due, since time passes and the cycle comes back to it. An Activate is never
obliged to happen.

**zookeeper** (`Zookeeper`, LiveSpec). One tenant with a parent, its repository and a
child; rpkic synchronizes everything and the web interface one tenant, at the same time;
from an empty and from a working installation; two changes of the IRDB, and either one
row saved late or one failure. Two changes let a command see a state in the middle of a
reconfiguration; with one tenant already, everything that commands share (BSC, cascades,
pubd's clients) is there. `Rooted`: no row refers to one that is gone, and no object in
pubd belongs to no client. `SyncWorks`: an undisturbed synchronization that ends without
an error has configured everything. `KeysKept`: a CA loses its keys only to a command that
saw its repository deleted. `Converges`. Fairness: weak, of a command's steps, of the
reply to rpkid's call, and of the operator who runs `rpkic synchronize` again.

**walk** (`Walk`, FairWalk). A trust anchor, two CAs that share one RRDP notification
which changes once, and a grandchild under each, whose rsync directories are one within
the other; the manifest of one of the two also lists a file of the other; two workers; with and without `--spawn-on-fetch`; old data from an earlier run;
a manifest or the trust anchor may be bad; one failed transfer or dead task. The shape is
the least one in which two tasks want one fetch in both ways (the same URI, a directory
above) and a copy shares a frame. `WalkComplete`, `FreshScan` (a CA is scanned with a
manifest at least as new as the one on offer when the run began), `FetchesAreShared` (a
pending fetch is made by one worker, and who waits, waits for one that is being made),
`WalkEnds`. Fairness: weak, of the I/O loop as a whole, which resumes some coroutine; none
of single workers.

### 3.2 A run that shows a disagreement

**zookeeper_orphans**, `NothingOrphaned`. `delete_parent` deletes the Parent and, by
cascade, its Repository in the IRDB. The next synchronization has the repository destroyed
first; it has no hook, and the cascade takes the parent's row, its CAs and their keys.
Nothing is withdrawn or revoked, although `src/rpki/rpkidb/models.py:986` says that all of
it must be. The objects stay in pubd. The line is under `findings` in `PROJECT.json`.


## 4. Proofs

A theorem holds for every value of the constants that the assumptions below allow: any
number of clients, keys, children, tenants, objects, failures and changes. The runs check
the same formulas on small instances.

| module | theorem | states | a run checks it |
|---|---|---|---|
| `RrdpProofs`, Pubd | `TypeCorrect`, `FileInvariant`, `TransactionInvariant` | `[]TypeOK`, `[]FileInv`, `[]TxInv` | `TypeOK` |
| | `NotifyAlwaysIntact` | `[]NotifyIntact` | yes |
| | `NotifyMovesForward` | `NotifyMonotone` | yes |
| | `NotifyStaysContiguous` | `[]NotifyContiguous`, from `SpecReliable` | yes |
| | `ClientsAreIsolated` | `ClientIsolation` | yes |
| | `AnswersAreAnnounced` | `AnsweredMeansAnnounced` | yes |
| | `AnswersAreInRsync` | `RsyncAgrees` | yes |
| | `PubdImplementsRepository` | `ImplementsRepository`, that is `R!Spec` | yes |
| `RrdpProofs`, Rrdp | `RpInvariant` | `[]RpInv` | |
| | `RelyingPartyInSync` | `[]RpInSync` | yes |
| | `SuccessIsComplete` | `[]SuccessMeansComplete` | yes |
| | `RelyingPartyImplementsReplica` | `ImplementsReplica`, that is `P!ReplicaSpec` | yes |
| `PublicationProofs` | `PublicationTypes` | `[]TypeOK` | in `QueueExact` |
| | `OnePduForEachUri` | one PDU of a message for each URI | in `QueueExact` |
| | `QueueIsExact` | `[]QueueExact`, with one coroutine | yes |
| | `ManifestsAreComplete` | `[]ManifestComplete`, with one coroutine | yes |
| | `ResynchronizationRepairs` | `ResyncRepairs`, with one coroutine and any ca_details | yes |
| `CALifecycleProofs` | `KeysInvariant` | `[]Ind`: `KeysInv` and types | |
| | `KeysAreInOrder` | `[]KeysInOrder` | yes |
| | `RolloverIsMakeBeforeBreak` | `MakeBeforeBreak` | yes |
| `TaskProofs`, Scheduler | `SchedulerInvariant` | `[]SchedInv` | |
| | `RunNowIsDone` | `[]RunNowMeansDone` | yes |
| | `TasksGiveWay` | `GivesWay` | yes |
| `TaskProofs`, Walk | `WalkInvariant` | `[]TreeInv` and types | |
| | `WalksAreComplete` | `[]WalkComplete` | yes |
| | `ScansAreFresh` | `[]FreshScan` | yes |
| | `FetchesAreMadeOnce` | `[]FetchesAreShared` | yes |
| `RtrProofs` | `JobInvariant` | the types and `[]JobInv` | |
| | `SetsAreServable` | `[]CurrentIsServable` | yes |
| | `LabelsAreUnique` | `[]LabelIsUnique` | in `RouterInSync` |
| | `RouterInvariant` | `[]RouterInv`: types, `JobInv`, `DiskInv`, `LooseInv`, `SyncInv` | |
| | `RoutersAreInSync` | `[]RouterInSync` | yes |
| `ZookeeperProofs` | `ZookeeperInvariant` | `[]Inv`: `ZookeeperInv` and types | |
| | `DatabasesAreRooted` | `[]Rooted` | yes |
| | `KeysAreKept` | `KeysKept` | yes |
| | `SynchronisationsWork` | `SyncWorks` | yes |
| `RequestsProofs` | `RequestsInvariant` | `[]Ind`: `RequestsInv` and types | |
| | `ManifestsList` | `[]ManifestExact` | yes |
| | `RoasAreKept` | `RoaKept` | yes |
| | `WithdrawnAreRevoked` | `WithdrawnIsRevoked` | yes |

Every inductive invariant was first an INVARIANT of TLC on the constants of its
component's run, and is stated next to the properties, in the component's module, when it
is about the program (`FileInv`, `RpInv`, `KeysInv`, `SchedInv`, `JobInv`,
`ZookeeperInv`, `RequestsInv`, `TreeInv`), or in the module of proofs when it only restates types
or needs notions of its own (`DiskInv`, `LooseInv` and `SyncInv` in `RtrProofs`, `Alone` and `Mended`
in `PublicationProofs`, `SyncsOK` in `ZookeeperProofs`).

### 4.1 Assumptions

They are the named ASSUMEs of the modules, and TLC evaluates each of them. Most say that a
bound is a natural number and that `None` is none of the things it stands next to. The
others: what the code loops over is finite (`Prefix` in `Rtr`; `Res`, `Key` and `Child` in
`CALifecycle`; `Command` in `Zookeeper`; `Product` and `Listed` in `Publication`), for the
loops end; every table of the IRDB has
some configuration a row can have (`Conf` in `LeftRight`); a tenant's tasks are a
sequence of the three kinds (`ClassAssumption` in `Scheduler`); a ca_detail is not the empty
set, which stands for no object, and a router certificate asks for some resource
(`RequestsAssumption`). The three about the world that `Walk` validates are in 2.10; its
`WorldAssumption` has the types, and that trust anchors, manifests and CRLs are finitely
many. Three
results of `PublicationProofs` have a hypothesis besides (4.9).

### 4.2 Pubd

`NotifyIntact` is not inductive: that the file a new `notify.xml` names exists depends on
the order in which the daemon wrote before. `FileInv` adds two parts. `SerialsOrdered`
orders the four places that hold a serial number (`notify.xml`, the database, the Session
in memory, the delta that is being built) at each step of the handler; from it follows
that a delta's number, also one used again after a rollback or a crash, is not yet known
to `notify.xml` or the Delta table, so writing its file overwrites nothing that is
referred to. `FilesWritten` says which files exist at each step, and that during the
clean-up `notify.xml` names exactly what the clean-up keeps. `NotifyMonotone` follows from
`FileInv` step by step: a new `notify.xml` is written only when the database is ahead of
it. `ClientIsolation` rests on `TxInv`: at every step of the transaction each URI is
either untouched or belongs to what the client may use and nobody else occupies
(`TxTouchesOwn`), and the unique constraints hold in the tables and in the transaction's
view of them (`TablesWhole`). The refinement needs both invariants: that a commit is an
allowed update comes from `TxInv`, that its number is higher and that what is announced is
what the tables hold, although the handler uses the Session in memory, from `FileInv`. The
proof has one lemma per kind of step that disturbs a part of the invariant.

What is answered rests on three more. `AnnouncedInv`: from the step that writes
`notify.xml` to the answer, it says what the tables say. `RsyncInv`: at PDU i of the loop
that follows, every URI that PDUs before i name is in the tree as the last of them left it
(`LastSays`), which is how the database has it. `ContiguousInv`: the rows of Delta, the
one that is being built included, have consecutive numbers up to the database's; a COMMIT
that fails leaves the Session in memory one ahead and breaks this, which is why
`NotifyStaysContiguous` starts from `SpecReliable`.

### 4.3 Rrdp

The pair of pubd and a relying party has the invariants of `Pubd` (every step of `Rrdp`
is one of `Pubd`'s or leaves it alone) and `RpInv`. Its parts: `HistoryKept` (a
notification describes what was committed under its number); `TxLeads` (the delta being
built leads from the table to the transaction's view of it, which is where clients that
hash what they replace are needed); `DeltasLead` (each delta that may still be fetched
leads from the state under the number before its own to the state under its own, also when
a rollback has let a number be used again); `RowsAscend` (a row that was loaded later has
a higher serial number, so that the row the code selects by its time is the newest; deltas
are applied to that row only); and `FetchInv` (a fetch that goes forward by
deltas finds all of them in its notification, and rows are never ahead of it). That a
client appends its PDUs to the delta one by one, and a relying party applies them one
by one, is a fact about folds (4.11). For `ImplementsReplica` each delta, and the row that
completes a snapshot, is one `Pull`, and `final_cleanup` is a `Forget`. That the
copy never goes back, as long as something is kept, is not what the code does.

### 4.4 CALifecycle

What a CA's methods do to the database is proved method by method, for databases with the
property `Sane`: every certificate is under an active ca_detail and on its manifest, every
ROA under one that can sign, and the last CRL of a revoked one is right. `Issue`,
`Reissue`, `Regenerate`, `Generate`, `Activate`, `UpdateDetail`, `FinishRevoke` and
`Destroy` each take a sane database to a sane one, and say what they do to the sets of
pending, active, deprecated and revoked ca_details; `Activate` and `FinishRevoke` also
take nothing from a child (`Held`). The loops are folds over finite sets; that one turn
keeps what the loop needs is enough (section 4.11).

`KeysInv` then ties coroutines to the database: what each may rely on when its reply
arrives, although the parent, the IRDB and failures have come between (`PollInv`,
`RekeyInv`, `RevokeInv`). That one ca_detail is active at most is inductive only together
with `PendingInv`: while no reply was lost, a pending ca_detail is either the one whose
rekey is under way or one the parent has not certified, so that a poll that finds it listed
cannot exist. A revoked key has no certificate at the parent because `FinishRevoke`
comes after the parent's answer, the parent certifies only keys that ask, and no coroutine
asks for a revoked one.

`MakeBeforeBreak` follows: of all steps only `GotCert` and `GotRevoked` change the
database while a rekey or a revocation is under way, the first is `Activate` with the
predecessor that `RekeyInv` promises, the second `FinishRevoke` of a deprecated
ca_detail, under which `Sane` leaves no certificate.

### 4.5 Scheduler

In `SchedInv` the queue and the set of ready tasks agree (`QueueInv`); a task that is
queued or runs belongs to a tenant instance in use, and the running one is not queued as
well (`TasksInv`); the walk has attended to every item up to where it is, publishes only
at its end or to give way, and still has somebody to give way to (`WalkInv`). `TaskAdd` is the code's loop, a FoldLeft of `Put`, with a lemma about what it
leaves in the queue.

### 4.6 Rtr

`JobInv` and `Servable` (the full set of `current` is whole, or gone for a reason) are
inductive together with the types, crashes at each file operation included. `LabelInv`
makes `LabelIsUnique` inductive: `mark_current` keeps the nonce as long as the new serial
number is not behind the old one in the sense of RFC 1982, so numbers under one nonce rise,
or the clock has come round (`CameRound`). It may: TLC finds that a clock which goes forward
by less than half of the range each time, three times, comes back to a label that named
another set (four runs of the cron job with the clock of the run `rtr`, which has
three). It takes 2^32 seconds for this to happen.

`RouterInSync` excuses a clock that shows a second again which was the serial number of a
current set or that a file of differences names (`reused`, `OnceOnly`); it may go back to
any other second, and come round. That a second which has a file or a server is
not shown again (`Fresh`) is not enough, and that is a finding about the code:
with five runs and one crash TLC finds a router with a wrong table under a valid label.
A set A is current at second s, then B at c, and more than a day after s A's full set is
deleted; the differences from s to c stay. The clock goes back to s, and the job dies
after it has written a set D as s.ax and before `mark_current`. The next job, again after
c, finds s.ax on disk and computes the differences from s out of D, where the router with
serial number s has A. The run `rtr` has three runs of the job, too few for this, so what
the excuse costs is not seen there; a second is used twice in it (5, 2, 5).

`RouterInv` has three parts. `DiskInv`, which holds until a second is used twice, is about
the files: serial numbers in `hist` are
distinct, nonces never fall, and every full set and every difference between two sets
that were current, or between the job's and one of those, is what it should be.
`SyncInv`, which holds until answers cross, is about the connection. The table and label that a client will have after each
PDU that is on its way is a function of those PDUs (`Sim`; `Follows` is the path they
make). On that path every End of Data comes to the set its label names (`Sound`), and
every query that is open, or will be asked on the way, is one to which the answer that
the server gives from the current files is right, or resets the client (`Fits`). A client's
step is the first step of the path, a server's step lengthens it, and the cron job changes
only what `Fits` says of the files: `FollowTail`, `FollowMore` and `FitsStays` are these
three facts. While a server does not know yet what is current, the connection has one
thing on its way at most (`Lone`); if there is more when `current` changes, answers have
crossed (`Crosses`), and likewise if a timer fires during an answer. `LooseInv` is what
holds then as well: a server knows a set that was current, and no nonce on either side or
in an End of Data is newer than the current one. It is what makes `SyncInv` true again
when a client starts from nothing (`SyncAfresh`). TLC has checked `DiskInv` and `SyncInv`,
written as state predicates, before they were proved.

### 4.7 Zookeeper

`ZookeeperInv` is about every process that synchronizes: what is left of its message is
made of PDUs that fit the IRDB as it saw it (`PduOK`, `SyncOK`), `call` holds a row that
some table had (`CallInv`), and the tables refer only to each other's rows (`ForeignKeys`),
with the tenants that two processes have both created. `Rooted` is part of it. `KeysKept`
is proved per PDU: the cascade of a destroyed repository or parent takes the CAs below it,
and a PDU that destroys them is only in the message of a process whose view of the IRDB
does not have them.

`SynchronisationsWork` needs `SyncsOK`, which for every command that nobody has disturbed
says how far it has come (`AloneOK`): its view of the IRDB is still the IRDB; whatever it
has left to send fits the view and covers every row that differs from it (`TodoOK`,
`TenantOK`); pubd's clients are as in the view once its message has been served
(`ClientsOK`); and the tenants that are gone from the IRDB are gone or about to be
destroyed (`DeletedOK`). One lemma for each kind of message shows this kept
(`MainMessageFits`, `MainMessageCovers`, `SavesRow`, `DestroysRow`, `ServesControl`); at the
end nothing is left to send, and `TenantIsConfigured` concludes. Other processes
may be anywhere in their own commands: they disturb this one only when a PDU of theirs is
served, when they change the IRDB, or when a row saved late changes rpkid's tables.

### 4.8 Requests

The run has one CA, for which rollovers, router certificates and liveness fit. The theorems
are about any number of CAs, ca_details, ROAs, records and routers. (TLC has checked
`RequestsInv` and the three properties with two CAs that both sign, and with a third
ca_detail to roll over to, before they were proved.) `RequestsInv` has six parts.

- `RolloverInv`: a rollover leaves its trace, a ca_detail that was active at first and is
  deprecated; nothing makes it active again, so that "no rollover yet" is a question about
  states.
- `RoaRowsInv`: a ROA's row is under an active ca_detail that covers it, also after
  `activate` has moved it, and its object is what the row says.
- `LoadedInv` and `InstancesInv`: what UpdateROAs keeps across its yields. Its answer
  covers what has been asked for since it began, what it will withdraw is not asked for,
  and every ROA it has withdrawn on the way it has signed anew. As long as no rollover
  has come between, the instances it has loaded are still the rows.
- `ManifestsInv`: a manifest lists its ca_detail's rows, except while the task has signed
  something and has written the ca_detail down to be regenerated.
- `PubdInv`: what pubd has is in rpkid's rows or revoked. A reply may be lost, so that this
  is all that can be said of the two.

Most steps end in a message to pubd with three outcomes, and the proof is about that
message once: if it publishes what the rows say, and publishes again each ROA that it
withdraws (`Replaced`), then pubd's part of the invariant and the two action properties
follow (`MessageStep`), for a message that is accepted (`MessageKnown`,
`MessageKeepsRoa`), refused and resynchronized, or lost. `PublishKeeps` adds what a task that
generates manifests has to know of its rows; one lemma per task shows that it knows it.
`Activate` changes rows of all kinds and two ca_details at once, and has the longest one.

### 4.9 Publication

Types and `OnePduForEachUri` hold with any number of coroutines. The other results are
about a coroutine that is alone, as in the run, because the code promises no more: with
two, TLC finds in two steps a message that pubd will refuse (both sign at one URI), and in
five a callback that saves an instance loaded before the other's operation and so brings
an old object back. `ResyncRepairs` holds for any number of ca_details because it says
what the code does with several: `our_objs` is assigned anew for each of them, so that
what is left at pubd is the last one's (`Ours`). With a single ca_detail these are all of
rpkid's objects (`OursIsAll`); with more of them the theorem is also the proof that the
others' are withdrawn (section 5).

`Queueing` operations are loops: a retry of everything that is stale, then one or more
calls of `queue`. They are taken apart down to a single `Enqueue`, about which one lemma
says everything (`EnqueueIs`): what the message has for other URIs stays, and the new PDU
has the hash of the one it replaces. Four predicates of a message in the making are kept
by every operation (`Good`, `ExactFor`; one lemma `...Keeps` for each operation): no URI
twice; a PDU brings what the database holds, and a handler holds what its PDU brings
(`Kept`); a certificate the task has not treated yet is in the message only as a retry
(`Fresh`), which is why collapsing a retry with a withdrawal leaves no handler that saves
the deleted row; and, while nothing has failed, the message is the difference between pubd
and the database, and everything with a timestamp is in it (`Exact`). `ManifestComplete`
needs `Kept`: the callbacks of a reply save what is in the database already. For
`ResyncRepairs`, `Orders` says what the two messages made from a list query contain.

### 4.10 Walk

`WalkComplete` is about the end of the walk, and nothing in it says why a task that goes
on with its parent's frame, while a copy of it waits in the queue, can neither lose nor
repeat a part of the tree. `TreeInv` says so, in nine parts.

- `FramesInv`: a frame that is in its loop has a manifest and a CRL of its own CA, and only
  files of that manifest to go; all others are blank.
- `StacksInv`: below the top of a stack all frames are in their loops, and what the top's
  state may be depends on what the worker does. Together with `SharedFramesLoop` (two
  stacks share only frames in their loops) this is what makes forking safe: a frame that has
  not reached its loop is in one stack at most, at the top, so that nobody else steps it.
- `WaitsInv` and `FetchedInv`: who waits for a transfer has use for it, and when its end
  is noticed the database has some version of the point, or of a directory above it, in
  full. Without failures no frame gets past `fetch` before that.
- `RejectedInv`: a URI is rejected on account of some object in the database that is bad or
  revoked, or is listed by a manifest of another CA than its own. `AcceptedInv`: the
  accepted CAs are those with a frame, an accepted file is on the manifest of the CA that
  has signed it, whose frame is in its loop, and no file of its own that a CA still has to
  judge has been accepted. `JudgedInv`: a file is in one worker's hands, once, although two workers take
  from the same iterator.
- `ScannedInv`: unless a task has died, every CA that is not done is in some stack, and
  every file of its own that it lists has been taken by nobody yet, or is in somebody's
  hands, or has been judged rightly. At the end no stack is left, so that only the last is possible.

The proof has one lemma for each part and each kind of step that can disturb it. What an
action does to frames, to stacks and to the database is stated once (`NewFrame`, `NewJob`,
`Wakes`), so that the lemmas about stacks do not look into the actions. An object of a
manifest that is in its loop is in the database in time or has been overtaken
(`ListedInTime`), so that nothing is excused that was there when it was looked for.
`FreshScan` is proved from `FetchedInv` and the choice of CRL and manifest
(`FreshChoice`, with a lemma that a finite set of numbered objects has a newest one).

An earlier `WalkComplete` was refuted by the attempt to prove it. It said that a listed
file is accepted exactly if it is sound, which holds in the run, where no two files have
one URI. In general a sound file is refused when another object that has its URI was bad, or
revoked by its CRL: `Status` keeps the code for the URI. `Shadowed` says which
refusals this explains; the converse, that nothing unsound is accepted, has no exception.
A later version assumed that a manifest lists only what its CA has signed. The code does
not see to that, and the assumption is gone: a CA's file can be refused under a manifest of
another CA, and `Shadowed` has that case too.

`FetchesAreShared` needs no invariant but `WaitsInv`: `NotPending` shows that what must be
fetched has no entry of its own that is pending, and the end of a transfer, with or without
an error, frees all who have to do with its entry (`SharedEnds`).

### 4.11 Folds

The provers do not take an operator as the parameter of a theorem, so that the library's
facts about induction and folds cannot be used. They do take an instance of a module that
has an operator as a CONSTANT. `FoldLemmas` proves, for any `op`, that FoldLeft and FoldSet
are defined by their recursion on finite arguments and preserve what one turn
preserves, with induction over the naturals stated as a fact about a set of numbers;
`RrdpProofs`, `TaskProofs`, `CALifecycleProofs` and `PublicationProofs` instantiate it.

### 4.12 Only model-checked

- Every liveness property: `QueryAnswered`, `EventuallyAgrees`, `Converged`,
  `ManifestCatchesUp`, `RouterCatchesUp`, `RunNowAnswered`, `Settles`, `Converges`,
  `WalkEnds`. Fairness and ENABLED are beyond the prover.
- `SetOpsAreRight` and `ChopIsRight`: they compare loops with definitions on sets of
  addresses, which needs arithmetic on powers of two that no backend has.

## 5. Not modelled, and known hazards without a property

Parts that are not modelled are in `PROJECT.json` with a reason. `hazards` there lists
what is hard to test in the code, most with the properties that guard it. Met while
reading and covered by no property:

- pubd: a replace for an object it no longer has makes a delta that cannot be applied
  (`src/rpki/pubdb/models.py:267`); the client's signing time is saved before the
  transaction (`src/rpki/pubd.py:245`), the operator's is only in memory (line 150).
- rpkid publication: a queue with two repositories stops at the first that fails
  (`src/rpki/rpkid.py:727`).
- Messages that overtake one another are refused as replays when the signing time of the
  later one is strictly older (`src/rpki/x509.py:2048`); two of one second are not.
- Up-down: an issue request keeps its ca_detail across the IRDB query
  (`src/rpki/rpkidb/models.py:1710`); a ROA that its active ca_detail no longer covers is
  made again under it and never withdrawn (line 2366; `Converged` is only about ROAs for
  resources that are granted); `EECertificate.reissue` leaves the new certificate with
  the old ca_detail (line 2016).
- rtr: a changed nonce alone is not notified (`src/rpki/rtr/server.py:325`); a change of the
  protocol version keeps a serial number in memory whose table is gone
  (`src/rpki/rtr/client.py:332`).
- rtr: the cron job takes any full set it finds on disk for one that was current, also one
  that an earlier job wrote under a second that had been used before and did not get to
  make current (`src/rpki/rtr/generator.py:533`; section 4.6).
- Resource sets: `_comm`, `union` and `issubset` do not check that the other set inherits
  (`src/rpki/resource_set.py:398`).
- rcynicng creates the RRDPSnapshot row, serial number included, before it loads the
  objects: killed during its first load, it takes the row for up-to-date data in the next
  run, and works without what was not loaded until `final_cleanup` has removed the row
  (`src/rp/rcynic/rcynicng:1104`). `Rrdp` has these kills; `SuccessMeansComplete` excuses
  exactly them.
- pubd increments the serial number of the Session in memory before the transaction
  commits: if that fails, the next delta skips a number, and relying parties cannot follow
  the deltas across the gap (`src/rpki/pubdb/models.py:254`). `NotifyContiguous` is checked
  with a COMMIT that does not fail.
- pubd answers each PDU with success as it goes; if the transaction then fails, the reply
  has these successes before the error, and rpkid's handlers clear `published` for them:
  nothing publishes these objects again (`src/rpki/rpkidb/models.py:543`).
- `resync` assigns `our_objs` anew for each active ca_detail: with two of them, which is
  normal for a tenant with two parents, what the others have is withdrawn
  (`src/rpki/rpkid.py:758`). `ResyncRepairs` states it, `EventuallyAgrees` and `RoaKept`
  excuse what it takes away.
- The reply to a rekey's issue request is lost: the next poll finds the new key certified
  and activates it without retiring the old one (`src/rpki/rpkidb/models.py:1060`).
- rpkid killed between the two saves of `activate` (line 1231), and polls, rekeys and
  requests of children that overlap (line 1235): `CALifecycle` runs one coroutine at a time.
- `http_fetch` holds one lock per host and port while it waits (`src/rpki/rpkid.py:273`):
  behind a proxy that puts all daemons on one port, a tenant whose parent is another tenant
  of the same rpkid waits for itself.

Why the rest stays out. The larger parts of the repository that have no module have no
protocol of their own: X.509 and CMS objects (`src/rpki/x509.py`) wrap OpenSSL; the XML
schemas are generated; the message modules are names and formats; the web interface,
rpkic's commands, reports and tools call what is modelled and print; the C rcynic is
replaced by rcynicng. What would still make a model is the enrolment of a new tenant
(the files that operators exchange through `zookeeper.py`: identity, parent's and
repository's answers, renewal of the BPKI) and `reissue` and expiry in `CALifecycle`.


## 6. Plan

Done: `Repository` and `Pubd` with its proofs, `Replica` and `Rrdp`, `Publication`,
`CALifecycle`, `Rtr`, `ResourceSet`, `Scheduler`, `Requests`, `LeftRight` and `Zookeeper`,
`Walk`.

Every safety and action property of the runs is a theorem but for those of 4.12. What is
left to prove are the algorithms of `ResourceSet`, as functions on lists, when a backend for
induction over data is available.

To model, if the number of runs allows it: the enrolment of tenants; overlapping
coroutines in `CALifecycle`; `Publication` against an abstract specification, with its
pubd replaced by `Repository`.

The number of runs is kept small: each new question joins the run of its module unless it
needs other constants.
