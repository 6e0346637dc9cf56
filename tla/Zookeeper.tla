----------------------------- MODULE Zookeeper -----------------------------
(***************************************************************************)
(* The operator's database (IRDB) and the synchronisation that configures  *)
(* rpkid and pubd from it (rpki/irdb/zookeeper.py).  rpkic and the web     *)
(* interface each make a Zookeeper and run commands at the same time; a    *)
(* command changes the IRDB in one transaction, and synchronises in        *)
(* another, which reads the IRDB as it was at its start.                   *)
(*                                                                         *)
(* A synchronisation works through jobs: one per tenant, pubd, and the     *)
(* tenants that the IRDB does not have any more.  A job asks the daemon    *)
(* what it has and sends the differences.  The first error ends the        *)
(* command, and rolls back only what it did in the IRDB.                   *)
(***************************************************************************)
EXTENDS LeftRight

CONSTANTS
  Runs,        \* Command -> the synchronisations it runs: "all", "ca", "deleted", "pubd"
  MaxChanges   \* bound: changes of the IRDB

ASSUME RunsAssumption ==
  /\ Runs \in [Command -> SUBSET {"all", "ca", "deleted", "pubd"}]
  /\ MaxChanges \in Nat

VARIABLES
  irdb,        \* tables of the IRDB
  sync,        \* Command -> what that process is doing
  changes      \* number of changes so far

vars == <<dbVars, irdb, sync, changes>>

NotRunning == [at |-> "idle"]

EmptyIrdb == [holder |-> {}, parent |-> <<>>, repository |-> <<>>, child |-> <<>>, client |-> <<>>]

Init ==
  /\ InitDatabases
  /\ irdb = EmptyIrdb
  /\ sync = [s \in Command |-> NotRunning]
  /\ changes = 0

\* An installation that has been running for a while: every tenant, link,
\* child and client is configured, in the IRDB and in the daemons.
InitSettled ==
  LET any == [table \in DOMAIN Conf |-> CHOOSE x \in Conf[table] : TRUE]
  IN /\ irdb = [holder |-> Tenant,
                parent |-> [k \in Link |-> any.parent],
                repository |-> [k \in Link |-> any.repository],
                child |-> [k \in Child |-> any.child],
                client |-> [k \in Link |-> any.client]]
     /\ tenants = [t \in Tenant |-> 1]
     /\ rows = [bsc |-> [k \in {<<t>> : t \in Tenant} |-> "signed"],
                repository |-> irdb.repository, parent |-> irdb.parent, child |-> irdb.child]
     /\ clients = irdb.client
     /\ cas = Link /\ published = Link
     /\ call = Idle /\ troubles = 0
     /\ sync = [s \in Command |-> NotRunning]
     /\ changes = 0

Running == {s \in Command : sync[s].at /= "idle"}

\* History: nobody else changed anything since these commands began.
Disturb(f, S) == [s \in Command |-> IF s \in S /\ f[s].at /= "idle"
                                    THEN [f[s] EXCEPT !.alone = FALSE] ELSE f[s]]

-----------------------------------------------------------------------------
(* Changing the IRDB.                                                      *)

Edit(db) ==
  /\ changes < MaxChanges /\ changes' = changes + 1
  /\ db /= irdb /\ irdb' = db
  /\ sync' = Disturb(sync, Command)
  /\ UNCHANGED dbVars

Initialize(t) ==
  Edit([irdb EXCEPT !.holder = @ \cup {t}])

\* Deleting a row deletes, by Django's cascade, the rows that refer to it: a
\* Repository belongs to its Parent.
DeleteTenant(t) ==
  /\ t \in irdb.holder
  /\ LET Of(f) == {k \in DOMAIN f : Owner(k) = t}
     IN Edit([irdb EXCEPT !.holder = @ \ {t},
                          !.parent = Less(@, Of(@)),
                          !.repository = Less(@, Of(@)),
                          !.child = Less(@, Of(@))])

ConfigureParent(k, conf) ==
  /\ Owner(k) \in irdb.holder
  /\ Edit([irdb EXCEPT !.parent = Put(@, k, conf)])

DeleteParent(k) ==
  Edit([irdb EXCEPT !.parent = Less(@, {k}), !.repository = Less(@, {k})])

ConfigureRepository(k, conf) ==
  /\ k \in DOMAIN irdb.parent
  /\ Edit([irdb EXCEPT !.repository = Put(@, k, conf)])

DeleteRepository(k) ==
  Edit([irdb EXCEPT !.repository = Less(@, {k})])

ConfigureChild(k, conf) ==
  /\ Owner(k) \in irdb.holder
  /\ Edit([irdb EXCEPT !.child = Put(@, k, conf)])

DeleteChild(k) ==
  Edit([irdb EXCEPT !.child = Less(@, {k})])

ConfigureClient(k, conf) ==
  Edit([irdb EXCEPT !.client = Put(@, k, conf)])

DeleteClient(k) ==
  Edit([irdb EXCEPT !.client = Less(@, {k})])

ChangeIrdb ==
  \/ \E t \in Tenant : Initialize(t) \/ DeleteTenant(t)
  \/ \E k \in Link : \/ DeleteParent(k) \/ DeleteRepository(k) \/ DeleteClient(k)
                     \/ \E c \in Conf.parent : ConfigureParent(k, c)
                     \/ \E c \in Conf.repository : ConfigureRepository(k, c)
                     \/ \E c \in Conf.client : ConfigureClient(k, c)
  \/ \E k \in Child : DeleteChild(k) \/ \E c \in Conf.child : ConfigureChild(k, c)

-----------------------------------------------------------------------------
(* Messages: what a job sends, from the IRDB it sees and the rows it got.  *)

Wanted(table, view, t) ==
  LET mine(f) == Restrict(f, {k \in DOMAIN f : Owner(k) = t})
  IN CASE table = "repository" -> mine(view.repository)
       [] table = "parent" ->     \* a parent without a repository is ignored
            mine(Restrict(view.parent, DOMAIN view.repository \cap DOMAIN view.parent))
       [] OTHER -> mine(view.child)

\* A repository of the IRDB without an rrdp URI differs from one with a URI.
Creates(table, want, have) ==
  {Pdu("create", table, k, want[k]) : k \in DOMAIN want \ DOMAIN have}
Sets(table, want, have) ==
  {Pdu("set", table, k, want[k]) : k \in {x \in DOMAIN want \cap DOMAIN have : want[x] /= have[x]}}
\* Mutant: children are forgotten.
Destroys_NotChildren(table, known, have) ==
  {Pdu("destroy", table, k, "none") : k \in {x \in DOMAIN have \ known : table /= "child"}}

Destroys(table, known, have) ==
  {Pdu("destroy", table, k, "none") : k \in DOMAIN have \ known}

\* Mutant: a parent is popped only when it has to be set.
Known_NotPopped(table, view) ==
  CASE table = "repository" -> DOMAIN view.repository
    [] table = "parent" ->
         {k \in DOMAIN view.parent : Has(table, k) => rows[table][k] /= view.parent[k]}
    [] OTHER -> DOMAIN view.child

\* Parents are popped from the rpkid's list before it turns out that they have
\* no repository: they are not destroyed.
Known(table, view) ==
  CASE table = "repository" -> DOMAIN view.repository
    [] table = "parent" -> DOMAIN view.parent
    [] OTHER -> DOMAIN view.child

MainMessage(view, t) ==
  UNION {LET have == Restrict(rows[table], {k \in DOMAIN rows[table] : Owner(k) = t})
             want == Wanted(table, view, t)
         IN Creates(table, want, have) \cup Sets(table, want, have)
              \cup Destroys(table, Known(table, view), have)
         : table \in {"repository", "parent", "child"}}

\* The row of a tenant is compared with one certificate and set to another,
\* so an existing tenant is always set.
TenantMessage(t) ==
  {Pdu(IF tenants[t] = 0 THEN "create" ELSE "set", "tenant", <<t>>, "none")}
    \cup (IF Has("bsc", <<t>>) THEN {} ELSE {Pdu("create", "bsc", <<t>>, "new")})

ControlMessage(view) ==
  Creates("client", view.client, clients) \cup Sets("client", view.client, clients)
    \cup Destroys("client", DOMAIN view.client, clients)

DeletedMessage(view) ==
  {Pdu("destroy", "tenant", <<t>>, "none") : t \in {x \in Tenant : tenants[x] > 0} \ view.holder}

-----------------------------------------------------------------------------
(* A synchronisation.  `todo' is the rest of the message that rpkid is     *)
(* serving, `later' the message that follows it.                           *)

Jobs(cmd, view, t) ==
  CASE cmd = "all" -> [cas |-> view.holder, rest |-> <<"pubd", "deleted">>]
    [] cmd = "ca" -> [cas |-> {t}, rest |-> <<>>]
    [] OTHER -> [cas |-> {}, rest |-> <<cmd>>]

Begin(s, cmd) ==
  /\ sync[s].at = "idle" /\ cmd \in Runs[s]
  /\ \E t \in IF cmd = "ca" THEN irdb.holder ELSE {"any"} :
       sync' = [sync EXCEPT ![s] =
                  [at |-> "serve", cmd |-> cmd, view |-> irdb, jobs |-> Jobs(cmd, irdb, t),
                   ca |-> "none", todo |-> {}, later |-> {}, alone |-> TRUE]]
  /\ UNCHANGED <<dbVars, irdb, changes>>

\* The last message has been served.
Ready(c) == c.at = "serve" /\ c.todo = {}

Become(s, r) == sync' = [sync EXCEPT ![s] = r]
OnlySync == UNCHANGED <<dbVars, irdb, changes>>

\* Ask rpkid about a tenant.
ReadTenant(s) ==
  LET c == sync[s] IN
  /\ Ready(c)
  /\ \E t \in c.jobs.cas :
       Become(s, [c EXCEPT !.at = "tenant", !.ca = t, !.jobs.cas = @ \ {t},
                           !.todo = TenantMessage(t), !.later = MainMessage(c.view, t)])
  /\ OnlySync

\* The tenant and its BSC are set up, and the reply says what the BSC is.
SendMain(s) ==
  LET c == sync[s]
      k == <<c.ca>>
      sign == IF rows["bsc"][k] = "signed" THEN {} ELSE {Pdu("set", "bsc", k, "signed")}
  IN /\ c.at = "tenant" /\ c.todo = {} /\ Has("bsc", k)
     /\ Become(s, [c EXCEPT !.at = "serve", !.todo = c.later \cup sign, !.later = {}])
     /\ OnlySync

ReadClients(s) ==
  LET c == sync[s] IN
  /\ Ready(c) /\ c.jobs.cas = {} /\ c.jobs.rest /= <<>> /\ Head(c.jobs.rest) = "pubd"
  /\ Become(s, [c EXCEPT !.at = "control", !.jobs.rest = Tail(@), !.todo = ControlMessage(c.view)])
  /\ OnlySync

ReadTenants(s) ==
  LET c == sync[s] IN
  /\ Ready(c) /\ c.jobs.cas = {} /\ c.jobs.rest /= <<>> /\ Head(c.jobs.rest) = "deleted"
  /\ \A t \in c.view.holder : tenants[t] > 0     \* assert ca_handles <= tenant_handles
  /\ Become(s, [c EXCEPT !.at = "serve", !.jobs.rest = Tail(@), !.todo = DeletedMessage(c.view)])
  /\ OnlySync

End(s) ==
  LET c == sync[s] IN
  /\ Ready(c) /\ c.jobs.cas = {} /\ c.jobs.rest = <<>>
  /\ Become(s, NotRunning)
  /\ OnlySync

\* rpkid serves the next PDU.
ServePdu(s) ==
  LET c == sync[s] IN
  /\ c.at \in {"tenant", "serve"}
  /\ \E p \in NextPdus(c.todo) :
       /\ Accepts(p)
       /\ Save(p) \/ Destroy(p)
       /\ sync' = Disturb([sync EXCEPT ![s].todo = @ \ {p}], Command \ {s})
  /\ UNCHANGED <<irdb, changes>>

ServeControl(s) ==
  LET c == sync[s] IN
  /\ c.at = "control" /\ ControlAccepts(c.todo)
  /\ Control(c.todo)
  /\ sync' = Disturb([sync EXCEPT ![s] = [c EXCEPT !.at = "serve", !.todo = {}]], Command \ {s})
  /\ UNCHANGED <<irdb, changes>>

\* CouldntTalkToDaemon, or an exception of the command's own: a PDU that
\* rpkid does not accept, and then the rest of the message is not served; a
\* control message that pubd does not; a BSC that is gone from the reply; the
\* assertion about tenants.
Stuck(s) ==
  LET c == sync[s] IN
  \/ c.at \in {"tenant", "serve"} /\ \E p \in NextPdus(c.todo) : ~Accepts(p)
  \/ c.at = "tenant" /\ c.todo = {} /\ ~Has("bsc", <<c.ca>>)
  \/ c.at = "control" /\ ~ControlAccepts(c.todo)
  \/ /\ Ready(c) /\ c.jobs.cas = {} /\ c.jobs.rest /= <<>> /\ Head(c.jobs.rest) = "deleted"
     /\ \E t \in c.view.holder : tenants[t] = 0

GiveUp(s) ==
  /\ Stuck(s)
  /\ Become(s, NotRunning)
  /\ OnlySync

\* A hook fails, or the daemon dies and with it the rest of the message.
PduFails(s) ==
  LET c == sync[s] IN
  /\ c.at \in {"tenant", "serve"}
  /\ \E p \in NextPdus(c.todo) : Accepts(p) /\ HookFails(p)
  /\ sync' = Disturb([sync EXCEPT ![s] = NotRunning], Command \ {s})
  /\ UNCHANGED <<irdb, changes>>

DaemonFails(s) ==
  /\ s \in Running /\ Trouble
  /\ Become(s, NotRunning)
  /\ UNCHANGED <<rpkid, pubd, call, irdb, changes>>

Step(s) ==
  \/ ReadTenant(s) \/ SendMain(s) \/ ReadClients(s) \/ ReadTenants(s)
  \/ End(s) \/ ServePdu(s) \/ ServeControl(s) \/ GiveUp(s)

\* What rpkid does by itself; only the end of a call touches what is configured.
RpkidWorks ==
  /\ OwnWork
  /\ sync' = IF rows' = rows THEN sync ELSE Disturb(sync, Command)
  /\ UNCHANGED <<irdb, changes>>

Next ==
  \/ ChangeIrdb
  \/ \E s \in Command : \/ \E cmd \in Runs[s] : Begin(s, cmd)
                        \/ Step(s) \/ PduFails(s) \/ DaemonFails(s)
  \/ RpkidWorks

Spec == (Init \/ InitSettled) /\ [][Next]_vars

\* A command runs to its end, rpkid's HTTP client answers or times out, and
\* the operator runs "rpkic synchronize" again and again.
Fairness ==
  /\ \A s \in Command : WF_vars(Step(s))
  /\ \A s \in {x \in Command : "all" \in Runs[x]} : WF_vars(Begin(s, "all"))
  /\ WF_vars(RpkidWorks /\ call /= Idle /\ call' = Idle)

LiveSpec == Spec /\ Fairness

-----------------------------------------------------------------------------
(* Properties.                                                             *)

Rows(table, t) == Restrict(rows[table], {k \in DOMAIN rows[table] : Owner(k) = t})

\* rpkid has of tenant t what the IRDB says.  A URI for rrdp that was taken
\* out of the IRDB stays in rpkid.
Mirrors(t) ==
  LET want == Wanted("repository", irdb, t)
      have == Rows("repository", t)
  IN /\ tenants[t] = 1 /\ Has("bsc", <<t>>) /\ rows["bsc"][<<t>>] = "signed"
     /\ DOMAIN have = DOMAIN want
     /\ \A k \in DOMAIN want : want[k] = "plain" \/ have[k] = want[k]
     /\ Rows("parent", t) = Wanted("parent", irdb, t)
     /\ Rows("child", t) = Wanted("child", irdb, t)

DeletedAreGone == \A t \in Tenant \ irdb.holder : tenants[t] = 0

MirrorsAll ==
  /\ \A t \in irdb.holder : Mirrors(t)
  /\ DeletedAreGone
  /\ clients = irdb.client

\* Type correctness and references: rpkid never has a parent without its
\* repository and BSC, keys without their parent, nor pubd objects of no
\* client, whatever was deleted, and by which cascade (rpkidb/models.py:471,556).
Rooted ==
  /\ DatabasesTypeOK
  /\ changes \in 0..MaxChanges
  /\ DOMAIN irdb.repository \subseteq DOMAIN irdb.parent
  /\ \A k \in DOMAIN rows["parent"] : Has("repository", k) /\ Has("bsc", <<Owner(k)>>)
  /\ cas \subseteq DOMAIN rows["parent"]
  /\ published \subseteq DOMAIN clients

\* What makes Rooted and KeysKept inductive.  In the IRDB and in the view of a
\* command, a repository has its parent, and a parent its tenant; what a command
\* has still to send is about rows that there can be, and destroys only what its
\* view does not have; and a tenant is created at most once by each command that
\* has seen that it is not there.
Partial(K, V) == UNION {[D -> V] : D \in SUBSET K}

Irdb == [holder : SUBSET Tenant, parent : Partial(Link, Conf.parent),
         repository : Partial(Link, Conf.repository), child : Partial(Child, Conf.child),
         client : Partial(Link, Conf.client)]

IrdbOK(db) ==
  /\ db \in Irdb
  /\ DOMAIN db.repository \subseteq DOMAIN db.parent
  /\ \A k \in DOMAIN db.parent : Owner(k) \in db.holder

PduOK(p, view) ==
  /\ p.verb \in {"create", "set", "destroy"}
  /\ \/ p.table = "tenant" /\ p.key \in Keys.bsc /\ p.conf = "none"
        /\ (p.verb = "destroy" => Owner(p.key) \notin view.holder)
     \/ p.table \in Table /\ p.key \in Keys[p.table]
        /\ (p.verb /= "destroy" => p.conf \in Values[p.table])
        /\ (p.verb = "destroy" => p.table /= "bsc")
        /\ (p.verb = "destroy" /\ p.table \in {"repository", "parent"}
              => p.key \notin DOMAIN view.repository)

ControlPduOK(p) == p.key \in Link /\ (p.verb /= "destroy" => p.conf \in Conf.client)

Message == [verb : {"create", "set", "destroy"}, table : Table \cup {"tenant", "client"},
            key : Keys.bsc \cup Link \cup Child,
            conf : {"none", "new", "signed"} \cup UNION {Conf[table] : table \in DOMAIN Conf}]

Working == [at : {"serve", "tenant", "control"}, cmd : {"all", "ca", "deleted", "pubd"},
            view : Irdb, jobs : [cas : SUBSET Tenant, rest : Seq({"pubd", "deleted"})],
            ca : Tenant \cup {"none"}, todo : SUBSET Message, later : SUBSET Message,
            alone : BOOLEAN]

SyncOK(c) ==
  \/ c = NotRunning
  \/ /\ c \in Working /\ IrdbOK(c.view)
     /\ IF c.at = "control" THEN \A p \in c.todo : ControlPduOK(p)
                            ELSE \A p \in c.todo : PduOK(p, c.view)
     /\ \A p \in c.later : PduOK(p, c.view) /\ p.table /= "tenant"
     /\ c.at = "tenant" => c.ca \in Tenant
     /\ c.at = "serve" => \A p \in c.todo : p.table = "tenant" => p.verb = "destroy"

Creating(t) ==
  {s \in Command : /\ sync[s].at = "tenant"
                   /\ \E p \in sync[s].todo : /\ p.verb = "create" /\ p.table = "tenant"
                                               /\ Owner(p.key) = t}

ZookeeperInv ==
  /\ sync \in [Command -> {NotRunning} \cup Working] /\ \A s \in Command : SyncOK(sync[s])
  /\ IrdbOK(irdb)
  /\ CallInv /\ ForeignKeys
  /\ \A t \in Tenant : tenants[t] + Cardinality(Creating(t)) <= Cardinality(Command)

\* A synchronisation that ends without an error, and during which nobody else
\* changed the IRDB or rpkid, leaves rpkid and pubd as the IRDB says
\* (zookeeper.py:1280, 1536, 1591).
SyncWorks ==
  [][\A s \in Command :
       End(s) /\ sync[s].alone =>
         CASE sync[s].cmd = "all" -> MirrorsAll
           [] sync[s].cmd = "ca" -> Mirrors(sync[s].ca)
           [] sync[s].cmd = "pubd" -> clients = irdb.client
           [] OTHER -> DeletedAreGone]_vars

\* A CA loses its keys only by a command that saw its parent or its repository
\* deleted: never because their configuration changed, because a row was saved
\* late, or by what another tenant deletes (zookeeper.py:1438-1500).
KeysKept ==
  [][\A k \in cas \ cas' :
       \E s \in Running : k \notin DOMAIN sync[s].view.repository]_vars

\* When the IRDB has changed for the last time, running the synchronisation
\* again and again makes rpkid and pubd agree with it for good, whatever
\* commands ran at the same time, failed on their way or saw an old IRDB
\* (zookeeper.py:1232) - unless two commands created the same tenant.
Converges == <>[]((\E t \in Tenant : tenants[t] > 1) \/ MirrorsAll)

\* "All certs published by this CA are now invalid, so need to withdraw them"
\* (rpkidb/models.py:986): what pubd has belongs to a CA.
NothingOrphaned == published \subseteq cas

=============================================================================
