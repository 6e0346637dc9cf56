----------------------------- MODULE LeftRight -----------------------------
(***************************************************************************)
(* The two databases that the operator's commands configure over HTTP:     *)
(* rpkid's, by the left-right protocol, and pubd's table of clients, by    *)
(* the publication control protocol.  A left-right message is served one   *)
(* PDU after the other, and each PDU may wait for the tenant's parents and *)
(* for pubd; a control message is one transaction.                         *)
(*                                                                         *)
(* A Link is a parent of a tenant together with its repository: zookeeper  *)
(* gives both the same handle, and one client of pubd.  `cas' are the      *)
(* links whose parent has a CA in rpkid, with its keys; `published' those  *)
(* whose CA has objects in pubd.                                           *)
(*                                                                         *)
(* rpkid's own work goes on meanwhile: it sets up CAs (CertifyCA), and it  *)
(* calls pubd and parents, for which it loads a row, waits for the answer, *)
(* and saves the whole row with the new time stamp of the answer           *)
(* (CallBegins, CallEnds).                                                 *)
(***************************************************************************)
EXTENDS Naturals, Sequences, FiniteSets, Functions

CONSTANTS
  Tenant,      \* handles of resource holders
  Link,        \* <<tenant, handle>> of parents and of their repositories
  Child,       \* <<tenant, handle>> of children
  Conf,        \* table -> what its rows may say; a repository's says "plain", or
               \* "rrdp" when it has a notification URI
  Command,     \* the commands that run at the same time, each with its process
  MaxTroubles  \* bound: calls of rpkid's during which a row gets stale, and
               \* times that a parent or a daemon cannot be reached

ASSUME KeyAssumption ==
  /\ \A k \in Link \cup Child : Len(k) = 2 /\ Head(k) \in Tenant
  /\ DOMAIN Conf = {"parent", "repository", "child", "client"}
  /\ \A table \in DOMAIN Conf : Conf[table] /= {}
  /\ Conf.repository \subseteq {"plain", "rrdp"}
ASSUME CommandAssumption == IsFiniteSet(Command) /\ Command /= {}
ASSUME BoundAssumption == MaxTroubles \in Nat

VARIABLES
  tenants,    \* Tenant -> number of rows with that handle
  rows,       \* table -> its rows, by key
  cas,        \* links with a CA in rpkid
  clients,    \* pubd's clients, by link
  published,  \* links with objects in pubd
  call,       \* the call that rpkid waits for
  troubles    \* number of such calls and faults so far

rpkid == <<tenants, rows, cas>>
pubd == <<clients, published>>
dbVars == <<rpkid, pubd, call, troubles>>

Table == {"bsc", "repository", "parent", "child"}
Owner(k) == Head(k)
Keys == [bsc |-> {<<t>> : t \in Tenant}, repository |-> Link, parent |-> Link, child |-> Child]
Values == [bsc |-> {"new", "signed"}, repository |-> Conf.repository, parent |-> Conf.parent,
           child |-> Conf.child]

Idle == [table |-> "none"]

InitDatabases ==
  /\ tenants = [t \in Tenant |-> 0]
  /\ rows = [t \in Table |-> <<>>]
  /\ cas = {} /\ clients = <<>> /\ published = {}
  /\ call = Idle /\ troubles = 0

Has(table, k) == k \in DOMAIN rows[table]
Put(f, k, v) == [x \in DOMAIN f \cup {k} |-> IF x = k THEN v ELSE f[x]]
Less(f, S) == Restrict(f, DOMAIN f \ S)

-----------------------------------------------------------------------------
(* PDUs.  Within a message those of a lower rank come first.               *)

Pdu(verb, table, k, conf) == [verb |-> verb, table |-> table, key |-> k, conf |-> conf]

\* Mutant: tables in alphabetical order.
Rank_Alphabetical(p) ==
  LET order == <<"bsc", "child", "parent", "repository", "tenant">>
      place == CHOOSE i \in 1..5 : order[i] = p.table
  IN 2 * place + (IF p.verb = "destroy" THEN 1 ELSE 0)

Rank(p) ==
  LET order == <<"tenant", "bsc", "repository", "parent", "child">>
      place == CHOOSE i \in 1..5 : order[i] = p.table
  IN 2 * place + (IF p.verb = "destroy" THEN 1 ELSE 0)

NextPdus(msg) == {p \in msg : \A q \in msg : Rank(p) <= Rank(q)}

\* What obj.save() and the .get() of a foreign key need.
References(p) ==
  /\ p.table \in {"repository", "parent", "child"} => Has("bsc", <<Owner(p.key)>>)
  /\ p.table = "parent" => Has("repository", p.key)

\* xml_get_or_create, decode and save, or xml_get_for_delete, raise nothing.
\* Handles are unique within a tenant; nothing makes a tenant's unique.
Accepts(p) ==
  IF p.table = "tenant" THEN p.verb = "create" \/ tenants[Owner(p.key)] = 1
  ELSE CASE p.verb = "create" ->
              tenants[Owner(p.key)] = 1 /\ ~Has(p.table, p.key) /\ References(p)
         [] p.verb = "set" -> Has(p.table, p.key) /\ References(p)
         [] OTHER -> Has(p.table, p.key)

\* decode: an attribute the PDU does not have keeps its value.
Decode(p) ==
  IF p.table = "repository" /\ p.conf = "plain" /\ Has(p.table, p.key)
  THEN rows[p.table][p.key] ELSE p.conf

Save(p) ==
  /\ p.verb \in {"create", "set"}
  /\ IF p.table = "tenant"
     THEN /\ tenants' = [tenants EXCEPT ![Owner(p.key)] =
                           IF p.verb = "create" THEN @ + 1 ELSE @]
          /\ UNCHANGED rows
     ELSE /\ rows' = [rows EXCEPT ![p.table] = Put(@, p.key, Decode(p))]
          /\ UNCHANGED tenants
  /\ UNCHANGED <<cas, pubd, call, troubles>>

\* Mutant: a repository's parents stay.
Cascade_NoParents(table, k) ==
  IF table = "tenant"
  THEN {r \in Table \X (UNION {DOMAIN rows[u] : u \in Table}) :
          Has(r[1], r[2]) /\ Owner(r[2]) = Owner(k)}
  ELSE {<<table, k>>}

\* The rows that Django deletes with row k of a table: those that refer to it.
Cascade(table, k) ==
  CASE table = "tenant" ->
         {r \in Table \X (UNION {DOMAIN rows[u] : u \in Table}) :
            Has(r[1], r[2]) /\ Owner(r[2]) = Owner(k)}
    [] table = "repository" ->
         {<<"repository", k>>} \cup (IF Has("parent", k) THEN {<<"parent", k>>} ELSE {})
    [] OTHER -> {<<table, k>>}

Remove(R) ==
  /\ rows' = [t \in Table |-> Less(rows[t], {k \in DOMAIN rows[t] : <<t, k>> \in R})]
  /\ cas' = cas \ {k \in Link : <<"parent", k>> \in R}
  /\ call' = IF call = Idle THEN Idle
             ELSE [call EXCEPT
                     !.gone = @ \/ <<call.table, call.key>> \in R,
                     !.orphan = \/ @
                                \/ <<"bsc", <<Owner(call.key)>>>> \in R
                                \/ call.table = "parent" /\ <<"repository", call.key>> \in R]

-----------------------------------------------------------------------------
(* Destroying: the hook that talks to the parents and to pubd, and then    *)
(* the row.                                                                *)

Trouble == troubles < MaxTroubles /\ troubles' = troubles + 1

\* CA.destroy withdraws what the CA published; when pubd does not answer the
\* CA is skipped, and then goes with the parent's row.
WithdrawAll(ks) ==
  \/ published' = published \ ks /\ UNCHANGED troubles
  \/ /\ Trouble
     /\ \E missed \in SUBSET (ks \cap published) :
          missed /= {} /\ published' = published \ (ks \ missed)

ParentsOf(t) == {k \in DOMAIN rows["parent"] : Owner(k) = t}

DestroyParent(p) ==
  /\ p.table = "parent"
  /\ WithdrawAll({p.key} \cap cas)
  /\ Remove(Cascade("parent", p.key))
  /\ UNCHANGED <<tenants, clients>>

DestroyTenant(p) ==
  /\ p.table = "tenant"
  /\ WithdrawAll(ParentsOf(Owner(p.key)) \cap cas)
  /\ Remove(Cascade("tenant", p.key))
  /\ tenants' = [tenants EXCEPT ![Owner(p.key)] = 0]
  /\ UNCHANGED clients

\* A repository has no hook, a child's only publishes revocations.
DestroyOther(p) ==
  /\ p.table \in {"repository", "child"}
  /\ Remove(Cascade(p.table, p.key))
  /\ UNCHANGED <<tenants, pubd, troubles>>

Destroy(p) ==
  p.verb = "destroy" /\ (DestroyParent(p) \/ DestroyTenant(p) \/ DestroyOther(p))

\* The hook raises: a parent cannot be reached for serve_revoke_forgotten, or
\* pubd for a child's revocations.  Other parents of the tenant may be gone.
HookFails(p) ==
  /\ p.verb = "destroy" /\ p.table /= "repository"
  /\ Trouble
  /\ \E ks \in SUBSET (IF p.table = "tenant" THEN ParentsOf(Owner(p.key)) ELSE {}) :
       /\ published' = published \ (ks \cap cas)
       /\ Remove({<<"parent", k>> : k \in ks})
  /\ UNCHANGED <<tenants, clients>>

-----------------------------------------------------------------------------
(* pubd's control_handler: all of the message or nothing.  Deleting a      *)
(* client deletes its objects.                                             *)

ControlAccepts(msg) ==
  \A p \in msg : CASE p.verb = "create" -> p.key \notin DOMAIN clients
                   [] p.verb = "set" -> p.key \in DOMAIN clients
                   [] OTHER -> TRUE

Control(msg) ==
  LET saved == {p \in msg : p.verb /= "destroy"}
      dead == {p.key : p \in msg \ saved}
      keys == {p.key : p \in saved}
      conf(k) == (CHOOSE p \in saved : p.key = k).conf
      kept == [k \in DOMAIN clients \cup keys |-> IF k \in keys THEN conf(k) ELSE clients[k]]
  IN /\ clients' = Less(kept, dead)
     /\ published' = published \ dead
     /\ UNCHANGED <<rpkid, call, troubles>>

-----------------------------------------------------------------------------
(* rpkid's own work.                                                       *)

\* Poll: the parent offers a class, and the new CA publishes its first CRL
\* and manifest.
CertifyCA(k) ==
  /\ Has("parent", k) /\ k \notin cas /\ k \in DOMAIN clients
  /\ cas' = cas \cup {k} /\ published' = published \cup {k}
  /\ UNCHANGED <<tenants, rows, clients, call, troubles>>

\* <tenant publish_world_now="yes"/>: pubd is made to hold exactly what the
\* tenant's CAs say, through each repository that rpkid still knows.
PublishWorld(t) ==
  LET mine == {k \in DOMAIN rows["repository"] : Owner(k) = t}
  IN /\ tenants[t] = 1 /\ mine \subseteq DOMAIN clients
     /\ published' = (published \ mine) \cup (mine \cap cas)
     /\ UNCHANGED <<rpkid, clients, call, troubles>>

\* Repository.call_pubd and Parent.query_up_down load the row and wait.
CallBegins(table, k) ==
  /\ call = Idle /\ Trouble
  /\ table \in {"repository", "parent"} /\ Has(table, k)
  /\ call' = [table |-> table, key |-> k, row |-> rows[table][k], gone |-> FALSE, orphan |-> FALSE]
  /\ UNCHANGED <<rpkid, pubd>>

\* check_replay_sql saves every field of the row it had loaded.  Saving a row
\* that is gone inserts it again, unless the database finds that what it
\* refers to is gone as well or that the handle is taken.
CallEnds ==
  /\ call /= Idle
  /\ rows' = IF call.gone => ~call.orphan /\ ~Has(call.table, call.key)
             THEN [rows EXCEPT ![call.table] = Put(@, call.key, call.row)]
             ELSE rows
  /\ call' = Idle
  /\ UNCHANGED <<tenants, cas, pubd, troubles>>

CallFails == call /= Idle /\ call' = Idle /\ UNCHANGED <<rpkid, pubd, troubles>>

OwnWork ==
  \/ \E k \in Link : CertifyCA(k)
  \/ \E t \in Tenant : PublishWorld(t)
  \/ \E table \in {"repository", "parent"}, k \in Link : CallBegins(table, k)
  \/ CallEnds
  \/ CallFails

-----------------------------------------------------------------------------

PartialTo(f, keys, values) ==
  DOMAIN f \subseteq keys /\ \A k \in DOMAIN f : f[k] \in values

DatabasesTypeOK ==
  /\ tenants \in [Tenant -> 0..Cardinality(Command)]
  /\ DOMAIN rows = Table
  /\ \A t \in Table : PartialTo(rows[t], Keys[t], Values[t])
  /\ cas \subseteq Link /\ published \subseteq Link
  /\ PartialTo(clients, Link, Conf.client)
  /\ troubles \in 0..MaxTroubles

\* rpkid's foreign keys, and what a call knows of the row it has loaded.
ForeignKeys ==
  /\ \A k \in DOMAIN rows["repository"] \cup DOMAIN rows["parent"] : Has("bsc", <<Owner(k)>>)
  /\ DOMAIN rows["parent"] \subseteq DOMAIN rows["repository"]
  /\ cas \subseteq DOMAIN rows["parent"]
  /\ published \subseteq DOMAIN clients

Call == [table : {"repository", "parent"}, key : Link, row : Conf.repository \cup Conf.parent,
         gone : BOOLEAN, orphan : BOOLEAN]

CallInv ==
  call /= Idle =>
    /\ call \in Call /\ call.row \in Values[call.table]
    /\ call.gone \/ Has(call.table, call.key)
    /\ call.orphan \/ /\ Has("bsc", <<Owner(call.key)>>)
                      /\ call.table = "parent" => Has("repository", call.key)

=============================================================================
