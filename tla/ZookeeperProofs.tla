-------------------------- MODULE ZookeeperProofs --------------------------
(***************************************************************************)
(* Proofs about Zookeeper and LeftRight, for every set of tenants, links,  *)
(* children and commands: that the foreign keys of rpkid's and pubd's      *)
(* databases are kept, that a CA loses its keys only by a command that saw *)
(* its parent or its repository deleted, and that a synchronisation which  *)
(* nobody disturbs and which ends well has configured what the IRDB says.  *)
(***************************************************************************)
EXTENDS Zookeeper, FiniteSetTheorems, TLAPS

-----------------------------------------------------------------------------
(***************************************************************************)
(* Tables.                                                                 *)
(***************************************************************************)

LEMMA PutFacts ==
    \A f, k, v :
        /\ DOMAIN Put(f, k, v) = DOMAIN f \cup {k}
        /\ Put(f, k, v)[k] = v
        /\ \A x \in DOMAIN f : x /= k => Put(f, k, v)[x] = f[x]
        /\ \A x \in DOMAIN Put(f, k, v) : x = k \/ x \in DOMAIN f
BY DEF Put

LEMMA LessFacts ==
    \A f, S :
        /\ DOMAIN Less(f, S) = DOMAIN f \ S
        /\ \A x \in DOMAIN f \ S : Less(f, S)[x] = f[x]
BY DEF Less, Restrict

LEMMA PartialDef ==
    ASSUME NEW K, NEW V, NEW f
    PROVE  /\ f \in Partial(K, V) => PartialTo(f, K, V)
           /\ f \in Partial(K, V) => f = [x \in DOMAIN f |-> f[x]]
           /\ f = [x \in DOMAIN f |-> f[x]] /\ PartialTo(f, K, V) => f \in Partial(K, V)
BY DEF Partial, PartialTo

LEMMA PartialPut ==
    ASSUME NEW K, NEW V, NEW f \in Partial(K, V), NEW k \in K, NEW v \in V
    PROVE  Put(f, k, v) \in Partial(K, V)
<1> DEFINE g == Put(f, k, v)
<1>1. DOMAIN f \subseteq K /\ \A x \in DOMAIN f : f[x] \in V
  BY PartialDef DEF PartialTo
<1>2. g = [x \in DOMAIN g |-> g[x]]
  BY DEF Put
<1>3. DOMAIN g = DOMAIN f \cup {k} /\ g[k] = v /\ \A x \in DOMAIN f : x /= k => g[x] = f[x]
  BY DEF Put
<1> HIDE DEF g
<1>4. PartialTo(g, K, V)
  BY <1>1, <1>3 DEF PartialTo
<1>5. g \in Partial(K, V)
  BY <1>2, <1>4, PartialDef
<1> QED BY <1>5 DEF g

LEMMA PartialLess ==
    ASSUME NEW K, NEW V, NEW f \in Partial(K, V), NEW S
    PROVE  Less(f, S) \in Partial(K, V)
<1> DEFINE g == Less(f, S)
<1>1. DOMAIN f \subseteq K /\ \A x \in DOMAIN f : f[x] \in V
  BY PartialDef DEF PartialTo
<1>2. g = [x \in DOMAIN g |-> g[x]]
  BY DEF Less, Restrict
<1>3. DOMAIN g = DOMAIN f \ S /\ \A x \in DOMAIN f \ S : g[x] = f[x]
  BY LessFacts
<1> HIDE DEF g
<1>4. PartialTo(g, K, V)
  BY <1>1, <1>3 DEF PartialTo
<1>5. g \in Partial(K, V)
  BY <1>2, <1>4, PartialDef
<1> QED BY <1>5 DEF g

LEMMA OwnerFacts ==
    /\ \A k \in Link \cup Child : Owner(k) \in Tenant
    /\ \A t : Owner(<<t>>) = t
    /\ \A k \in Keys.bsc : Owner(k) \in Tenant /\ k = <<Owner(k)>>
<1>1. \A t : Owner(<<t>>) = t
  BY DEF Owner
<1>2. \A k \in Link \cup Child : Owner(k) \in Tenant
  BY KeyAssumption DEF Owner
<1> QED BY <1>1, <1>2 DEF Keys

LEMMA Tables ==
    /\ Keys["bsc"] = Keys.bsc /\ Keys["repository"] = Link
    /\ Keys["parent"] = Link /\ Keys["child"] = Child
    /\ Values["bsc"] = {"new", "signed"} /\ Values["repository"] = Conf.repository
    /\ Values["parent"] = Conf.parent /\ Values["child"] = Conf.child
BY DEF Keys, Values

-----------------------------------------------------------------------------
(***************************************************************************)
(* The databases.                                                          *)
(***************************************************************************)

LEMMA NextPdusIn == ASSUME NEW msg PROVE NextPdus(msg) \subseteq msg
BY DEF NextPdus

\* What a cascade deletes leaves no row without what it refers to.
Closed(R) ==
  /\ \A t : <<"bsc", <<t>>>> \in R =>
       \A k \in DOMAIN rows["repository"] \cup DOMAIN rows["parent"] : Owner(k) = t =>
         /\ k \in DOMAIN rows["repository"] => <<"repository", k>> \in R
         /\ k \in DOMAIN rows["parent"] => <<"parent", k>> \in R
  /\ \A k \in DOMAIN rows["parent"] : <<"repository", k>> \in R => <<"parent", k>> \in R

LEMMA CascadeClosed ==
    ASSUME NEW table, NEW k, ForeignKeys
    PROVE  Closed(Cascade(table, k)) \/ table = "bsc"
<1>1. CASE table = "tenant"
  <2>1. \A u \in Table : \A x \in DOMAIN rows[u] :
            Owner(x) = Owner(k) => <<u, x>> \in Cascade(table, k)
    BY <1>1 DEF Cascade, Has
  <2>2. ASSUME NEW t, <<"bsc", <<t>>>> \in Cascade(table, k) PROVE t = Owner(k)
    BY <1>1, <2>2, OwnerFacts DEF Cascade
  <2>3. ASSUME NEW x, <<"repository", x>> \in Cascade(table, k) PROVE Owner(x) = Owner(k)
    BY <1>1, <2>3 DEF Cascade
  <2> QED BY <2>1, <2>2, <2>3 DEF Closed, Table
<1>2. CASE table = "repository"
  BY <1>2 DEF Cascade, Closed, Has
<1>3. CASE table \notin {"tenant", "repository", "bsc"}
  BY <1>3 DEF Cascade, Closed
<1> QED BY <1>1, <1>2, <1>3

\* Removing a closed set of rows keeps the types, the foreign keys, and what a
\* call knows.
LEMMA RemoveKeeps ==
    ASSUME DatabasesTypeOK, ForeignKeys, CallInv, NEW R, Closed(R), Remove(R),
           clients' = clients, published' \subseteq published,
           tenants' \in [Tenant -> 0 .. Cardinality(Command)],
           troubles' \in 0 .. MaxTroubles
    PROVE  DatabasesTypeOK' /\ ForeignKeys' /\ CallInv'
<1>1. DOMAIN rows' = Table /\ DOMAIN rows = Table
  BY DEF Remove, DatabasesTypeOK
<1>2. ASSUME NEW t \in Table
      PROVE  /\ DOMAIN rows'[t] = {k \in DOMAIN rows[t] : <<t, k>> \notin R}
             /\ \A k \in DOMAIN rows'[t] : rows'[t][k] = rows[t][k]
  <2> DEFINE S == {k \in DOMAIN rows[t] : <<t, k>> \in R}
  <2>1. rows'[t] = Less(rows[t], S)
    BY DEF Remove
  <2> HIDE DEF S
  <2>2. DOMAIN rows'[t] = DOMAIN rows[t] \ S /\ \A k \in DOMAIN rows'[t] : rows'[t][k] = rows[t][k]
    BY <2>1, SMT DEF Less, Restrict
  <2> QED BY <2>2 DEF S
<1>3. cas' = cas \ {k \in Link : <<"parent", k>> \in R}
  BY DEF Remove
<1>4. DatabasesTypeOK'
  BY <1>1, <1>2, <1>3 DEF DatabasesTypeOK, PartialTo
<1>5. ForeignKeys'
  <2>1. \A k \in DOMAIN rows'["repository"] \cup DOMAIN rows'["parent"] : Has("bsc", <<Owner(k)>>)'
    BY <1>2 DEF ForeignKeys, Closed, Has, Table
  <2>2. DOMAIN rows'["parent"] \subseteq DOMAIN rows'["repository"]
    BY <1>2 DEF ForeignKeys, Closed, Table
  <2>3. cas' \subseteq DOMAIN rows'["parent"]
    BY <1>2, <1>3 DEF ForeignKeys, DatabasesTypeOK, Table
  <2> QED BY <2>1, <2>2, <2>3 DEF ForeignKeys
<1>6. CallInv'
  <2> SUFFICES ASSUME call' /= Idle PROVE CallInv'
    BY DEF CallInv
  <2>1. call /= Idle /\ call \in Call
    BY DEF Remove, CallInv
  <2>2. call' = [call EXCEPT
                     !.gone = @ \/ <<call.table, call.key>> \in R,
                     !.orphan = \/ @
                                \/ <<"bsc", <<Owner(call.key)>>>> \in R
                                \/ call.table = "parent" /\ <<"repository", call.key>> \in R]
    BY <2>1 DEF Remove
  <2>3. /\ call' \in Call /\ call'.table = call.table /\ call'.key = call.key
        /\ call'.row = call.row
        /\ call'.gone = (call.gone \/ <<call.table, call.key>> \in R)
        /\ call'.orphan = (\/ call.orphan
                           \/ <<"bsc", <<Owner(call.key)>>>> \in R
                           \/ call.table = "parent" /\ <<"repository", call.key>> \in R)
    BY <2>1, <2>2 DEF Call
  <2>4. call.table \in Table /\ "bsc" \in Table /\ "repository" \in Table
    BY <2>1 DEF Call, Table
  <2> QED BY <1>2, <2>1, <2>3, <2>4 DEF CallInv, Has
<1> QED BY <1>4, <1>5, <1>6

\* A PDU that is saved.
LEMMA SaveKeeps ==
    ASSUME DatabasesTypeOK, ForeignKeys, CallInv, NEW p, NEW view, PduOK(p, view),
           Accepts(p), Save(p),
           p.table = "tenant" /\ p.verb = "create" => tenants[Owner(p.key)] < Cardinality(Command)
    PROVE  DatabasesTypeOK' /\ ForeignKeys' /\ CallInv'
<1>1. UNCHANGED <<cas, clients, published, call, troubles>>
  BY DEF Save, pubd
<1>2. CASE p.table = "tenant"
  <2>1. UNCHANGED rows /\ tenants' = [tenants EXCEPT ![Owner(p.key)] =
                                        IF p.verb = "create" THEN @ + 1 ELSE @]
    BY <1>2 DEF Save
  <2>2. Owner(p.key) \in Tenant
    BY <1>2, OwnerFacts DEF PduOK, Table
  <2>3. Cardinality(Command) \in Nat
    BY CommandAssumption, FS_CardinalityType
  <2>4. tenants' \in [Tenant -> 0 .. Cardinality(Command)]
    BY <1>2, <2>1, <2>2, <2>3 DEF DatabasesTypeOK
  <2> QED BY <1>1, <2>1, <2>4 DEF DatabasesTypeOK, ForeignKeys, CallInv, Has
<1>3. CASE p.table /= "tenant"
  <2>1. /\ UNCHANGED tenants /\ rows' = [rows EXCEPT ![p.table] = Put(@, p.key, Decode(p))]
        /\ p.verb \in {"create", "set"}
    BY <1>3 DEF Save
  <2>2. p.table \in Table /\ p.key \in Keys[p.table] /\ p.conf \in Values[p.table]
    BY <1>3, <2>1 DEF PduOK
  <2>3. Decode(p) \in Values[p.table]
    BY <2>2 DEF Decode, Has, DatabasesTypeOK, PartialTo
  <2>4. References(p)
    BY <1>3, <2>1 DEF Accepts
  <2>5. DOMAIN rows' = Table /\ DOMAIN rows = Table
    BY <2>1 DEF DatabasesTypeOK
  <2>6. ASSUME NEW t \in Table
        PROVE  /\ t /= p.table => rows'[t] = rows[t]
               /\ t = p.table => rows'[t] = Put(rows[t], p.key, Decode(p))
    BY <2>1, <2>5
  <2>7. /\ DOMAIN rows'[p.table] = DOMAIN rows[p.table] \cup {p.key}
        /\ \A k \in DOMAIN rows'[p.table] :
               \/ k = p.key /\ rows'[p.table][k] = Decode(p)
               \/ k \in DOMAIN rows[p.table] /\ rows'[p.table][k] = rows[p.table][k]
    <3>1. rows'[p.table] = Put(rows[p.table], p.key, Decode(p))
      BY <2>2, <2>6
    <3> QED BY <3>1, SMT DEF Put
  <2>8. DatabasesTypeOK'
    <3>1. ASSUME NEW t \in Table PROVE PartialTo(rows'[t], Keys[t], Values[t])
      <4>1. CASE t = p.table
        BY <4>1, <2>2, <2>3, <2>7 DEF DatabasesTypeOK, PartialTo
      <4>2. CASE t /= p.table
        BY <4>2, <2>6 DEF DatabasesTypeOK
      <4> QED BY <4>1, <4>2
    <3> QED BY <1>1, <2>1, <2>5, <3>1 DEF DatabasesTypeOK
  <2>9. \A t \in Table : DOMAIN rows[t] \subseteq DOMAIN rows'[t]
    BY <2>6, <2>7
  <2>10. \A t \in Table : \A k \in DOMAIN rows'[t] : k \in DOMAIN rows[t] \/ (t = p.table /\ k = p.key)
    BY <2>6, <2>7
  <2>11. ForeignKeys'
    BY <1>1, <2>4, <2>9, <2>10 DEF ForeignKeys, References, Has, Table
  <2>12. CallInv'
    BY <1>1, <2>9 DEF CallInv, Call, Has, Table
  <2> QED BY <2>8, <2>11, <2>12
<1> QED BY <1>2, <1>3

LEMMA TroublesType ==
    ASSUME DatabasesTypeOK, Trouble \/ UNCHANGED troubles
    PROVE  troubles' \in 0 .. MaxTroubles
BY BoundAssumption DEF DatabasesTypeOK, Trouble

\* A PDU that destroys, and one whose hook fails.
LEMMA DestroyKeeps ==
    ASSUME DatabasesTypeOK, ForeignKeys, CallInv, NEW p, NEW view, PduOK(p, view),
           Destroy(p) \/ HookFails(p)
    PROVE  DatabasesTypeOK' /\ ForeignKeys' /\ CallInv'
<1> USE DEF WithdrawAll
<1>1. Cardinality(Command) \in Nat
  BY CommandAssumption, FS_CardinalityType
<1>2. CASE DestroyParent(p) /\ p.verb = "destroy"
  <2>1. Closed(Cascade("parent", p.key))
    BY CascadeClosed
  <2>2. troubles' \in 0 .. MaxTroubles
    BY <1>2, TroublesType DEF DestroyParent
  <2> QED BY <1>2, <2>1, <2>2, RemoveKeeps DEF DestroyParent, DatabasesTypeOK
<1>3. CASE DestroyTenant(p) /\ p.verb = "destroy"
  <2>1. Closed(Cascade("tenant", p.key))
    BY CascadeClosed
  <2>2. troubles' \in 0 .. MaxTroubles
    BY <1>3, TroublesType DEF DestroyTenant
  <2>3. tenants' \in [Tenant -> 0 .. Cardinality(Command)]
    <3>1. tenants' = [tenants EXCEPT ![Owner(p.key)] = 0]
      BY <1>3 DEF DestroyTenant
    <3>2. 0 \in 0 .. Cardinality(Command)
      BY <1>1
    <3>3. tenants \in [Tenant -> 0 .. Cardinality(Command)]
      BY DEF DatabasesTypeOK
    <3> QED BY <3>1, <3>2, <3>3
  <2> QED BY <1>3, <2>1, <2>2, <2>3, RemoveKeeps DEF DestroyTenant
<1>4. CASE DestroyOther(p) /\ p.verb = "destroy"
  <2>1. Closed(Cascade(p.table, p.key))
    BY <1>4, CascadeClosed DEF DestroyOther
  <2>2. troubles' \in 0 .. MaxTroubles
    BY <1>4, TroublesType DEF DestroyOther
  <2> QED BY <1>4, <2>1, <2>2, RemoveKeeps DEF DestroyOther, DatabasesTypeOK, pubd
<1>5. CASE HookFails(p)
  <2>1. PICK ks : /\ published' = published \ (ks \cap cas)
                  /\ Remove({<<"parent", k>> : k \in ks})
    BY <1>5 DEF HookFails
  <2>2. Closed({<<"parent", k>> : k \in ks})
    BY DEF Closed
  <2>3. troubles' \in 0 .. MaxTroubles
    BY <1>5, TroublesType DEF HookFails
  <2> QED BY <1>5, <2>1, <2>2, <2>3, RemoveKeeps DEF HookFails, DatabasesTypeOK
<1> QED BY <1>2, <1>3, <1>4, <1>5 DEF Destroy

\* pubd's control message.
LEMMA ControlKeeps ==
    ASSUME DatabasesTypeOK, ForeignKeys, CallInv, NEW msg, Control(msg),
           \A p \in msg : ControlPduOK(p)
    PROVE  DatabasesTypeOK' /\ ForeignKeys' /\ CallInv'
<1> DEFINE saved == {p \in msg : p.verb /= "destroy"}
           dead == {p.key : p \in msg \ saved}
           keys == {p.key : p \in saved}
           conf(k) == (CHOOSE p \in saved : p.key = k).conf
           kept == [k \in DOMAIN clients \cup keys |-> IF k \in keys THEN conf(k) ELSE clients[k]]
<1>1. /\ clients' = Less(kept, dead)
      /\ published' = published \ dead
      /\ UNCHANGED <<tenants, rows, cas, call, troubles>>
  BY DEF Control, rpkid
<1>2. \A k \in keys : k \in Link /\ conf(k) \in Conf.client
  <2> TAKE k \in keys
  <2>1. \E p \in saved : p.key = k
    OBVIOUS
  <2>2. (CHOOSE p \in saved : p.key = k) \in saved
    BY <2>1
  <2> QED BY <2>1, <2>2 DEF ControlPduOK
<1> HIDE DEF saved, dead, conf
<1>3. DOMAIN kept = DOMAIN clients \cup keys
      /\ \A k \in DOMAIN kept : kept[k] = IF k \in keys THEN conf(k) ELSE clients[k]
  OBVIOUS
<1>4. PartialTo(kept, Link, Conf.client)
  BY <1>2, <1>3 DEF DatabasesTypeOK, PartialTo
<1> HIDE DEF kept, keys
<1>5. DOMAIN clients' = DOMAIN kept \ dead /\ \A k \in DOMAIN clients' : clients'[k] = kept[k]
  BY <1>1, SMT DEF Less, Restrict
<1>6. PartialTo(clients', Link, Conf.client)
  BY <1>4, <1>5 DEF PartialTo
<1>7. published' \subseteq DOMAIN clients'
  BY <1>1, <1>3, <1>5 DEF ForeignKeys
<1>8. DatabasesTypeOK'
  BY <1>1, <1>6 DEF DatabasesTypeOK
<1>9. ForeignKeys'
  BY <1>1, <1>7 DEF ForeignKeys, Has
<1>10. CallInv'
  BY <1>1 DEF CallInv, Has
<1> QED BY <1>8, <1>9, <1>10

\* rpkid's own work.
LEMMA OwnWorkKeeps ==
    ASSUME DatabasesTypeOK, ForeignKeys, CallInv, OwnWork
    PROVE  DatabasesTypeOK' /\ ForeignKeys' /\ CallInv'
<1>1. ASSUME NEW k \in Link, CertifyCA(k)
      PROVE  DatabasesTypeOK' /\ ForeignKeys' /\ CallInv'
  BY <1>1 DEF CertifyCA, DatabasesTypeOK, ForeignKeys, CallInv, Has
<1>2. ASSUME NEW t \in Tenant, PublishWorld(t)
      PROVE  DatabasesTypeOK' /\ ForeignKeys' /\ CallInv'
  <2>1. published' \subseteq published \cup {k \in DOMAIN rows["repository"] : Owner(k) = t}
    BY <1>2 DEF PublishWorld
  <2>2. published' \subseteq DOMAIN clients /\ published' \subseteq Link
    BY <1>2, <2>1 DEF PublishWorld, ForeignKeys, DatabasesTypeOK, PartialTo
  <2> QED BY <1>2, <2>2 DEF PublishWorld, rpkid, DatabasesTypeOK, ForeignKeys, CallInv, Has
<1>3. ASSUME NEW table \in {"repository", "parent"}, NEW k \in Link, CallBegins(table, k)
      PROVE  DatabasesTypeOK' /\ ForeignKeys' /\ CallInv'
  <2>1. /\ call' = [table |-> table, key |-> k, row |-> rows[table][k],
                    gone |-> FALSE, orphan |-> FALSE]
        /\ UNCHANGED <<tenants, rows, cas, clients, published>> /\ Has(table, k)
    BY <1>3 DEF CallBegins, rpkid, pubd
  <2>2. rows[table][k] \in Values[table] /\ table \in Table
    BY <2>1 DEF DatabasesTypeOK, PartialTo, Has, Table
  <2>3. troubles' \in 0 .. MaxTroubles
    BY <1>3, TroublesType DEF CallBegins
  <2>4. rows[table][k] \in Conf.repository \cup Conf.parent
    BY <2>2, Tables
  <2>5. call' \in Call
    BY <2>1, <2>4 DEF Call
  <2>6. CallInv'
    BY <2>1, <2>2, <2>5 DEF CallInv, ForeignKeys, Has
  <2> QED BY <2>1, <2>3, <2>6 DEF DatabasesTypeOK, ForeignKeys, Has
<1>4. CASE CallEnds
  <2>1. call /= Idle /\ call' = Idle /\ UNCHANGED <<tenants, cas, clients, published, troubles>>
    BY <1>4 DEF CallEnds, pubd
  <2>2. /\ call \in Call /\ call.row \in Values[call.table]
        /\ call.gone \/ Has(call.table, call.key)
        /\ call.orphan \/ /\ Has("bsc", <<Owner(call.key)>>)
                          /\ call.table = "parent" => Has("repository", call.key)
    BY <2>1 DEF CallInv
  <2>3. call.table \in {"repository", "parent"} /\ call.key \in Link /\ call.table \in Table
    BY <2>2 DEF Call, Table
  <2>4. CASE rows' = rows
    BY <2>1, <2>4 DEF DatabasesTypeOK, ForeignKeys, CallInv, Has
  <2>5. CASE /\ rows' = [rows EXCEPT ![call.table] = Put(@, call.key, call.row)]
             /\ call.gone => ~call.orphan /\ ~Has(call.table, call.key)
    <3>1. DOMAIN rows = Table /\ DOMAIN rows' = Table
      BY <2>5 DEF DatabasesTypeOK
    <3>2. /\ DOMAIN rows'[call.table] = DOMAIN rows[call.table] \cup {call.key}
          /\ \A k \in DOMAIN rows'[call.table] :
                 \/ k = call.key /\ rows'[call.table][k] = call.row
                 \/ k \in DOMAIN rows[call.table]
                    /\ rows'[call.table][k] = rows[call.table][k]
      <4>1. rows'[call.table] = Put(rows[call.table], call.key, call.row)
        BY <2>3, <2>5, <3>1
      <4> QED BY <4>1, SMT DEF Put
    <3>3. \A t \in Table : t /= call.table => rows'[t] = rows[t]
      BY <2>5, <3>1
    <3>4. Keys[call.table] = Link
      BY <2>3, Tables
    <3>5. \A t \in Table : PartialTo(rows'[t], Keys[t], Values[t])
      BY <2>2, <2>3, <3>2, <3>3, <3>4 DEF DatabasesTypeOK, PartialTo
    <3>6. \A t \in Table : DOMAIN rows[t] \subseteq DOMAIN rows'[t]
      BY <3>2, <3>3
    <3>7. \A t \in Table : \A k \in DOMAIN rows'[t] :
              k \in DOMAIN rows[t] \/ (t = call.table /\ k = call.key)
      BY <3>2, <3>3
    <3>8. ASSUME ~Has(call.table, call.key)
          PROVE  /\ Has("bsc", <<Owner(call.key)>>)
                 /\ call.table = "parent" => Has("repository", call.key)
      BY <3>8, <2>2, <2>5
    <3>9. ForeignKeys'
      <4>1. CASE Has(call.table, call.key)
        BY <4>1, <2>1, <2>3, <3>6, <3>7 DEF ForeignKeys, Has, Table
      <4>2. CASE ~Has(call.table, call.key)
        BY <4>2, <2>1, <2>3, <3>6, <3>7, <3>8 DEF ForeignKeys, Has, Table
      <4> QED BY <4>1, <4>2
    <3> QED BY <2>1, <3>1, <3>5, <3>9 DEF DatabasesTypeOK, CallInv
  <2> QED BY <1>4, <2>4, <2>5 DEF CallEnds
<1>5. CASE CallFails
  BY <1>5 DEF CallFails, rpkid, pubd, DatabasesTypeOK, ForeignKeys, CallInv, Has
<1> QED BY <1>1, <1>2, <1>3, <1>4, <1>5 DEF OwnWork

-----------------------------------------------------------------------------
(***************************************************************************)
(* Messages: what is sent can be served, and destroys only what the view   *)
(* of the IRDB does not have.                                              *)
(***************************************************************************)

LEMMA IrdbFacts ==
    ASSUME NEW view, IrdbOK(view)
    PROVE  /\ view.holder \subseteq Tenant
           /\ PartialTo(view.parent, Link, Conf.parent)
           /\ PartialTo(view.repository, Link, Conf.repository)
           /\ PartialTo(view.child, Child, Conf.child)
           /\ PartialTo(view.client, Link, Conf.client)
           /\ DOMAIN view.repository \subseteq DOMAIN view.parent
           /\ \A k \in DOMAIN view.parent : Owner(k) \in view.holder
<1>1. /\ view.holder \subseteq Tenant
      /\ view.parent \in Partial(Link, Conf.parent)
      /\ view.repository \in Partial(Link, Conf.repository)
      /\ view.child \in Partial(Child, Conf.child)
      /\ view.client \in Partial(Link, Conf.client)
  BY DEF IrdbOK, Irdb
<1> QED BY <1>1, PartialDef DEF IrdbOK

LEMMA WantedFacts ==
    ASSUME NEW view, IrdbOK(view), NEW t, NEW table \in {"repository", "parent", "child"}
    PROVE  PartialTo(Wanted(table, view, t), Keys[table], Values[table])
<1>1. CASE table = "repository"
  BY <1>1, IrdbFacts, Tables DEF Wanted, Restrict, PartialTo
<1>2. CASE table = "parent"
  BY <1>2, IrdbFacts, Tables DEF Wanted, Restrict, PartialTo
<1>3. CASE table = "child"
  BY <1>3, IrdbFacts, Tables DEF Wanted, Restrict, PartialTo
<1> QED BY <1>1, <1>2, <1>3

LEMMA MessageType ==
    \A verb \in {"create", "set", "destroy"}, table \in Table \cup {"tenant", "client"},
       k \in Keys.bsc \cup Link \cup Child,
       conf \in {"none", "new", "signed"} \cup UNION {Conf[u] : u \in DOMAIN Conf} :
         Pdu(verb, table, k, conf) \in Message
BY DEF Pdu, Message

LEMMA ConfTypes ==
    /\ Conf.parent \subseteq UNION {Conf[u] : u \in DOMAIN Conf}
    /\ Conf.repository \subseteq UNION {Conf[u] : u \in DOMAIN Conf}
    /\ Conf.child \subseteq UNION {Conf[u] : u \in DOMAIN Conf}
    /\ Conf.client \subseteq UNION {Conf[u] : u \in DOMAIN Conf}
BY KeyAssumption

LEMMA MainMessageOK ==
    ASSUME DatabasesTypeOK, NEW view, IrdbOK(view), NEW t
    PROVE  \A p \in MainMessage(view, t) :
             p \in Message /\ PduOK(p, view) /\ p.table /= "tenant"
<1> SUFFICES ASSUME NEW p \in MainMessage(view, t)
             PROVE  p \in Message /\ PduOK(p, view) /\ p.table /= "tenant"
  OBVIOUS
<1>1. PICK table \in {"repository", "parent", "child"} :
        LET have == Restrict(rows[table], {k \in DOMAIN rows[table] : Owner(k) = t})
            want == Wanted(table, view, t)
        IN p \in Creates(table, want, have) \cup Sets(table, want, have)
                   \cup Destroys(table, Known(table, view), have)
  BY DEF MainMessage
<1> DEFINE have == Restrict(rows[table], {k \in DOMAIN rows[table] : Owner(k) = t})
           want == Wanted(table, view, t)
<1>2. table \in Table /\ Keys[table] \subseteq Keys.bsc \cup Link \cup Child
      /\ Values[table] \subseteq UNION {Conf[u] : u \in DOMAIN Conf}
  BY Tables, ConfTypes DEF Table
<1>3. PartialTo(want, Keys[table], Values[table])
  BY WantedFacts
<1>4. DOMAIN have \subseteq Keys[table]
  BY <1>2 DEF DatabasesTypeOK, PartialTo, Restrict
<1> HIDE DEF want, have
<1>5. CASE p \in Creates(table, want, have) \cup Sets(table, want, have)
  <2>1. PICK verb \in {"create", "set"}, k \in DOMAIN want : p = Pdu(verb, table, k, want[k])
    BY <1>5 DEF Creates, Sets
  <2>2. k \in Keys[table] /\ want[k] \in Values[table]
    BY <1>3 DEF PartialTo
  <2>3. p \in Message
    BY <1>2, <2>1, <2>2, MessageType
  <2> QED BY <1>2, <2>1, <2>2, <2>3 DEF PduOK, Pdu
<1>6. CASE p \in Destroys(table, Known(table, view), have)
  <2>1. PICK k \in DOMAIN have \ Known(table, view) : p = Pdu("destroy", table, k, "none")
    BY <1>6 DEF Destroys
  <2>2. k \in Keys[table]
    BY <1>4
  <2>3. p \in Message
    BY <1>2, <2>1, <2>2, MessageType
  <2>4. table \in {"repository", "parent"} => k \notin DOMAIN view.repository
    BY IrdbFacts DEF Known
  <2> QED BY <1>2, <2>1, <2>2, <2>3, <2>4 DEF PduOK, Pdu
<1> QED BY <1>1, <1>5, <1>6 DEF want, have

LEMMA TenantMessageOK ==
    ASSUME NEW view, NEW t \in Tenant
    PROVE  \A p \in TenantMessage(t) :
             /\ p \in Message /\ PduOK(p, view)
             /\ p.verb = "create" /\ p.table = "tenant" => Owner(p.key) = t /\ tenants[t] = 0
<1>1. <<t>> \in Keys.bsc /\ Owner(<<t>>) = t
  BY OwnerFacts DEF Keys
<1>2. ASSUME NEW p \in TenantMessage(t)
      PROVE  \/ p = Pdu("create", "tenant", <<t>>, "none") /\ tenants[t] = 0
             \/ p = Pdu("set", "tenant", <<t>>, "none")
             \/ p = Pdu("create", "bsc", <<t>>, "new")
  BY <1>2 DEF TenantMessage
<1> QED BY <1>1, <1>2, MessageType, Tables DEF PduOK, Pdu, Table

LEMMA SignOK ==
    ASSUME NEW view, NEW t \in Tenant
    PROVE  LET p == Pdu("set", "bsc", <<t>>, "signed")
           IN p \in Message /\ PduOK(p, view) /\ p.table /= "tenant"
<1>1. <<t>> \in Keys.bsc
  BY DEF Keys
<1> QED BY <1>1, MessageType, Tables DEF PduOK, Pdu, Table

LEMMA ControlMessageOK ==
    ASSUME DatabasesTypeOK, NEW view, IrdbOK(view)
    PROVE  \A p \in ControlMessage(view) : p \in Message /\ ControlPduOK(p)
<1> SUFFICES ASSUME NEW p \in ControlMessage(view) PROVE p \in Message /\ ControlPduOK(p)
  OBVIOUS
<1>1. PartialTo(view.client, Link, Conf.client) /\ PartialTo(clients, Link, Conf.client)
  BY IrdbFacts DEF DatabasesTypeOK
<1>2. CASE p \in Creates("client", view.client, clients) \cup Sets("client", view.client, clients)
  <2>1. PICK verb \in {"create", "set"}, k \in DOMAIN view.client :
          p = Pdu(verb, "client", k, view.client[k])
    BY <1>2 DEF Creates, Sets
  <2>2. k \in Link /\ view.client[k] \in Conf.client
    BY <1>1 DEF PartialTo
  <2>3. p \in Message
    BY <2>1, <2>2, MessageType, ConfTypes
  <2> QED BY <2>1, <2>2, <2>3 DEF ControlPduOK, Pdu
<1>3. CASE p \in Destroys("client", DOMAIN view.client, clients)
  <2>1. PICK k \in DOMAIN clients : p = Pdu("destroy", "client", k, "none")
    BY <1>3 DEF Destroys
  <2>2. k \in Link
    BY <1>1 DEF PartialTo
  <2>3. p \in Message
    BY <2>1, <2>2, MessageType
  <2> QED BY <2>1, <2>2, <2>3 DEF ControlPduOK, Pdu
<1> QED BY <1>2, <1>3 DEF ControlMessage

LEMMA DeletedMessageOK ==
    ASSUME NEW view
    PROVE  \A p \in DeletedMessage(view) :
             p \in Message /\ PduOK(p, view) /\ p.verb = "destroy"
<1> SUFFICES ASSUME NEW p \in DeletedMessage(view)
             PROVE  p \in Message /\ PduOK(p, view) /\ p.verb = "destroy"
  OBVIOUS
<1>1. PICK t \in Tenant \ view.holder : p = Pdu("destroy", "tenant", <<t>>, "none")
  BY DEF DeletedMessage
<1>2. <<t>> \in Keys.bsc /\ Owner(<<t>>) = t
  BY OwnerFacts DEF Keys
<1>3. p \in Message
  BY <1>1, <1>2, MessageType
<1> QED BY <1>1, <1>2, <1>3 DEF PduOK, Pdu

-----------------------------------------------------------------------------
(***************************************************************************)
(* Changes of the IRDB.                                                    *)
(***************************************************************************)

\* A database of the right shape, from its five tables.
LEMMA IrdbIs ==
    ASSUME NEW db,
           db = [holder |-> db.holder, parent |-> db.parent, repository |-> db.repository,
                 child |-> db.child, client |-> db.client],
           db.holder \subseteq Tenant,
           db.parent \in Partial(Link, Conf.parent),
           db.repository \in Partial(Link, Conf.repository),
           db.child \in Partial(Child, Conf.child),
           db.client \in Partial(Link, Conf.client),
           DOMAIN db.repository \subseteq DOMAIN db.parent,
           \A k \in DOMAIN db.parent : Owner(k) \in db.holder
    PROVE  IrdbOK(db)
BY DEF IrdbOK, Irdb

LEMMA ChangeKeepsIrdb ==
    ASSUME IrdbOK(irdb), ChangeIrdb
    PROVE  IrdbOK(irdb')
<1> DEFINE H == irdb.holder
           P == irdb.parent
           R == irdb.repository
           C == irdb.child
           U == irdb.client
<1>1. /\ irdb = [holder |-> H, parent |-> P, repository |-> R, child |-> C, client |-> U]
      /\ H \subseteq Tenant
      /\ P \in Partial(Link, Conf.parent)
      /\ R \in Partial(Link, Conf.repository)
      /\ C \in Partial(Child, Conf.child)
      /\ U \in Partial(Link, Conf.client)
      /\ DOMAIN R \subseteq DOMAIN P
      /\ \A k \in DOMAIN P : Owner(k) \in H
  BY DEF IrdbOK, Irdb
<1> HIDE DEF H, P, R, C, U
<1>2. ASSUME NEW t \in Tenant, Initialize(t) PROVE IrdbOK(irdb')
  <2>1. irdb' = [irdb EXCEPT !.holder = @ \cup {t}]
    BY <1>2 DEF Initialize, Edit
  <2>2. irdb' = [holder |-> H \cup {t}, parent |-> P, repository |-> R, child |-> C, client |-> U]
    BY <1>1, <2>1
  <2> QED BY <1>1, <2>2, IrdbIs
<1>3. ASSUME NEW t \in Tenant, DeleteTenant(t) PROVE IrdbOK(irdb')
  <2> DEFINE Of(f) == {k \in DOMAIN f : Owner(k) = t}
  <2>1. irdb' = [irdb EXCEPT !.holder = @ \ {t}, !.parent = Less(@, Of(@)),
                             !.repository = Less(@, Of(@)), !.child = Less(@, Of(@))]
    BY <1>3 DEF DeleteTenant, Edit
  <2>2. irdb' = [holder |-> H \ {t}, parent |-> Less(P, Of(P)),
                 repository |-> Less(R, Of(R)), child |-> Less(C, Of(C)), client |-> U]
    BY <1>1, <2>1
  <2>3. /\ Less(P, Of(P)) \in Partial(Link, Conf.parent)
        /\ Less(R, Of(R)) \in Partial(Link, Conf.repository)
        /\ Less(C, Of(C)) \in Partial(Child, Conf.child)
    BY <1>1, PartialLess
  <2>4. /\ DOMAIN Less(P, Of(P)) = DOMAIN P \ Of(P)
        /\ DOMAIN Less(R, Of(R)) = DOMAIN R \ Of(R)
    BY LessFacts
  <2>5. /\ DOMAIN Less(R, Of(R)) \subseteq DOMAIN Less(P, Of(P))
        /\ \A k \in DOMAIN Less(P, Of(P)) : Owner(k) \in H \ {t}
    BY <1>1, <2>4
  <2> HIDE DEF Of
  <2> QED BY <1>1, <2>2, <2>3, <2>5, IrdbIs
<1>4. ASSUME NEW k \in Link, NEW c \in Conf.parent, ConfigureParent(k, c) PROVE IrdbOK(irdb')
  <2>1. irdb' = [irdb EXCEPT !.parent = Put(@, k, c)] /\ Owner(k) \in H
    BY <1>4 DEF ConfigureParent, Edit, H
  <2>2. irdb' = [holder |-> H, parent |-> Put(P, k, c), repository |-> R, child |-> C, client |-> U]
    BY <1>1, <2>1
  <2>3. Put(P, k, c) \in Partial(Link, Conf.parent) /\ DOMAIN Put(P, k, c) = DOMAIN P \cup {k}
    BY <1>1, PartialPut, PutFacts
  <2> QED BY <1>1, <2>1, <2>2, <2>3, IrdbIs
<1>5. ASSUME NEW k \in Link, DeleteParent(k) PROVE IrdbOK(irdb')
  <2>1. irdb' = [irdb EXCEPT !.parent = Less(@, {k}), !.repository = Less(@, {k})]
    BY <1>5 DEF DeleteParent, Edit
  <2>2. irdb' = [holder |-> H, parent |-> Less(P, {k}), repository |-> Less(R, {k}),
                 child |-> C, client |-> U]
    BY <1>1, <2>1
  <2>3. /\ Less(P, {k}) \in Partial(Link, Conf.parent)
        /\ Less(R, {k}) \in Partial(Link, Conf.repository)
        /\ DOMAIN Less(P, {k}) = DOMAIN P \ {k} /\ DOMAIN Less(R, {k}) = DOMAIN R \ {k}
    BY <1>1, PartialLess, LessFacts
  <2> QED BY <1>1, <2>2, <2>3, IrdbIs
<1>6. ASSUME NEW k \in Link, NEW c \in Conf.repository, ConfigureRepository(k, c)
      PROVE  IrdbOK(irdb')
  <2>1. irdb' = [irdb EXCEPT !.repository = Put(@, k, c)] /\ k \in DOMAIN P
    BY <1>6 DEF ConfigureRepository, Edit, P
  <2>2. irdb' = [holder |-> H, parent |-> P, repository |-> Put(R, k, c), child |-> C, client |-> U]
    BY <1>1, <2>1
  <2>3. Put(R, k, c) \in Partial(Link, Conf.repository) /\ DOMAIN Put(R, k, c) = DOMAIN R \cup {k}
    BY <1>1, PartialPut, PutFacts
  <2> QED BY <1>1, <2>1, <2>2, <2>3, IrdbIs
<1>7. ASSUME NEW k \in Link, DeleteRepository(k) PROVE IrdbOK(irdb')
  <2>1. irdb' = [irdb EXCEPT !.repository = Less(@, {k})]
    BY <1>7 DEF DeleteRepository, Edit
  <2>2. irdb' = [holder |-> H, parent |-> P, repository |-> Less(R, {k}), child |-> C, client |-> U]
    BY <1>1, <2>1
  <2>3. Less(R, {k}) \in Partial(Link, Conf.repository) /\ DOMAIN Less(R, {k}) = DOMAIN R \ {k}
    BY <1>1, PartialLess, LessFacts
  <2> QED BY <1>1, <2>2, <2>3, IrdbIs
<1>8. ASSUME NEW k \in Child, NEW c \in Conf.child, ConfigureChild(k, c) PROVE IrdbOK(irdb')
  <2>1. irdb' = [irdb EXCEPT !.child = Put(@, k, c)]
    BY <1>8 DEF ConfigureChild, Edit
  <2>2. irdb' = [holder |-> H, parent |-> P, repository |-> R, child |-> Put(C, k, c), client |-> U]
    BY <1>1, <2>1
  <2> QED BY <1>1, <2>2, PartialPut, IrdbIs
<1>9. ASSUME NEW k \in Child, DeleteChild(k) PROVE IrdbOK(irdb')
  <2>1. irdb' = [irdb EXCEPT !.child = Less(@, {k})]
    BY <1>9 DEF DeleteChild, Edit
  <2>2. irdb' = [holder |-> H, parent |-> P, repository |-> R, child |-> Less(C, {k}), client |-> U]
    BY <1>1, <2>1
  <2> QED BY <1>1, <2>2, PartialLess, IrdbIs
<1>10. ASSUME NEW k \in Link, NEW c \in Conf.client, ConfigureClient(k, c) PROVE IrdbOK(irdb')
  <2>1. irdb' = [irdb EXCEPT !.client = Put(@, k, c)]
    BY <1>10 DEF ConfigureClient, Edit
  <2>2. irdb' = [holder |-> H, parent |-> P, repository |-> R, child |-> C, client |-> Put(U, k, c)]
    BY <1>1, <2>1
  <2> QED BY <1>1, <2>2, PartialPut, IrdbIs
<1>11. ASSUME NEW k \in Link, DeleteClient(k) PROVE IrdbOK(irdb')
  <2>1. irdb' = [irdb EXCEPT !.client = Less(@, {k})]
    BY <1>11 DEF DeleteClient, Edit
  <2>2. irdb' = [holder |-> H, parent |-> P, repository |-> R, child |-> C, client |-> Less(U, {k})]
    BY <1>1, <2>1
  <2> QED BY <1>1, <2>2, PartialLess, IrdbIs
<1> QED
  BY <1>2, <1>3, <1>4, <1>5, <1>6, <1>7, <1>8, <1>9, <1>10, <1>11 DEF ChangeIrdb

-----------------------------------------------------------------------------
(***************************************************************************)
(* Commands: how a step of one changes what they all are doing.            *)
(***************************************************************************)

Commands == {NotRunning} \cup Working

CommandsOK == sync \in [Command -> Commands] /\ \A s \in Command : SyncOK(sync[s])

\* Does a command that does c still have to create tenant t?
Creates1(c, t) ==
  c.at = "tenant" /\ \E p \in c.todo : p.verb = "create" /\ p.table = "tenant" /\ Owner(p.key) = t

LEMMA NotRunningFacts ==
    NotRunning \in Commands /\ SyncOK(NotRunning) /\ (\A t : ~Creates1(NotRunning, t))
    /\ \A c \in Commands : c.at = "idle" <=> c = NotRunning
<1>1. NotRunning.at = "idle"
  BY DEF NotRunning
<1>2. \A c \in Working : c.at /= "idle"
  BY DEF Working
<1> QED BY <1>1, <1>2 DEF Commands, SyncOK, Creates1

LEMMA DisturbOne ==
    ASSUME NEW c \in Working
    PROVE  LET d == [c EXCEPT !.alone = FALSE] IN
           /\ d \in Working
           /\ d.at = c.at /\ d.cmd = c.cmd /\ d.view = c.view /\ d.jobs = c.jobs /\ d.ca = c.ca
           /\ d.todo = c.todo /\ d.later = c.later
BY DEF Working

LEMMA DisturbFacts ==
    ASSUME NEW f \in [Command -> Commands], NEW S, NEW s \in Command
    PROVE  /\ Disturb(f, S) \in [Command -> Commands]
           /\ SyncOK(f[s]) => SyncOK(Disturb(f, S)[s])
           /\ \A t : Creates1(Disturb(f, S)[s], t) = Creates1(f[s], t)
<1> DEFINE g == Disturb(f, S)
<1>1. g = [x \in Command |-> IF x \in S /\ f[x].at /= "idle"
                             THEN [f[x] EXCEPT !.alone = FALSE] ELSE f[x]]
  BY DEF Disturb
<1>2. \A x \in Command : g[x] = f[x] \/ (f[x] \in Working /\ g[x] = [f[x] EXCEPT !.alone = FALSE])
  BY <1>1, NotRunningFacts DEF Commands
<1>3. g \in [Command -> Commands]
  BY <1>1, <1>2, DisturbOne DEF Commands
<1> HIDE DEF g
<1>4. CASE g[s] = f[s]
  BY <1>3, <1>4 DEF g
<1>5. CASE f[s] \in Working /\ g[s] = [f[s] EXCEPT !.alone = FALSE]
  <2>1. /\ g[s] \in Working
        /\ g[s].at = f[s].at /\ g[s].cmd = f[s].cmd /\ g[s].view = f[s].view
        /\ g[s].jobs = f[s].jobs /\ g[s].ca = f[s].ca
        /\ g[s].todo = f[s].todo /\ g[s].later = f[s].later
    BY <1>5, DisturbOne
  <2>2. f[s] /= NotRunning
    BY <1>5 DEF Working, NotRunning
  <2>3. SyncOK(f[s]) => SyncOK(g[s])
    BY <2>1, <2>2 DEF SyncOK
  <2>4. \A t : Creates1(g[s], t) = Creates1(f[s], t)
    BY <2>1 DEF Creates1
  <2> QED BY <1>3, <2>3, <2>4 DEF g
<1> QED BY <1>2, <1>4, <1>5

\* Command s is now doing r, and others may know that they were disturbed.
Becomes(s, r) ==
  \/ sync' = [sync EXCEPT ![s] = r]
  \/ \E S : sync' = Disturb([sync EXCEPT ![s] = r], S)

LEMMA CommandSteps ==
    ASSUME CommandsOK, NEW s \in Command, NEW r \in Commands, SyncOK(r), Becomes(s, r)
    PROVE  /\ CommandsOK'
           /\ \A t : /\ Creating(t)' \subseteq Creating(t) \cup {s}
                     /\ ~Creates1(r, t) => s \notin Creating(t)'
<1> DEFINE f == [sync EXCEPT ![s] = r]
<1>1. /\ f \in [Command -> Commands] /\ f[s] = r
      /\ \A x \in Command : x /= s => f[x] = sync[x]
  BY DEF CommandsOK
<1>2. \A x \in Command : SyncOK(f[x])
  BY <1>1 DEF CommandsOK
<1>3. sync' = f \/ \E S : sync' = Disturb(f, S)
  BY DEF Becomes
<1> HIDE DEF f
<1>4. /\ sync' \in [Command -> Commands] /\ \A x \in Command : SyncOK(sync'[x])
      /\ \A x \in Command : \A t : Creates1(sync'[x], t) = Creates1(f[x], t)
  <2>1. CASE sync' = f
    BY <2>1, <1>1, <1>2
  <2>2. CASE sync' /= f
    <3>1. PICK S : sync' = Disturb(f, S)
      BY <1>3, <2>2
    <3>2. ASSUME NEW x \in Command
          PROVE  /\ Disturb(f, S) \in [Command -> Commands]
                 /\ SyncOK(f[x]) => SyncOK(Disturb(f, S)[x])
                 /\ \A t : Creates1(Disturb(f, S)[x], t) = Creates1(f[x], t)
      BY <1>1, DisturbFacts
    <3> QED BY <1>2, <3>1, <3>2
  <2> QED BY <2>1, <2>2
<1>5. CommandsOK'
  BY <1>4 DEF CommandsOK
<1>6. /\ \A t : Creating(t)' = {x \in Command : Creates1(sync'[x], t)}
      /\ \A t : Creating(t) = {x \in Command : Creates1(sync[x], t)}
  BY DEF Creating, Creates1
<1> QED BY <1>1, <1>4, <1>5, <1>6

\* A change of somebody else's.
LEMMA DisturbedCommands ==
    ASSUME CommandsOK, sync' = sync \/ \E S : sync' = Disturb(sync, S)
    PROVE  CommandsOK' /\ \A t : Creating(t)' = Creating(t)
<1>1. /\ \A t : Creating(t)' = {x \in Command : Creates1(sync'[x], t)}
      /\ \A t : Creating(t) = {x \in Command : Creates1(sync[x], t)}
  BY DEF Creating, Creates1
<1>2. CASE sync' = sync
  BY <1>1, <1>2 DEF CommandsOK
<1>3. CASE sync' /= sync
  <2>1. PICK S : sync' = Disturb(sync, S)
    BY <1>3
  <2>2. ASSUME NEW x \in Command
        PROVE  /\ Disturb(sync, S) \in [Command -> Commands]
               /\ SyncOK(sync[x]) => SyncOK(Disturb(sync, S)[x])
               /\ \A t : Creates1(Disturb(sync, S)[x], t) = Creates1(sync[x], t)
    BY DisturbFacts DEF CommandsOK
  <2>3. Disturb(sync, S) \in [Command -> Commands]
    BY <2>2, CommandAssumption
  <2> QED BY <1>1, <2>1, <2>2, <2>3 DEF CommandsOK
<1> QED BY <1>2, <1>3

CreatesOnce ==
  \A t \in Tenant : tenants[t] + Cardinality(Creating(t)) <= Cardinality(Command)

\* A tenant is created by a command that no longer has to.
LEMMA CreatesOnceKept ==
    ASSUME DatabasesTypeOK, CreatesOnce, tenants' \in [Tenant -> Nat],
           \A t \in Tenant :
             \/ tenants'[t] <= tenants[t] /\ Creating(t)' \subseteq Creating(t)
             \/ tenants'[t] = 0
             \/ /\ tenants'[t] = tenants[t] + 1
                /\ \E s \in Creating(t) : Creating(t)' \subseteq Creating(t) \ {s}
    PROVE  CreatesOnce'
<1> SUFFICES ASSUME NEW t \in Tenant
             PROVE  tenants'[t] + Cardinality(Creating(t)') <= Cardinality(Command)
  BY DEF CreatesOnce
<1>1. Creating(t) \subseteq Command /\ Creating(t)' \subseteq Command
  BY DEF Creating
<1>2. /\ IsFiniteSet(Command) /\ Cardinality(Command) \in Nat
      /\ IsFiniteSet(Creating(t)) /\ Cardinality(Creating(t)) \in Nat
      /\ IsFiniteSet(Creating(t)') /\ Cardinality(Creating(t)') \in Nat
      /\ Cardinality(Creating(t)') <= Cardinality(Command)
  BY <1>1, CommandAssumption, FS_Subset, FS_CardinalityType
<1>3. tenants[t] \in Nat /\ tenants'[t] \in Nat
      /\ tenants[t] + Cardinality(Creating(t)) <= Cardinality(Command)
  BY <1>2 DEF DatabasesTypeOK, CreatesOnce
<1>4. CASE tenants'[t] <= tenants[t] /\ Creating(t)' \subseteq Creating(t)
  <2>1. Cardinality(Creating(t)') <= Cardinality(Creating(t))
    BY <1>2, <1>4, FS_Subset
  <2> QED BY <1>2, <1>3, <1>4, <2>1
<1>5. CASE tenants'[t] = 0
  BY <1>2, <1>5
<1>6. CASE /\ tenants'[t] = tenants[t] + 1
           /\ \E s \in Creating(t) : Creating(t)' \subseteq Creating(t) \ {s}
  <2>1. PICK s \in Creating(t) : Creating(t)' \subseteq Creating(t) \ {s}
    BY <1>6
  <2>2. /\ IsFiniteSet(Creating(t) \ {s})
        /\ Cardinality(Creating(t) \ {s}) = Cardinality(Creating(t)) - 1
    BY <1>2, FS_RemoveElement
  <2>3. Cardinality(Creating(t)') <= Cardinality(Creating(t) \ {s})
    BY <2>1, <2>2, FS_Subset
  <2> QED BY <1>2, <1>3, <1>6, <2>2, <2>3
<1> QED BY <1>4, <1>5, <1>6

-----------------------------------------------------------------------------
(***************************************************************************)
(* The inductive invariant.                                                *)
(***************************************************************************)

Inv == DatabasesTypeOK /\ changes \in 0 .. MaxChanges /\ ZookeeperInv

LEMMA InvParts ==
    Inv <=> /\ DatabasesTypeOK /\ changes \in 0 .. MaxChanges
            /\ CommandsOK /\ IrdbOK(irdb) /\ CallInv /\ ForeignKeys /\ CreatesOnce
BY DEF Inv, ZookeeperInv, CommandsOK, Commands, CreatesOnce

LEMMA TenantsType == ASSUME DatabasesTypeOK PROVE tenants \in [Tenant -> Nat]
<1>1. Cardinality(Command) \in Nat
  BY CommandAssumption, FS_CardinalityType
<1> QED BY <1>1 DEF DatabasesTypeOK

\* A step of command s, whatever it does to the databases: a tenant that it
\* creates is one that it no longer has to create.
LEMMA StepKeeps ==
    ASSUME Inv, DatabasesTypeOK', ForeignKeys', CallInv', UNCHANGED <<irdb, changes>>,
           NEW s \in Command, NEW r \in Commands, SyncOK(r), Becomes(s, r),
           \A t \in Tenant :
             \/ tenants'[t] = 0
             \/ tenants'[t] <= tenants[t] /\ (Creates1(r, t) => Creates1(sync[s], t))
             \/ tenants'[t] = tenants[t] + 1 /\ Creates1(sync[s], t) /\ ~Creates1(r, t)
    PROVE  Inv'
<1>1. CommandsOK /\ CreatesOnce /\ DatabasesTypeOK
  BY InvParts
<1>2. /\ CommandsOK'
      /\ \A t : /\ Creating(t)' \subseteq Creating(t) \cup {s}
                /\ ~Creates1(r, t) => s \notin Creating(t)'
  BY <1>1, CommandSteps
<1>3. \A t : Creates1(sync[s], t) <=> s \in Creating(t)
  BY DEF Creating, Creates1
<1>4. tenants' \in [Tenant -> Nat]
  <2>1. Cardinality(Command) \in Nat
    BY CommandAssumption, FS_CardinalityType
  <2> QED BY <2>1 DEF DatabasesTypeOK
<1>5. ASSUME NEW t \in Tenant
      PROVE  \/ tenants'[t] <= tenants[t] /\ Creating(t)' \subseteq Creating(t)
             \/ tenants'[t] = 0
             \/ /\ tenants'[t] = tenants[t] + 1
                /\ \E x \in Creating(t) : Creating(t)' \subseteq Creating(t) \ {x}
  BY <1>2, <1>3
<1>6. CreatesOnce'
  BY <1>1, <1>4, <1>5, CreatesOnceKept
<1>7. changes' \in 0 .. MaxChanges /\ IrdbOK(irdb')
  BY InvParts
<1> QED BY <1>2, <1>6, <1>7 DEF Inv, ZookeeperInv, CommandsOK, Commands, CreatesOnce

\* A step that only changes what a command is doing.
LEMMA SyncStepKeeps ==
    ASSUME Inv, UNCHANGED <<dbVars, irdb, changes>>,
           NEW s \in Command, NEW r \in Commands, SyncOK(r), Becomes(s, r),
           \A t \in Tenant : Creates1(r, t) => tenants[t] = 0
    PROVE  Inv'
<1>1. UNCHANGED <<tenants, rows, cas, clients, published, call, troubles>>
  BY DEF dbVars, rpkid, pubd
<1>2. DatabasesTypeOK /\ ForeignKeys /\ CallInv
  BY InvParts
<1>3. DatabasesTypeOK' /\ ForeignKeys' /\ CallInv'
  BY <1>1, <1>2 DEF DatabasesTypeOK, ForeignKeys, CallInv, Has
<1>4. tenants \in [Tenant -> Nat]
  BY <1>2, TenantsType
<1>5. ASSUME NEW t \in Tenant
      PROVE  \/ tenants'[t] = 0
             \/ tenants'[t] <= tenants[t] /\ (Creates1(r, t) => Creates1(sync[s], t))
             \/ tenants'[t] = tenants[t] + 1 /\ Creates1(sync[s], t) /\ ~Creates1(r, t)
  BY <1>1, <1>4
<1> QED BY <1>3, <1>5, StepKeeps

LEMMA CommandType ==
    ASSUME Inv, NEW s \in Command, sync[s].at /= "idle"
    PROVE  sync[s] \in Working /\ SyncOK(sync[s]) /\ sync[s] /= NotRunning
<1>1. CommandsOK
  BY InvParts
<1> QED BY <1>1, NotRunningFacts DEF CommandsOK, Commands

\* What a command may be doing.
LEMMA WorkIs ==
    ASSUME NEW r \in Working
    PROVE  /\ r \in Commands
           /\ SyncOK(r) <=>
                /\ IrdbOK(r.view)
                /\ IF r.at = "control" THEN \A p \in r.todo : ControlPduOK(p)
                                       ELSE \A p \in r.todo : PduOK(p, r.view)
                /\ \A p \in r.later : PduOK(p, r.view) /\ p.table /= "tenant"
                /\ r.at = "tenant" => r.ca \in Tenant
                /\ r.at = "serve" => \A p \in r.todo : p.table = "tenant" => p.verb = "destroy"
<1>1. r /= NotRunning
  BY DEF Working, NotRunning
<1> QED BY <1>1 DEF Commands, SyncOK

LEMMA BeginKeeps ==
    ASSUME Inv, NEW s \in Command, NEW cmd \in Runs[s], Begin(s, cmd)
    PROVE  Inv'
<1>1. PICK t \in IF cmd = "ca" THEN irdb.holder ELSE {"any"} :
        sync' = [sync EXCEPT ![s] =
                  [at |-> "serve", cmd |-> cmd, view |-> irdb, jobs |-> Jobs(cmd, irdb, t),
                   ca |-> "none", todo |-> {}, later |-> {}, alone |-> TRUE]]
  BY DEF Begin
<1> DEFINE r == [at |-> "serve", cmd |-> cmd, view |-> irdb, jobs |-> Jobs(cmd, irdb, t),
                 ca |-> "none", todo |-> {}, later |-> {}, alone |-> TRUE]
<1>2. cmd \in {"all", "ca", "deleted", "pubd"}
  BY RunsAssumption
<1>3. IrdbOK(irdb) /\ irdb \in Irdb /\ irdb.holder \subseteq Tenant
  BY InvParts, IrdbFacts DEF IrdbOK
<1>4. Jobs(cmd, irdb, t) \in [cas : SUBSET Tenant, rest : Seq({"pubd", "deleted"})]
  <2>1. CASE cmd = "all"
    BY <2>1, <1>3 DEF Jobs
  <2>2. CASE cmd = "ca"
    BY <2>2, <1>3, <1>1 DEF Jobs
  <2>3. CASE cmd \in {"deleted", "pubd"}
    BY <2>3 DEF Jobs
  <2> QED BY <1>2, <2>1, <2>2, <2>3
<1>5. r \in Working
  BY <1>2, <1>3, <1>4 DEF Working
<1>6. r \in Commands /\ SyncOK(r)
  BY <1>3, <1>5, WorkIs
<1>7. \A x : ~Creates1(r, x)
  BY DEF Creates1
<1>8. UNCHANGED <<dbVars, irdb, changes>> /\ Becomes(s, r)
  BY <1>1 DEF Begin, Becomes
<1> HIDE DEF r
<1> QED BY <1>6, <1>7, <1>8, SyncStepKeeps

LEMMA ReadTenantKeeps ==
    ASSUME Inv, NEW s \in Command, ReadTenant(s)
    PROVE  Inv'
<1> DEFINE c == sync[s]
<1>1. PICK t \in c.jobs.cas :
        Become(s, [c EXCEPT !.at = "tenant", !.ca = t, !.jobs.cas = @ \ {t},
                            !.todo = TenantMessage(t), !.later = MainMessage(c.view, t)])
  BY DEF ReadTenant
<1> DEFINE r == [c EXCEPT !.at = "tenant", !.ca = t, !.jobs.cas = @ \ {t},
                          !.todo = TenantMessage(t), !.later = MainMessage(c.view, t)]
<1>2. c \in Working /\ SyncOK(c)
  BY CommandType DEF ReadTenant, Ready
<1>3. IrdbOK(c.view) /\ t \in Tenant
  BY <1>2, WorkIs DEF Working
<1>4. \A p \in TenantMessage(t) :
        /\ p \in Message /\ PduOK(p, c.view)
        /\ p.verb = "create" /\ p.table = "tenant" => Owner(p.key) = t /\ tenants[t] = 0
  BY <1>3, TenantMessageOK
<1>5. \A p \in MainMessage(c.view, t) :
        p \in Message /\ PduOK(p, c.view) /\ p.table /= "tenant"
  BY <1>3, MainMessageOK, InvParts
<1>6. /\ r \in Working
      /\ r.at = "tenant" /\ r.ca = t /\ r.view = c.view
      /\ r.todo = TenantMessage(t) /\ r.later = MainMessage(c.view, t)
  BY <1>2, <1>3, <1>4, <1>5 DEF Working
<1> HIDE DEF r
<1>7. r \in Commands /\ SyncOK(r)
  BY <1>3, <1>4, <1>5, <1>6, WorkIs
<1>8. \A x : Creates1(r, x) => tenants[x] = 0
  BY <1>4, <1>6 DEF Creates1
<1>9. UNCHANGED <<dbVars, irdb, changes>> /\ Becomes(s, r)
  BY <1>1 DEF ReadTenant, OnlySync, Become, Becomes, r
<1> HIDE DEF c
<1> QED BY <1>7, <1>8, <1>9, SyncStepKeeps

LEMMA SendMainKeeps ==
    ASSUME Inv, NEW s \in Command, SendMain(s)
    PROVE  Inv'
<1> DEFINE c == sync[s]
           sign == IF rows["bsc"][<<c.ca>>] = "signed" THEN {}
                   ELSE {Pdu("set", "bsc", <<c.ca>>, "signed")}
           r == [c EXCEPT !.at = "serve", !.todo = c.later \cup sign, !.later = {}]
<1>1. c.at = "tenant" /\ Become(s, r) /\ UNCHANGED <<dbVars, irdb, changes>>
  BY DEF SendMain, OnlySync
<1>2. c \in Working /\ SyncOK(c)
  BY <1>1, CommandType
<1>3. /\ IrdbOK(c.view) /\ c.ca \in Tenant
      /\ \A p \in c.later : p \in Message /\ PduOK(p, c.view) /\ p.table /= "tenant"
  BY <1>1, <1>2, WorkIs DEF Working
<1>4. \A p \in sign : p \in Message /\ PduOK(p, c.view) /\ p.table /= "tenant"
  BY <1>3, SignOK
<1> HIDE DEF sign
<1>5. r \in Working /\ r.at = "serve" /\ r.view = c.view /\ r.todo = c.later \cup sign /\ r.later = {}
  BY <1>2, <1>3, <1>4 DEF Working
<1> HIDE DEF r
<1>6. r \in Commands /\ SyncOK(r)
  BY <1>3, <1>4, <1>5, WorkIs
<1>7. \A x : ~Creates1(r, x)
  BY <1>5 DEF Creates1
<1>8. Becomes(s, r)
  BY <1>1 DEF Become, Becomes
<1> HIDE DEF c
<1> QED BY <1>1, <1>6, <1>7, <1>8, SyncStepKeeps

LEMMA ReadDaemonKeeps ==
    ASSUME Inv, NEW s \in Command, ReadClients(s) \/ ReadTenants(s)
    PROVE  Inv'
<1> DEFINE c == sync[s]
<1>1. /\ c.jobs.rest /= <<>> /\ c.at = "serve" /\ UNCHANGED <<dbVars, irdb, changes>>
      /\ \/ Become(s, [c EXCEPT !.at = "control", !.jobs.rest = Tail(@),
                                !.todo = ControlMessage(c.view)])
         \/ Become(s, [c EXCEPT !.at = "serve", !.jobs.rest = Tail(@),
                                !.todo = DeletedMessage(c.view)])
  BY DEF ReadClients, ReadTenants, Ready, OnlySync
<1>2. c \in Working /\ SyncOK(c)
  BY <1>1, CommandType
<1>3. /\ IrdbOK(c.view) /\ Tail(c.jobs.rest) \in Seq({"pubd", "deleted"})
      /\ \A p \in c.later : PduOK(p, c.view) /\ p.table /= "tenant"
  BY <1>1, <1>2, WorkIs DEF Working
<1>4. CASE Become(s, [c EXCEPT !.at = "control", !.jobs.rest = Tail(@),
                               !.todo = ControlMessage(c.view)])
  <2> DEFINE r == [c EXCEPT !.at = "control", !.jobs.rest = Tail(@),
                            !.todo = ControlMessage(c.view)]
  <2>1. \A p \in ControlMessage(c.view) : p \in Message /\ ControlPduOK(p)
    BY <1>3, ControlMessageOK, InvParts
  <2>2. /\ r \in Working /\ r.at = "control" /\ r.view = c.view
        /\ r.todo = ControlMessage(c.view) /\ r.later = c.later
    BY <1>2, <1>3, <2>1 DEF Working
  <2> HIDE DEF r
  <2>3. r \in Commands /\ SyncOK(r)
    BY <1>3, <2>1, <2>2, WorkIs
  <2>4. \A x : ~Creates1(r, x)
    BY <2>2 DEF Creates1
  <2>5. Becomes(s, r)
    BY <1>4 DEF Become, Becomes, r
  <2> HIDE DEF c
  <2> QED BY <1>1, <2>3, <2>4, <2>5, SyncStepKeeps
<1>5. CASE Become(s, [c EXCEPT !.at = "serve", !.jobs.rest = Tail(@),
                               !.todo = DeletedMessage(c.view)])
  <2> DEFINE r == [c EXCEPT !.at = "serve", !.jobs.rest = Tail(@),
                            !.todo = DeletedMessage(c.view)]
  <2>1. \A p \in DeletedMessage(c.view) : p \in Message /\ PduOK(p, c.view) /\ p.verb = "destroy"
    BY DeletedMessageOK
  <2>2. /\ r \in Working /\ r.at = "serve" /\ r.view = c.view
        /\ r.todo = DeletedMessage(c.view) /\ r.later = c.later
    BY <1>2, <1>3, <2>1 DEF Working
  <2> HIDE DEF r
  <2>3. r \in Commands /\ SyncOK(r)
    BY <1>3, <2>1, <2>2, WorkIs
  <2>4. \A x : ~Creates1(r, x)
    BY <2>2 DEF Creates1
  <2>5. Becomes(s, r)
    BY <1>5 DEF Become, Becomes, r
  <2> HIDE DEF c
  <2> QED BY <1>1, <2>3, <2>4, <2>5, SyncStepKeeps
<1> QED BY <1>1, <1>4, <1>5

LEMMA EndKeeps ==
    ASSUME Inv, NEW s \in Command, End(s) \/ GiveUp(s)
    PROVE  Inv'
<1>1. UNCHANGED <<dbVars, irdb, changes>> /\ Becomes(s, NotRunning)
  BY DEF End, GiveUp, OnlySync, Become, Becomes
<1> QED BY <1>1, NotRunningFacts, SyncStepKeeps

\* The rest of a message, after one of its PDUs.
LEMMA TodoFacts ==
    ASSUME Inv, NEW s \in Command, sync[s].at \in {"tenant", "serve"}, NEW p \in sync[s].todo
    PROVE  LET r == [sync[s] EXCEPT !.todo = @ \ {p}] IN
           /\ r \in Commands /\ SyncOK(r)
           /\ [sync EXCEPT ![s].todo = @ \ {p}] = [sync EXCEPT ![s] = r]
           /\ PduOK(p, sync[s].view) /\ IrdbOK(sync[s].view)
           /\ \A t : Creates1(r, t) => Creates1(sync[s], t)
           /\ p.verb = "create" /\ p.table = "tenant" =>
                Creates1(sync[s], Owner(p.key)) /\ ~Creates1(r, Owner(p.key))
<1> DEFINE c == sync[s]
           r == [c EXCEPT !.todo = @ \ {p}]
<1>1. c \in Working /\ SyncOK(c)
  BY CommandType
<1>2. /\ IrdbOK(c.view) /\ \A q \in c.todo : PduOK(q, c.view) /\ q \in Message
      /\ \A q \in c.later : PduOK(q, c.view) /\ q.table /= "tenant"
      /\ c.at = "tenant" => c.ca \in Tenant
      /\ c.at = "serve" => \A q \in c.todo : q.table = "tenant" => q.verb = "destroy"
  BY <1>1, WorkIs DEF Working
<1>3. /\ r \in Working /\ r.at = c.at /\ r.view = c.view /\ r.ca = c.ca
      /\ r.todo = c.todo \ {p} /\ r.later = c.later
  BY <1>1 DEF Working
<1>4. [sync EXCEPT ![s].todo = @ \ {p}] = [sync EXCEPT ![s] = r]
  OBVIOUS
<1> HIDE DEF r
<1>5. r \in Commands /\ SyncOK(r)
  BY <1>2, <1>3, WorkIs
<1>6. \A t : Creates1(r, t) => Creates1(c, t)
  BY <1>3 DEF Creates1
<1>7. ASSUME p.verb = "create", p.table = "tenant"
      PROVE  Creates1(c, Owner(p.key)) /\ ~Creates1(r, Owner(p.key))
  <2>1. c.at = "tenant"
    BY <1>2, <1>7
  <2>2. ASSUME NEW q \in c.todo, q.verb = "create", q.table = "tenant", Owner(q.key) = Owner(p.key)
        PROVE  q = p
    <3>1. PduOK(p, c.view) /\ PduOK(q, c.view) /\ p \in Message /\ q \in Message
      BY <1>2, <2>2
    <3>2. "tenant" \notin Table
      BY DEF Table
    <3>3. p.key \in Keys.bsc /\ q.key \in Keys.bsc /\ p.conf = "none" /\ q.conf = "none"
      BY <1>7, <2>2, <3>1, <3>2 DEF PduOK
    <3>4. p.key = q.key
      BY <2>2, <3>3, OwnerFacts
    <3> QED BY <1>7, <2>2, <3>1, <3>3, <3>4 DEF Message
  <2> QED BY <1>3, <1>7, <2>1, <2>2 DEF Creates1
<1> QED BY <1>2, <1>4, <1>5, <1>6, <1>7 DEF r

LEMMA ServePduKeeps ==
    ASSUME Inv, NEW s \in Command, ServePdu(s)
    PROVE  Inv'
<1>1. sync[s].at \in {"tenant", "serve"} /\ UNCHANGED <<irdb, changes>>
  BY DEF ServePdu
<1>2. PICK p \in NextPdus(sync[s].todo) :
        /\ Accepts(p) /\ (Save(p) \/ Destroy(p))
        /\ sync' = Disturb([sync EXCEPT ![s].todo = @ \ {p}], Command \ {s})
  BY DEF ServePdu
<1>3. p \in sync[s].todo
  BY NextPdusIn
<1> DEFINE r == [sync[s] EXCEPT !.todo = @ \ {p}]
<1>4. /\ r \in Commands /\ SyncOK(r)
      /\ [sync EXCEPT ![s].todo = @ \ {p}] = [sync EXCEPT ![s] = r]
      /\ PduOK(p, sync[s].view)
      /\ \A t : Creates1(r, t) => Creates1(sync[s], t)
      /\ p.verb = "create" /\ p.table = "tenant" =>
           Creates1(sync[s], Owner(p.key)) /\ ~Creates1(r, Owner(p.key))
  BY <1>1, <1>3, TodoFacts
<1> HIDE DEF r
<1>5. Becomes(s, r)
  BY <1>2, <1>4 DEF Becomes
<1>6. DatabasesTypeOK /\ ForeignKeys /\ CallInv /\ CreatesOnce /\ tenants \in [Tenant -> Nat]
  BY InvParts, TenantsType
<1>7. CASE Save(p)
  <2>1. ASSUME p.table = "tenant", p.verb = "create"
        PROVE  tenants[Owner(p.key)] < Cardinality(Command)
    <3> DEFINE t == Owner(p.key)
    <3>1. t \in Tenant
      BY <1>4, <2>1, OwnerFacts DEF PduOK, Table
    <3>2. s \in Creating(t) /\ Creating(t) \subseteq Command
      BY <1>4, <2>1 DEF Creating, Creates1
    <3>3. /\ IsFiniteSet(Creating(t)) /\ Cardinality(Creating(t)) \in Nat
          /\ Cardinality(Creating(t)) /= 0 /\ Cardinality(Command) \in Nat
      BY <3>2, CommandAssumption, FS_Subset, FS_CardinalityType, FS_EmptySet
    <3>4. tenants[t] + Cardinality(Creating(t)) <= Cardinality(Command) /\ tenants[t] \in Nat
      BY <1>6, <3>1 DEF CreatesOnce
    <3> HIDE DEF t
    <3>5. tenants[t] < Cardinality(Command)
      BY <3>3, <3>4
    <3> QED BY <3>5 DEF t
  <2>2. DatabasesTypeOK' /\ ForeignKeys' /\ CallInv'
    BY <1>2, <1>4, <1>6, <1>7, <2>1, SaveKeeps
  <2>3. ASSUME NEW t \in Tenant
        PROVE  \/ tenants'[t] <= tenants[t] /\ (Creates1(r, t) => Creates1(sync[s], t))
               \/ tenants'[t] = tenants[t] + 1 /\ Creates1(sync[s], t) /\ ~Creates1(r, t)
    <3>1. CASE p.table = "tenant" /\ p.verb = "create" /\ t = Owner(p.key)
      BY <1>4, <1>6, <1>7, <3>1 DEF Save
    <3>2. CASE ~(p.table = "tenant" /\ p.verb = "create" /\ t = Owner(p.key))
      <4>1. tenants'[t] = tenants[t]
        BY <1>6, <1>7, <3>2 DEF Save
      <4> QED BY <1>4, <1>6, <4>1
    <3> QED BY <3>1, <3>2
  <2> QED BY <1>1, <1>4, <1>5, <2>2, <2>3, StepKeeps
<1>8. CASE Destroy(p)
  <2>1. DatabasesTypeOK' /\ ForeignKeys' /\ CallInv'
    BY <1>4, <1>6, <1>8, DestroyKeeps
  <2>2. ASSUME NEW t \in Tenant
        PROVE  \/ tenants'[t] = 0
               \/ tenants'[t] <= tenants[t] /\ (Creates1(r, t) => Creates1(sync[s], t))
    <3>1. tenants' = tenants \/ tenants' = [tenants EXCEPT ![Owner(p.key)] = 0]
      BY <1>8 DEF Destroy, DestroyParent, DestroyTenant, DestroyOther
    <3>2. tenants'[t] = tenants[t] \/ tenants'[t] = 0
      BY <1>6, <3>1
    <3> QED BY <1>4, <1>6, <3>2
  <2> QED BY <1>1, <1>4, <1>5, <2>1, <2>2, StepKeeps
<1> QED BY <1>2, <1>7, <1>8

LEMMA ServeControlKeeps ==
    ASSUME Inv, NEW s \in Command, ServeControl(s)
    PROVE  Inv'
<1> DEFINE c == sync[s]
           r == [c EXCEPT !.at = "serve", !.todo = {}]
<1>1. /\ c.at = "control" /\ Control(c.todo) /\ UNCHANGED <<irdb, changes>>
      /\ sync' = Disturb([sync EXCEPT ![s] = r], Command \ {s})
  BY DEF ServeControl
<1>2. c \in Working /\ SyncOK(c)
  BY <1>1, CommandType
<1>3. /\ IrdbOK(c.view) /\ \A p \in c.todo : ControlPduOK(p)
      /\ \A p \in c.later : PduOK(p, c.view) /\ p.table /= "tenant"
  BY <1>1, <1>2, WorkIs
<1>4. /\ r \in Working /\ r.at = "serve" /\ r.view = c.view /\ r.todo = {} /\ r.later = c.later
  BY <1>2 DEF Working
<1>5. Becomes(s, r)
  BY <1>1 DEF Becomes
<1> HIDE DEF r
<1>6. r \in Commands /\ SyncOK(r)
  BY <1>3, <1>4, WorkIs
<1>7. DatabasesTypeOK /\ ForeignKeys /\ CallInv /\ tenants \in [Tenant -> Nat]
  BY InvParts, TenantsType
<1>8. DatabasesTypeOK' /\ ForeignKeys' /\ CallInv'
  BY <1>1, <1>3, <1>7, ControlKeeps
<1>9. \A t : ~Creates1(r, t)
  BY <1>4 DEF Creates1
<1>10. tenants' = tenants
  BY <1>1 DEF Control, rpkid
<1>11. \A t \in Tenant : tenants'[t] <= tenants[t] /\ (Creates1(r, t) => Creates1(c, t))
  BY <1>7, <1>9, <1>10
<1> QED BY <1>1, <1>5, <1>6, <1>8, <1>11, StepKeeps

LEMMA FailKeeps ==
    ASSUME Inv, NEW s \in Command, PduFails(s) \/ DaemonFails(s)
    PROVE  Inv'
<1>1. DatabasesTypeOK /\ ForeignKeys /\ CallInv /\ tenants \in [Tenant -> Nat]
  BY InvParts, TenantsType
<1>2. Becomes(s, NotRunning) /\ UNCHANGED <<irdb, changes>>
  BY DEF PduFails, DaemonFails, Become, Becomes
<1>3. DatabasesTypeOK' /\ ForeignKeys' /\ CallInv' /\ tenants' = tenants
  <2>1. CASE PduFails(s)
    <3>1. sync[s].at \in {"tenant", "serve"}
      BY <2>1 DEF PduFails
    <3>2. PICK p \in NextPdus(sync[s].todo) : HookFails(p)
      BY <2>1 DEF PduFails
    <3>3. PduOK(p, sync[s].view)
      BY <3>1, NextPdusIn, TodoFacts
    <3> QED BY <1>1, <3>2, <3>3, DestroyKeeps DEF HookFails
  <2>2. CASE DaemonFails(s)
    <3>1. UNCHANGED <<tenants, rows, cas, clients, published, call>>
      BY <2>2 DEF DaemonFails, rpkid, pubd
    <3>2. troubles' \in 0 .. MaxTroubles
      BY <1>1, <2>2, TroublesType DEF DaemonFails
    <3> QED BY <1>1, <3>1, <3>2 DEF DatabasesTypeOK, ForeignKeys, CallInv, Has
  <2> QED BY <2>1, <2>2
<1>4. \A t \in Tenant :
        tenants'[t] <= tenants[t] /\ (Creates1(NotRunning, t) => Creates1(sync[s], t))
  BY <1>1, <1>3, NotRunningFacts
<1> QED BY <1>2, <1>3, <1>4, NotRunningFacts, StepKeeps

\* Steps of nobody's command.
LEMMA OtherKeeps ==
    ASSUME Inv, ChangeIrdb \/ RpkidWorks
    PROVE  Inv'
<1>1. /\ DatabasesTypeOK /\ ForeignKeys /\ CallInv /\ CreatesOnce /\ CommandsOK /\ IrdbOK(irdb)
      /\ tenants \in [Tenant -> Nat] /\ changes \in 0 .. MaxChanges
  BY InvParts, TenantsType
<1>2. CASE ChangeIrdb
  <2>1. \E db : Edit(db)
    BY <1>2 DEF ChangeIrdb, Initialize, DeleteTenant, ConfigureParent, DeleteParent,
                ConfigureRepository, DeleteRepository, ConfigureChild, DeleteChild,
                ConfigureClient, DeleteClient
  <2>2. /\ changes' \in 0 .. MaxChanges /\ sync' = Disturb(sync, Command)
        /\ UNCHANGED <<tenants, rows, cas, clients, published, call, troubles>>
    BY <1>1, <2>1, RunsAssumption DEF Edit, dbVars, rpkid, pubd
  <2>3. CommandsOK' /\ \A t : Creating(t)' = Creating(t)
    BY <1>1, <2>2, DisturbedCommands
  <2>4. IrdbOK(irdb')
    BY <1>1, <1>2, ChangeKeepsIrdb
  <2>5. CreatesOnce'
    BY <1>1, <2>2, <2>3 DEF CreatesOnce
  <2>6. DatabasesTypeOK' /\ ForeignKeys' /\ CallInv'
    BY <1>1, <2>2 DEF DatabasesTypeOK, ForeignKeys, CallInv, Has
  <2> QED BY <2>2, <2>3, <2>4, <2>5, <2>6 DEF Inv, ZookeeperInv, CommandsOK, Commands, CreatesOnce
<1>3. CASE RpkidWorks
  <2>1. OwnWork /\ UNCHANGED <<irdb, changes>> /\ (sync' = sync \/ sync' = Disturb(sync, Command))
    BY <1>3 DEF RpkidWorks
  <2>2. DatabasesTypeOK' /\ ForeignKeys' /\ CallInv'
    BY <1>1, <2>1, OwnWorkKeeps
  <2>3. CommandsOK' /\ \A t : Creating(t)' = Creating(t)
    BY <1>1, <2>1, DisturbedCommands
  <2>4. tenants' = tenants
    BY <2>1 DEF OwnWork, CertifyCA, PublishWorld, CallBegins, CallEnds, CallFails, rpkid
  <2>5. CreatesOnce'
    BY <1>1, <2>3, <2>4 DEF CreatesOnce
  <2> QED BY <1>1, <2>1, <2>2, <2>3, <2>5 DEF Inv, ZookeeperInv, CommandsOK, Commands, CreatesOnce
<1> QED BY <1>2, <1>3

-----------------------------------------------------------------------------
(***************************************************************************)
(* The theorems.                                                           *)
(***************************************************************************)

LEMMA InitOK == Init \/ InitSettled => Inv
<1> SUFFICES ASSUME Init \/ InitSettled PROVE Inv
  OBVIOUS
<1>1. IsFiniteSet(Command) /\ Cardinality(Command) \in Nat /\ Cardinality(Command) /= 0
  BY CommandAssumption, FS_CardinalityType, FS_EmptySet
<1>2. sync = [s \in Command |-> NotRunning] /\ changes = 0
  BY DEF Init, InitSettled
<1>3. CommandsOK /\ \A t : Creating(t) = {}
  <2>1. \A s \in Command : sync[s] = NotRunning
    BY <1>2
  <2> QED BY <1>2, <2>1, NotRunningFacts DEF CommandsOK, Creating, Creates1
<1>4. Cardinality({}) = 0
  BY FS_EmptySet
<1>5. call = Idle /\ troubles = 0
  BY DEF Init, InitSettled, InitDatabases
<1>6. CallInv
  BY <1>5 DEF CallInv
<1>7. CASE Init
  <2>1. IrdbOK(irdb)
    <3>1. /\ irdb = [holder |-> {}, parent |-> <<>>, repository |-> <<>>, child |-> <<>>,
                     client |-> <<>>]
      BY <1>7 DEF Init, EmptyIrdb
    <3>2. DOMAIN <<>> = {}
      OBVIOUS
    <3>3. \A K, V : <<>> \in Partial(K, V)
      <4> TAKE K, V
      <4>1. <<>> \in [{} -> V] /\ {} \in SUBSET K
        OBVIOUS
      <4> QED BY <4>1 DEF Partial
    <3> QED BY <3>1, <3>2, <3>3, IrdbIs
  <2>2. DatabasesTypeOK
    BY <1>1, <1>5, <1>7, BoundAssumption DEF Init, InitDatabases, DatabasesTypeOK, PartialTo
  <2>3. ForeignKeys
    BY <1>7 DEF Init, InitDatabases, ForeignKeys, Table
  <2>4. CreatesOnce
    <3>1. \A t \in Tenant : tenants[t] = 0
      BY <1>7 DEF Init, InitDatabases
    <3>2. \A t \in Tenant : Cardinality(Creating(t)) = 0
      BY <1>3, <1>4
    <3> QED BY <1>1, <3>1, <3>2 DEF CreatesOnce
  <2> QED BY <1>2, <1>3, <1>6, <2>1, <2>2, <2>3, <2>4, InvParts, RunsAssumption
<1>8. CASE InitSettled
  <2> DEFINE any == [table \in DOMAIN Conf |-> CHOOSE x \in Conf[table] : TRUE]
  <2>1. /\ any.parent \in Conf.parent /\ any.repository \in Conf.repository
        /\ any.child \in Conf.child /\ any.client \in Conf.client
    BY KeyAssumption
  <2>2. irdb = [holder |-> Tenant,
                parent |-> [k \in Link |-> any.parent],
                repository |-> [k \in Link |-> any.repository],
                child |-> [k \in Child |-> any.child],
                client |-> [k \in Link |-> any.client]]
    BY <1>8 DEF InitSettled
  <2> HIDE DEF any
  <2>3. /\ irdb.holder = Tenant
        /\ irdb.parent = [k \in Link |-> any.parent]
        /\ irdb.repository = [k \in Link |-> any.repository]
        /\ irdb.child = [k \in Child |-> any.child]
        /\ irdb.client = [k \in Link |-> any.client]
    BY <2>2
  <2>4. IrdbOK(irdb)
    <3>1. /\ irdb.parent \in Partial(Link, Conf.parent)
          /\ irdb.repository \in Partial(Link, Conf.repository)
          /\ irdb.child \in Partial(Child, Conf.child)
          /\ irdb.client \in Partial(Link, Conf.client)
      BY <2>1, <2>3, PartialDef DEF PartialTo
    <3>2. /\ DOMAIN irdb.repository \subseteq DOMAIN irdb.parent
          /\ \A k \in DOMAIN irdb.parent : Owner(k) \in irdb.holder
      BY <2>3, OwnerFacts
    <3> QED BY <2>2, <2>3, <3>1, <3>2, IrdbIs
  <2>5. /\ tenants = [t \in Tenant |-> 1]
        /\ rows = [bsc |-> [k \in {<<t>> : t \in Tenant} |-> "signed"],
                   repository |-> irdb.repository, parent |-> irdb.parent, child |-> irdb.child]
        /\ clients = irdb.client /\ cas = Link /\ published = Link
    BY <1>8 DEF InitSettled
  <2>6. /\ DOMAIN rows = Table
        /\ rows["bsc"] = [k \in {<<t>> : t \in Tenant} |-> "signed"]
        /\ rows["repository"] = irdb.repository
        /\ rows["parent"] = irdb.parent /\ rows["child"] = irdb.child
    BY <2>5 DEF Table
  <2>7. \A t \in Table : PartialTo(rows[t], Keys[t], Values[t])
    <3>1. PartialTo(rows["bsc"], Keys.bsc, {"new", "signed"})
      BY <2>6 DEF PartialTo, Keys
    <3>2. /\ PartialTo(rows["parent"], Link, Conf.parent)
          /\ PartialTo(rows["repository"], Link, Conf.repository)
          /\ PartialTo(rows["child"], Child, Conf.child)
      BY <2>4, <2>6, IrdbFacts
    <3> QED BY <3>1, <3>2, Tables DEF Table
  <2>8. DatabasesTypeOK
    BY <1>1, <1>5, <2>4, <2>5, <2>6, <2>7, IrdbFacts, BoundAssumption DEF DatabasesTypeOK
  <2>9. ForeignKeys
    <3>1. \A k \in Link : Has("bsc", <<Owner(k)>>)
      BY <2>6, OwnerFacts DEF Has
    <3> QED BY <2>3, <2>5, <2>6, <3>1 DEF ForeignKeys
  <2>10. CreatesOnce
    BY <1>1, <1>3, <1>4, <2>5 DEF CreatesOnce
  <2> QED BY <1>2, <1>3, <1>6, <2>4, <2>8, <2>9, <2>10, InvParts, RunsAssumption
<1> QED BY <1>7, <1>8

LEMMA NextKeeps == Inv /\ [Next]_vars => Inv'
<1> SUFFICES ASSUME Inv, [Next]_vars PROVE Inv'
  OBVIOUS
<1>1. CASE ChangeIrdb \/ RpkidWorks
  BY <1>1, OtherKeeps
<1>2. ASSUME NEW s \in Command, NEW cmd \in Runs[s], Begin(s, cmd) PROVE Inv'
  BY <1>2, BeginKeeps
<1>3. ASSUME NEW s \in Command, Step(s) PROVE Inv'
  BY <1>3, ReadTenantKeeps, SendMainKeeps, ReadDaemonKeeps, EndKeeps, ServePduKeeps,
     ServeControlKeeps DEF Step
<1>4. ASSUME NEW s \in Command, PduFails(s) \/ DaemonFails(s) PROVE Inv'
  BY <1>4, FailKeeps
<1>5. CASE UNCHANGED vars
  <2>1. UNCHANGED <<tenants, rows, cas, clients, published, call, troubles, irdb, sync, changes>>
    BY <1>5 DEF vars, dbVars, rpkid, pubd
  <2>2. \A t : Creating(t)' = Creating(t)
    BY <2>1 DEF Creating
  <2>3. CommandsOK' /\ CreatesOnce'
    BY <2>1, <2>2, InvParts DEF CommandsOK, CreatesOnce
  <2>4. DatabasesTypeOK' /\ ForeignKeys' /\ CallInv'
    BY <2>1, InvParts DEF DatabasesTypeOK, ForeignKeys, CallInv, Has
  <2> QED BY <2>1, <2>3, <2>4, InvParts DEF Inv, ZookeeperInv, CommandsOK, Commands, CreatesOnce
<1> QED BY <1>1, <1>2, <1>3, <1>4, <1>5 DEF Next

\* In every reachable state the databases have their types, and every command,
\* call and message knows of them what ZookeeperInv says.
THEOREM ZookeeperInvariant == Spec => []Inv
BY InitOK, NextKeeps, PTL DEF Spec

\* Whatever commands run at the same time, fail or see an old IRDB, rpkid never
\* has a parent without its repository and BSC, or keys without their parent,
\* nor pubd objects of no client.
THEOREM DatabasesAreRooted == Spec => []Rooted
<1>1. Inv => Rooted
  <2> SUFFICES ASSUME Inv PROVE Rooted
    OBVIOUS
  <2>1. DatabasesTypeOK /\ ForeignKeys /\ IrdbOK(irdb) /\ changes \in 0 .. MaxChanges
    BY InvParts
  <2>2. DOMAIN irdb.repository \subseteq DOMAIN irdb.parent
    BY <2>1, IrdbFacts
  <2>3. \A k \in DOMAIN rows["parent"] : Has("repository", k) /\ Has("bsc", <<Owner(k)>>)
    BY <2>1 DEF ForeignKeys, Has
  <2> QED BY <2>1, <2>2, <2>3 DEF Rooted, ForeignKeys
<1> QED BY <1>1, ZookeeperInvariant, PTL

\* The CAs that go with what a PDU destroys, or with what its hook had destroyed
\* before it failed, are CAs whose repository the view does not have.
LEMMA DestroysSeen ==
    ASSUME Inv, NEW p, NEW view, PduOK(p, view), IrdbOK(view), Destroy(p) \/ HookFails(p),
           NEW k \in cas \ cas'
    PROVE  k \notin DOMAIN view.repository
<1>1. /\ cas \subseteq DOMAIN rows["parent"]
      /\ DOMAIN view.repository \subseteq DOMAIN view.parent
      /\ \A x \in DOMAIN view.parent : Owner(x) \in view.holder
  BY InvParts, IrdbFacts DEF ForeignKeys
<1>2. "tenant" \notin Table /\ p.verb = "destroy"
  BY DEF Table, Destroy, HookFails
<1>3. CASE p.table = "tenant"
  <2>1. Owner(p.key) \notin view.holder
    BY <1>2, <1>3 DEF PduOK
  <2>2. Owner(k) = Owner(p.key)
    <3>1. CASE Destroy(p)
      BY <1>3, <3>1 DEF Destroy, DestroyParent, DestroyTenant, DestroyOther, Remove, Cascade
    <3>2. CASE HookFails(p)
      <4>1. PICK ks \in SUBSET ParentsOf(Owner(p.key)) : Remove({<<"parent", x>> : x \in ks})
        BY <1>3, <3>2 DEF HookFails
      <4>2. k \in ks
        BY <4>1 DEF Remove
      <4> QED BY <4>1, <4>2 DEF ParentsOf
    <3> QED BY <3>1, <3>2
  <2> QED BY <1>1, <2>1, <2>2
<1>4. CASE p.table /= "tenant"
  <2>1. Destroy(p)
    <3>1. ASSUME HookFails(p) PROVE FALSE
      <4>1. Remove({<<"parent", x>> : x \in {}})
        BY <1>4, <3>1 DEF HookFails
      <4> QED BY <4>1 DEF Remove
    <3> QED BY <3>1
  <2>2. k = p.key /\ p.table \in {"repository", "parent"}
    BY <1>4, <2>1 DEF Destroy, DestroyParent, DestroyTenant, DestroyOther, Remove, Cascade
  <2> QED BY <1>2, <2>2 DEF PduOK
<1> QED BY <1>3, <1>4

\* A CA loses its keys only by a command that saw its parent or its repository
\* deleted from the IRDB.
THEOREM KeysAreKept == Spec => KeysKept
<1>1. Inv /\ [Next]_vars =>
        [\A k \in cas \ cas' : \E s \in Running : k \notin DOMAIN sync[s].view.repository]_vars
  <2> SUFFICES ASSUME Inv, Next, NEW k \in cas \ cas'
               PROVE  \E s \in Running : k \notin DOMAIN sync[s].view.repository
    OBVIOUS
  <2>1. ASSUME NEW s \in Command, sync[s].at \in {"tenant", "serve"},
               NEW p \in NextPdus(sync[s].todo), Destroy(p) \/ HookFails(p)
        PROVE  \E x \in Running : k \notin DOMAIN sync[x].view.repository
    <3>1. PduOK(p, sync[s].view) /\ IrdbOK(sync[s].view)
      BY <2>1, NextPdusIn, TodoFacts
    <3>2. k \notin DOMAIN sync[s].view.repository
      BY <2>1, <3>1, DestroysSeen
    <3> QED BY <2>1, <3>2 DEF Running
  <2>2. CASE ChangeIrdb
    BY <2>2 DEF ChangeIrdb, Initialize, DeleteTenant, ConfigureParent, DeleteParent,
                ConfigureRepository, DeleteRepository, ConfigureChild, DeleteChild,
                ConfigureClient, DeleteClient, Edit, dbVars, rpkid
  <2>3. CASE RpkidWorks
    BY <2>3 DEF RpkidWorks, OwnWork, CertifyCA, PublishWorld, CallBegins, CallEnds, CallFails, rpkid
  <2>4. ASSUME NEW s \in Command, NEW cmd \in Runs[s], Begin(s, cmd)
        PROVE  FALSE
    BY <2>4 DEF Begin, dbVars, rpkid
  <2>5. ASSUME NEW s \in Command, Step(s)
        PROVE  \E x \in Running : k \notin DOMAIN sync[x].view.repository
    <3>1. CASE ServePdu(s)
      <4>1. PICK p \in NextPdus(sync[s].todo) : Save(p) \/ Destroy(p)
        BY <3>1 DEF ServePdu
      <4> QED BY <2>1, <3>1, <4>1 DEF ServePdu, Save
    <3>2. CASE ~ServePdu(s)
      BY <2>5, <3>2 DEF Step, ReadTenant, SendMain, ReadClients, ReadTenants, End, GiveUp,
                        ServeControl, Control, OnlySync, dbVars, rpkid
    <3> QED BY <3>1, <3>2
  <2>6. ASSUME NEW s \in Command, PduFails(s)
        PROVE  \E x \in Running : k \notin DOMAIN sync[x].view.repository
    BY <2>1, <2>6 DEF PduFails
  <2>7. ASSUME NEW s \in Command, DaemonFails(s)
        PROVE  FALSE
    BY <2>7 DEF DaemonFails, rpkid
  <2> QED BY <2>2, <2>3, <2>4, <2>5, <2>6, <2>7 DEF Next
<1> QED BY <1>1, ZookeeperInvariant, PTL DEF Spec, KeysKept

-----------------------------------------------------------------------------
(***************************************************************************)
(* A synchronisation that nobody disturbs.                                 *)
(***************************************************************************)

Main == {"repository", "parent", "child"}

\* The rows that a view wants of a table, and what they shall say.
WantKeys(u, view) == IF u = "child" THEN DOMAIN view.child ELSE DOMAIN view.repository

WantConf(u, view, k) ==
  CASE u = "repository" -> view.repository[k]
    [] u = "parent" -> view.parent[k]
    [] OTHER -> view.child[k]

\* Row k of table u is as the view wants it.
Agrees(u, view, k, rw) ==
  /\ k \in DOMAIN rw[u] <=> k \in WantKeys(u, view)
  /\ k \in DOMAIN rw[u] =>
       \/ rw[u][k] = WantConf(u, view, k)
       \/ u = "repository" /\ WantConf(u, view, k) = "plain"

\* Message msg will make it so: the parent of a repository that it destroys
\* goes with the repository.
Pending(msg, u, k) ==
  \/ \E q \in msg : q.table = u /\ q.key = k
  \/ u = "parent" /\ \E q \in msg : q.table = "repository" /\ q.key = k /\ q.verb = "destroy"

\* A PDU that makes the row it is about as the view wants it.
PduFits(q, view) ==
  /\ q.table \in Main
  /\ IF q.verb = "destroy" THEN q.key \notin WantKeys(q.table, view)
     ELSE q.key \in WantKeys(q.table, view) /\ q.conf = WantConf(q.table, view, q.key)

\* The tenants that a command has asked rpkid about.
Started(c) ==
  CASE c.cmd = "all" -> c.view.holder \ c.jobs.cas
    [] c.cmd = "ca" /\ c.jobs.cas = {} -> {c.ca}
    [] OTHER -> {}

\* How far a command is.
StageOK(c) ==
  /\ c.jobs.cas \subseteq c.view.holder /\ Started(c) \subseteq c.view.holder
  /\ c.at = "tenant" => c.ca \in Started(c)
  /\ c.at = "control" => c.cmd \in {"all", "pubd"} /\ c.jobs.rest \in {<<>>, <<"deleted">>}
  /\ CASE c.cmd = "all" ->
            /\ c.jobs.rest \in {<<"pubd", "deleted">>, <<"deleted">>, <<>>}
            /\ (c.jobs.cas /= {} \/ c.at = "tenant") => c.jobs.rest = <<"pubd", "deleted">>
       [] c.cmd = "ca" ->
            /\ c.jobs.rest = <<>> /\ \A x, y \in c.jobs.cas : x = y
       [] OTHER -> c.jobs.rest \in {<<>>, <<c.cmd>>} /\ c.jobs.cas = {} /\ c.at /= "tenant"

\* What a command has to send.
TodoOK(c, tn) ==
  /\ c.at = "tenant" =>
       /\ \A q \in c.todo : /\ q.key = <<c.ca>> /\ q.table \in {"tenant", "bsc"}
                            /\ q.verb /= "destroy"
                            /\ q.table = "tenant" /\ q.verb = "create" => tn[c.ca] = 0
       /\ \A q, r \in c.todo : q.table = "tenant" /\ r.table = "tenant" => q = r
       /\ \A q \in c.later : PduFits(q, c.view)
  /\ c.at /= "tenant" => c.later = {}
  /\ c.at = "serve" =>
       \A q \in c.todo : \/ q.table = "tenant" /\ q.verb = "destroy"
                         \/ q.table = "bsc" /\ q.verb = "set" /\ q.conf = "signed"
                         \/ PduFits(q, c.view)
  /\ c.at = "control" => \A q \in c.todo : q.table = "client"

\* pubd's clients, and the tenants that shall be gone.
ClientsOK(c, cl) ==
  c.cmd \in {"all", "pubd"} /\ c.jobs.rest \in {<<>>, <<"deleted">>} =>
    IF c.at = "control"
    THEN c.todo = Creates("client", c.view.client, cl) \cup Sets("client", c.view.client, cl)
                    \cup Destroys("client", DOMAIN c.view.client, cl)
    ELSE cl = c.view.client

DeletedOK(c, tn) ==
  c.cmd \in {"all", "deleted"} /\ c.jobs.rest = <<>> =>
    /\ c.at = "serve"
    /\ \A t \in Tenant \ c.view.holder :
         tn[t] = 0 \/ \E q \in c.todo : q.table = "tenant" /\ q.key = <<t>>

\* A tenant that the command has asked about, its BSC and its rows: each is
\* there as the view says, or will be by what there is to send.
TenantOK(c, t, tn, rw) ==
  /\ tn[t] = 1 \/ (c.at = "tenant" /\ t = c.ca /\ \E q \in c.todo : q.table = "tenant")
  /\ \/ c.at = "tenant" /\ t = c.ca
     \/ /\ <<t>> \in DOMAIN rw["bsc"]
        /\ \/ rw["bsc"][<<t>>] = "signed"
           \/ \E q \in c.todo : q.table = "bsc" /\ q.key = <<t>>
  /\ \A u \in Main : \A k \in Keys[u] :
       Owner(k) = t => Agrees(u, c.view, k, rw) \/ Pending(c.todo \cup c.later, u, k)

AloneOK(c, db, tn, rw, cl) ==
  /\ c.view = db
  /\ StageOK(c) /\ TodoOK(c, tn) /\ ClientsOK(c, cl) /\ DeletedOK(c, tn)
  /\ \A t \in Started(c) : TenantOK(c, t, tn, rw)

\* A command that was not disturbed knows what there is.
SyncsOK ==
  \A s \in Command :
    sync[s] \in Working /\ sync[s].alone => AloneOK(sync[s], irdb, tenants, rows, clients)

LEMMA NewCommands ==
    ASSUME Inv, NEW s \in Command, NEW cmd \in Runs[s], Begin(s, cmd)
    PROVE  AloneOK(sync'[s], irdb, tenants, rows, clients)
<1>1. PICK t \in IF cmd = "ca" THEN irdb.holder ELSE {"any"} :
        sync' = [sync EXCEPT ![s] =
                  [at |-> "serve", cmd |-> cmd, view |-> irdb, jobs |-> Jobs(cmd, irdb, t),
                   ca |-> "none", todo |-> {}, later |-> {}, alone |-> TRUE]]
  BY DEF Begin
<1> DEFINE c == [at |-> "serve", cmd |-> cmd, view |-> irdb, jobs |-> Jobs(cmd, irdb, t),
                 ca |-> "none", todo |-> {}, later |-> {}, alone |-> TRUE]
<1>2. sync'[s] = c
  BY <1>1, InvParts DEF CommandsOK
<1>3. /\ c.at = "serve" /\ c.cmd = cmd /\ c.view = irdb /\ c.jobs = Jobs(cmd, irdb, t)
      /\ c.todo = {} /\ c.later = {}
  OBVIOUS
<1> HIDE DEF c
<1>4. cmd \in {"all", "ca", "deleted", "pubd"}
  BY RunsAssumption
<1>5. StageOK(c) /\ Started(c) = {}
  <2>1. CASE cmd = "all"
    BY <1>3, <2>1 DEF StageOK, Started, Jobs
  <2>2. CASE cmd = "ca"
    BY <1>1, <1>3, <2>2 DEF StageOK, Started, Jobs
  <2>3. CASE cmd \in {"deleted", "pubd"}
    BY <1>3, <2>3 DEF StageOK, Started, Jobs
  <2> QED BY <1>4, <2>1, <2>2, <2>3
<1>6. TodoOK(c, tenants)
  BY <1>3 DEF TodoOK
<1>7. ClientsOK(c, clients) /\ DeletedOK(c, tenants)
  <2>1. CASE cmd = "all"
    BY <1>3, <2>1 DEF ClientsOK, DeletedOK, Jobs
  <2>2. CASE cmd = "ca"
    BY <1>3, <2>2 DEF ClientsOK, DeletedOK
  <2>3. CASE cmd \in {"deleted", "pubd"}
    BY <1>3, <2>3 DEF ClientsOK, DeletedOK, Jobs
  <2> QED BY <1>4, <2>1, <2>2, <2>3
<1> QED BY <1>2, <1>3, <1>5, <1>6, <1>7 DEF AloneOK

\* The main message fits, and covers every row of the tenant.
LEMMA MainMessageFits ==
    ASSUME NEW view, IrdbOK(view), NEW t, NEW p \in MainMessage(view, t)
    PROVE  PduFits(p, view)
<1>1. PICK table \in Main :
        LET have == Restrict(rows[table], {k \in DOMAIN rows[table] : Owner(k) = t})
            want == Wanted(table, view, t)
        IN p \in Creates(table, want, have) \cup Sets(table, want, have)
                   \cup Destroys(table, Known(table, view), have)
  BY DEF MainMessage, Main
<1> DEFINE have == Restrict(rows[table], {k \in DOMAIN rows[table] : Owner(k) = t})
           want == Wanted(table, view, t)
<1>2. \A k \in DOMAIN want : k \in WantKeys(table, view) /\ want[k] = WantConf(table, view, k)
  <2>1. CASE table = "repository"
    BY <2>1 DEF Wanted, Restrict, WantKeys, WantConf
  <2>2. CASE table = "parent"
    BY <2>2 DEF Wanted, Restrict, WantKeys, WantConf
  <2>3. CASE table = "child"
    BY <2>3 DEF Wanted, Restrict, WantKeys, WantConf
  <2> QED BY <2>1, <2>2, <2>3 DEF Main
<1>3. \A k : k \notin Known(table, view) => k \notin WantKeys(table, view)
  BY IrdbFacts DEF Known, WantKeys, Main
<1> HIDE DEF want, have
<1>4. CASE p \in Creates(table, want, have) \cup Sets(table, want, have)
  <2>1. PICK verb \in {"create", "set"}, k \in DOMAIN want : p = Pdu(verb, table, k, want[k])
    BY <1>4 DEF Creates, Sets
  <2> QED BY <1>2, <2>1 DEF PduFits, Pdu
<1>5. CASE p \in Destroys(table, Known(table, view), have)
  <2>1. PICK k \in DOMAIN have \ Known(table, view) : p = Pdu("destroy", table, k, "none")
    BY <1>5 DEF Destroys
  <2> QED BY <1>3, <2>1 DEF PduFits, Pdu
<1> QED BY <1>1, <1>4, <1>5 DEF want, have

LEMMA MainMessageCovers ==
    ASSUME ForeignKeys, NEW view, IrdbOK(view), NEW t,
           NEW u \in Main, NEW k, Owner(k) = t
    PROVE  Agrees(u, view, k, rows) \/ Pending(MainMessage(view, t), u, k)
<1> DEFINE have(v) == Restrict(rows[v], {x \in DOMAIN rows[v] : Owner(x) = t})
           want(v) == Wanted(v, view, t)
           part(v) == Creates(v, want(v), have(v)) \cup Sets(v, want(v), have(v))
                        \cup Destroys(v, Known(v, view), have(v))
<1>1. \A v \in Main : part(v) \subseteq MainMessage(view, t)
  BY DEF MainMessage, Main
<1>2. \A v \in Main : /\ k \in DOMAIN have(v) <=> k \in DOMAIN rows[v]
                      /\ k \in DOMAIN rows[v] => have(v)[k] = rows[v][k]
  BY DEF Restrict
<1>3. ASSUME NEW v \in Main
      PROVE  /\ k \in DOMAIN want(v) <=> k \in WantKeys(v, view)
             /\ k \in DOMAIN want(v) => want(v)[k] = WantConf(v, view, k)
  <2>1. CASE v = "repository"
    BY <2>1 DEF Wanted, Restrict, WantKeys, WantConf
  <2>2. CASE v = "parent"
    BY <2>2, IrdbFacts DEF Wanted, Restrict, WantKeys, WantConf
  <2>3. CASE v = "child"
    BY <2>3 DEF Wanted, Restrict, WantKeys, WantConf
  <2> QED BY <2>1, <2>2, <2>3 DEF Main
<1> HIDE DEF have, want
<1>4. CASE k \in DOMAIN want(u)
  <2>1. CASE k \notin DOMAIN have(u)
    <3>1. Pdu("create", u, k, want(u)[k]) \in part(u)
      BY <1>4, <2>1 DEF Creates
    <3> QED BY <1>1, <3>1 DEF Pending, Pdu
  <2>2. CASE k \in DOMAIN have(u) /\ want(u)[k] /= have(u)[k]
    <3>1. Pdu("set", u, k, want(u)[k]) \in part(u)
      BY <1>4, <2>2 DEF Sets
    <3> QED BY <1>1, <3>1 DEF Pending, Pdu
  <2>3. CASE k \in DOMAIN have(u) /\ want(u)[k] = have(u)[k]
    BY <1>2, <1>3, <1>4, <2>3 DEF Agrees
  <2> QED BY <2>1, <2>2, <2>3
<1>5. CASE k \notin DOMAIN want(u) /\ k \notin DOMAIN have(u)
  BY <1>2, <1>3, <1>5 DEF Agrees
<1>6. CASE k \notin DOMAIN want(u) /\ k \in DOMAIN have(u)
  <2>1. CASE k \notin Known(u, view)
    <3>1. Pdu("destroy", u, k, "none") \in part(u)
      BY <1>6, <2>1 DEF Destroys
    <3> QED BY <1>1, <3>1 DEF Pending, Pdu
  <2>2. CASE k \in Known(u, view)
    <3>1. u = "parent" /\ k \notin DOMAIN view.repository
      BY <1>3, <1>6, <2>2 DEF Known, WantKeys, Main
    <3>2. k \in DOMAIN rows["repository"]
      BY <1>2, <1>6, <3>1 DEF ForeignKeys
    <3>3. k \in DOMAIN have("repository") /\ k \notin Known("repository", view)
      BY <1>2, <3>1, <3>2 DEF Main, Known
    <3>4. Pdu("destroy", "repository", k, "none") \in part("repository")
      BY <3>3 DEF Destroys
    <3>5. Pdu("destroy", "repository", k, "none") \in MainMessage(view, t)
      BY <1>1, <3>4 DEF Main
    <3> QED BY <3>1, <3>5 DEF Pending, Pdu
  <2> QED BY <2>1, <2>2
<1> QED BY <1>4, <1>5, <1>6

\* The record of a command that asks rpkid about a tenant.
LEMMA ReadsTenant ==
    ASSUME Inv, NEW s \in Command, ReadTenant(s),
           AloneOK(sync[s], irdb, tenants, rows, clients)
    PROVE  AloneOK(sync'[s], irdb, tenants, rows, clients)
<1> DEFINE c == sync[s]
           d == sync'[s]
<1>1. c \in Working /\ SyncOK(c) /\ c.at = "serve" /\ c.todo = {} /\ s \in DOMAIN sync
  BY CommandType, InvParts DEF ReadTenant, Ready, CommandsOK
<1>2. PICK t \in c.jobs.cas :
        sync' = [sync EXCEPT ![s] =
                   [c EXCEPT !.at = "tenant", !.ca = t, !.jobs.cas = @ \ {t},
                             !.todo = TenantMessage(t), !.later = MainMessage(c.view, t)]]
  BY DEF ReadTenant, Become
<1>3. d = [c EXCEPT !.at = "tenant", !.ca = t, !.jobs.cas = @ \ {t},
                    !.todo = TenantMessage(t), !.later = MainMessage(c.view, t)]
  BY <1>1, <1>2
<1>4. /\ d.at = "tenant" /\ d.ca = t /\ d.jobs.cas = c.jobs.cas \ {t} /\ d.jobs.rest = c.jobs.rest
      /\ d.todo = TenantMessage(t) /\ d.later = MainMessage(c.view, t)
      /\ d.cmd = c.cmd /\ d.view = c.view
  BY <1>1, <1>3 DEF Working
<1>5. IrdbOK(c.view) /\ t \in Tenant
  BY <1>1, <1>2, WorkIs DEF Working
<1>6. /\ c.view = irdb /\ StageOK(c) /\ ClientsOK(c, clients) /\ DeletedOK(c, tenants)
      /\ \A x \in Started(c) : TenantOK(c, x, tenants, rows)
      /\ c.later = {}
  BY <1>1 DEF AloneOK, TodoOK
<1> HIDE DEF c, d
<1>7. c.cmd \in {"all", "ca"}
  BY <1>1, <1>2, <1>6 DEF StageOK, Working
<1>8. StageOK(d) /\ Started(d) \subseteq Started(c) \cup {t}
  <2>1. CASE c.cmd = "all"
    BY <1>2, <1>4, <1>6, <2>1 DEF StageOK, Started
  <2>2. CASE c.cmd = "ca"
    BY <1>2, <1>4, <1>6, <2>2 DEF StageOK, Started
  <2> QED BY <1>7, <2>1, <2>2
<1>9. \A p \in TenantMessage(t) :
        /\ p.key = <<t>> /\ p.table \in {"tenant", "bsc"} /\ p.verb /= "destroy"
        /\ p.table = "tenant" /\ p.verb = "create" => tenants[t] = 0
  BY DEF TenantMessage, Pdu
<1>10. /\ \A p, q \in TenantMessage(t) : p.table = "tenant" /\ q.table = "tenant" => p = q
       /\ \E p \in TenantMessage(t) : p.table = "tenant"
  <2> DEFINE first == Pdu(IF tenants[t] = 0 THEN "create" ELSE "set", "tenant", <<t>>, "none")
  <2>1. first.table = "tenant" /\ Pdu("create", "bsc", <<t>>, "new").table = "bsc"
    BY DEF Pdu
  <2>2. /\ first \in TenantMessage(t)
        /\ \A p \in TenantMessage(t) : p = first \/ p = Pdu("create", "bsc", <<t>>, "new")
    BY DEF TenantMessage
  <2> HIDE DEF first
  <2> QED BY <2>1, <2>2
<1>11. TodoOK(d, tenants)
  BY <1>4, <1>5, <1>9, <1>10, MainMessageFits DEF TodoOK
<1>12. ClientsOK(d, clients) /\ DeletedOK(d, tenants)
  <2>1. CASE c.cmd = "all"
    <3>1. c.jobs.rest = <<"pubd", "deleted">>
      BY <1>2, <1>6, <2>1 DEF StageOK
    <3> QED BY <1>4, <2>1, <3>1 DEF ClientsOK, DeletedOK
  <2>2. CASE c.cmd = "ca"
    BY <1>4, <2>2 DEF ClientsOK, DeletedOK
  <2> QED BY <1>7, <2>1, <2>2
<1>13. ASSUME NEW x \in Started(d) PROVE TenantOK(d, x, tenants, rows)
  <2>1. CASE x = t
    <3>1. ASSUME NEW u \in Main, NEW k \in Keys[u], Owner(k) = t
          PROVE  Agrees(u, d.view, k, rows) \/ Pending(d.todo \cup d.later, u, k)
      <4>1. ForeignKeys
        BY InvParts
      <4>2. Agrees(u, c.view, k, rows) \/ Pending(MainMessage(c.view, t), u, k)
        BY <1>5, <3>1, <4>1, MainMessageCovers
      <4> QED BY <1>4, <4>2 DEF Pending
    <3> QED BY <1>4, <1>10, <2>1, <3>1 DEF TenantOK
  <2>2. CASE x /= t
    <3>1. x \in Started(c)
      BY <1>8, <2>2
    <3>2. TenantOK(c, x, tenants, rows)
      BY <1>6, <3>1
    <3>3. \A u \in Main : \A k \in Keys[u] : Owner(k) = x => Agrees(u, c.view, k, rows)
      BY <1>1, <1>6, <3>2 DEF TenantOK, Pending
    <3>4. tenants[x] = 1 /\ <<x>> \in DOMAIN rows["bsc"] /\ rows["bsc"][<<x>>] = "signed"
      BY <1>1, <3>2 DEF TenantOK
    <3> QED BY <1>4, <3>3, <3>4 DEF TenantOK
  <2> QED BY <2>1, <2>2
<1>14. AloneOK(d, irdb, tenants, rows, clients)
  BY <1>4, <1>6, <1>8, <1>11, <1>12, <1>13 DEF AloneOK
<1> QED BY <1>14 DEF d

LEMMA SendsMain ==
    ASSUME Inv, NEW s \in Command, SendMain(s),
           AloneOK(sync[s], irdb, tenants, rows, clients)
    PROVE  AloneOK(sync'[s], irdb, tenants, rows, clients)
<1> DEFINE c == sync[s]
           d == sync'[s]
           sign == IF rows["bsc"][<<c.ca>>] = "signed" THEN {}
                   ELSE {Pdu("set", "bsc", <<c.ca>>, "signed")}
<1>1. /\ c \in Working /\ SyncOK(c) /\ s \in DOMAIN sync
      /\ c.at = "tenant" /\ c.todo = {} /\ <<c.ca>> \in DOMAIN rows["bsc"]
      /\ sync' = [sync EXCEPT ![s] = [c EXCEPT !.at = "serve", !.todo = c.later \cup sign, !.later = {}]]
  BY CommandType, InvParts DEF SendMain, CommandsOK, Become, Has
<1>2. d = [c EXCEPT !.at = "serve", !.todo = c.later \cup sign, !.later = {}]
  BY <1>1
<1>3. /\ d.at = "serve" /\ d.todo = c.later \cup sign /\ d.later = {}
      /\ d.cmd = c.cmd /\ d.view = c.view /\ d.jobs = c.jobs /\ d.ca = c.ca
  BY <1>1, <1>2 DEF Working
<1>4. /\ c.view = irdb /\ StageOK(c) /\ ClientsOK(c, clients) /\ DeletedOK(c, tenants)
      /\ TodoOK(c, tenants) /\ \A x \in Started(c) : TenantOK(c, x, tenants, rows)
  BY DEF AloneOK
<1>5. /\ \A p \in sign : p.table = "bsc" /\ p.verb = "set" /\ p.conf = "signed" /\ p.key = <<c.ca>>
      /\ rows["bsc"][<<c.ca>>] /= "signed" => \E p \in sign : p.table = "bsc" /\ p.key = <<c.ca>>
  <2> DEFINE p == Pdu("set", "bsc", <<c.ca>>, "signed")
  <2>1. p.table = "bsc" /\ p.verb = "set" /\ p.conf = "signed" /\ p.key = <<c.ca>>
    BY DEF Pdu
  <2>2. sign = IF rows["bsc"][<<c.ca>>] = "signed" THEN {} ELSE {p}
    OBVIOUS
  <2> HIDE DEF p, sign
  <2> QED BY <2>1, <2>2
<1> HIDE DEF c, d, sign
<1>6. StageOK(d) /\ Started(d) = Started(c)
  BY <1>3, <1>4 DEF StageOK, Started
<1>7. TodoOK(d, tenants)
  BY <1>1, <1>3, <1>4, <1>5 DEF TodoOK
<1>8. ClientsOK(d, clients) /\ DeletedOK(d, tenants)
  <2>1. CASE c.cmd = "all"
    <3>1. c.jobs.rest = <<"pubd", "deleted">>
      BY <1>1, <1>4, <2>1 DEF StageOK
    <3> QED BY <1>3, <2>1, <3>1 DEF ClientsOK, DeletedOK
  <2>2. CASE c.cmd /= "all"
    <3>1. c.cmd = "ca"
      BY <1>1, <1>4, <2>2 DEF StageOK, Started
    <3> QED BY <1>3, <3>1 DEF ClientsOK, DeletedOK
  <2> QED BY <2>1, <2>2
<1>9. ASSUME NEW x \in Started(d) PROVE TenantOK(d, x, tenants, rows)
  <2>1. TenantOK(c, x, tenants, rows)
    BY <1>4, <1>6
  <2>2. tenants[x] = 1
    BY <1>1, <2>1 DEF TenantOK
  <2>3. \A u, k : Pending(c.todo \cup c.later, u, k) => Pending(d.todo \cup d.later, u, k)
    BY <1>1, <1>3 DEF Pending
  <2>4. \A u \in Main : \A k \in Keys[u] :
          Owner(k) = x => Agrees(u, d.view, k, rows) \/ Pending(d.todo \cup d.later, u, k)
    BY <1>3, <2>1, <2>3 DEF TenantOK
  <2>5. /\ <<x>> \in DOMAIN rows["bsc"]
        /\ rows["bsc"][<<x>>] = "signed" \/ \E q \in d.todo : q.table = "bsc" /\ q.key = <<x>>
    <3>1. CASE x = c.ca
      BY <1>1, <1>3, <1>5, <3>1
    <3>2. CASE x /= c.ca
      BY <1>1, <2>1, <3>2 DEF TenantOK
    <3> QED BY <3>1, <3>2
  <2> QED BY <2>2, <2>4, <2>5 DEF TenantOK
<1>10. AloneOK(d, irdb, tenants, rows, clients)
  BY <1>3, <1>4, <1>6, <1>7, <1>8, <1>9 DEF AloneOK
<1> QED BY <1>10 DEF d

LEMMA Rests ==
    /\ <<"pubd", "deleted">> /= <<"deleted">> /\ <<"pubd", "deleted">> /= <<>> /\ <<"deleted">> /= <<>>
    /\ \A x : <<x>> /= <<>> /\ Head(<<x>>) = x /\ Tail(<<x>>) = <<>>
    /\ Head(<<"pubd", "deleted">>) = "pubd" /\ Tail(<<"pubd", "deleted">>) = <<"deleted">>
OBVIOUS

LEMMA ReadsDaemon ==
    ASSUME Inv, NEW s \in Command, ReadClients(s) \/ ReadTenants(s),
           AloneOK(sync[s], irdb, tenants, rows, clients)
    PROVE  AloneOK(sync'[s], irdb, tenants, rows, clients)
<1> DEFINE c == sync[s]
           d == sync'[s]
<1>1. /\ c \in Working /\ SyncOK(c) /\ s \in DOMAIN sync
      /\ c.at = "serve" /\ c.todo = {} /\ c.jobs.cas = {} /\ c.jobs.rest /= <<>>
      /\ \/ /\ Head(c.jobs.rest) = "pubd"
            /\ d = [c EXCEPT !.at = "control", !.jobs.rest = Tail(@), !.todo = ControlMessage(c.view)]
         \/ /\ Head(c.jobs.rest) = "deleted"
            /\ d = [c EXCEPT !.at = "serve", !.jobs.rest = Tail(@), !.todo = DeletedMessage(c.view)]
  BY CommandType, InvParts DEF ReadClients, ReadTenants, Ready, CommandsOK, Become
<1>2. /\ d.jobs.cas = {} /\ d.jobs.rest = Tail(c.jobs.rest) /\ d.later = c.later
      /\ d.cmd = c.cmd /\ d.view = c.view /\ d.ca = c.ca
      /\ \/ Head(c.jobs.rest) = "pubd" /\ d.at = "control" /\ d.todo = ControlMessage(c.view)
         \/ Head(c.jobs.rest) = "deleted" /\ d.at = "serve" /\ d.todo = DeletedMessage(c.view)
  <2>1. CASE /\ Head(c.jobs.rest) = "pubd"
             /\ d = [c EXCEPT !.at = "control", !.jobs.rest = Tail(@), !.todo = ControlMessage(c.view)]
    <3> DEFINE jobs == [c.jobs EXCEPT !.rest = Tail(@)]
               todo == ControlMessage(c.view)
    <3>1. d = [c EXCEPT !.at = "control", !.jobs = jobs, !.todo = todo]
      BY <2>1
    <3>2. jobs.cas = {} /\ jobs.rest = Tail(c.jobs.rest)
      BY <1>1 DEF Working
    <3> HIDE DEF jobs, todo, c, d
    <3>3. /\ d.jobs = jobs /\ d.later = c.later /\ d.at = "control" /\ d.todo = todo
          /\ d.cmd = c.cmd /\ d.view = c.view /\ d.ca = c.ca
      BY <1>1, <3>1 DEF Working
    <3> QED BY <2>1, <3>2, <3>3 DEF todo
  <2>2. CASE /\ Head(c.jobs.rest) = "deleted"
             /\ d = [c EXCEPT !.at = "serve", !.jobs.rest = Tail(@), !.todo = DeletedMessage(c.view)]
    <3> DEFINE jobs == [c.jobs EXCEPT !.rest = Tail(@)]
               todo == DeletedMessage(c.view)
    <3>1. d = [c EXCEPT !.at = "serve", !.jobs = jobs, !.todo = todo]
      BY <2>2
    <3>2. jobs.cas = {} /\ jobs.rest = Tail(c.jobs.rest)
      BY <1>1 DEF Working
    <3> HIDE DEF jobs, todo, c, d
    <3>3. /\ d.jobs = jobs /\ d.later = c.later /\ d.at = "serve" /\ d.todo = todo
          /\ d.cmd = c.cmd /\ d.view = c.view /\ d.ca = c.ca
      BY <1>1, <3>1 DEF Working
    <3> QED BY <2>2, <3>2, <3>3 DEF todo
  <2> QED BY <1>1, <2>1, <2>2
<1>3. /\ c.view = irdb /\ StageOK(c) /\ ClientsOK(c, clients) /\ DeletedOK(c, tenants)
      /\ c.later = {} /\ \A x \in Started(c) : TenantOK(c, x, tenants, rows)
      /\ c.cmd \in {"all", "ca", "deleted", "pubd"} /\ IrdbOK(c.view)
  BY <1>1, WorkIs DEF AloneOK, TodoOK, Working
<1> HIDE DEF c, d
<1>4. /\ c.cmd \in {"all", "deleted", "pubd"}
      /\ c.cmd = "all" => c.jobs.rest \in {<<"pubd", "deleted">>, <<"deleted">>}
      /\ c.cmd /= "all" => c.jobs.rest = <<c.cmd>>
  BY <1>1, <1>3 DEF StageOK
<1>5. /\ c.cmd = "all" =>
           \/ d.jobs.rest = <<"deleted">> /\ c.jobs.rest = <<"pubd", "deleted">> /\ d.at = "control"
           \/ d.jobs.rest = <<>> /\ c.jobs.rest = <<"deleted">> /\ d.at = "serve"
      /\ c.cmd = "pubd" => d.jobs.rest = <<>> /\ d.at = "control"
      /\ c.cmd = "deleted" => d.jobs.rest = <<>> /\ d.at = "serve"
  <2>1. CASE c.jobs.rest = <<"pubd", "deleted">>
    <3>1. Head(c.jobs.rest) = "pubd" /\ d.jobs.rest = <<"deleted">>
      BY <1>2, <2>1, Rests
    <3>2. c.cmd = "all"
      BY <1>4, <2>1
    <3> QED BY <1>2, <2>1, <3>1, <3>2
  <2>2. CASE c.jobs.rest = <<"deleted">>
    <3>1. Head(c.jobs.rest) = "deleted" /\ d.jobs.rest = <<>>
      BY <1>2, <2>2, Rests
    <3>2. c.cmd \in {"all", "deleted"}
      BY <1>4, <2>2, Rests
    <3> QED BY <1>2, <2>2, <3>1, <3>2
  <2>3. CASE c.jobs.rest = <<"pubd">>
    <3>1. Head(c.jobs.rest) = "pubd" /\ d.jobs.rest = <<>>
      BY <1>2, <2>3, Rests
    <3>2. c.cmd = "pubd"
      BY <1>4, <2>3
    <3> QED BY <1>2, <2>3, <3>1, <3>2
  <2> QED BY <1>4, <2>1, <2>2, <2>3
<1>6. StageOK(d) /\ Started(d) = Started(c)
  <2>1. Started(d) = Started(c)
    BY <1>1, <1>2 DEF Started
  <2>2. d.at /= "tenant" /\ (d.at = "control" => d.cmd \in {"all", "pubd"} /\ d.jobs.rest \in {<<>>, <<"deleted">>})
    BY <1>2, <1>4, <1>5
  <2> QED BY <1>2, <1>3, <1>4, <1>5, <2>1, <2>2 DEF StageOK
<1>7. /\ d.at = "control" => \A q \in d.todo : q.table = "client"
      /\ d.at = "serve" => \A q \in d.todo : q.table = "tenant" /\ q.verb = "destroy"
  BY <1>2 DEF ControlMessage, Creates, Sets, Destroys, DeletedMessage, Pdu
<1>8. TodoOK(d, tenants)
  BY <1>2, <1>3, <1>7 DEF TodoOK
<1>9. ClientsOK(d, clients)
  <2>1. CASE d.at = "control"
    BY <1>2, <2>1 DEF ClientsOK, ControlMessage
  <2>2. CASE d.at = "serve"
    BY <1>1, <1>2, <1>3, <1>4, <1>5, <2>2 DEF ClientsOK
  <2> QED BY <1>2, <2>1, <2>2
<1>10. DeletedOK(d, tenants)
  <2>1. SUFFICES ASSUME c.cmd \in {"all", "deleted"}, d.jobs.rest = <<>>
                 PROVE  /\ d.at = "serve"
                        /\ \A t \in Tenant \ c.view.holder :
                             tenants[t] = 0 \/ \E q \in d.todo : q.table = "tenant" /\ q.key = <<t>>
    BY <1>2 DEF DeletedOK
  <2>2. d.at = "serve" /\ d.todo = DeletedMessage(c.view)
    BY <1>2, <1>5, <2>1, Rests
  <2>3. ASSUME NEW t \in Tenant \ c.view.holder, tenants[t] /= 0
        PROVE  \E q \in d.todo : q.table = "tenant" /\ q.key = <<t>>
    <3>1. tenants[t] > 0
      BY <2>3, InvParts, TenantsType
    <3>2. Pdu("destroy", "tenant", <<t>>, "none") \in d.todo
      BY <2>2, <3>1 DEF DeletedMessage
    <3> QED BY <3>2 DEF Pdu
  <2> QED BY <2>2, <2>3
<1>11. ASSUME NEW x \in Started(d) PROVE TenantOK(d, x, tenants, rows)
  <2>1. TenantOK(c, x, tenants, rows)
    BY <1>3, <1>6
  <2> QED BY <1>1, <1>2, <1>3, <2>1 DEF TenantOK, Pending
<1>12. AloneOK(d, irdb, tenants, rows, clients)
  BY <1>2, <1>3, <1>6, <1>8, <1>9, <1>10, <1>11 DEF AloneOK
<1> QED BY <1>12 DEF d

\* The rest of a message, after PDU p.
LEMMA RestFacts ==
    ASSUME Inv, NEW s \in Command, sync[s].at \in {"tenant", "serve"}, NEW p \in sync[s].todo
    PROVE  LET d == [sync[s] EXCEPT !.todo = @ \ {p}] IN
           /\ d.at = sync[s].at /\ d.cmd = sync[s].cmd /\ d.view = sync[s].view
           /\ d.jobs = sync[s].jobs /\ d.ca = sync[s].ca /\ d.later = sync[s].later
           /\ d.todo = sync[s].todo \ {p} /\ d.alone = sync[s].alone
           /\ d \in Working /\ sync[s] \in Working /\ IrdbOK(sync[s].view)
           /\ PduOK(p, sync[s].view)
<1>1. sync[s] \in Working /\ SyncOK(sync[s])
  BY CommandType
<1> QED BY <1>1, WorkIs DEF Working

\* What does not depend on the databases, and pubd's clients.
LEMMA RestStage ==
    ASSUME NEW c, NEW d, NEW p, c.at \in {"tenant", "serve"}, StageOK(c),
           d.at = c.at, d.cmd = c.cmd, d.view = c.view, d.jobs = c.jobs, d.ca = c.ca,
           d.later = c.later, d.todo = c.todo \ {p}
    PROVE  /\ StageOK(d) /\ Started(d) = Started(c) /\ Started(c) \subseteq c.view.holder
           /\ \A cl : ClientsOK(c, cl) => ClientsOK(d, cl)
<1>1. Started(d) = Started(c)
  BY DEF Started
<1>2. StageOK(d) /\ Started(c) \subseteq c.view.holder
  BY <1>1 DEF StageOK
<1>3. \A cl : ClientsOK(c, cl) => ClientsOK(d, cl)
  BY DEF ClientsOK
<1> QED BY <1>1, <1>2, <1>3

\* A PDU about a tenant or a BSC, that does not destroy it.
LEMMA SetupPdu ==
    ASSUME Inv, NEW c, NEW d, NEW p \in c.todo, NEW tn, NEW rw,
           c.at \in {"tenant", "serve"}, IrdbOK(c.view), StageOK(c), TodoOK(c, tenants),
           DeletedOK(c, tenants),
           \A t \in Started(c) : TenantOK(c, t, tenants, rows),
           p.verb /= "destroy", p.table \in {"tenant", "bsc"},
           d.at = c.at, d.cmd = c.cmd, d.view = c.view, d.jobs = c.jobs, d.ca = c.ca,
           d.later = c.later, d.todo = c.todo \ {p},
           \A u \in Main : rw[u] = rows[u],
           p.table = "tenant" => rw = rows /\ tn[c.ca] = 1 /\ \A t \in Tenant : t /= c.ca => tn[t] = tenants[t],
           p.table = "bsc" =>
             /\ tn = tenants
             /\ DOMAIN rw["bsc"] = DOMAIN rows["bsc"] \cup {p.key}
             /\ rw["bsc"][p.key] = p.conf
             /\ \A k \in DOMAIN rows["bsc"] : k /= p.key => rw["bsc"][k] = rows["bsc"][k]
    PROVE  TodoOK(d, tn) /\ DeletedOK(d, tn) /\ \A t \in Started(c) : TenantOK(d, t, tn, rw)
<1>1. p.table = "tenant" => c.at = "tenant"
  BY DEF TodoOK, PduFits, Main
<1>2. TodoOK(d, tn)
  <2>1. CASE c.at = "tenant"
    BY <2>1 DEF TodoOK
  <2>2. CASE c.at = "serve"
    BY <2>2, <1>1 DEF TodoOK
  <2> QED BY <2>1, <2>2
<1>3. DeletedOK(d, tn)
  <2>1. CASE c.at = "tenant"
    <3>1. ~(c.cmd \in {"all", "deleted"} /\ c.jobs.rest = <<>>)
      BY <2>1 DEF DeletedOK
    <3> QED BY <3>1 DEF DeletedOK
  <2>2. CASE c.at = "serve"
    <3>1. p.table = "bsc" /\ tn = tenants
      BY <1>1, <2>2
    <3>2. \A q \in c.todo : q.table = "tenant" => q \in d.todo
      BY <3>1
    <3>3. d.at = "serve" /\ d.view = c.view /\ d.cmd = c.cmd /\ d.jobs = c.jobs
      BY <2>2
    <3> QED BY <3>1, <3>2, <3>3, <2>2 DEF DeletedOK
  <2> QED BY <2>1, <2>2
<1>4. ASSUME NEW t \in Started(c) PROVE TenantOK(d, t, tn, rw)
  <2>1. TenantOK(c, t, tenants, rows) /\ t \in Tenant
    <3>1. t \in c.view.holder
      BY DEF StageOK
    <3> QED BY <3>1, IrdbFacts
  <2>2. \A u, k : u \in Main /\ Pending(c.todo \cup c.later, u, k)
                    => Pending(d.todo \cup d.later, u, k)
    BY DEF Pending, Main
  <2>3. \A u \in Main : \A k : Agrees(u, c.view, k, rows) => Agrees(u, d.view, k, rw)
    BY DEF Agrees
  <2>4. \A u \in Main : \A k \in Keys[u] :
          Owner(k) = t => Agrees(u, d.view, k, rw) \/ Pending(d.todo \cup d.later, u, k)
    BY <2>1, <2>2, <2>3 DEF TenantOK
  <2>5. tn[t] = 1 \/ (d.at = "tenant" /\ t = d.ca /\ \E q \in d.todo : q.table = "tenant")
    <3>1. CASE p.table = "tenant"
      BY <1>1, <2>1, <3>1 DEF TenantOK
    <3>2. CASE p.table = "bsc"
      BY <2>1, <3>2 DEF TenantOK
    <3> QED BY <3>1, <3>2
  <2>6. \/ d.at = "tenant" /\ t = d.ca
        \/ /\ <<t>> \in DOMAIN rw["bsc"]
           /\ \/ rw["bsc"][<<t>>] = "signed"
              \/ \E q \in d.todo : q.table = "bsc" /\ q.key = <<t>>
    <3>1. CASE p.table = "tenant"
      BY <2>1, <3>1 DEF TenantOK
    <3>2. CASE p.table = "bsc" /\ p.key = <<t>>
      <4>1. CASE c.at = "tenant"
        <5>1. <<t>> = <<c.ca>>
          BY <3>2, <4>1 DEF TodoOK
        <5>2. t = c.ca
          BY <5>1
        <5> QED BY <4>1, <5>2
      <4>2. CASE c.at = "serve"
        <5>1. p.conf = "signed"
          BY <3>2, <4>2 DEF TodoOK, PduFits, Main
        <5> QED BY <3>2, <5>1
      <4> QED BY <4>1, <4>2
    <3>3. CASE p.table = "bsc" /\ p.key /= <<t>>
      BY <2>1, <3>3 DEF TenantOK
    <3> QED BY <3>1, <3>2, <3>3
  <2> QED BY <2>4, <2>5, <2>6 DEF TenantOK
<1> QED BY <1>2, <1>3, <1>4

\* A PDU that makes row p.key of its table as the view wants it.
LEMMA MainPdu ==
    ASSUME NEW c, NEW d, NEW p \in c.todo, NEW tn, NEW rw,
           c.at = "serve", TodoOK(c, tn), DeletedOK(c, tn),
           \A t \in Started(c) : TenantOK(c, t, tn, rows),
           PduFits(p, c.view),
           d.at = c.at, d.cmd = c.cmd, d.view = c.view, d.jobs = c.jobs, d.ca = c.ca,
           d.later = c.later, d.todo = c.todo \ {p},
           DOMAIN rw["bsc"] = DOMAIN rows["bsc"],
           \A k \in DOMAIN rows["bsc"] : rw["bsc"][k] = rows["bsc"][k],
           \A u \in Main : \A k :
             \/ Agrees(u, c.view, k, rw)
             \/ /\ Agrees(u, c.view, k, rows) => Agrees(u, c.view, k, rw)
                /\ ~(u = p.table /\ k = p.key)
                /\ ~(u = "parent" /\ p.table = "repository" /\ k = p.key /\ p.verb = "destroy")
    PROVE  TodoOK(d, tn) /\ DeletedOK(d, tn) /\ \A t \in Started(c) : TenantOK(d, t, tn, rw)
<1>1. p.table \notin {"tenant", "bsc"}
  BY DEF PduFits, Main
<1>2. TodoOK(d, tn) /\ DeletedOK(d, tn)
  <2>1. \A q \in c.todo : q.table = "tenant" => q \in d.todo
    BY <1>1
  <2> QED BY <2>1 DEF TodoOK, DeletedOK
<1>3. ASSUME NEW t \in Started(c) PROVE TenantOK(d, t, tn, rw)
  <2>1. TenantOK(c, t, tn, rows)
    OBVIOUS
  <2>2. ASSUME NEW u \in Main, NEW k \in Keys[u], Owner(k) = t
        PROVE  Agrees(u, d.view, k, rw) \/ Pending(d.todo \cup d.later, u, k)
    <3>1. Agrees(u, c.view, k, rows) \/ Pending(c.todo \cup c.later, u, k)
      BY <2>1, <2>2 DEF TenantOK
    <3>2. CASE Agrees(u, c.view, k, rw)
      BY <3>2
    <3>3. CASE /\ Agrees(u, c.view, k, rows) => Agrees(u, c.view, k, rw)
               /\ ~(u = p.table /\ k = p.key)
               /\ ~(u = "parent" /\ p.table = "repository" /\ k = p.key /\ p.verb = "destroy")
      <4>1. Pending(c.todo \cup c.later, u, k) => Pending(d.todo \cup d.later, u, k)
        BY <3>3 DEF Pending
      <4> QED BY <3>1, <3>3, <4>1
    <3> QED BY <3>2, <3>3
  <2>3. /\ tn[t] = 1
        /\ <<t>> \in DOMAIN rw["bsc"]
        /\ rw["bsc"][<<t>>] = "signed" \/ \E q \in d.todo : q.table = "bsc" /\ q.key = <<t>>
    BY <1>1, <2>1 DEF TenantOK
  <2> QED BY <2>2, <2>3 DEF TenantOK
<1> QED BY <1>2, <1>3

\* PDU p is served.
LEMMA SavesRow ==
    ASSUME Inv, NEW s \in Command, sync[s].at \in {"tenant", "serve"}, NEW p \in sync[s].todo,
           Accepts(p), Save(p), AloneOK(sync[s], irdb, tenants, rows, clients)
    PROVE  AloneOK([sync[s] EXCEPT !.todo = @ \ {p}], irdb, tenants', rows', clients)
<1> DEFINE c == sync[s]
           d == [c EXCEPT !.todo = @ \ {p}]
<1>1. /\ d.at = c.at /\ d.cmd = c.cmd /\ d.view = c.view /\ d.jobs = c.jobs /\ d.ca = c.ca
      /\ d.later = c.later /\ d.todo = c.todo \ {p} /\ IrdbOK(c.view) /\ PduOK(p, c.view)
  BY RestFacts
<1>2. /\ c.view = irdb /\ StageOK(c) /\ ClientsOK(c, clients) /\ DeletedOK(c, tenants)
      /\ TodoOK(c, tenants) /\ \A t \in Started(c) : TenantOK(c, t, tenants, rows)
  BY DEF AloneOK
<1> HIDE DEF d
<1>3. /\ StageOK(d) /\ Started(d) = Started(c) /\ ClientsOK(d, clients)
  <2>1. \A x, y, z :
          x.at \in {"tenant", "serve"} /\ StageOK(x) /\ y.at = x.at /\ y.cmd = x.cmd
          /\ y.view = x.view /\ y.jobs = x.jobs /\ y.ca = x.ca /\ y.later = x.later
          /\ y.todo = x.todo \ {z} =>
            /\ StageOK(y) /\ Started(y) = Started(x)
            /\ \A cl : ClientsOK(x, cl) => ClientsOK(y, cl)
    BY RestStage
  <2> QED BY <1>1, <1>2, <2>1
<1>4. /\ DOMAIN rows = Table /\ tenants \in [Tenant -> Nat]
      /\ p.verb \in {"create", "set"}
  BY InvParts, TenantsType DEF DatabasesTypeOK, Save
<1>5. TodoOK(d, tenants') /\ DeletedOK(d, tenants') /\ \A t \in Started(c) : TenantOK(d, t, tenants', rows')
  <2>1. CASE p.table \in {"tenant", "bsc"}
    <3>1. \A u \in Main : rows'[u] = rows[u]
      BY <1>4, <2>1 DEF Save, Main, Table
    <3>2. ASSUME p.table = "tenant"
          PROVE  /\ rows' = rows /\ tenants'[c.ca] = 1
                 /\ \A t \in Tenant : t /= c.ca => tenants'[t] = tenants[t]
      <4>1. c.at = "tenant" /\ p.key = <<c.ca>> /\ (p.verb = "create" => tenants[c.ca] = 0)
        BY <1>2, <1>4, <3>2 DEF TodoOK, PduFits, Main
      <4>2. Owner(p.key) = c.ca /\ c.ca \in Tenant
        <5>1. c.ca \in Started(c) /\ Started(c) \subseteq c.view.holder
          BY <1>2, <4>1 DEF StageOK
        <5> QED BY <1>1, <4>1, <5>1, IrdbFacts, OwnerFacts
      <4>3. p.verb = "set" => tenants[c.ca] = 1
        BY <3>2, <4>2 DEF Accepts
      <4> QED BY <1>4, <3>2, <4>1, <4>2, <4>3 DEF Save
    <3>3. ASSUME p.table = "bsc"
          PROVE  /\ tenants' = tenants
                 /\ DOMAIN rows'["bsc"] = DOMAIN rows["bsc"] \cup {p.key}
                 /\ rows'["bsc"][p.key] = p.conf
                 /\ \A k \in DOMAIN rows["bsc"] : k /= p.key => rows'["bsc"][k] = rows["bsc"][k]
      <4>1. tenants' = tenants /\ rows'["bsc"] = Put(rows["bsc"], p.key, Decode(p))
        BY <1>4, <3>3 DEF Save, Table
      <4>2. Decode(p) = p.conf
        BY <3>3 DEF Decode
      <4> QED BY <4>1, <4>2 DEF Put
    <3>4. /\ c.at \in {"tenant", "serve"} /\ p.verb /= "destroy" /\ p \in c.todo
          /\ StageOK(c) /\ TodoOK(c, tenants) /\ DeletedOK(c, tenants) /\ IrdbOK(c.view)
      BY <1>1, <1>2, <1>4
    <3> HIDE DEF c
    <3> QED BY <1>1, <1>2, <2>1, <3>1, <3>2, <3>3, <3>4, SetupPdu
  <2>2. CASE p.table \notin {"tenant", "bsc"}
    <3>1. c.at = "serve" /\ PduFits(p, c.view)
      BY <1>2, <2>2 DEF TodoOK
    <3>2. /\ p.table \in Main /\ p.key \in WantKeys(p.table, c.view)
          /\ p.conf = WantConf(p.table, c.view, p.key)
      BY <1>4, <3>1 DEF PduFits
    <3>3. /\ tenants' = tenants /\ rows'["bsc"] = rows["bsc"]
          /\ \A u \in Main : u /= p.table => rows'[u] = rows[u]
          /\ rows'[p.table] = Put(rows[p.table], p.key, Decode(p))
      BY <1>4, <2>2, <3>2 DEF Save, Table, Main
    <3>4. Decode(p) = p.conf \/ (p.table = "repository" /\ p.conf = "plain")
      BY DEF Decode
    <3>5. Agrees(p.table, c.view, p.key, rows')
      <4>1. p.key \in DOMAIN rows'[p.table] /\ rows'[p.table][p.key] = Decode(p)
        BY <3>3 DEF Put
      <4> QED BY <3>2, <3>4, <4>1 DEF Agrees
    <3>6. ASSUME NEW u \in Main, NEW k, ~(u = p.table /\ k = p.key), Agrees(u, c.view, k, rows)
          PROVE  Agrees(u, c.view, k, rows')
      <4>1. CASE u /= p.table
        BY <3>3, <3>6, <4>1 DEF Agrees
      <4>2. CASE u = p.table
        <5>1. k /= p.key
          BY <3>6, <4>2
        <5>2. (k \in DOMAIN rows'[u] <=> k \in DOMAIN rows[u])
              /\ (k \in DOMAIN rows[u] => rows'[u][k] = rows[u][k])
          BY <3>3, <4>2, <5>1 DEF Put
        <5> QED BY <3>6, <5>2 DEF Agrees
      <4> QED BY <4>1, <4>2
    <3> QED BY <1>1, <1>2, <1>4, <3>1, <3>3, <3>5, <3>6, MainPdu
  <2> QED BY <2>1, <2>2
<1>6. AloneOK(d, irdb, tenants', rows', clients)
  BY <1>1, <1>2, <1>3, <1>5 DEF AloneOK
<1> QED BY <1>6 DEF d

\* What a PDU destroys, in the view of a command that sends it.
LEMMA DestroyedRows ==
    ASSUME Inv, NEW p, NEW view, IrdbOK(view), PduOK(p, view), Destroy(p),
           p.table = "tenant" \/ PduFits(p, view)
    PROVE  /\ clients' = clients /\ tenants' \in [Tenant -> Nat]
           /\ p.table = "tenant" =>
                /\ tenants'[Owner(p.key)] = 0
                /\ \A t \in Tenant : t /= Owner(p.key) => tenants'[t] = tenants[t]
           /\ p.table /= "tenant" => tenants' = tenants /\ p.key \notin WantKeys(p.table, view)
           /\ \A u \in Table :
                /\ DOMAIN rows'[u] = {k \in DOMAIN rows[u] : <<u, k>> \notin Cascade(p.table, p.key)}
                /\ \A k \in DOMAIN rows'[u] : rows'[u][k] = rows[u][k]
           /\ p.verb = "destroy"
<1> DEFINE R == Cascade(p.table, p.key)
<1>1. p.verb = "destroy" /\ Remove(R) /\ clients' = clients
  BY DEF Destroy, DestroyParent, DestroyTenant, DestroyOther, pubd
<1>2. DatabasesTypeOK /\ tenants \in [Tenant -> Nat] /\ "tenant" \notin Table
  BY InvParts, TenantsType DEF Table
<1>3. /\ p.table = "tenant" => tenants' = [tenants EXCEPT ![Owner(p.key)] = 0] /\ Owner(p.key) \in Tenant
      /\ p.table /= "tenant" => tenants' = tenants /\ p.key \notin WantKeys(p.table, view)
  <2>1. p.table = "tenant" => Owner(p.key) \in Tenant
    BY <1>2, OwnerFacts DEF PduOK
  <2>2. p.table /= "tenant" => p.key \notin WantKeys(p.table, view)
    BY <1>1 DEF PduFits
  <2>3. /\ p.table = "tenant" => tenants' = [tenants EXCEPT ![Owner(p.key)] = 0]
        /\ p.table /= "tenant" => tenants' = tenants
    BY DEF Destroy, DestroyParent, DestroyTenant, DestroyOther
  <2> QED BY <2>1, <2>2, <2>3
<1>4. ASSUME NEW u \in Table
      PROVE  /\ DOMAIN rows'[u] = {k \in DOMAIN rows[u] : <<u, k>> \notin R}
             /\ \A k \in DOMAIN rows'[u] : rows'[u][k] = rows[u][k]
  <2> DEFINE S == {k \in DOMAIN rows[u] : <<u, k>> \in R}
  <2>1. rows'[u] = Less(rows[u], S)
    BY <1>1 DEF Remove
  <2> HIDE DEF S
  <2>2. DOMAIN rows'[u] = DOMAIN rows[u] \ S /\ \A k \in DOMAIN rows'[u] : rows'[u][k] = rows[u][k]
    BY <2>1, SMT DEF Less, Restrict
  <2> QED BY <2>2 DEF S
<1> HIDE DEF R
<1>5. /\ tenants' \in [Tenant -> Nat]
      /\ p.table = "tenant" =>
           /\ tenants'[Owner(p.key)] = 0
           /\ \A t \in Tenant : t /= Owner(p.key) => tenants'[t] = tenants[t]
  <2>1. CASE p.table = "tenant"
    BY <1>2, <1>3, <2>1
  <2>2. CASE p.table /= "tenant"
    BY <1>2, <1>3, <2>2
  <2> QED BY <2>1, <2>2
<1> QED BY <1>1, <1>3, <1>4, <1>5 DEF R

\* A PDU that destroys a tenant of which the view does not know.
LEMMA TenantPdu ==
    ASSUME NEW c, NEW d, NEW p \in c.todo, NEW tn, NEW rw,
           c.at = "serve", TodoOK(c, tenants), DeletedOK(c, tenants), IrdbOK(c.view),
           Started(c) \subseteq c.view.holder,
           \A t \in Started(c) : TenantOK(c, t, tenants, rows),
           p.table = "tenant", p.verb = "destroy", p.key \in Keys.bsc,
           Owner(p.key) \notin c.view.holder,
           d.at = c.at, d.cmd = c.cmd, d.view = c.view, d.jobs = c.jobs, d.ca = c.ca,
           d.later = c.later, d.todo = c.todo \ {p},
           tn[Owner(p.key)] = 0, \A t \in Tenant : t /= Owner(p.key) => tn[t] = tenants[t],
           \A u \in Table : \A k : Owner(k) \in c.view.holder =>
             (k \in DOMAIN rw[u] <=> k \in DOMAIN rows[u])
               /\ (k \in DOMAIN rows[u] => rw[u][k] = rows[u][k])
    PROVE  TodoOK(d, tn) /\ DeletedOK(d, tn) /\ \A t \in Started(c) : TenantOK(d, t, tn, rw)
<1>1. TodoOK(d, tn)
  BY DEF TodoOK
<1>2. DeletedOK(d, tn)
  <2>1. ASSUME NEW t \in Tenant, t /= Owner(p.key) PROVE <<t>> /= p.key
    BY <2>1, OwnerFacts
  <2> QED BY <2>1 DEF DeletedOK
<1>3. ASSUME NEW t \in Started(c) PROVE TenantOK(d, t, tn, rw)
  <2>1. TenantOK(c, t, tenants, rows) /\ t \in c.view.holder /\ t \in Tenant /\ t /= Owner(p.key)
    BY IrdbFacts
  <2>2. tn[t] = 1
    BY <2>1 DEF TenantOK
  <2>3. /\ <<t>> \in DOMAIN rw["bsc"]
        /\ rw["bsc"][<<t>>] = "signed" \/ \E q \in d.todo : q.table = "bsc" /\ q.key = <<t>>
    <3>1. Owner(<<t>>) = t /\ "bsc" \in Table
      BY OwnerFacts DEF Table
    <3>2. /\ <<t>> \in DOMAIN rows["bsc"]
          /\ rows["bsc"][<<t>>] = "signed" \/ \E q \in d.todo : q.table = "bsc" /\ q.key = <<t>>
      BY <2>1 DEF TenantOK
    <3> QED BY <2>1, <3>1, <3>2
  <2>4. ASSUME NEW u \in Main, NEW k \in Keys[u], Owner(k) = t
        PROVE  Agrees(u, d.view, k, rw) \/ Pending(d.todo \cup d.later, u, k)
    <3>1. Agrees(u, c.view, k, rows) \/ Pending(c.todo \cup c.later, u, k)
      BY <2>1, <2>4 DEF TenantOK
    <3>2. u \in Table /\ u /= "tenant"
      BY DEF Main, Table
    <3>3. Agrees(u, c.view, k, rows) => Agrees(u, d.view, k, rw)
      BY <2>1, <2>4, <3>2 DEF Agrees
    <3>4. Pending(c.todo \cup c.later, u, k) => Pending(d.todo \cup d.later, u, k)
      BY <3>2 DEF Pending
    <3> QED BY <3>1, <3>3, <3>4
  <2> QED BY <2>2, <2>3, <2>4 DEF TenantOK
<1> QED BY <1>1, <1>2, <1>3

LEMMA DestroysRow ==
    ASSUME Inv, NEW s \in Command, sync[s].at \in {"tenant", "serve"}, NEW p \in sync[s].todo,
           Destroy(p), AloneOK(sync[s], irdb, tenants, rows, clients)
    PROVE  AloneOK([sync[s] EXCEPT !.todo = @ \ {p}], irdb, tenants', rows', clients')
<1> DEFINE c == sync[s]
           d == [c EXCEPT !.todo = @ \ {p}]
<1>1. /\ d.at = c.at /\ d.cmd = c.cmd /\ d.view = c.view /\ d.jobs = c.jobs /\ d.ca = c.ca
      /\ d.later = c.later /\ d.todo = c.todo \ {p} /\ IrdbOK(c.view) /\ PduOK(p, c.view)
      /\ c.at \in {"tenant", "serve"} /\ p \in c.todo
  BY RestFacts
<1>2. /\ c.view = irdb /\ StageOK(c) /\ ClientsOK(c, clients) /\ DeletedOK(c, tenants)
      /\ TodoOK(c, tenants) /\ \A t \in Started(c) : TenantOK(c, t, tenants, rows)
  BY DEF AloneOK
<1> HIDE DEF d
<1>3. /\ StageOK(d) /\ Started(d) = Started(c) /\ ClientsOK(d, clients)
      /\ Started(c) \subseteq c.view.holder
  <2>1. \A x, y, z :
          x.at \in {"tenant", "serve"} /\ StageOK(x) /\ y.at = x.at /\ y.cmd = x.cmd
          /\ y.view = x.view /\ y.jobs = x.jobs /\ y.ca = x.ca /\ y.later = x.later
          /\ y.todo = x.todo \ {z} =>
            /\ StageOK(y) /\ Started(y) = Started(x) /\ Started(x) \subseteq x.view.holder
            /\ \A cl : ClientsOK(x, cl) => ClientsOK(y, cl)
    BY RestStage
  <2> QED BY <1>1, <1>2, <2>1
<1>4. p.verb = "destroy" /\ p.table \in Table \cup {"tenant"} /\ p.table /= "bsc"
  BY <1>1 DEF Destroy, PduOK
<1>5. c.at = "serve" /\ (p.table = "tenant" \/ PduFits(p, c.view))
  BY <1>1, <1>2, <1>4 DEF TodoOK
<1>6. /\ clients' = clients
      /\ p.table = "tenant" =>
           /\ tenants'[Owner(p.key)] = 0
           /\ \A t \in Tenant : t /= Owner(p.key) => tenants'[t] = tenants[t]
      /\ p.table /= "tenant" => tenants' = tenants /\ p.key \notin WantKeys(p.table, c.view)
      /\ \A u \in Table :
           /\ DOMAIN rows'[u] = {k \in DOMAIN rows[u] : <<u, k>> \notin Cascade(p.table, p.key)}
           /\ \A k \in DOMAIN rows'[u] : rows'[u][k] = rows[u][k]
  BY <1>1, <1>5, DestroyedRows
<1>7. TodoOK(d, tenants') /\ DeletedOK(d, tenants') /\ \A t \in Started(c) : TenantOK(d, t, tenants', rows')
  <2>1. CASE p.table = "tenant"
    <3>1. p.key \in Keys.bsc /\ Owner(p.key) \notin c.view.holder
      BY <1>1, <1>4, <2>1 DEF PduOK, Table
    <3>2. ASSUME NEW u \in Table, NEW k, Owner(k) \in c.view.holder
          PROVE  /\ k \in DOMAIN rows'[u] <=> k \in DOMAIN rows[u]
                 /\ k \in DOMAIN rows[u] => rows'[u][k] = rows[u][k]
      <4>1. <<u, k>> \notin Cascade(p.table, p.key)
        BY <2>1, <3>1, <3>2 DEF Cascade
      <4> QED BY <1>6, <4>1
    <3> QED BY <1>1, <1>2, <1>3, <1>4, <1>5, <1>6, <2>1, <3>1, <3>2, TenantPdu
  <2>2. CASE p.table /= "tenant"
    <3>1. p.table \in Main /\ p.key \notin WantKeys(p.table, c.view) /\ tenants' = tenants
      BY <1>5, <1>6, <2>2 DEF PduFits
    <3>2. /\ <<p.table, p.key>> \in Cascade(p.table, p.key)
          /\ p.table = "repository" /\ Has("parent", p.key) =>
               <<"parent", p.key>> \in Cascade(p.table, p.key)
          /\ \A u, k : <<u, k>> \in Cascade(p.table, p.key) =>
               \/ u = p.table /\ k = p.key
               \/ u = "parent" /\ k = p.key /\ p.table = "repository"
      BY <2>2 DEF Cascade
    <3>3. /\ DOMAIN rows'["bsc"] = DOMAIN rows["bsc"]
          /\ \A k \in DOMAIN rows["bsc"] : rows'["bsc"][k] = rows["bsc"][k]
      <4>1. \A k \in DOMAIN rows["bsc"] : <<"bsc", k>> \notin Cascade(p.table, p.key)
        BY <1>4, <3>2
      <4> QED BY <1>6, <4>1 DEF Table
    <3>4. ASSUME NEW u \in Main, NEW k
          PROVE  \/ Agrees(u, c.view, k, rows')
                 \/ /\ Agrees(u, c.view, k, rows) => Agrees(u, c.view, k, rows')
                    /\ ~(u = p.table /\ k = p.key)
                    /\ ~(u = "parent" /\ p.table = "repository" /\ k = p.key /\ p.verb = "destroy")
      <4>1. u \in Table
        BY DEF Main, Table
      <4>2. CASE k = p.key /\ (u = p.table \/ (u = "parent" /\ p.table = "repository"))
        <5>1. k \notin WantKeys(u, c.view)
          BY <3>1, <4>2 DEF WantKeys
        <5>2. k \notin DOMAIN rows'[u]
          BY <1>6, <3>2, <4>1, <4>2 DEF Has
        <5> QED BY <5>1, <5>2 DEF Agrees
      <4>3. CASE ~(k = p.key /\ (u = p.table \/ (u = "parent" /\ p.table = "repository")))
        <5>1. <<u, k>> \notin Cascade(p.table, p.key)
          BY <3>2, <4>3
        <5>2. (k \in DOMAIN rows'[u] <=> k \in DOMAIN rows[u])
              /\ (k \in DOMAIN rows[u] => rows'[u][k] = rows[u][k])
          BY <1>6, <4>1, <5>1
        <5> QED BY <4>3, <5>2 DEF Agrees
      <4> QED BY <4>2, <4>3
    <3>5. /\ TodoOK(c, tenants') /\ DeletedOK(c, tenants') /\ PduFits(p, c.view)
          /\ \A t \in Started(c) : TenantOK(c, t, tenants', rows)
      BY <1>2, <1>5, <2>2, <3>1
    <3> HIDE DEF c
    <3> QED BY <1>1, <1>5, <3>3, <3>4, <3>5, MainPdu
  <2> QED BY <2>1, <2>2
<1>8. AloneOK(d, irdb, tenants', rows', clients')
  BY <1>1, <1>2, <1>3, <1>6, <1>7 DEF AloneOK
<1> QED BY <1>8 DEF d

LEMMA ServesControl ==
    ASSUME Inv, NEW s \in Command, ServeControl(s), AloneOK(sync[s], irdb, tenants, rows, clients)
    PROVE  AloneOK([sync[s] EXCEPT !.at = "serve", !.todo = {}], irdb, tenants', rows', clients')
<1> DEFINE c == sync[s]
           d == [c EXCEPT !.at = "serve", !.todo = {}]
<1>1. c.at = "control" /\ Control(c.todo) /\ c \in Working
  BY CommandType DEF ServeControl
<1>2. /\ d.at = "serve" /\ d.todo = {} /\ d.later = c.later
      /\ d.cmd = c.cmd /\ d.view = c.view /\ d.jobs = c.jobs /\ d.ca = c.ca
  BY <1>1 DEF Working
<1>3. /\ c.view = irdb /\ StageOK(c) /\ ClientsOK(c, clients) /\ DeletedOK(c, tenants)
      /\ TodoOK(c, tenants) /\ \A t \in Started(c) : TenantOK(c, t, tenants, rows)
      /\ IrdbOK(c.view)
  BY <1>1, CommandType, WorkIs DEF AloneOK
<1>4. tenants' = tenants /\ rows' = rows
  BY <1>1 DEF Control, rpkid
<1>5. /\ c.cmd \in {"all", "pubd"} /\ c.jobs.rest \in {<<>>, <<"deleted">>}
      /\ c.todo = ControlMessage(c.view)
  BY <1>1, <1>3 DEF StageOK, ClientsOK, ControlMessage
<1>6. clients' = c.view.client
  <2> DEFINE msg == ControlMessage(c.view)
             want == c.view.client
             saved == {p \in msg : p.verb /= "destroy"}
             dead == {p.key : p \in msg \ saved}
             keys == {p.key : p \in saved}
             conf(k) == (CHOOSE p \in saved : p.key = k).conf
             kept == [k \in DOMAIN clients \cup keys |-> IF k \in keys THEN conf(k) ELSE clients[k]]
  <2>1. clients' = Less(kept, dead)
    BY <1>1, <1>5 DEF Control
  <2>2. ASSUME NEW p \in saved PROVE p.key \in DOMAIN want /\ p.conf = want[p.key]
    BY DEF ControlMessage, Creates, Sets, Destroys, Pdu
  <2>3. ASSUME NEW k \in DOMAIN want, k \notin DOMAIN clients \/ want[k] /= clients[k]
        PROVE  k \in keys
    <3> DEFINE p == Pdu(IF k \in DOMAIN clients THEN "set" ELSE "create", "client", k, want[k])
    <3>1. p \in msg
      BY <2>3 DEF ControlMessage, Creates, Sets
    <3>2. p.verb /= "destroy" /\ p.key = k
      BY DEF Pdu
    <3> QED BY <3>1, <3>2
  <2>4. dead = DOMAIN clients \ DOMAIN want
    <3>1. ASSUME NEW p \in msg, p.verb = "destroy" PROVE p.key \in DOMAIN clients \ DOMAIN want
      BY <3>1 DEF ControlMessage, Creates, Sets, Destroys, Pdu
    <3>2. ASSUME NEW k \in DOMAIN clients \ DOMAIN want PROVE k \in dead
      <4> DEFINE p == Pdu("destroy", "client", k, "none")
      <4>1. p \in msg
        BY DEF ControlMessage, Destroys
      <4>2. p.verb = "destroy" /\ p.key = k
        BY DEF Pdu
      <4> QED BY <4>1, <4>2
    <3> QED BY <3>1, <3>2
  <2>5. \A k \in keys : conf(k) = want[k]
    <3> TAKE k \in keys
    <3>1. \E p \in saved : p.key = k
      OBVIOUS
    <3>2. (CHOOSE p \in saved : p.key = k) \in saved /\ (CHOOSE p \in saved : p.key = k).key = k
      BY <3>1
    <3> QED BY <2>2, <3>2
  <2>6. keys \subseteq DOMAIN want
    BY <2>2
  <2> HIDE DEF msg, saved, dead, keys, conf
  <2>7. DOMAIN kept = DOMAIN clients \cup keys
        /\ \A k \in DOMAIN kept \ dead : k \in DOMAIN want /\ kept[k] = want[k]
    BY <2>3, <2>4, <2>5, <2>6
  <2>8. DOMAIN kept \ dead = DOMAIN want
    BY <2>3, <2>4, <2>6
  <2> HIDE DEF kept
  <2>9. clients' = [k \in DOMAIN want |-> want[k]]
    BY <2>1, <2>7, <2>8 DEF Less, Restrict
  <2>10. want = [k \in DOMAIN want |-> want[k]]
    BY <1>3, PartialDef DEF IrdbOK, Irdb
  <2> QED BY <2>9, <2>10
<1> HIDE DEF c, d
<1>7. StageOK(d) /\ Started(d) = Started(c)
  BY <1>2, <1>3, <1>1 DEF StageOK, Started
<1>8. TodoOK(d, tenants) /\ ClientsOK(d, c.view.client)
  BY <1>1, <1>2, <1>3 DEF TodoOK, ClientsOK
<1>9. DeletedOK(d, tenants)
  BY <1>1, <1>2, <1>3 DEF DeletedOK
<1>10. ASSUME NEW t \in Started(c) PROVE TenantOK(d, t, tenants, rows)
  <2>1. TenantOK(c, t, tenants, rows) /\ c.later = {} /\ \A q \in c.todo : q.table = "client"
    BY <1>1, <1>3 DEF TodoOK
  <2>2. \A u \in Main : \A k : ~Pending(c.todo \cup c.later, u, k)
    BY <2>1 DEF Pending, Main
  <2> QED BY <1>1, <1>2, <2>1, <2>2 DEF TenantOK
<1>11. AloneOK(d, irdb, tenants', rows', clients')
  BY <1>2, <1>3, <1>4, <1>6, <1>7, <1>8, <1>9, <1>10 DEF AloneOK
<1> QED BY <1>11 DEF c, d

\* Command s is now doing r, in databases that others have not changed.
LEMMA OwnStep ==
    ASSUME Inv, SyncsOK, NEW s \in Command, NEW r \in Commands,
           r \in Working /\ r.alone => AloneOK(r, irdb', tenants', rows', clients'),
           \/ sync' = [sync EXCEPT ![s] = r] /\ UNCHANGED <<irdb, tenants, rows, clients>>
           \/ sync' = Disturb([sync EXCEPT ![s] = r], Command \ {s})
    PROVE  SyncsOK'
<1> SUFFICES ASSUME NEW x \in Command, sync'[x] \in Working, sync'[x].alone
             PROVE  AloneOK(sync'[x], irdb', tenants', rows', clients')
  BY DEF SyncsOK
<1> DEFINE f == [sync EXCEPT ![s] = r]
<1>1. /\ f \in [Command -> Commands] /\ f[s] = r
      /\ \A y \in Command : y /= s => f[y] = sync[y]
  BY InvParts DEF CommandsOK
<1>2. CASE sync' = f /\ UNCHANGED <<irdb, tenants, rows, clients>>
  <2>1. CASE x = s
    BY <1>1, <1>2, <2>1
  <2>2. CASE x /= s
    <3>1. sync'[x] = sync[x]
      BY <1>1, <1>2, <2>2
    <3>2. AloneOK(sync[x], irdb, tenants, rows, clients)
      BY <3>1 DEF SyncsOK
    <3> QED BY <1>2, <3>1, <3>2
  <2> QED BY <2>1, <2>2
<1> HIDE DEF f
<1>3. CASE sync' = Disturb(f, Command \ {s})
  <2>1. sync'[x] = IF x \in Command \ {s} /\ f[x].at /= "idle"
                   THEN [f[x] EXCEPT !.alone = FALSE] ELSE f[x]
    BY <1>3 DEF Disturb
  <2>2. CASE x = s
    BY <1>1, <2>1, <2>2
  <2>3. CASE x /= s
    <3>1. f[x] = NotRunning \/ f[x] \in Working
      BY <1>1 DEF Commands
    <3>2. CASE f[x] \in Working
      <4>1. f[x].at /= "idle"
        BY <3>2 DEF Working
      <4>2. sync'[x] = [f[x] EXCEPT !.alone = FALSE]
        BY <2>1, <2>3, <4>1
      <4>3. sync'[x].alone = FALSE
        BY <3>2, <4>2 DEF Working
      <4> QED BY <4>3
    <3>3. CASE f[x] = NotRunning
      <4>1. sync'[x] = NotRunning
        BY <2>1, <3>3, NotRunningFacts
      <4> QED BY <4>1, NotRunningFacts DEF Working, NotRunning
    <3> QED BY <3>1, <3>2, <3>3
  <2> QED BY <2>2, <2>3
<1> QED BY <1>2, <1>3 DEF f

\* Somebody else's step disturbs every command, or none.
LEMMA OthersStep ==
    ASSUME Inv, SyncsOK,
           \/ sync' = sync /\ UNCHANGED <<irdb, tenants, rows, clients>>
           \/ sync' = Disturb(sync, Command)
    PROVE  SyncsOK'
<1> SUFFICES ASSUME NEW x \in Command, sync'[x] \in Working, sync'[x].alone
             PROVE  AloneOK(sync'[x], irdb', tenants', rows', clients')
  BY DEF SyncsOK
<1>1. CASE sync' = sync /\ UNCHANGED <<irdb, tenants, rows, clients>>
  BY <1>1 DEF SyncsOK
<1>2. CASE sync' = Disturb(sync, Command)
  <2>1. sync'[x] = IF sync[x].at /= "idle" THEN [sync[x] EXCEPT !.alone = FALSE] ELSE sync[x]
    BY <1>2 DEF Disturb
  <2>2. CASE sync[x].at /= "idle"
    <3>1. sync[x] \in Working
      BY <2>2, CommandType
    <3>2. sync'[x].alone = FALSE
      BY <2>1, <2>2, <3>1 DEF Working
    <3> QED BY <3>2
  <2>3. CASE sync[x].at = "idle"
    <3>1. sync'[x].at = "idle"
      BY <2>1, <2>3
    <3> QED BY <3>1 DEF Working
  <2> QED BY <2>2, <2>3
<1> QED BY <1>1, <1>2

LEMMA NoCommandYet == Init \/ InitSettled => SyncsOK
<1> SUFFICES ASSUME Init \/ InitSettled PROVE SyncsOK
  OBVIOUS
<1>1. \A s \in Command : sync[s] = NotRunning
  BY DEF Init, InitSettled
<1>2. NotRunning \notin Working
  BY DEF Working, NotRunning
<1> QED BY <1>1, <1>2 DEF SyncsOK

\* A command goes on.
LEMMA OwnSteps ==
    ASSUME Inv, SyncsOK, Inv', NEW s \in Command, Step(s)
    PROVE  SyncsOK'
<1> DEFINE c == sync[s]
<1>1. /\ sync \in [Command -> Commands] /\ sync' \in [Command -> Commands]
      /\ sync'[s] \in Commands
  BY InvParts DEF CommandsOK, Inv, ZookeeperInv, Commands
<1>2. c \in Working /\ c.alone => AloneOK(c, irdb, tenants, rows, clients)
  BY DEF SyncsOK
<1>3. CASE ReadTenant(s) \/ SendMain(s) \/ ReadClients(s) \/ ReadTenants(s)
  <2>1. /\ UNCHANGED <<irdb, tenants, rows, clients>>
        /\ sync' = [sync EXCEPT ![s] = sync'[s]]
    BY <1>1, <1>3 DEF ReadTenant, SendMain, ReadClients, ReadTenants, OnlySync, Become,
                      dbVars, rpkid, pubd
  <2>2. c \in Working
    BY <1>3, CommandType DEF ReadTenant, SendMain, ReadClients, ReadTenants, Ready
  <2>3. sync'[s] \in Working /\ sync'[s].alone => c.alone
    <3>1. CASE ReadTenant(s)
      <4>1. PICK t \in c.jobs.cas :
              sync'[s] = [c EXCEPT !.at = "tenant", !.ca = t, !.jobs.cas = @ \ {t},
                                   !.todo = TenantMessage(t), !.later = MainMessage(c.view, t)]
        BY <1>1, <3>1 DEF ReadTenant, Become
      <4> QED BY <2>2, <4>1 DEF Working
    <3>2. CASE SendMain(s)
      <4>1. \E m : sync'[s] = [c EXCEPT !.at = "serve", !.todo = m, !.later = {}]
        BY <1>1, <3>2 DEF SendMain, Become
      <4> QED BY <2>2, <4>1 DEF Working
    <3>3. CASE ReadClients(s)
      <4>1. sync'[s] = [c EXCEPT !.at = "control", !.jobs.rest = Tail(@), !.todo = ControlMessage(c.view)]
        BY <1>1, <3>3 DEF ReadClients, Become
      <4> QED BY <2>2, <4>1 DEF Working
    <3>4. CASE ReadTenants(s)
      <4>1. sync'[s] = [c EXCEPT !.at = "serve", !.jobs.rest = Tail(@), !.todo = DeletedMessage(c.view)]
        BY <1>1, <3>4 DEF ReadTenants, Become
      <4> QED BY <2>2, <4>1 DEF Working
    <3> QED BY <1>3, <3>1, <3>2, <3>3, <3>4
  <2>4. sync'[s] \in Working /\ sync'[s].alone => AloneOK(sync'[s], irdb, tenants, rows, clients)
    BY <1>2, <1>3, <2>2, <2>3, ReadsTenant, SendsMain, ReadsDaemon
  <2>5. sync'[s] \in Working /\ sync'[s].alone => AloneOK(sync'[s], irdb', tenants', rows', clients')
    BY <2>1, <2>4
  <2>6. \A r \in Commands :
          (r \in Working /\ r.alone => AloneOK(r, irdb', tenants', rows', clients'))
          /\ sync' = [sync EXCEPT ![s] = r] /\ UNCHANGED <<irdb, tenants, rows, clients>>
            => SyncsOK'
    BY OwnStep
  <2> QED BY <1>1, <2>1, <2>5, <2>6
<1>4. CASE End(s) \/ GiveUp(s)
  <2>1. UNCHANGED <<irdb, tenants, rows, clients>> /\ sync' = [sync EXCEPT ![s] = NotRunning]
    BY <1>4 DEF End, GiveUp, OnlySync, Become, dbVars, rpkid, pubd
  <2>2. NotRunning \in Commands /\ NotRunning \notin Working
    BY NotRunningFacts DEF Working, NotRunning
  <2> QED BY <2>1, <2>2, OwnStep
<1>5. CASE ServePdu(s)
  <2>1. PICK p \in NextPdus(c.todo) :
          /\ Accepts(p) /\ (Save(p) \/ Destroy(p))
          /\ sync' = Disturb([sync EXCEPT ![s].todo = @ \ {p}], Command \ {s})
    BY <1>5 DEF ServePdu
  <2> DEFINE r == [c EXCEPT !.todo = @ \ {p}]
  <2>2. p \in c.todo /\ c.at \in {"tenant", "serve"} /\ irdb' = irdb
    BY <1>5, NextPdusIn DEF ServePdu
  <2>3. r \in Commands /\ [sync EXCEPT ![s].todo = @ \ {p}] = [sync EXCEPT ![s] = r]
    BY <2>2, TodoFacts
  <2>4. c \in Working /\ r.alone = c.alone
    BY <2>2, RestFacts
  <2>5. r.alone => AloneOK(r, irdb, tenants', rows', clients')
    <3>1. CASE Save(p)
      <4>1. clients' = clients
        BY <3>1 DEF Save, pubd
      <4> QED BY <1>2, <2>1, <2>2, <2>4, <3>1, <4>1, SavesRow
    <3>2. CASE Destroy(p)
      BY <1>2, <2>2, <2>4, <3>2, DestroysRow
    <3> QED BY <2>1, <3>1, <3>2
  <2> HIDE DEF r
  <2>6. r \in Working /\ r.alone => AloneOK(r, irdb', tenants', rows', clients')
    BY <2>2, <2>5
  <2> QED BY <2>1, <2>3, <2>6, OwnStep
<1>6. CASE ServeControl(s)
  <2> DEFINE r == [c EXCEPT !.at = "serve", !.todo = {}]
  <2>1. sync' = Disturb([sync EXCEPT ![s] = r], Command \ {s}) /\ irdb' = irdb /\ c.at = "control"
    BY <1>6 DEF ServeControl
  <2>2. c \in Working
    BY <2>1, CommandType
  <2>3. r \in Commands /\ r.alone = c.alone
    BY <2>2 DEF Working, Commands
  <2>4. r.alone => AloneOK(r, irdb, tenants', rows', clients')
    BY <1>2, <1>6, <2>2, <2>3, ServesControl
  <2> HIDE DEF r
  <2>5. r \in Working /\ r.alone => AloneOK(r, irdb', tenants', rows', clients')
    BY <2>1, <2>4
  <2> QED BY <2>1, <2>3, <2>5, OwnStep
<1> QED BY <1>3, <1>4, <1>5, <1>6 DEF Step

LEMMA SyncsKept == Inv /\ SyncsOK /\ [Next]_vars => SyncsOK'
<1> SUFFICES ASSUME Inv, SyncsOK, [Next]_vars PROVE SyncsOK'
  OBVIOUS
<1>1. Inv'
  BY NextKeeps
<1>2. CASE ChangeIrdb
  <2>1. \E db : Edit(db)
    BY <1>2 DEF ChangeIrdb, Initialize, DeleteTenant, ConfigureParent, DeleteParent,
                ConfigureRepository, DeleteRepository, ConfigureChild, DeleteChild,
                ConfigureClient, DeleteClient
  <2>2. sync' = Disturb(sync, Command)
    BY <2>1 DEF Edit
  <2> QED BY <2>2, OthersStep
<1>3. CASE RpkidWorks
  <2>1. irdb' = irdb /\ sync' = IF rows' = rows THEN sync ELSE Disturb(sync, Command)
    BY <1>3 DEF RpkidWorks
  <2>2. tenants' = tenants /\ clients' = clients
    BY <1>3 DEF RpkidWorks, OwnWork, CertifyCA, PublishWorld, CallBegins, CallEnds, CallFails,
                rpkid, pubd
  <2> QED BY <2>1, <2>2, OthersStep
<1>4. ASSUME NEW s \in Command, NEW cmd \in Runs[s], Begin(s, cmd) PROVE SyncsOK'
  <2>1. UNCHANGED <<irdb, tenants, rows, clients>>
    BY <1>4 DEF Begin, dbVars, rpkid, pubd
  <2>2. sync'[s] \in Commands /\ sync' = [sync EXCEPT ![s] = sync'[s]]
    <3>1. sync \in [Command -> Commands] /\ sync' \in [Command -> Commands]
      BY <1>1, InvParts DEF CommandsOK, Inv, ZookeeperInv, Commands
    <3> QED BY <1>4, <3>1 DEF Begin
  <2>3. AloneOK(sync'[s], irdb', tenants', rows', clients')
    BY <1>4, <2>1, NewCommands
  <2>4. \A r \in Commands :
          (r \in Working /\ r.alone => AloneOK(r, irdb', tenants', rows', clients'))
          /\ sync' = [sync EXCEPT ![s] = r] /\ UNCHANGED <<irdb, tenants, rows, clients>>
            => SyncsOK'
    BY OwnStep
  <2> QED BY <2>1, <2>2, <2>3, <2>4
<1>5. ASSUME NEW s \in Command, Step(s) PROVE SyncsOK'
  BY <1>1, <1>5, OwnSteps
<1>6. ASSUME NEW s \in Command, PduFails(s) \/ DaemonFails(s) PROVE SyncsOK'
  <2>1. NotRunning \in Commands /\ NotRunning \notin Working
    BY NotRunningFacts DEF Working, NotRunning
  <2>2. \/ sync' = [sync EXCEPT ![s] = NotRunning] /\ UNCHANGED <<irdb, tenants, rows, clients>>
        \/ sync' = Disturb([sync EXCEPT ![s] = NotRunning], Command \ {s})
    BY <1>6 DEF PduFails, DaemonFails, Become, rpkid, pubd
  <2> QED BY <2>1, <2>2, OwnStep
<1>7. CASE UNCHANGED vars
  BY <1>7, OthersStep DEF vars, dbVars, rpkid, pubd
<1> QED BY <1>2, <1>3, <1>4, <1>5, <1>6, <1>7 DEF Next

\* The tenant of a command that has sent everything is configured.
LEMMA TenantIsConfigured ==
    ASSUME Inv, NEW c, c.at = "serve", c.todo = {}, IrdbOK(c.view), c.view = irdb, c.later = {},
           NEW t \in Tenant, TenantOK(c, t, tenants, rows)
    PROVE  Mirrors(t)
<1>1. ForeignKeys /\ DatabasesTypeOK
  BY InvParts
<1>2. tenants[t] = 1 /\ Has("bsc", <<t>>) /\ rows["bsc"][<<t>>] = "signed"
  BY DEF TenantOK, Has
<1>3. ASSUME NEW u \in Main, NEW k, Owner(k) = t PROVE Agrees(u, irdb, k, rows)
  <2>1. CASE k \in Keys[u]
    BY <1>3, <2>1 DEF TenantOK, Pending
  <2>2. CASE k \notin Keys[u]
    <3>1. k \notin DOMAIN rows[u]
      BY <1>1, <2>2 DEF DatabasesTypeOK, PartialTo, Table, Main
    <3>2. k \notin WantKeys(u, irdb)
      BY <2>2, IrdbFacts, Tables DEF WantKeys, PartialTo, Main
    <3> QED BY <3>1, <3>2 DEF Agrees
  <2> QED BY <2>1, <2>2
<1>4. ASSUME NEW u \in Main
      PROVE  /\ DOMAIN Wanted(u, irdb, t) = {k \in WantKeys(u, irdb) : Owner(k) = t}
             /\ Wanted(u, irdb, t) = [k \in {k \in WantKeys(u, irdb) : Owner(k) = t} |-> WantConf(u, irdb, k)]
  <2>1. CASE u = "repository"
    BY <2>1 DEF Wanted, Restrict, WantKeys, WantConf
  <2>2. CASE u = "child"
    BY <2>2 DEF Wanted, Restrict, WantKeys, WantConf
  <2>3. CASE u = "parent"
    <3> DEFINE both == Restrict(irdb.parent, DOMAIN irdb.repository \cap DOMAIN irdb.parent)
    <3>1. Wanted(u, irdb, t) = Restrict(both, {k \in DOMAIN both : Owner(k) = t})
      BY <2>3 DEF Wanted
    <3>2. DOMAIN both = DOMAIN irdb.repository
          /\ \A k \in DOMAIN both : both[k] = irdb.parent[k]
      BY IrdbFacts DEF Restrict
    <3> HIDE DEF both
    <3> QED BY <2>3, <3>1, <3>2 DEF Restrict, WantKeys, WantConf
  <2> QED BY <2>1, <2>2, <2>3 DEF Main
<1>5. ASSUME NEW u \in Main
      PROVE  /\ DOMAIN Rows(u, t) = {k \in DOMAIN rows[u] : Owner(k) = t}
             /\ Rows(u, t) = [k \in {k \in DOMAIN rows[u] : Owner(k) = t} |-> rows[u][k]]
  BY DEF Rows, Restrict
<1>6. \A u \in Main : {k \in DOMAIN rows[u] : Owner(k) = t} = {k \in WantKeys(u, irdb) : Owner(k) = t}
  BY <1>3 DEF Agrees
<1>7. ASSUME NEW u \in {"parent", "child"} PROVE Rows(u, t) = Wanted(u, irdb, t)
  <2>1. u \in Main /\ u /= "repository"
    BY DEF Main
  <2>2. \A k \in {k \in WantKeys(u, irdb) : Owner(k) = t} : rows[u][k] = WantConf(u, irdb, k)
    BY <1>3, <2>1 DEF Agrees
  <2> DEFINE K == {k \in WantKeys(u, irdb) : Owner(k) = t}
  <2>3. Rows(u, t) = [k \in K |-> rows[u][k]] /\ Wanted(u, irdb, t) = [k \in K |-> WantConf(u, irdb, k)]
    BY <1>4, <1>5, <1>6, <2>1
  <2> HIDE DEF K
  <2>4. \A k \in K : rows[u][k] = WantConf(u, irdb, k)
    BY <2>2 DEF K
  <2> QED BY <2>3, <2>4
<1>8. /\ DOMAIN Rows("repository", t) = DOMAIN Wanted("repository", irdb, t)
      /\ \A k \in DOMAIN Wanted("repository", irdb, t) :
           \/ Wanted("repository", irdb, t)[k] = "plain"
           \/ Rows("repository", t)[k] = Wanted("repository", irdb, t)[k]
  <2>1. "repository" \in Main
    BY DEF Main
  <2>2. DOMAIN Rows("repository", t) = DOMAIN Wanted("repository", irdb, t)
    BY <1>4, <1>5, <1>6, <2>1
  <2>3. ASSUME NEW k \in DOMAIN Wanted("repository", irdb, t)
        PROVE  \/ Wanted("repository", irdb, t)[k] = "plain"
               \/ Rows("repository", t)[k] = Wanted("repository", irdb, t)[k]
    <3>1. k \in WantKeys("repository", irdb) /\ Owner(k) = t
      BY <1>4, <2>1
    <3>2. k \in DOMAIN Rows("repository", t)
      BY <2>2
    <3>3. Wanted("repository", irdb, t)[k] = WantConf("repository", irdb, k)
      BY <1>4, <2>1, <3>1
    <3>4. Rows("repository", t)[k] = rows["repository"][k]
      BY <1>5, <2>1, <3>2
    <3> QED BY <1>3, <2>1, <3>1, <3>3, <3>4 DEF Agrees
  <2> QED BY <2>2, <2>3
<1> QED BY <1>2, <1>7, <1>8 DEF Mirrors

\* A synchronisation that ends without an error, and that nobody disturbed, has
\* made rpkid and pubd agree with the IRDB (zookeeper.py:1280, 1536, 1591).
THEOREM SynchronisationsWork == Spec => SyncWorks
<1>1. Inv /\ SyncsOK /\ [Next]_vars =>
        [\A s \in Command :
           End(s) /\ sync[s].alone =>
             CASE sync[s].cmd = "all" -> MirrorsAll
               [] sync[s].cmd = "ca" -> Mirrors(sync[s].ca)
               [] sync[s].cmd = "pubd" -> clients = irdb.client
               [] OTHER -> DeletedAreGone]_vars
  <2> SUFFICES ASSUME Inv, SyncsOK, NEW s \in Command, End(s), sync[s].alone
               PROVE  CASE sync[s].cmd = "all" -> MirrorsAll
                        [] sync[s].cmd = "ca" -> Mirrors(sync[s].ca)
                        [] sync[s].cmd = "pubd" -> clients = irdb.client
                        [] OTHER -> DeletedAreGone
    OBVIOUS
  <2> DEFINE c == sync[s]
  <2>1. c.at = "serve" /\ c.todo = {} /\ c.jobs.cas = {} /\ c.jobs.rest = <<>> /\ c \in Working
    BY CommandType DEF End, Ready
  <2>2. AloneOK(c, irdb, tenants, rows, clients) /\ IrdbOK(c.view)
    BY <2>1, CommandType, WorkIs DEF SyncsOK
  <2>3. /\ c.view = irdb /\ StageOK(c) /\ c.later = {} /\ ClientsOK(c, clients)
        /\ DeletedOK(c, tenants) /\ \A t \in Started(c) : TenantOK(c, t, tenants, rows)
    BY <2>1, <2>2 DEF AloneOK, TodoOK
  <2>4. Started(c) \subseteq Tenant
    BY <2>2, <2>3, IrdbFacts DEF StageOK
  <2>5. \A t \in Started(c) : Mirrors(t)
    <3> HIDE DEF c
    <3>1. \A x : x.at = "serve" /\ x.todo = {} /\ IrdbOK(x.view) /\ x.view = irdb /\ x.later = {} =>
            \A t \in Tenant : TenantOK(x, t, tenants, rows) => Mirrors(t)
      BY TenantIsConfigured
    <3> QED BY <2>1, <2>2, <2>3, <2>4, <3>1
  <2>6. c.cmd \in {"all", "pubd"} => clients = irdb.client
    BY <2>1, <2>3 DEF ClientsOK
  <2>7. c.cmd \in {"all", "deleted"} => DeletedAreGone
    BY <2>1, <2>3 DEF DeletedOK, DeletedAreGone
  <2>8. CASE c.cmd = "all"
    <3>1. Started(c) = irdb.holder
      BY <2>1, <2>3, <2>8 DEF Started
    <3> QED BY <2>5, <2>6, <2>7, <2>8, <3>1 DEF MirrorsAll
  <2>9. CASE c.cmd = "ca"
    <3>1. Started(c) = {c.ca}
      BY <2>1, <2>9 DEF Started
    <3> QED BY <2>5, <2>9, <3>1
  <2>10. CASE c.cmd \in {"pubd", "deleted"}
    BY <2>6, <2>7, <2>10
  <2> QED BY <2>1, <2>8, <2>9, <2>10 DEF Working
<1>2. Spec => []SyncsOK
  BY NoCommandYet, SyncsKept, ZookeeperInvariant, PTL DEF Spec
<1> QED BY <1>1, <1>2, ZookeeperInvariant, PTL DEF Spec, SyncWorks

=============================================================================
