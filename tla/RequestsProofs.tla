-------------------------- MODULE RequestsProofs --------------------------
(***************************************************************************)
(* Requests: manifests list what is issued, no ROA that is asked for       *)
(* vanishes, and what is withdrawn has been revoked.                       *)
(***************************************************************************)
EXTENDS Requests, TLAPS

-----------------------------------------------------------------------------
(***************************************************************************)
(* Types.  A field that may hold anything holds what it holds.             *)
(***************************************************************************)
Kind == {"roa", "gbr", "ee"}

Name == Content \cup Vcard \cup Gski

What == Name \cup EeResources \cup {{}}

Row == [kind : Kind, name : Name, detail : Detail, stamp : BOOLEAN,
        obj : [ver : Nat, what : What, lists : {{}}]]

EeRequest == [gski : Gski, id : Nat, what : EeResources]

EeReply == [gski : Gski, what : EeResources \cup {{}}]

Irdb == [roa : SUBSET Content, batch : Nat, ee : SUBSET EeRequest,
         gbr : SUBSET (Scope \X Vcard), changes : Nat]

RpkidType(s) ==
    s \in [state : [Detail -> {"pending", "active", "deprecated"}], rows : SUBSET Row,
           revoked : {s.revoked}, serial : Nat, mfts : {s.mfts}, unsent : SUBSET Detail]

TaskType ==
    /\ task \in [kind : {"roa", "gbr", "ee", "regen", "retry"},
                 at : {"idle", "read", "count", "filter", "reply", "items"},
                 unread : {task.unread}, scope : Scope, got : {task.got}, torn : BOOLEAN,
                 items : {task.items}, orphans : SUBSET Row, details : SUBSET Detail,
                 new : SUBSET Row, gone : SUBSET Row]
    /\ task.kind = "roa" =>
        /\ task.at \in {"idle", "read", "reply", "items"}
        /\ task.unread \subseteq Content \X Nat /\ task.got \subseteq Content
        /\ task.items \subseteq Content \X SUBSET Row
    /\ task.kind = "gbr" =>
        /\ task.at \in {"idle", "count", "filter", "reply"}
        /\ task.unread \subseteq Ca /\ task.got \subseteq Ca \X Vcard /\ task.items \subseteq Ca
    /\ task.kind = "ee" =>
        /\ task.at \in {"idle", "read", "reply"}
        /\ task.unread \subseteq EeRequest /\ task.got \subseteq EeReply
    /\ task.kind \in {"regen", "retry"} => task.at = "idle"

Types ==
    /\ irdb \in Irdb
    /\ RpkidType(rpkid) /\ TaskType
    /\ broken \in [ees : SUBSET Gski, rolled : BOOLEAN]
    /\ failures \in Nat /\ slices \in Nat

Ind == TypeOK /\ Types /\ RequestsInv

-----------------------------------------------------------------------------
(***************************************************************************)
(* Rows and URIs.                                                          *)
(***************************************************************************)
LEMMA UriFacts ==
    ASSUME NEW r \in Row, NEW d
    PROVE  Uri(r)[1] = r.kind /\ Uri(r)[3] = r.name /\ Uri(r) # ManifestUri(d)
<1>1. r.kind \in {"roa", "gbr", "ee"}
  BY DEF Row, Kind
<1>2. Uri(r)[1] = r.kind /\ Uri(r)[3] = r.name
  <2>1. CASE r.kind = "ee"
    BY <2>1 DEF Uri
  <2>2. CASE r.kind # "ee"
    BY <2>2 DEF Uri
  <2> QED BY <2>1, <2>2
<1>3. ManifestUri(d)[1] = "mft"
  BY DEF ManifestUri
<1> QED BY <1>1, <1>2, <1>3

LEMMA ProductFacts ==
    ASSUME NEW kind \in Kind, NEW name \in Name, NEW d \in Detail,
           NEW ver \in Nat, NEW what \in What, NEW r, r = Product(kind, name, d, ver, what)
    PROVE  /\ r \in Row /\ r.kind = kind /\ r.name = name /\ r.detail = d
           /\ r.obj.ver = ver /\ r.obj.what = what
BY DEF Product, Row

\* r and x differ in their stamps only.
Like(r, x) == r.kind = x.kind /\ r.name = x.name /\ r.detail = x.detail /\ r.obj = x.obj

LEMMA LikeUri ==
    ASSUME NEW r, NEW x, Like(r, x)
    PROVE  Uri(r) = Uri(x)
BY DEF Like, Uri

\* rpkid's rows are s, but for what a message has delivered.
Restamped(s) ==
    /\ RpkidType(rpkid') /\ rpkid'.state = s.state /\ rpkid'.revoked = s.revoked
    /\ rpkid'.serial = s.serial /\ rpkid'.mfts = s.mfts /\ rpkid'.unsent \subseteq s.unsent
    /\ \A r \in rpkid'.rows : \E x \in s.rows : Like(r, x)
    /\ \A x \in s.rows : \E r \in rpkid'.rows : Like(r, x)

LEMMA DeliveredRestamps ==
    ASSUME NEW s, RpkidType(s), NEW pdus, rpkid' = Delivered(s, pdus)
    PROVE  Restamped(s)
<1> DEFINE uris == {pdu.uri : pdu \in pdus}
           stamp(r) == [r EXCEPT !.stamp = @ /\ Uri(r) \notin uris]
           rows == {stamp(r) : r \in s.rows}
           unsent == {d \in s.unsent : ManifestUri(d) \notin uris}
<1>1. rpkid' = [s EXCEPT !.rows = rows, !.unsent = unsent]
  BY DEF Delivered
<1>2. ASSUME NEW r \in Row
      PROVE  stamp(r) \in Row /\ Like(stamp(r), r)
  BY DEF Row, Like
<1> HIDE DEF stamp
<1>3. s.rows \subseteq Row /\ s.unsent \subseteq Detail
  BY DEF RpkidType
<1>4. rows \subseteq Row
  BY <1>2, <1>3
<1>5. unsent \subseteq Detail /\ unsent \subseteq s.unsent
  BY <1>3
<1>6. /\ \A r \in rows : \E x \in s.rows : Like(r, x)
      /\ \A x \in s.rows : \E r \in rows : Like(r, x)
  BY <1>2, <1>3
<1> HIDE DEF rows, unsent
<1>7. /\ RpkidType(rpkid') /\ rpkid'.state = s.state /\ rpkid'.revoked = s.revoked
      /\ rpkid'.serial = s.serial /\ rpkid'.mfts = s.mfts /\ rpkid'.unsent = unsent
      /\ rpkid'.rows = rows
  <2> DEFINE Fields == [state : [Detail -> {"pending", "active", "deprecated"}],
                        rows : SUBSET Row, revoked : {s.revoked}, serial : Nat,
                        mfts : {s.mfts}, unsent : SUBSET Detail]
  <2>1. s \in Fields
    BY DEF RpkidType
  <2>2. unsent \in SUBSET Detail /\ rows \in SUBSET Row
    BY <1>4, <1>5
  <2>3. /\ rpkid' \in Fields /\ rpkid'.state = s.state /\ rpkid'.revoked = s.revoked
        /\ rpkid'.serial = s.serial /\ rpkid'.mfts = s.mfts /\ rpkid'.unsent = unsent
        /\ rpkid'.rows = rows
    BY ONLY <1>1, <2>1, <2>2
  <2> QED BY <2>3 DEF RpkidType
<1> QED BY <1>5, <1>6, <1>7 DEF Restamped

LEMMA SameRestamps ==
    ASSUME NEW s, RpkidType(s), rpkid' = s
    PROVE  Restamped(s)
BY DEF Restamped, Like

\* What a message leaves of pubd.
Answered(s, pdus) ==
    \/ pubd' = pubd
    \/ pubd' = Applied(pdus)
    \/ rpkid' = s /\ \E d \in Detail : s.state[d] = "active" /\ pubd' = Resynced(s, d)

LEMMA CallPubdFacts ==
    ASSUME Ind, NEW s, RpkidType(s), NEW pdus, CallPubd(s, pdus)
    PROVE  Restamped(s) /\ Answered(s, pdus) /\ failures' \in 0..MaxTroubles
<1>1. failures \in 0..MaxTroubles /\ slices \in Nat /\ MaxTroubles \in Nat
  BY RequestsAssumption DEF Ind, TypeOK, Types
<1>2. CASE /\ Accepts(pdus)
           /\ pubd' = Applied(pdus)
           /\ rpkid' = Delivered(s, pdus)
           /\ UNCHANGED failures
  BY <1>1, <1>2, DeliveredRestamps DEF Answered
<1>3. CASE /\ ~Accepts(pdus)
           /\ \E d \in {x \in Detail : s.state[x] = "active"} : pubd' = Resynced(s, d)
           /\ rpkid' = s
           /\ UNCHANGED failures
  BY <1>1, <1>3, SameRestamps DEF Answered
<1>4. CASE /\ pdus # {}
           /\ MoreTroubles /\ failures' = failures + 1
           /\ rpkid' = s
           /\ UNCHANGED pubd
  BY <1>1, <1>4, SameRestamps DEF Answered, MoreTroubles
<1> QED BY <1>2, <1>3, <1>4 DEF CallPubd


-----------------------------------------------------------------------------
(***************************************************************************)
(* What a message does, when rpkid's rows are s.                           *)
(***************************************************************************)
ActiveIn(s) == {d \in Detail : s.state[d] = "active"}

KnownTo(s) == s.revoked \cup {Uri(r) : r \in s.rows}

RoaRowsOK(s) ==
    /\ \A r \in s.rows : r.kind = "roa" =>
            r.obj.what = r.name /\ r.detail \in Covering(ActiveIn(s), r.name)
    /\ \A r, x \in s.rows : r.kind = "roa" /\ x.kind = "roa" /\ r.name = x.name =>
            r.detail = x.detail

LEMMA IndRows ==
    ASSUME Ind
    PROVE  /\ RpkidType(rpkid) /\ RoaRowsOK(rpkid) /\ ActiveIn(rpkid) = Active
           /\ rpkid.rows \subseteq Row /\ rpkid.serial \in Nat
           /\ \A r \in rpkid.rows : r.obj.ver \in 1..rpkid.serial
           /\ \A d \in Active : rpkid.mfts[d] # None
<1>1. RpkidType(rpkid) /\ RoaRowsInv /\ ManifestsInv /\ TypeOK
  BY DEF Ind, Types, RequestsInv
<1>2. ActiveIn(rpkid) = Active
  BY DEF ActiveIn, Active
<1>3. RoaRowsOK(rpkid)
  BY <1>1, <1>2 DEF RoaRowsInv, RoaRowsOK, RowsOf
<1>4. rpkid.rows \subseteq Row /\ rpkid.serial \in Nat
  BY <1>1 DEF RpkidType
<1>5. \A d \in Active : rpkid.mfts[d] # None
  <2>1. {} \notin Detail /\ None.what = {}
    BY RequestsAssumption DEF None
  <2> QED BY <1>1, <2>1 DEF ManifestsInv, Active
<1> QED BY <1>1, <1>2, <1>3, <1>4, <1>5 DEF TypeOK

LEMMA RestampedRows ==
    ASSUME NEW s, RpkidType(s), Restamped(s)
    PROVE  /\ \A d : Manifest(rpkid'.rows, d) = Manifest(s.rows, d)
           /\ KnownTo(s) = KnownTo(rpkid)'
           /\ RoaRowsOK(s) => RoaRowsInv'
           /\ ActiveIn(s) = Active'
           /\ \A r \in rpkid'.rows : \E x \in s.rows : Like(r, x)
<1>1. /\ \A r \in rpkid'.rows : \E x \in s.rows : Like(r, x)
      /\ \A x \in s.rows : \E r \in rpkid'.rows : Like(r, x)
      /\ rpkid'.state = s.state /\ rpkid'.revoked = s.revoked
  BY DEF Restamped
<1>2. ASSUME NEW d
      PROVE  Manifest(rpkid'.rows, d) = Manifest(s.rows, d)
  <2> DEFINE Listed(rows) == {<<Uri(r), r.obj.ver>> : r \in Issued(rows, d)}
  <2>1. ASSUME NEW X, NEW Y, \A r \in X : \E x \in Y : Like(r, x)
        PROVE  Listed(X) \subseteq Listed(Y)
    <3>1. ASSUME NEW r \in Issued(X, d)
          PROVE  <<Uri(r), r.obj.ver>> \in Listed(Y)
      <4>1. PICK x \in Y : Like(r, x)
        BY <2>1, <3>1 DEF Issued
      <4>2. x \in Issued(Y, d) /\ Uri(x) = Uri(r) /\ x.obj.ver = r.obj.ver
        BY <3>1, <4>1, LikeUri DEF Like, Issued
      <4> QED BY <4>2
    <3> QED BY <3>1
  <2>2. \A x \in s.rows : \E r \in rpkid'.rows : Like(x, r)
    BY <1>1 DEF Like
  <2> HIDE DEF Listed
  <2>3. Listed(rpkid'.rows) \subseteq Listed(s.rows)
    BY <1>1, <2>1
  <2>4. Listed(s.rows) \subseteq Listed(rpkid'.rows)
    BY <2>1, <2>2
  <2>5. Listed(rpkid'.rows) = Listed(s.rows)
    BY <2>3, <2>4
  <2> QED BY <2>5 DEF Listed, Manifest
<1>3. KnownTo(s) = KnownTo(rpkid)'
  <2>1. {Uri(r) : r \in rpkid'.rows} = {Uri(r) : r \in s.rows}
    BY <1>1, LikeUri
  <2> QED BY <1>1, <2>1 DEF KnownTo
<1>4. ActiveIn(s) = Active'
  BY <1>1 DEF ActiveIn, Active
<1>5. ASSUME RoaRowsOK(s)
      PROVE  RoaRowsInv'
  <2>1. ASSUME NEW r \in RowsOf("roa")'
        PROVE  r.obj.what = r.name /\ r.detail \in Covering(Active', r.name)
    <3>1. PICK x \in s.rows : Like(r, x)
      BY <1>1, <2>1 DEF RowsOf
    <3> QED BY <1>4, <1>5, <2>1, <3>1 DEF RoaRowsOK, RowsOf, Like
  <2>2. ASSUME NEW r \in RowsOf("roa")', NEW x \in RowsOf("roa")', r.name = x.name
        PROVE  r.detail = x.detail
    <3>1. PICK r1 \in s.rows : Like(r, r1)
      BY <1>1, <2>2 DEF RowsOf
    <3>2. PICK x1 \in s.rows : Like(x, x1)
      BY <1>1, <2>2 DEF RowsOf
    <3> QED BY <1>5, <2>2, <3>1, <3>2 DEF RoaRowsOK, RowsOf, Like
  <2>3. \A r \in RowsOf("roa")' : r.detail \in Covering(Active, r.name)'
    BY <2>1 DEF Covering
  <2> QED BY <2>1, <2>2, <2>3 DEF RoaRowsInv
<1> QED BY <1>1, <1>2, <1>3, <1>4, <1>5

LEMMA AppliedFacts ==
    ASSUME NEW pdus, NEW a, a = Applied(pdus)
    PROVE  /\ \A u \in DOMAIN a :
                \/ u \in DOMAIN pubd /\ a[u] = pubd[u]
                \/ \E pdu \in pdus : pdu.uri = u /\ pdu.new # None /\ a[u] = pdu.new
           /\ \A u \in DOMAIN pubd : (\A pdu \in pdus : pdu.uri # u) =>
                u \in DOMAIN a /\ a[u] = pubd[u]
           /\ \A pdu \in pdus : pdu.new # None => pdu.uri \in DOMAIN a
                /\ \E p \in pdus : p.uri = pdu.uri /\ p.new # None /\ a[pdu.uri] = p.new
<1> DEFINE published == {pdu \in pdus : pdu.new # None}
           kept == DOMAIN pubd \ {pdu.uri : pdu \in pdus}
           dom == kept \cup {pdu.uri : pdu \in published}
           val(u) == IF u \in kept THEN pubd[u]
                     ELSE (CHOOSE pdu \in published : pdu.uri = u).new
<1>1. a = [u \in dom |-> val(u)]
  BY DEF Applied
<1>2. ASSUME NEW u \in dom, u \notin kept
      PROVE  \E pdu \in published : pdu.uri = u /\ val(u) = pdu.new
  <2>1. \E pdu \in published : pdu.uri = u
    BY <1>2
  <2>2. (CHOOSE pdu \in published : pdu.uri = u) \in published
        /\ (CHOOSE pdu \in published : pdu.uri = u).uri = u
    BY <2>1
  <2> QED BY <1>2, <2>2
<1>3. \A u \in kept : val(u) = pubd[u]
  OBVIOUS
<1> HIDE DEF val
<1>4. DOMAIN a = dom /\ \A u \in dom : a[u] = val(u)
  BY <1>1
<1>5. \A pdu \in published : pdu.uri \in dom /\ pdu.uri \notin kept
  OBVIOUS
<1>6. \A u \in DOMAIN pubd : (\A pdu \in pdus : pdu.uri # u) => u \in kept
  OBVIOUS
<1>7. \A pdu \in pdus : pdu.new # None <=> pdu \in published
  OBVIOUS
<1>8. kept \subseteq DOMAIN pubd /\ kept \subseteq dom /\ published \subseteq pdus
  OBVIOUS
<1> HIDE DEF kept, dom, published
<1> QED BY <1>2, <1>3, <1>4, <1>5, <1>6, <1>7, <1>8

LEMMA ResyncedFacts ==
    ASSUME NEW s, NEW d, NEW a, a = Resynced(s, d)
    PROVE  /\ \A u \in DOMAIN a :
                \/ u = ManifestUri(d) /\ a[u] = s.mfts[d]
                \/ \E r \in s.rows : Uri(r) = u /\ a[u] = r.obj
           /\ \A r \in s.rows : r.detail = d => Uri(r) \in DOMAIN a
<1> DEFINE dom == {ManifestUri(d)} \cup {Uri(r) : r \in Issued(s.rows, d)}
           val(u) == IF u = ManifestUri(d) THEN s.mfts[d] ELSE ObjectAt(s.rows, u)
<1>1. a = [u \in dom |-> val(u)]
  BY DEF Resynced
<1>2. ASSUME NEW u \in dom
      PROVE  \/ u = ManifestUri(d) /\ val(u) = s.mfts[d]
             \/ \E r \in s.rows : Uri(r) = u /\ val(u) = r.obj
  <2>1. CASE u # ManifestUri(d)
    <3>1. \E r \in s.rows : Uri(r) = u
      BY <2>1 DEF Issued
    <3>2. (CHOOSE r \in s.rows : Uri(r) = u) \in s.rows
          /\ Uri(CHOOSE r \in s.rows : Uri(r) = u) = u
      BY <3>1
    <3>3. val(u) = (CHOOSE r \in s.rows : Uri(r) = u).obj
      BY <2>1, <3>1 DEF ObjectAt
    <3> QED BY <3>2, <3>3
  <2> QED BY <2>1
<1>3. \A r \in s.rows : r.detail = d => Uri(r) \in dom
  BY DEF Issued
<1> HIDE DEF val, dom
<1> QED BY <1>1, <1>2, <1>3

Uris(rows) == {Uri(r) : r \in rows}

\* s is what Rpkid makes of the rows.
Written(s, new, gone, revoked, mfts) ==
    /\ RpkidType(s) /\ s.state = rpkid.state /\ s.rows = Saved(new, gone)
    /\ s.revoked = rpkid.revoked \cup Uris(revoked)
    /\ s.serial = IF new = {} THEN rpkid.serial ELSE NextVersion
    /\ \A d \in Detail : s.mfts[d] = IF d \in DOMAIN mfts THEN mfts[d] ELSE rpkid.mfts[d]

LEMMA RpkidFacts ==
    ASSUME Ind, NEW new \in SUBSET Row, NEW gone, NEW revoked, NEW mfts, DOMAIN mfts \subseteq Detail
    PROVE  Written(Rpkid(new, gone, revoked, mfts), new, gone, revoked, mfts)
<1> DEFINE s == Rpkid(new, gone, revoked, mfts)
           rows == Saved(new, gone)
           more == rpkid.revoked \cup Uris(revoked)
           serial == IF new = {} THEN rpkid.serial ELSE NextVersion
           made == [d \in Detail |-> IF d \in DOMAIN mfts THEN mfts[d] ELSE rpkid.mfts[d]]
           unsent == rpkid.unsent \cup DOMAIN mfts
<1>1. RpkidType(rpkid) /\ rpkid.rows \subseteq Row /\ rpkid.serial \in Nat
  BY IndRows
<1>2. s = [rpkid EXCEPT !.rows = rows, !.revoked = more, !.serial = serial, !.mfts = made,
                        !.unsent = unsent]
  BY DEF Rpkid, Uris
<1>3. rows \in SUBSET Row /\ serial \in Nat /\ unsent \in SUBSET Detail
  BY <1>1 DEF Saved, NextVersion, RpkidType
<1>4. \A d \in Detail : made[d] = IF d \in DOMAIN mfts THEN mfts[d] ELSE rpkid.mfts[d]
  OBVIOUS
<1> HIDE DEF rows, more, serial, made, unsent, s
<1>5. /\ s \in [state : [Detail -> {"pending", "active", "deprecated"}], rows : SUBSET Row,
                revoked : {more}, serial : Nat, mfts : {made}, unsent : SUBSET Detail]
      /\ s.state = rpkid.state /\ s.rows = rows /\ s.revoked = more
      /\ s.serial = serial /\ s.mfts = made
  BY <1>1, <1>2, <1>3 DEF RpkidType
<1>6. RpkidType(s)
  BY <1>5 DEF RpkidType
<1>7. Written(s, new, gone, revoked, mfts)
  BY <1>4, <1>5, <1>6 DEF Written, rows, more, serial
<1> QED BY <1>7 DEF s

\* Objects named for a ROA are that ROA, and what is published is known to rpkid.
GoodMessage(s, pdus) ==
    \A pdu \in pdus : pdu.new # None =>
        /\ pdu.uri[1] = "roa" => pdu.new.what = pdu.uri[3]
        /\ pdu.uri[1] \in {"roa", "gbr"} /\ ~broken'.rolled => pdu.uri \in KnownTo(s)

WithdrawnStep ==
    ~broken'.rolled => \A u \in DOMAIN pubd \ DOMAIN pubd' :
        u[1] \in {"roa", "gbr"} => u \in KnownTo(rpkid)'

\* rpkid still knows what it knew.
StillKnown(s) ==
    ~broken'.rolled => /\ ~broken.rolled
                       /\ \A u \in KnownTo(rpkid) : u[1] \in {"roa", "gbr"} => u \in KnownTo(s)

\* The rows of a state s whose objects can be sent.
CanSend(s) == /\ RpkidType(s) /\ RoaRowsOK(s)
              /\ \A r \in s.rows : r.obj.ver # 0
              /\ \A d \in ActiveIn(s) : s.mfts[d] # None

LEMMA MessageKnown ==
    ASSUME Ind, NEW s, CanSend(s), Restamped(s), NEW pdus, Answered(s, pdus),
           GoodMessage(s, pdus), StillKnown(s)
    PROVE  PubdInv' /\ WithdrawnStep /\ \A u \in DOMAIN pubd' : pubd'[u] # None
<1>1. KnownTo(s) = KnownTo(rpkid)' /\ s.rows \subseteq Row
  BY RestampedRows DEF CanSend, RpkidType
<1>2. /\ \A u \in DOMAIN pubd : u[1] = "roa" => pubd[u].what = u[3]
      /\ ~broken.rolled => \A u \in DOMAIN pubd :
            u[1] \in {"roa", "gbr"} => u \in KnownTo(rpkid)
      /\ \A u \in DOMAIN pubd : pubd[u] # None
  BY DEF Ind, RequestsInv, PubdInv, KnownTo, TypeOK
\* What holds of every URI and its object.
<1> DEFINE Fits(u, obj) ==
        /\ obj # None
        /\ u[1] = "roa" => obj.what = u[3]
        /\ ~broken'.rolled /\ u[1] \in {"roa", "gbr"} => u \in KnownTo(s)
<1>3. \A u \in DOMAIN pubd : Fits(u, pubd[u])
  BY <1>2 DEF StillKnown
<1>4. \A u \in DOMAIN pubd' : Fits(u, pubd'[u])
  <2>1. CASE pubd' = pubd
    BY <1>3, <2>1
  <2>2. CASE pubd' = Applied(pdus)
    <3>1. \A pdu \in pdus : pdu.new # None => Fits(pdu.uri, pdu.new)
      BY DEF GoodMessage
    <3> HIDE DEF Fits
    <3> QED BY <1>3, <2>2, <3>1, AppliedFacts
  <2>3. CASE \E d \in Detail : s.state[d] = "active" /\ pubd' = Resynced(s, d)
    <3>1. PICK d \in Detail : s.state[d] = "active" /\ pubd' = Resynced(s, d)
      BY <2>3
    <3>2. Fits(ManifestUri(d), s.mfts[d])
      BY <3>1 DEF ManifestUri, ActiveIn, CanSend
    <3>3. ASSUME NEW r \in s.rows
          PROVE  Fits(Uri(r), r.obj)
      <4>1. r.obj # None
        BY DEF None, CanSend
      <4>2. Uri(r) \in KnownTo(s)
        BY DEF KnownTo
      <4>3. Uri(r)[1] = r.kind /\ Uri(r)[3] = r.name
        BY <1>1, UriFacts
      <4> QED BY <4>1, <4>2, <4>3 DEF RoaRowsOK, CanSend
    <3> HIDE DEF Fits
    <3> QED BY <3>1, <3>2, <3>3, ResyncedFacts
  <2> QED BY <2>1, <2>2, <2>3 DEF Answered
<1>5. PubdInv'
  <2>1. KnownTo(rpkid)' = rpkid'.revoked \cup {Uri(r) : r \in rpkid'.rows}
    BY DEF KnownTo
  <2> QED BY <1>1, <1>4, <2>1 DEF PubdInv
<1>6. WithdrawnStep
  BY <1>1, <1>3 DEF WithdrawnStep
<1> QED BY <1>4, <1>5, <1>6

LEMMA MessageKeepsRoa ==
    ASSUME Ind, NEW s, RpkidType(s), NEW pdus, Answered(s, pdus),
           GoodMessage(s, pdus), RoaRowsOK(s), NEW c \in RoasAt(pubd),
           \A u \in DOMAIN pubd, pdu \in pdus : u[1] = "roa" /\ u[3] = c /\ pdu.uri = u =>
                \E p \in pdus : p.uri[1] = "roa" /\ p.uri[3] = c /\ p.new # None,
           \E r \in s.rows : r.kind = "roa" /\ r.name = c
    PROVE  c \in RoasAt(pubd') \/ ResyncDrops(c)
<1>1. PICK u \in DOMAIN pubd : u[1] = "roa" /\ pubd[u].what = c
  BY DEF RoasAt
<1>2. u[3] = c
  BY <1>1 DEF Ind, RequestsInv, PubdInv
<1>3. CASE pubd' = pubd
  BY <1>3 DEF RoasAt
<1>4. CASE pubd' = Applied(pdus)
  <2>1. CASE \A pdu \in pdus : pdu.uri # u
    BY <1>1, <1>4, <2>1, AppliedFacts DEF RoasAt
  <2>2. CASE \E pdu \in pdus : pdu.uri = u
    <3>1. PICK p \in pdus : p.uri[1] = "roa" /\ p.uri[3] = c /\ p.new # None
      BY <1>1, <1>2, <2>2
    <3>2. PICK q \in pdus : q.uri = p.uri /\ q.new # None /\ pubd'[p.uri] = q.new
                            /\ p.uri \in DOMAIN pubd'
      BY <1>4, <3>1, AppliedFacts
    <3>3. q.new.what = c
      BY <3>1, <3>2 DEF GoodMessage
    <3> QED BY <3>1, <3>2, <3>3 DEF RoasAt
  <2> QED BY <2>1, <2>2
<1>5. CASE rpkid' = s /\ \E d \in Detail : s.state[d] = "active" /\ pubd' = Resynced(s, d)
  <2>1. PICK d \in Detail : rpkid' = s /\ s.state[d] = "active" /\ pubd' = Resynced(s, d)
    BY <1>5
  <2>2. PICK r \in s.rows : r.kind = "roa" /\ r.name = c
    OBVIOUS
  <2>3. ResyncDrops(c) \/ r.detail = d
    <3>1. ASSUME r.detail # d
          PROVE  ResyncDrops(c)
      <4>1. d \in Active' /\ r \in RowsOf("roa")' /\ pubd' = Resynced(rpkid', d)
        BY <2>1, <2>2 DEF Active, RowsOf
      <4> QED BY <2>2, <3>1, <4>1 DEF ResyncDrops
    <3> QED BY <3>1
  <2>4. s.rows \subseteq Row
    BY DEF RpkidType
  <2>5. Uri(r)[1] = "roa" /\ Uri(r)[3] = c /\ Uri(r) # ManifestUri(d)
    BY <2>2, <2>4, UriFacts
  <2> SUFFICES ASSUME r.detail = d
               PROVE  c \in RoasAt(pubd')
    BY <2>3
  <2>6. Uri(r) \in DOMAIN pubd'
    BY <2>1, <2>2, ResyncedFacts
  <2>7. PICK x \in s.rows : Uri(x) = Uri(r) /\ pubd'[Uri(r)] = x.obj
    BY <2>1, <2>5, <2>6, ResyncedFacts
  <2>8. x.kind = "roa" /\ x.name = c
    BY <2>4, <2>5, <2>7, UriFacts
  <2>9. pubd'[Uri(r)].what = c
    BY <2>7, <2>8 DEF RoaRowsOK
  <2> QED BY <2>5, <2>6, <2>9 DEF RoasAt
<1> QED BY <1>3, <1>4, <1>5 DEF Answered

-----------------------------------------------------------------------------
(***************************************************************************)
(* The end of a task.                                                      *)
(***************************************************************************)
LEMMA DoneFacts ==
    ASSUME Ind, Done
    PROVE  TaskType' /\ LoadedInv' /\ InstancesInv' /\ task'.at = "idle"
<1>1. task.kind \in {"roa", "gbr", "ee", "regen", "retry"}
  BY DEF Ind, Types, TaskType
<1>2. After(task.kind) \in {"roa", "gbr", "ee", "regen", "retry"}
  <2> DEFINE i == CHOOSE j \in DOMAIN Kinds : Kinds[j] = task.kind
  <2>1. DOMAIN Kinds = 1..5 /\ Len(Kinds) = 5
        /\ \A j \in 1..5 : Kinds[j] \in {"roa", "gbr", "ee", "regen", "retry"}
    BY DEF Kinds
  <2>2. \E j \in DOMAIN Kinds : Kinds[j] = task.kind
    BY <1>1 DEF Kinds
  <2>3. i \in 1..5
    BY <2>1, <2>2
  <2> HIDE DEF i
  <2>4. 1 + (i % 5) \in 1..5
    BY <2>3
  <2>5. After(task.kind) = Kinds[1 + (i % Len(Kinds))]
    BY DEF After, i
  <2> QED BY <2>1, <2>4, <2>5
<1>3. task' = Ready(After(task.kind))
  BY DEF Done
<1>4. /\ task'.kind \in {"roa", "gbr", "ee", "regen", "retry"} /\ task'.at = "idle"
      /\ task'.unread = {} /\ task'.got = {} /\ task'.items = {}
      /\ task'.new = {} /\ task'.gone = {}
  BY <1>2, <1>3 DEF Ready
<1>5. task' \in [kind : {"roa", "gbr", "ee", "regen", "retry"},
                 at : {"idle", "read", "count", "filter", "reply", "items"},
                 unread : {{}}, scope : Scope, got : {{}}, torn : BOOLEAN,
                 items : {{}}, orphans : SUBSET Row, details : SUBSET Detail,
                 new : SUBSET Row, gone : SUBSET Row]
  BY <1>2, <1>3 DEF Ready, Scope
<1>6. TaskType'
  BY <1>4, <1>5 DEF TaskType
<1> QED BY <1>4, <1>6 DEF LoadedInv, InstancesInv

RoaKeptStep ==
    ~task.torn => \A c \in steady' \cap (RoasAt(pubd) \cap {r.name : r \in RowsOf("roa")}) :
        c \in RoasAt(pubd') \/ ResyncDrops(c)

\* What Pdus makes of a URI.
LEMMA PdusFacts ==
    ASSUME NEW new \in SUBSET Row, NEW gone \in SUBSET Row, NEW pdu \in Pdus(new, gone)
    PROVE  /\ \E r \in new \cup gone : pdu.uri = Uri(r)
           /\ pdu.new # None => \E x \in new : pdu.uri = Uri(x) /\ pdu.new = x.obj
<1>1. PICK r \in new \cup gone :
        pdu = [uri |-> Uri(r), old |-> ObjectAt(gone, Uri(r)), new |-> ObjectAt(new, Uri(r))]
  BY DEF Pdus
<1>2. pdu.uri = Uri(r) /\ pdu.new = ObjectAt(new, pdu.uri)
  BY <1>1
<1>3. ASSUME pdu.new # None
      PROVE  \E x \in new : pdu.uri = Uri(x) /\ pdu.new = x.obj
  <2>1. \E x \in new : Uri(x) = pdu.uri
    BY <1>2, <1>3 DEF ObjectAt
  <2>2. (CHOOSE x \in new : Uri(x) = pdu.uri) \in new
        /\ Uri(CHOOSE x \in new : Uri(x) = pdu.uri) = pdu.uri
    BY <2>1
  <2>3. pdu.new = (CHOOSE x \in new : Uri(x) = pdu.uri).obj
    BY <1>2, <2>1 DEF ObjectAt
  <2> QED BY <2>2, <2>3
<1> QED BY <1>2, <1>3

\* Each row that is saved has its PDU.
LEMMA PdusPublish ==
    ASSUME NEW new \in SUBSET Row, NEW gone \in SUBSET Row, NEW r \in new,
           \A x \in new : x.obj.ver # 0
    PROVE  \E p \in Pdus(new, gone) : p.uri = Uri(r) /\ p.new # None
<1> DEFINE p == [uri |-> Uri(r), old |-> ObjectAt(gone, Uri(r)), new |-> ObjectAt(new, Uri(r))]
           x == CHOOSE y \in new : Uri(y) = Uri(r)
<1>1. p \in Pdus(new, gone)
  BY DEF Pdus
<1>2. x \in new
  OBVIOUS
<1>3. p.new = x.obj
  BY DEF ObjectAt
<1>4. p.new # None
  <2> HIDE DEF p, x
  <2> QED BY <1>2, <1>3 DEF None
<1>5. p.uri = Uri(r)
  OBVIOUS
<1> QED BY <1>1, <1>4, <1>5

\* The messages that tasks send: what is signed and gone, some manifests, and
\* what is sent again.
Message(s, signed, gone, manifests, details) ==
    Pdus(signed, gone) \cup manifests \cup RetryPdus(details, s.rows, signed)

SignedOK(s, signed) ==
    \A r \in signed : /\ r.obj.ver # 0
                      /\ r.kind = "roa" => r.obj.what = r.name
                      /\ r.kind \in {"roa", "gbr"} /\ ~broken'.rolled => Uri(r) \in KnownTo(s)

\* The ROA c is signed anew if it is withdrawn.
Replaced(signed, gone, c) ==
    \A r \in gone : r.kind = "roa" /\ r.name = c => \E x \in signed : x.kind = "roa" /\ x.name = c

PublishesAgain(pdus, c) ==
    \A u \in DOMAIN pubd, pdu \in pdus : u[1] = "roa" /\ u[3] = c /\ pdu.uri = u =>
        \E p \in pdus : p.uri[1] = "roa" /\ p.uri[3] = c /\ p.new # None

LEMMA MessageIsGood ==
    ASSUME NEW s, CanSend(s),
           NEW signed \in SUBSET Row, SignedOK(s, signed), NEW gone \in SUBSET Row,
           NEW manifests, \A pdu \in manifests : pdu.uri[1] = "mft", NEW details,
           NEW pdus, pdus = Message(s, signed, gone, manifests, details)
    PROVE  /\ GoodMessage(s, pdus)
           /\ \A c : Replaced(signed, gone, c) => PublishesAgain(pdus, c)
<1>0. pdus = Pdus(signed, gone) \cup manifests \cup RetryPdus(details, s.rows, signed)
  BY DEF Message
<1>1. s.rows \subseteq Row
  BY DEF CanSend, RpkidType
<1>2. ASSUME NEW pdu \in RetryPdus(details, s.rows, signed)
      PROVE  \E r \in s.rows : pdu.uri = Uri(r) /\ pdu.new = r.obj
  BY DEF RetryPdus
<1>3. ASSUME NEW pdu \in pdus, pdu.new # None
      PROVE  /\ pdu.uri[1] = "roa" => pdu.new.what = pdu.uri[3]
             /\ pdu.uri[1] \in {"roa", "gbr"} /\ ~broken'.rolled => pdu.uri \in KnownTo(s)
  <2>1. CASE pdu \in Pdus(signed, gone)
    <3>1. PICK x \in signed : pdu.uri = Uri(x) /\ pdu.new = x.obj
      BY <1>3, <2>1, PdusFacts
    <3>2. Uri(x)[1] = x.kind /\ Uri(x)[3] = x.name
      BY UriFacts
    <3> QED BY <3>1, <3>2 DEF SignedOK
  <2>2. CASE pdu \in manifests
    BY <2>2
  <2>3. CASE pdu \in RetryPdus(details, s.rows, signed)
    <3>1. PICK x \in s.rows : pdu.uri = Uri(x) /\ pdu.new = x.obj
      BY <1>2, <2>3
    <3>2. Uri(x)[1] = x.kind /\ Uri(x)[3] = x.name
      BY <1>1, UriFacts
    <3> QED BY <3>1, <3>2 DEF CanSend, RoaRowsOK, KnownTo
  <2> QED BY <1>0, <1>3, <2>1, <2>2, <2>3
<1>4. ASSUME NEW c, Replaced(signed, gone, c),
             NEW u \in DOMAIN pubd, NEW pdu \in pdus, u[1] = "roa", u[3] = c, pdu.uri = u
      PROVE  \E p \in pdus : p.uri[1] = "roa" /\ p.uri[3] = c /\ p.new # None
  <2>1. CASE pdu \in Pdus(signed, gone)
    <3>1. PICK r \in signed \cup gone : u = Uri(r)
      BY <1>4, <2>1, PdusFacts
    <3>2. r.kind = "roa" /\ r.name = c
      BY <1>4, <3>1, UriFacts
    <3>3. PICK x \in signed : x.kind = "roa" /\ x.name = c
      BY <1>4, <3>1, <3>2 DEF Replaced
    <3>4. PICK p \in Pdus(signed, gone) : p.uri = Uri(x) /\ p.new # None
      BY PdusPublish DEF SignedOK
    <3>5. p.uri[1] = "roa" /\ p.uri[3] = c /\ p \in pdus
      BY <1>0, <3>3, <3>4, UriFacts
    <3> QED BY <3>4, <3>5
  <2>2. CASE pdu \in manifests
    BY <1>4, <2>2
  <2>3. CASE pdu \in RetryPdus(details, s.rows, signed)
    <3>1. PICK x \in s.rows : pdu.new = x.obj
      BY <1>2, <2>3
    <3>2. pdu.new # None
      BY <3>1 DEF CanSend, None
    <3> QED BY <1>4, <3>2
  <2> QED BY <1>0, <1>4, <2>1, <2>2, <2>3
<1> QED BY <1>3, <1>4 DEF GoodMessage, PublishesAgain

\* What keeps the ROAs, in terms of what a step signs and withdraws.
LEMMA MessageStep ==
    ASSUME Ind, NEW s, CanSend(s), StillKnown(s),
           NEW signed \in SUBSET Row, SignedOK(s, signed), NEW gone \in SUBSET Row,
           NEW manifests, \A pdu \in manifests : pdu.uri[1] = "mft", NEW details,
           CallPubd(s, Message(s, signed, gone, manifests, details)),
           ~task.torn => \A c \in steady' : Replaced(signed, gone, c),
           ~task.torn => \A r \in RowsOf("roa") : r.name \in steady' =>
                \E x \in s.rows : x.kind = "roa" /\ x.name = r.name
    PROVE  /\ Restamped(s) /\ failures' \in 0..MaxTroubles
           /\ PubdInv' /\ RoaRowsInv' /\ WithdrawnStep /\ RoaKeptStep
           /\ \A u \in DOMAIN pubd' : pubd'[u] # None
<1> DEFINE pdus == Message(s, signed, gone, manifests, details)
<1>1. /\ GoodMessage(s, pdus)
      /\ \A c : Replaced(signed, gone, c) => PublishesAgain(pdus, c)
  BY MessageIsGood
<1>2. RpkidType(s) /\ RoaRowsOK(s)
  BY DEF CanSend
<1> HIDE DEF pdus
<1>3. Restamped(s) /\ Answered(s, pdus) /\ failures' \in 0..MaxTroubles
  BY <1>2, CallPubdFacts DEF pdus
<1>4. PubdInv' /\ WithdrawnStep /\ \A u \in DOMAIN pubd' : pubd'[u] # None
  <2>1. GoodMessage(s, pdus)
    BY <1>1
  <2> QED BY <1>3, <2>1, MessageKnown
<1>5. RoaRowsInv'
  BY <1>2, <1>3, RestampedRows
<1>6. RoaKeptStep
  <2>1. SUFFICES ASSUME ~task.torn, NEW c \in steady', c \in RoasAt(pubd),
                        NEW r \in RowsOf("roa"), r.name = c
                 PROVE  c \in RoasAt(pubd') \/ ResyncDrops(c)
    BY DEF RoaKeptStep
  <2>2. \E x \in s.rows : x.kind = "roa" /\ x.name = c
    BY <2>1
  <2>3. \A u \in DOMAIN pubd, pdu \in pdus : u[1] = "roa" /\ u[3] = c /\ pdu.uri = u =>
            \E p \in pdus : p.uri[1] = "roa" /\ p.uri[3] = c /\ p.new # None
    BY <1>1, <2>1 DEF PublishesAgain
  <2> QED BY <1>1, <1>2, <1>3, <2>1, <2>2, <2>3, MessageKeepsRoa
<1> QED BY <1>3, <1>4, <1>5, <1>6

-----------------------------------------------------------------------------
(***************************************************************************)
(* A task that publishes and ends: what it must know of its rows.          *)
(***************************************************************************)
\* A ghostbuster or ROA whose row is removed is revoked.
RevokesRemoved(new, gone, replaced) ==
    ~broken.rolled => \A r \in rpkid.rows, x \in new \cup gone \cup replaced :
        SameRow(r, x) /\ r.kind \in {"roa", "gbr"} => r \in gone

\* A manifest that is not made anew lists what it should.
LeavesManifests(new, gone, replaced, details) ==
    NoRollover /\ broken.ees = {} => \A d \in Active \ details :
        /\ rpkid.mfts[d] = Manifest(rpkid.rows, d)
        /\ \A x \in new : x.detail # d
        /\ \A r \in rpkid.rows, x \in new \cup gone \cup replaced : SameRow(r, x) => r.detail # d

\* No ROA that is asked for all the time is withdrawn.
LeavesSteady(lost) ==
    \A r \in lost : r.kind = "roa" /\ ~task.torn => r.name \notin steady

Safe == Ind' /\ RoaKeptStep /\ WithdrawnStep

LEMMA PublishKeeps ==
    ASSUME Ind, NEW new \in SUBSET Row, NEW gone \in SUBSET Row, NEW replaced \in SUBSET Row,
           NEW details \in SUBSET Detail, Publish(new, gone, replaced, details), Done,
           UNCHANGED <<irdb, steady, broken>>, slices' \in 0..MaxTroubles,
           \A r \in new : r.kind # "roa" /\ r.obj.ver = NextVersion,
           RevokesRemoved(new, gone, replaced),
           LeavesManifests(new, gone, replaced, details),
           LeavesSteady(gone \cup replaced)
    PROVE  Safe
<1> DEFINE rows == Saved(new, gone \cup replaced)
           mfts == Manifests(details, rows)
           signed == new \cup task.new
           lost == gone \cup replaced \cup task.gone
           s == Rpkid(new, gone \cup replaced, gone, mfts)
<1>1. /\ RpkidType(rpkid) /\ RoaRowsOK(rpkid) /\ ActiveIn(rpkid) = Active
      /\ rpkid.rows \subseteq Row /\ rpkid.serial \in Nat
      /\ \A r \in rpkid.rows : r.obj.ver \in 1..rpkid.serial
      /\ task.new \in SUBSET Row /\ task.gone \in SUBSET Row
  <2>1. TaskType
    BY DEF Ind, Types
  <2>2. task.new \in SUBSET Row /\ task.gone \in SUBSET Row
    BY <2>1 DEF TaskType
  <2> QED BY <2>2, IndRows
<1>2. /\ RpkidType(s) /\ s.state = rpkid.state /\ s.rows = rows
      /\ s.revoked = rpkid.revoked \cup Uris(gone)
      /\ s.serial = IF new = {} THEN rpkid.serial ELSE NextVersion
      /\ \A d \in Detail : s.mfts[d] = IF d \in details THEN Manifest(rows, d) ELSE rpkid.mfts[d]
  <2>1. DOMAIN mfts = details /\ \A d \in details : mfts[d] = Manifest(rows, d)
    BY DEF Manifests
  <2> HIDE DEF mfts
  <2>2. Written(s, new, gone \cup replaced, gone, mfts)
    BY <2>1, RpkidFacts
  <2> HIDE DEF s
  <2> QED BY <2>1, <2>2 DEF Written, rows
<1>3. CallPubd(s, Message(s, signed, lost, ManifestPdus(mfts), details))
  <2>1. CallPubd(s, Pdus(signed, lost) \cup ManifestPdus(mfts)
                    \cup RetryPdus(details, rows, signed))
    BY DEF Publish
  <2> HIDE DEF s, rows, mfts, signed, lost
  <2> QED BY <1>2, <2>1 DEF Message
<1>4. /\ rows \subseteq rpkid.rows \cup new
      /\ \A r \in rpkid.rows : r \in rows \/ \E x \in new \cup gone \cup replaced : SameRow(r, x)
      /\ new \subseteq rows
  BY DEF Saved
<1>5. \A pdu \in ManifestPdus(mfts) : pdu.uri[1] = "mft"
  BY DEF ManifestPdus, ManifestUri
<1> HIDE DEF s, rows, mfts, signed, lost
<1>6. ActiveIn(s) = Active /\ broken' = broken /\ steady' = steady /\ irdb' = irdb
  BY <1>1, <1>2 DEF ActiveIn
<1>7. RoaRowsOK(s)
  BY <1>1, <1>2, <1>4, <1>6 DEF RoaRowsOK
<1>8. \A d \in Detail : s.state[d] # "pending" => s.mfts[d].what = d
  <2>1. ManifestsInv
    BY DEF Ind, RequestsInv
  <2>2. \A d : Manifest(rows, d).what = d
    BY DEF Manifest
  <2> QED BY <1>2, <2>1, <2>2 DEF ManifestsInv
<1>9. \A r \in s.rows : r.detail \in Detail /\ r.obj.ver \in 1..s.serial
  <2>1. ASSUME NEW r \in rpkid.rows
        PROVE  r.detail \in Detail /\ r.obj.ver \in 1..s.serial
    BY <1>1, <1>2 DEF Row, NextVersion
  <2>2. ASSUME NEW r \in new
        PROVE  r.detail \in Detail /\ r.obj.ver \in 1..s.serial
    BY <1>1, <1>2 DEF Row, NextVersion
  <2> QED BY <1>2, <1>4, <2>1, <2>2
<1>10. CanSend(s)
  <2>1. {} \notin Detail /\ None.what = {}
    BY RequestsAssumption DEF None
  <2>2. \A d \in ActiveIn(s) : s.mfts[d] # None
    BY <1>8, <2>1 DEF ActiveIn
  <2>3. \A r \in s.rows : r.obj.ver # 0
    BY <1>9
  <2> QED BY <1>2, <1>7, <2>2, <2>3 DEF CanSend
<1>11. StillKnown(s)
  <2>1. ASSUME ~broken.rolled, NEW r \in rpkid.rows, r.kind \in {"roa", "gbr"}
        PROVE  Uri(r) \in KnownTo(s)
    BY <1>2, <1>4, <2>1 DEF RevokesRemoved, KnownTo, Uris
  <2>2. \A r \in rpkid.rows : Uri(r)[1] = r.kind
    BY <1>1, UriFacts
  <2> QED BY <1>2, <1>6, <2>1, <2>2 DEF StillKnown, KnownTo
<1>12. SignedOK(s, signed)
  <2>1. ASSUME NEW r \in new
        PROVE  r.obj.ver # 0 /\ r.kind # "roa" /\ Uri(r) \in KnownTo(s)
    BY <1>1, <1>2, <1>4 DEF NextVersion, KnownTo
  <2>2. ASSUME NEW r \in task.new
        PROVE  /\ r.obj.ver # 0 /\ r.obj.what = r.name
               /\ ~broken.rolled => Uri(r) \in KnownTo(s)
    <3>1. LoadedInv /\ InstancesInv
      BY DEF Ind, RequestsInv
    <3>2. r.kind = "roa" /\ r.obj.ver # 0 /\ r.obj.what = r.name /\ task.at = "items"
      BY <3>1 DEF LoadedInv
    <3>3. ~broken.rolled => r \in rpkid.rows
      BY <3>1, <3>2 DEF InstancesInv
    <3>4. Uri(r)[1] = "roa"
      BY <1>1, <3>2, UriFacts
    <3> QED BY <1>6, <1>11, <3>2, <3>3, <3>4 DEF StillKnown, KnownTo
  <2> QED BY <1>6, <2>1, <2>2 DEF SignedOK, signed
<1>13. ~task.torn => \A c \in steady' : Replaced(signed, lost, c)
  <2>1. SUFFICES ASSUME ~task.torn, NEW c \in steady, NEW r \in lost, r.kind = "roa", r.name = c
                 PROVE  \E x \in signed : x.kind = "roa" /\ x.name = c
    BY <1>6 DEF Replaced
  <2>2. r \in task.gone
    BY <2>1 DEF LeavesSteady, lost
  <2>3. LoadedInv
    BY DEF Ind, RequestsInv
  <2>4. \E x \in task.new : x.kind = "roa" /\ x.name = r.name
    BY <2>2, <2>3 DEF LoadedInv
  <2> QED BY <2>1, <2>4 DEF signed
<1>14. ~task.torn => \A r \in RowsOf("roa") : r.name \in steady' =>
            \E x \in s.rows : x.kind = "roa" /\ x.name = r.name
  <2>1. SUFFICES ASSUME ~task.torn, NEW r \in rpkid.rows, r.kind = "roa", r.name \in steady
                 PROVE  r \in rows
    BY <1>2, <1>6 DEF RowsOf
  <2>2. ASSUME NEW x \in new \cup gone \cup replaced, SameRow(r, x)
        PROVE  FALSE
    BY <2>1, <2>2 DEF SameRow, LeavesSteady
  <2> QED BY <1>4, <2>2
<1>15. signed \in SUBSET Row /\ lost \in SUBSET Row
  BY <1>1 DEF signed, lost
<1>16. /\ Restamped(s) /\ failures' \in 0..MaxTroubles
       /\ PubdInv' /\ RoaRowsInv' /\ WithdrawnStep /\ RoaKeptStep
       /\ \A u \in DOMAIN pubd' : pubd'[u] # None
  BY <1>3, <1>5, <1>6, <1>10, <1>11, <1>12, <1>13, <1>14, <1>15, MessageStep
<1>17. TaskType' /\ LoadedInv' /\ InstancesInv' /\ task'.at = "idle"
  BY DoneFacts
<1>18. /\ RpkidType(rpkid') /\ rpkid'.state = rpkid.state /\ rpkid'.mfts = s.mfts
       /\ Active' = Active
       /\ \A d : Manifest(rpkid'.rows, d) = Manifest(rows, d)
       /\ \A r \in rpkid'.rows : r.detail \in Detail /\ r.obj.ver \in 1..rpkid'.serial
  <2>1. /\ \A d : Manifest(rpkid'.rows, d) = Manifest(s.rows, d)
        /\ ActiveIn(s) = Active'
        /\ \A r \in rpkid'.rows : \E x \in s.rows : Like(r, x)
    BY <1>2, <1>16, RestampedRows
  <2>2. /\ RpkidType(rpkid') /\ rpkid'.state = s.state /\ rpkid'.mfts = s.mfts
        /\ rpkid'.serial = s.serial
    BY <1>16 DEF Restamped
  <2>3. \A r \in rpkid'.rows : r.detail \in Detail /\ r.obj.ver \in 1..rpkid'.serial
    BY <1>9, <2>1, <2>2 DEF Like
  <2> QED BY <1>2, <1>6, <2>1, <2>2, <2>3
<1>19. ManifestsInv'
  <2>1. \A d \in Detail : rpkid'.state[d] # "pending" => rpkid'.mfts[d].what = d
    BY <1>2, <1>8, <1>18
  <2>2. ASSUME NoRollover, broken.ees = {}, NEW d \in Active
        PROVE  s.mfts[d] = Manifest(rows, d)
    <3>1. CASE d \in details
      BY <1>2, <3>1 DEF Active
    <3>2. CASE d \notin details
      <4>1. /\ rpkid.mfts[d] = Manifest(rpkid.rows, d)
            /\ \A x \in new : x.detail # d
            /\ \A r \in rpkid.rows, x \in new \cup gone \cup replaced :
                    SameRow(r, x) => r.detail # d
        BY <2>2, <3>2 DEF LeavesManifests
      <4>2. Issued(rows, d) = Issued(rpkid.rows, d)
        BY <1>4, <4>1 DEF Issued
      <4>3. Manifest(rows, d) = Manifest(rpkid.rows, d)
        BY <4>2 DEF Manifest
      <4>4. s.mfts[d] = rpkid.mfts[d]
        BY <1>2, <3>2 DEF Active
      <4> QED BY <4>1, <4>3, <4>4
    <3> QED BY <3>1, <3>2
  <2>3. NoRollover' <=> NoRollover
    BY <1>18 DEF NoRollover
  <2> QED BY <1>6, <1>18, <2>1, <2>2, <2>3 DEF ManifestsInv
<1>20. RolloverInv'
  BY <1>6, <1>18 DEF Ind, RequestsInv, RolloverInv, NoRollover
<1>21. Types'
  <2>1. failures' \in Nat /\ slices' \in Nat
    BY <1>16, RequestsAssumption
  <2> QED BY <1>6, <1>17, <1>18, <2>1 DEF Ind, Types
<1>22. TypeOK'
  <2>1. task'.at \in {"idle", "read", "count", "filter", "reply", "items"}
    BY <1>17
  <2>2. rpkid'.state \in [Detail -> {"pending", "active", "deprecated"}]
        /\ rpkid'.unsent \subseteq Detail
    BY <1>18 DEF RpkidType
  <2> QED BY <1>6, <1>16, <1>18, <2>1, <2>2 DEF Ind, TypeOK
<1> QED BY <1>16, <1>17, <1>19, <1>20, <1>21, <1>22 DEF Safe, Ind, RequestsInv

-----------------------------------------------------------------------------
(***************************************************************************)
(* The steps that publish.                                                 *)
(***************************************************************************)
LEMMA TaskFields ==
    ASSUME Ind
    PROVE  /\ task.orphans \in SUBSET Row /\ task.details \in SUBSET Detail
           /\ task.new \in SUBSET Row /\ task.gone \in SUBSET Row
           /\ task.at = "items" => task.kind = "roa"
           /\ task.kind = "roa" => task.got \subseteq Content /\ task.items \subseteq Content \X SUBSET Row
           /\ task.kind = "gbr" => task.got \subseteq Ca \X Vcard
           /\ task.kind = "ee" => task.got \subseteq EeReply
           /\ failures \in Nat /\ slices \in Nat /\ slices \in 0..MaxTroubles
           /\ rpkid.serial \in Nat /\ NextVersion \in Nat /\ NextVersion # 0
<1>1. rpkid.serial \in Nat
  BY IndRows
<1>2. TaskType /\ failures \in Nat /\ slices \in Nat /\ slices \in 0..MaxTroubles
  BY DEF Ind, Types, TypeOK
<1>3. task.at = "items" => task.kind = "roa"
  BY <1>2 DEF TaskType
<1> QED BY <1>1, <1>2, <1>3 DEF TaskType, NextVersion

\* Manifests list the rows, except in the middle of UpdateROAs.
LEMMA ManifestsAreExact ==
    ASSUME Ind, NoRollover, broken.ees = {}, task.at # "items" \/ task.new = {}, NEW d \in Active
    PROVE  rpkid.mfts[d] = Manifest(rpkid.rows, d)
BY DEF Ind, RequestsInv, ManifestsInv

LEMMA NotRolledYet ==
    ASSUME Ind, NoRollover
    PROVE  ~broken.rolled
<1>1. \A d \in FirstActive : rpkid.state[d] = "active"
  BY DEF NoRollover, Active
<1> QED BY <1>1 DEF Ind, RequestsInv, RolloverInv

LEMMA FinishRoasSafe ==
    ASSUME Ind, FinishRoas
    PROVE  Safe
<1> DEFINE details == ManifestsFor(task.orphans, task.details \cup {r.detail : r \in task.orphans})
<1>1. /\ task.at = "items" /\ Publish({}, task.orphans, {}, details) /\ Done
      /\ UNCHANGED <<irdb, steady, broken>> /\ slices' = slices
  BY DEF FinishRoas, Same
<1>2. LoadedInv /\ InstancesInv /\ ManifestsInv
  BY DEF Ind, RequestsInv
<1>3. details \in SUBSET Detail
  BY TaskFields DEF ManifestsFor, Row
<1>4. \A r \in task.orphans : r.kind = "roa" /\ r.name \notin task.got
  BY <1>1, <1>2 DEF LoadedInv
<1>5. RevokesRemoved({}, task.orphans, {})
  BY <1>1, <1>2, <1>4 DEF RevokesRemoved, InstancesInv, SameRow, RowsOf
<1>6. LeavesSteady(task.orphans \cup {})
  BY <1>1, <1>2, <1>4, TaskFields DEF LeavesSteady, LoadedInv
<1>7. LeavesManifests({}, task.orphans, {}, details)
  <2>1. SUFFICES ASSUME NoRollover, broken.ees = {}, NEW d \in Active \ details
                 PROVE  /\ rpkid.mfts[d] = Manifest(rpkid.rows, d)
                        /\ \A r \in rpkid.rows, x \in task.orphans : SameRow(r, x) => r.detail # d
    BY DEF LeavesManifests
  <2>2. task.gone = {}
    BY <1>1, <1>2, <2>1, NotRolledYet DEF InstancesInv
  <2>3. CASE task.new = {} /\ task.orphans = {}
    BY <2>1, <2>3, ManifestsAreExact
  <2>4. CASE task.new # {} \/ task.orphans # {}
    <3>1. d \notin task.details /\ \A r \in task.orphans : r.detail # d
      BY <2>1, <2>4 DEF ManifestsFor
    <3>2. rpkid.mfts[d] = Manifest(rpkid.rows, d)
      BY <1>2, <2>1, <3>1 DEF ManifestsInv
    <3>3. \A r \in rpkid.rows, x \in task.orphans : SameRow(r, x) => r \in task.orphans
      BY <1>1, <1>2, <1>4, <2>1, NotRolledYet DEF InstancesInv, SameRow, RowsOf
    <3> QED BY <3>1, <3>2, <3>3
  <2> QED BY <2>3, <2>4
<1> HIDE DEF details
<1> QED BY <1>1, <1>3, <1>5, <1>6, <1>7, TaskFields, PublishKeeps

LEMMA PostponeRoasSafe ==
    ASSUME Ind, PostponeRoas
    PROVE  Safe
<1> DEFINE details == ManifestsFor({}, task.details)
<1>1. /\ task.at = "items" /\ Publish({}, {}, {}, details) /\ Done
      /\ UNCHANGED <<irdb, steady, broken>> /\ slices' = slices + 1 /\ MoreTroubles
  BY DEF PostponeRoas
<1>2. InstancesInv /\ ManifestsInv
  BY DEF Ind, RequestsInv
<1>3. details \in SUBSET Detail
  BY TaskFields DEF ManifestsFor
<1>4. LeavesManifests({}, {}, {}, details)
  <2>1. SUFFICES ASSUME NoRollover, broken.ees = {}, NEW d \in Active \ details
                 PROVE  rpkid.mfts[d] = Manifest(rpkid.rows, d)
    BY DEF LeavesManifests
  <2>2. task.gone = {}
    BY <1>1, <1>2, <2>1, NotRolledYet DEF InstancesInv
  <2> QED BY <1>1, <1>2, <2>1, <2>2 DEF ManifestsFor, ManifestsInv
<1>5. slices' \in 0..MaxTroubles
  BY <1>1, TaskFields, RequestsAssumption DEF MoreTroubles
<1>6. RevokesRemoved({}, {}, {}) /\ LeavesSteady({} \cup {})
  BY DEF RevokesRemoved, LeavesSteady
<1> HIDE DEF details
<1> QED BY <1>1, <1>3, <1>4, <1>5, <1>6, PublishKeeps

LEMMA RegenerateSafe ==
    ASSUME Ind, NEW due \in SUBSET Signing, Regenerate(due)
    PROVE  Safe
<1>1. /\ task.kind = "regen" /\ Publish({}, {}, {}, due) /\ Done
      /\ UNCHANGED <<irdb, steady, broken>> /\ slices' = slices
  BY DEF Regenerate, Same
<1>2. due \in SUBSET Detail
  BY DEF Signing
<1>3. LeavesManifests({}, {}, {}, due)
  <2>1. task.at # "items"
    BY <1>1, TaskFields
  <2> QED BY <2>1, ManifestsAreExact DEF LeavesManifests
<1>4. RevokesRemoved({}, {}, {}) /\ LeavesSteady({} \cup {})
  BY DEF RevokesRemoved, LeavesSteady
<1> QED BY <1>1, <1>2, <1>3, <1>4, TaskFields, PublishKeeps

LEMMA UpdateGhostbustersSafe ==
    ASSUME Ind, UpdateGhostbusters
    PROVE  Safe
<1> DEFINE wanted == {x \in Active \X Vcard : <<CaOf[x[1]], x[2]>> \in task.got}
           has == {<<r.detail, r.name>> : r \in RowsOf("gbr")}
           orphans == {r \in RowsOf("gbr") : <<r.detail, r.name>> \notin wanted}
           made == {Product("gbr", x[2], x[1], NextVersion, x[2]) : x \in wanted \ has}
           details == {x[1] : x \in wanted} \cup {r.detail : r \in orphans}
<1>1. /\ task.kind = "gbr" /\ Publish(made, orphans, {}, details) /\ Done
      /\ UNCHANGED <<irdb, steady, broken>> /\ slices' = slices
  BY DEF UpdateGhostbusters, Same
<1>2. rpkid.rows \subseteq Row
  BY IndRows
<1>3. orphans \in SUBSET Row /\ details \in SUBSET Detail
  <2>1. \A x \in wanted : x[1] \in Detail
    BY DEF Active
  <2>2. \A r \in orphans : r \in Row /\ r.detail \in Detail
    BY <1>2 DEF RowsOf, Row
  <2> QED BY <2>1, <2>2
<1>4. ASSUME NEW r \in made
      PROVE  /\ r \in Row /\ r.kind = "gbr" /\ r.obj.ver = NextVersion /\ r.detail \in details
             /\ <<r.detail, r.name>> \in wanted \ has
  <2>1. PICK x \in wanted \ has : r = Product("gbr", x[2], x[1], NextVersion, x[2])
    OBVIOUS
  <2>2. x[1] \in Detail /\ x[2] \in Vcard /\ x = <<x[1], x[2]>> /\ "gbr" \in Kind
    BY DEF Active, Kind
  <2>3. r \in Row /\ r.kind = "gbr" /\ r.name = x[2] /\ r.detail = x[1] /\ r.obj.ver = NextVersion
    BY <2>1, <2>2, TaskFields, ProductFacts DEF What, Name
  <2> QED BY <2>1, <2>2, <2>3
<1>5. ASSUME NEW r \in rpkid.rows, NEW x \in made \cup orphans, SameRow(r, x)
      PROVE  r \in orphans
  <2>1. x.kind = "gbr"
    BY <1>4 DEF RowsOf
  <2>2. r \in RowsOf("gbr") /\ r.name = x.name /\ r.detail = x.detail
    BY <1>5, <2>1 DEF SameRow, RowsOf
  <2>3. <<r.detail, r.name>> \in has
    BY <2>2
  <2>4. x \in orphans
    BY <1>4, <2>2, <2>3
  <2> QED BY <2>2, <2>4
<1>6. \A r \in orphans : r.kind = "gbr" /\ r.detail \in details
  BY DEF RowsOf
<1> HIDE DEF wanted, has, orphans, made, details
<1>7. RevokesRemoved(made, orphans, {})
  BY <1>5 DEF RevokesRemoved
<1>8. LeavesManifests(made, orphans, {}, details)
  <2>1. task.at # "items"
    BY <1>1, TaskFields
  <2> QED BY <1>4, <1>5, <1>6, <2>1, ManifestsAreExact DEF LeavesManifests
<1>9. LeavesSteady(orphans \cup {})
  BY <1>6 DEF LeavesSteady
<1>10. made \in SUBSET Row /\ \A r \in made : r.kind # "roa" /\ r.obj.ver = NextVersion
  BY <1>4
<1> QED BY <1>1, <1>3, <1>7, <1>8, <1>9, <1>10, TaskFields, PublishKeeps

\* What a reply about a router gives rise to.
LEMMA EeFacts ==
    ASSUME Ind, NEW x \in EeReply
    PROVE  /\ \A r \in MadeFor(x) : /\ r \in Row /\ r.kind = "ee" /\ r.obj.ver = NextVersion
                                    /\ r.detail \in CoveringEe(x.what)
           /\ \A r \in Reissued(x) : /\ r \in Row /\ r.kind = "ee"
                                     /\ r.detail \in CoveringEe(x.what)
                                     /\ Reissue(r, x.what) \in MadeFor(x)
           /\ \A r \in Uncovered(x) : r \in Row /\ r.kind = "ee"
           /\ CoveringEe(x.what) \subseteq Detail /\ x.gski \in Gski
<1>1. rpkid.rows \subseteq Row
  BY IndRows
<1>2. x.gski \in Gski /\ x.what \in What /\ "ee" \in Kind
  BY DEF EeReply, What, Kind
<1>3. CoveringEe(x.what) \subseteq Detail
  BY DEF CoveringEe, Active
<1>4. \A r \in RowsFor(x) : r \in Row /\ r.kind = "ee" /\ r.name = x.gski
  BY <1>1 DEF RowsFor, RowsOf
<1>5. \A r \in Reissued(x) : /\ r \in Row /\ r.kind = "ee" /\ r.name = x.gski
                             /\ r.detail \in CoveringEe(x.what)
  BY <1>4 DEF Reissued
<1>6. ASSUME NEW d \in CoveringEe(x.what), NEW r,
             r = Product("ee", x.gski, d, NextVersion, x.what)
      PROVE  r \in Row /\ r.kind = "ee" /\ r.obj.ver = NextVersion /\ r.detail = d
  BY <1>2, <1>3, <1>6, TaskFields, ProductFacts DEF Name
<1>7. ASSUME NEW r \in MadeFor(x)
      PROVE  \E d \in CoveringEe(x.what) : r = Product("ee", x.gski, d, NextVersion, x.what)
  BY <1>5 DEF MadeFor, Reissue
<1>8. \A r \in MadeFor(x) : /\ r \in Row /\ r.kind = "ee" /\ r.obj.ver = NextVersion
                            /\ r.detail \in CoveringEe(x.what)
  BY <1>6, <1>7
<1>9. \A r \in Reissued(x) : Reissue(r, x.what) \in MadeFor(x)
  BY DEF MadeFor
<1>10. \A r \in Uncovered(x) : r \in Row /\ r.kind = "ee"
  BY <1>4 DEF Uncovered
<1> QED BY <1>2, <1>3, <1>5, <1>8, <1>9, <1>10

LEMMA UpdateEesSafe ==
    ASSUME Ind, UpdateEes
    PROVE  Safe
<1> DEFINE gone == Orphans \cup UNION {Uncovered(x) : x \in task.got}
           made == UNION {MadeFor(x) : x \in task.got}
           replaced == UNION {Reissued(x) : x \in task.got}
           details == {r.detail : r \in gone} \cup UNION {CoveringEe(x.what) : x \in task.got}
<1>1. /\ task.kind = "ee" /\ Publish(made, gone, replaced, details) /\ Done
      /\ UNCHANGED <<irdb, steady, broken>> /\ slices' = slices
  BY DEF UpdateEes, Same
<1>2. rpkid.rows \subseteq Row /\ task.got \subseteq EeReply
  BY <1>1, IndRows, TaskFields
<1>3. \A r \in gone : r \in Row /\ r.kind = "ee" /\ r.detail \in details
  BY <1>2, EeFacts DEF Orphans, RowsOf
<1>4. \A r \in made : r \in Row /\ r.kind = "ee" /\ r.obj.ver = NextVersion /\ r.detail \in details
  BY <1>2, EeFacts
<1>5. \A r \in replaced : r \in Row /\ r.kind = "ee" /\ r.detail \in details
  BY <1>2, EeFacts
<1>6. details \in SUBSET Detail
  <2>1. \A r \in gone : r.detail \in Detail
    BY <1>3 DEF Row
  <2> QED BY <1>2, <2>1, EeFacts
<1> HIDE DEF gone, made, replaced, details
<1>7. ASSUME NEW r \in rpkid.rows, NEW x \in made \cup gone \cup replaced, SameRow(r, x)
      PROVE  r.kind = "ee" /\ r.detail \in details
  BY <1>3, <1>4, <1>5, <1>7 DEF SameRow
<1>8. RevokesRemoved(made, gone, replaced)
  BY <1>7 DEF RevokesRemoved
<1>9. LeavesManifests(made, gone, replaced, details)
  <2>1. task.at # "items"
    BY <1>1, TaskFields
  <2> QED BY <1>4, <1>7, <2>1, ManifestsAreExact DEF LeavesManifests
<1>10. LeavesSteady(gone \cup replaced)
  BY <1>3, <1>5 DEF LeavesSteady
<1>11. /\ made \in SUBSET Row /\ gone \in SUBSET Row /\ replaced \in SUBSET Row
       /\ \A r \in made : r.kind # "roa" /\ r.obj.ver = NextVersion
  BY <1>3, <1>4, <1>5
<1> QED BY <1>1, <1>6, <1>8, <1>9, <1>10, <1>11, TaskFields, PublishKeeps

-----------------------------------------------------------------------------
(***************************************************************************)
(* The other steps that change rpkid's rows.                               *)
(***************************************************************************)
\* What follows for all of them when rpkid's rows are s.
RowsFit(s) ==
    /\ \A d \in Detail : s.state[d] # "pending" => s.mfts[d].what = d
    /\ \A r \in s.rows : r.detail \in Detail /\ r.obj.ver \in 1..s.serial

LEMMA FitCanSend ==
    ASSUME NEW s, RpkidType(s), RoaRowsOK(s), RowsFit(s)
    PROVE  CanSend(s)
<1>1. {} \notin Detail /\ None.what = {}
  BY RequestsAssumption DEF None
<1>2. \A d \in ActiveIn(s) : s.mfts[d] # None
  BY <1>1 DEF ActiveIn, RowsFit
<1>3. \A r \in s.rows : r.obj.ver # 0
  BY DEF RowsFit
<1> QED BY <1>2, <1>3 DEF CanSend

LEMMA IndFits ==
    ASSUME Ind
    PROVE  RowsFit(rpkid)
BY DEF Ind, TypeOK, RequestsInv, ManifestsInv, RowsFit

LEMMA AfterRestamping ==
    ASSUME NEW s, RpkidType(s), RowsFit(s), Restamped(s)
    PROVE  /\ RpkidType(rpkid') /\ rpkid'.state = s.state /\ rpkid'.mfts = s.mfts
           /\ Active' = ActiveIn(s)
           /\ \A d : Manifest(rpkid'.rows, d) = Manifest(s.rows, d)
           /\ \A r \in rpkid'.rows : r.detail \in Detail /\ r.obj.ver \in 1..rpkid'.serial
           /\ \A d \in Detail : rpkid'.state[d] # "pending" => rpkid'.mfts[d].what = d
           /\ rpkid'.state \in [Detail -> {"pending", "active", "deprecated"}]
           /\ rpkid'.unsent \subseteq Detail
<1>1. /\ \A d : Manifest(rpkid'.rows, d) = Manifest(s.rows, d)
      /\ ActiveIn(s) = Active'
      /\ \A r \in rpkid'.rows : \E x \in s.rows : Like(r, x)
  BY RestampedRows
<1>2. /\ RpkidType(rpkid') /\ rpkid'.state = s.state /\ rpkid'.mfts = s.mfts
      /\ rpkid'.serial = s.serial
  BY DEF Restamped
<1>3. \A r \in rpkid'.rows : r.detail \in Detail /\ r.obj.ver \in 1..rpkid'.serial
  BY <1>1, <1>2 DEF Like, RowsFit
<1>4. rpkid'.state \in [Detail -> {"pending", "active", "deprecated"}]
      /\ rpkid'.unsent \subseteq Detail
  BY <1>2 DEF RpkidType
<1> QED BY <1>1, <1>2, <1>3, <1>4 DEF RowsFit

LEMMA RetrySafe ==
    ASSUME Ind, Retry
    PROVE  Safe
<1> DEFINE manifests == {[uri |-> ManifestUri(d), old |-> None, new |-> rpkid.mfts[d]] :
                            d \in Active \cap rpkid.unsent}
<1>1. /\ task.kind = "retry" /\ CallPubd(rpkid, manifests \cup RetryPdus(Active, rpkid.rows, {}))
      /\ Done /\ UNCHANGED <<irdb, steady, broken>> /\ slices' = slices
  BY DEF Retry, Same
<1>2. \A pdu \in manifests : pdu.uri[1] = "mft"
  BY DEF ManifestUri
<1> HIDE DEF manifests
<1>3. Pdus({}, {}) = {}
  BY DEF Pdus
<1>4. CallPubd(rpkid, Message(rpkid, {}, {}, manifests, Active))
  BY <1>1, <1>3 DEF Message
<1>5. CanSend(rpkid) /\ RowsFit(rpkid) /\ RpkidType(rpkid) /\ ActiveIn(rpkid) = Active
  BY IndFits, IndRows, FitCanSend
<1>6. StillKnown(rpkid) /\ SignedOK(rpkid, {}) /\ \A c : Replaced({}, {}, c)
  BY <1>1 DEF StillKnown, SignedOK, Replaced
<1>7. \A r \in RowsOf("roa") : \E x \in rpkid.rows : x.kind = "roa" /\ x.name = r.name
  BY DEF RowsOf
<1>8. /\ Restamped(rpkid) /\ failures' \in 0..MaxTroubles
      /\ PubdInv' /\ RoaRowsInv' /\ WithdrawnStep /\ RoaKeptStep
      /\ \A u \in DOMAIN pubd' : pubd'[u] # None
  BY <1>2, <1>4, <1>5, <1>6, <1>7, MessageStep
<1>9. TaskType' /\ LoadedInv' /\ InstancesInv' /\ task'.at = "idle"
  BY <1>1, DoneFacts
<1>10. task.at # "items"
  BY <1>1, TaskFields
<1>11. ManifestsInv' /\ RolloverInv'
  <2>1. /\ rpkid'.state = rpkid.state /\ rpkid'.mfts = rpkid.mfts /\ Active' = Active
        /\ \A d : Manifest(rpkid'.rows, d) = Manifest(rpkid.rows, d)
        /\ \A d \in Detail : rpkid'.state[d] # "pending" => rpkid'.mfts[d].what = d
    BY <1>5, <1>8, AfterRestamping
  <2>2. NoRollover' <=> NoRollover
    BY <2>1 DEF NoRollover
  <2>3. ManifestsInv'
    BY <1>1, <1>10, <2>1, <2>2, ManifestsAreExact DEF ManifestsInv
  <2> QED BY <1>1, <2>1, <2>2, <2>3 DEF Ind, RequestsInv, RolloverInv
<1>12. Types' /\ TypeOK'
  <2>1. failures' \in Nat /\ slices' \in Nat /\ slices' \in 0..MaxTroubles
    BY <1>1, <1>8, TaskFields, RequestsAssumption
  <2>2. /\ RpkidType(rpkid')
        /\ \A r \in rpkid'.rows : r.detail \in Detail /\ r.obj.ver \in 1..rpkid'.serial
        /\ rpkid'.state \in [Detail -> {"pending", "active", "deprecated"}]
        /\ rpkid'.unsent \subseteq Detail
    BY <1>5, <1>8, AfterRestamping
  <2>3. task'.at \in {"idle", "read", "count", "filter", "reply", "items"}
    BY <1>9
  <2> QED BY <1>1, <1>8, <1>9, <2>1, <2>2, <2>3 DEF Ind, Types, TypeOK
<1> QED BY <1>8, <1>9, <1>11, <1>12 DEF Safe, Ind, RequestsInv

\* A step that sends nothing.
LEMMA UnsentKeeps ==
    ASSUME Ind, NEW s, RpkidType(s), RoaRowsOK(s), RowsFit(s), StillKnown(s),
           rpkid' = s, pubd' = pubd, steady' = steady
    PROVE  /\ PubdInv' /\ RoaRowsInv' /\ WithdrawnStep /\ RoaKeptStep
           /\ \A u \in DOMAIN pubd' : pubd'[u] # None
<1>1. Restamped(s) /\ CanSend(s)
  BY SameRestamps, FitCanSend
<1>2. Answered(s, {}) /\ GoodMessage(s, {})
  BY DEF Answered, GoodMessage
<1>3. PubdInv' /\ WithdrawnStep /\ \A u \in DOMAIN pubd' : pubd'[u] # None
  BY <1>1, <1>2, MessageKnown
<1>4. RoaRowsInv'
  BY <1>1, RestampedRows
<1>5. RoaKeptStep
  BY DEF RoaKeptStep, RoasAt
<1> QED BY <1>3, <1>4, <1>5

LEMMA NoManifests ==
    DOMAIN <<>> = {}
OBVIOUS

\* What EesAfter changes are rows of router certificates.
LEMMA EesAfterFacts ==
    ASSUME Ind, NEW done \in SUBSET EeReply, NEW x \in EeReply,
           NEW part \in SUBSET (Reissued(x) \cup Uncovered(x))
    PROVE  LET f == EesAfter(done, x, part)
           IN  /\ \A r \in f.made : r \in Row /\ r.kind = "ee" /\ r.obj.ver = NextVersion
               /\ \A r \in f.gone \cup f.replaced : r \in Row /\ r.kind = "ee"
<1>1. \A y \in done : /\ \A r \in MadeFor(y) : r \in Row /\ r.kind = "ee" /\ r.obj.ver = NextVersion
                      /\ \A r \in Reissued(y) \cup Uncovered(y) : r \in Row /\ r.kind = "ee"
  BY EeFacts
<1>2. \A r \in Reissued(x) : LET n == Reissue(r, x.what)
                             IN  n \in Row /\ n.kind = "ee" /\ n.obj.ver = NextVersion
  BY EeFacts
<1>3. \A r \in part : r \in Row /\ r.kind = "ee"
  BY EeFacts
<1> DEFINE f == EesAfter(done, x, part)
           mades == UNION {MadeFor(y) : y \in done}
           olds == UNION {Uncovered(y) : y \in done}
           news == UNION {Reissued(y) : y \in done}
           redone == {Reissue(r, x.what) : r \in part \cap Reissued(x)}
<1>4. f.made = mades \cup redone /\ f.gone \cup f.replaced \subseteq olds \cup news \cup part
  <2>1. f = [made |-> redone \cup mades, gone |-> (part \ Reissued(x)) \cup olds,
             replaced |-> (part \cap Reissued(x)) \cup news]
    BY DEF EesAfter
  <2> HIDE DEF f, mades, olds, news, redone
  <2> QED BY <2>1
<1> HIDE DEF f
<1>5. ASSUME NEW r \in f.made PROVE r \in Row /\ r.kind = "ee" /\ r.obj.ver = NextVersion
  <2>1. ASSUME r \in mades PROVE \E y \in done : r \in MadeFor(y)
    BY <2>1
  <2>2. ASSUME r \in redone PROVE \E q \in Reissued(x) : r = Reissue(q, x.what)
    BY <2>2
  <2>3. r \in mades \/ r \in redone
    <3> HIDE DEF mades, redone
    <3> QED BY <1>4
  <2> HIDE DEF mades, redone
  <2> QED BY <1>1, <1>2, <2>1, <2>2, <2>3
<1>6. ASSUME NEW r \in f.gone \cup f.replaced PROVE r \in Row /\ r.kind = "ee"
  <2>1. ASSUME r \in olds PROVE \E y \in done : r \in Reissued(y) \cup Uncovered(y)
    BY <2>1
  <2>2. ASSUME r \in news PROVE \E y \in done : r \in Reissued(y) \cup Uncovered(y)
    BY <2>2
  <2> HIDE DEF olds, news
  <2>3. r \in olds \/ r \in news \/ r \in part
    BY <1>4
  <2> QED BY <1>1, <1>3, <2>1, <2>2, <2>3
<1> QED BY <1>5, <1>6 DEF f

LEMMA AbortEesSafe ==
    ASSUME Ind, NEW x \in task.got, NEW w \in Reissued(x),
           NEW part \in SUBSET (Reissued(x) \cup Uncovered(x)), NEW rank,
           AbortEes(x, w, part, rank)
    PROVE  Safe
<1> DEFINE before == {y \in task.got : rank[y] < rank[x]}
           last == EesAfter(before, x, part \cup {w})
           details(rows) == {q.detail : q \in rows}
           here == details(part \cap Reissued(x))
           listed(d) == LET f == IF d \in here THEN EesAfter(before, x, part)
                                               ELSE EesAfter(UpTo(d, before, rank), x, {})
                        IN  Saved(f.made, f.gone \cup f.replaced)
           mfts == [d \in here \cup details(UNION {Reissued(y) : y \in before}) |->
                       Manifest(listed(d), d)]
           made == last.made
           gone == last.gone
           replaced == last.replaced
           s == Rpkid(made, gone \cup replaced, gone, mfts)
           ees == {y.gski : y \in before \cup {x}}
<1>1. /\ task.kind = "ee" /\ rpkid' = s /\ Done
      /\ broken' = [broken EXCEPT !.ees = @ \cup ees]
      /\ UNCHANGED <<irdb, pubd, steady, failures, slices>>
  BY DEF AbortEes
<1>2. /\ RpkidType(rpkid) /\ RoaRowsOK(rpkid) /\ ActiveIn(rpkid) = Active
      /\ rpkid.rows \subseteq Row /\ rpkid.serial \in Nat
  BY IndRows
<1>3. before \cup {x} \subseteq EeReply
  BY <1>1, TaskFields
<1>4. /\ before \in SUBSET EeReply /\ x \in EeReply
      /\ part \cup {w} \in SUBSET (Reissued(x) \cup Uncovered(x))
  BY <1>3
<1>5. /\ \A r \in made : r \in Row /\ r.kind = "ee" /\ r.obj.ver = NextVersion
      /\ \A r \in gone \cup replaced : r \in Row /\ r.kind = "ee"
  <2> HIDE DEF before
  <2> QED BY <1>4, EesAfterFacts
<1>6. \A r \in made : r \in Row /\ r.kind = "ee" /\ r.obj.ver = NextVersion
  BY <1>5
<1>7. \A r \in gone \cup replaced : r \in Row /\ r.kind = "ee"
  BY <1>5
<1>8. ees \subseteq Gski /\ ees # {}
  BY <1>3, EeFacts
<1>9. here \cup details(UNION {Reissued(y) : y \in before}) \subseteq Detail
  BY <1>3, EeFacts
<1>10. DOMAIN mfts \subseteq Detail /\ \A d \in DOMAIN mfts : mfts[d].what = d
  BY <1>9 DEF Manifest
<1> HIDE DEF before, last, listed, here, mfts, made, gone, replaced, ees
<1>11. Written(s, made, gone \cup replaced, gone, mfts)
  BY <1>6, <1>10, RpkidFacts
<1> HIDE DEF s
<1>12. /\ RpkidType(s) /\ s.state = rpkid.state /\ s.rows = Saved(made, gone \cup replaced)
       /\ rpkid.revoked \subseteq s.revoked
       /\ s.serial = IF made = {} THEN rpkid.serial ELSE NextVersion
       /\ \A d \in Detail : s.mfts[d] = rpkid.mfts[d] \/ s.mfts[d].what = d
  BY <1>11, <1>10 DEF Written
<1>13. /\ s.rows \subseteq rpkid.rows \cup made
       /\ \A r \in rpkid.rows : r.kind # "ee" => r \in s.rows
  BY <1>6, <1>7, <1>12 DEF Saved, SameRow
<1>14. broken' \in [ees : SUBSET Gski, rolled : BOOLEAN] /\ broken'.rolled = broken.rolled
       /\ broken'.ees # {}
  <2>1. broken \in [ees : SUBSET Gski, rolled : BOOLEAN]
    BY DEF Ind, Types
  <2> QED BY <1>1, <1>8, <2>1
<1>15. RoaRowsOK(s) /\ ActiveIn(s) = Active
  <2>1. ActiveIn(s) = Active
    BY <1>2, <1>12 DEF ActiveIn
  <2> QED BY <1>2, <1>6, <1>13, <2>1 DEF RoaRowsOK
<1>16. RowsFit(s)
  <2>1. RowsFit(rpkid)
    BY IndFits
  <2>2. \A r \in made : r.detail \in Detail /\ r.obj.ver \in 1..s.serial
    BY <1>2, <1>6, <1>12 DEF Row, NextVersion
  <2>3. \A r \in rpkid.rows : r.detail \in Detail /\ r.obj.ver \in 1..s.serial
    BY <1>2, <1>12, <2>1 DEF RowsFit, NextVersion
  <2>4. \A r \in s.rows : r.detail \in Detail /\ r.obj.ver \in 1..s.serial
    BY <1>13, <2>2, <2>3
  <2>5. \A d \in Detail : s.state[d] # "pending" => s.mfts[d].what = d
    BY <1>12, <2>1 DEF RowsFit
  <2> QED BY <1>12, <2>1, <2>4, <2>5 DEF RowsFit
<1>17. StillKnown(s)
  <2>1. \A r \in rpkid.rows : Uri(r)[1] = r.kind
    BY <1>2, UriFacts
  <2>2. \A r \in rpkid.rows : Uri(r)[1] \in {"roa", "gbr"} => r \in s.rows
    BY <1>13, <2>1
  <2>3. rpkid.revoked \subseteq s.revoked
    BY <1>12
  <2> QED BY <1>14, <2>2, <2>3 DEF StillKnown, KnownTo
<1>18. /\ PubdInv' /\ RoaRowsInv' /\ WithdrawnStep /\ RoaKeptStep
       /\ \A u \in DOMAIN pubd' : pubd'[u] # None
  BY <1>1, <1>12, <1>15, <1>16, <1>17, UnsentKeeps
<1>19. TaskType' /\ LoadedInv' /\ InstancesInv' /\ task'.at = "idle"
  BY <1>1, DoneFacts
<1>20. ManifestsInv'
  BY <1>1, <1>14, <1>16 DEF ManifestsInv, RowsFit
<1>21. RolloverInv'
  <2>1. NoRollover' <=> NoRollover
    BY <1>1, <1>12 DEF NoRollover, Active
  <2> QED BY <1>1, <1>12, <1>14, <2>1 DEF Ind, RequestsInv, RolloverInv
<1>22. Types'
  <2>1. RpkidType(rpkid')
    BY <1>1, <1>12
  <2> QED BY <1>1, <1>14, <1>19, <2>1 DEF Ind, Types
<1>23. TypeOK'
  <2>1. rpkid'.state \in [Detail -> {"pending", "active", "deprecated"}]
        /\ rpkid'.unsent \subseteq Detail
    BY <1>1, <1>12 DEF RpkidType
  <2>2. task'.at \in {"idle", "read", "count", "filter", "reply", "items"}
    BY <1>19
  <2> QED BY <1>1, <1>16, <1>18, <2>1, <2>2 DEF Ind, TypeOK, RowsFit
<1> QED BY <1>18, <1>19, <1>20, <1>21, <1>22, <1>23 DEF Safe, Ind, RequestsInv

LEMMA SignRoaSafe ==
    ASSUME Ind, NEW x \in task.items, NEW d \in Detail, SignRoa(x, d)
    PROVE  Safe
<1> DEFINE p == Product("roa", x[1], d, NextVersion, x[1])
           new == {p}
           s == Rpkid(new, {}, x[2], <<>>)
<1>1. /\ task.at = "items" /\ task.kind = "roa" /\ rpkid' = s
      /\ task' = [task EXCEPT !.items = @ \ {x}, !.details = @ \cup {d},
                              !.new = @ \cup new, !.gone = @ \cup x[2]]
      /\ d \in Covering(Active, x[1]) /\ {r.detail : r \in x[2]} \cap Active = {}
      /\ UNCHANGED <<irdb, pubd, steady, broken, failures, slices>>
  BY TaskFields DEF SignRoa, Turn, Same
<1>2. /\ RpkidType(rpkid) /\ RoaRowsOK(rpkid) /\ ActiveIn(rpkid) = Active
      /\ rpkid.rows \subseteq Row /\ rpkid.serial \in Nat
  BY IndRows
<1>3. x = <<x[1], x[2]>> /\ x[1] \in Content /\ x[2] \in SUBSET Row
      /\ task.items \subseteq Content \X SUBSET Row
  BY <1>1, TaskFields
<1>4. /\ p \in Row /\ p.kind = "roa" /\ p.name = x[1] /\ p.detail = d
      /\ p.obj.ver = NextVersion /\ p.obj.what = x[1]
  BY <1>3, TaskFields, ProductFacts DEF Kind, What, Name
<1>5. TaskType /\ LoadedInv /\ InstancesInv /\ ManifestsInv /\ RolloverInv
  BY DEF Ind, Types, RequestsInv
<1> HIDE DEF p
<1>6. Written(s, new, {}, x[2], <<>>)
  BY <1>4, NoManifests, RpkidFacts
<1> HIDE DEF s
<1>7. /\ RpkidType(s) /\ s.state = rpkid.state /\ s.rows = Saved(new, {})
      /\ s.revoked = rpkid.revoked \cup Uris(x[2]) /\ s.serial = NextVersion
      /\ \A e \in Detail : s.mfts[e] = rpkid.mfts[e]
  BY <1>6, NoManifests DEF Written
<1>8. s.rows = {r \in rpkid.rows : r.kind # "roa" \/ r.name # x[1]} \cup {p}
  BY <1>4, <1>7 DEF Saved, SameRow
<1>9. RoaRowsOK(s) /\ ActiveIn(s) = Active
  <2>1. ActiveIn(s) = Active
    BY <1>2, <1>7 DEF ActiveIn
  <2> QED BY <1>1, <1>2, <1>4, <1>8, <2>1 DEF RoaRowsOK
<1>10. RowsFit(s)
  <2>1. RowsFit(rpkid)
    BY IndFits
  <2>2. \A r \in s.rows : r.detail \in Detail /\ r.obj.ver \in 1..s.serial
    BY <1>2, <1>4, <1>7, <1>8, <2>1 DEF RowsFit, NextVersion
  <2> QED BY <1>7, <2>1, <2>2 DEF RowsFit
\* While no rollover has come between, the instance is a row of an active detail.
<1>11. ASSUME ~broken.rolled
       PROVE  x[2] = {} /\ s.rows = rpkid.rows \cup {p}
  <2>1. x[2] = {r \in RowsOf("roa") : r.name = x[1]}
    BY <1>1, <1>5, <1>11 DEF InstancesInv
  <2>2. \A r \in x[2] : r.detail \in Active
    BY <1>2, <2>1 DEF RoaRowsOK, RowsOf, Covering
  <2>3. x[2] = {}
    BY <1>1, <2>2
  <2> QED BY <1>8, <2>1, <2>3 DEF RowsOf
<1>12. StillKnown(s)
  BY <1>1, <1>7, <1>11 DEF StillKnown, KnownTo
<1>13. /\ PubdInv' /\ RoaRowsInv' /\ WithdrawnStep /\ RoaKeptStep
       /\ \A u \in DOMAIN pubd' : pubd'[u] # None
  BY <1>1, <1>7, <1>9, <1>10, <1>12, UnsentKeeps
<1>14. /\ TaskType' /\ task'.at = "items" /\ task'.kind = "roa" /\ task'.torn = task.torn
       /\ task'.got = task.got /\ task'.orphans = task.orphans
       /\ task'.items = task.items \ {x} /\ task'.details = task.details \cup {d}
       /\ task'.new = task.new \cup {p} /\ task'.gone = task.gone \cup x[2]
  <2> DEFINE Fields == [kind : {"roa", "gbr", "ee", "regen", "retry"},
                 at : {"idle", "read", "count", "filter", "reply", "items"},
                 unread : {task.unread}, scope : Scope, got : {task.got}, torn : BOOLEAN,
                 items : {task.items, task.items \ {x}}, orphans : SUBSET Row,
                 details : SUBSET Detail, new : SUBSET Row, gone : SUBSET Row]
  <2>1. task \in Fields
    BY <1>5 DEF TaskType
  <2>2. /\ task' \in Fields /\ task'.at = task.at /\ task'.kind = task.kind
        /\ task'.torn = task.torn /\ task'.unread = task.unread
        /\ task'.got = task.got /\ task'.orphans = task.orphans
        /\ task'.items = task.items \ {x} /\ task'.details = task.details \cup {d}
        /\ task'.new = task.new \cup {p} /\ task'.gone = task.gone \cup x[2]
    BY <1>1, <1>3, <1>4, <2>1
  <2>3. TaskType'
    BY <1>1, <1>5, <2>2 DEF TaskType
  <2> QED BY <1>1, <2>2, <2>3
<1>15. LoadedInv'
  <2>1. x[1] \in task.got /\ \A r \in x[2] : r.kind = "roa" /\ r.name = x[1]
    BY <1>1, <1>5 DEF LoadedInv
  <2>2. NextVersion # 0
    BY TaskFields
  <2> QED BY <1>1, <1>4, <1>5, <1>14, <2>1, <2>2 DEF LoadedInv
<1>16. InstancesInv'
  <2>1. SUFFICES ASSUME ~broken.rolled
                 PROVE  /\ task.orphans = {r \in RowsOf("roa")' : r.name \notin task.got}
                        /\ \A y \in task'.items : y[2] = {r \in RowsOf("roa")' : r.name = y[1]}
                        /\ task'.new \subseteq rpkid'.rows /\ task'.gone = {}
                        /\ \A r \in task'.new : r.name \in task'.got /\ \A y \in task'.items : y[1] # r.name
    BY <1>1, <1>14 DEF InstancesInv
  <2>2. /\ task.orphans = {r \in RowsOf("roa") : r.name \notin task.got}
        /\ \A y \in task.items : y[2] = {r \in RowsOf("roa") : r.name = y[1]}
        /\ task.new \subseteq rpkid.rows /\ task.gone = {}
        /\ \A r \in task.new : r.name \in task.got /\ \A y \in task.items : y[1] # r.name
    BY <1>1, <1>5, <2>1 DEF InstancesInv
  <2>3. RowsOf("roa")' = RowsOf("roa") \cup {p} /\ x[2] = {} /\ rpkid'.rows = rpkid.rows \cup {p}
    BY <1>1, <1>4, <1>11, <2>1 DEF RowsOf
  <2>4. x[1] \in task.got
    BY <1>1, <1>5 DEF LoadedInv
  <2>5. \A y \in task'.items : y \in task.items /\ y[1] # x[1]
    <3>1. ASSUME NEW y \in task.items, y[1] = x[1]
          PROVE  y = x
      <4>1. y = <<y[1], y[2]>>
        BY <1>3
      <4>2. y[2] = x[2]
        <5> DEFINE Named(c) == {r \in RowsOf("roa") : r.name = c}
        <5>1. y[2] = Named(y[1]) /\ x[2] = Named(x[1])
          BY <2>2
        <5> HIDE DEF Named
        <5> QED BY <3>1, <5>1
      <4> QED BY <1>3, <3>1, <4>1, <4>2
    <3> QED BY <1>14, <3>1
  <2>6. \A y \in task'.items : y[2] = {r \in RowsOf("roa")' : r.name = y[1]}
    BY <1>4, <2>2, <2>3, <2>5
  <2>7. task.orphans = {r \in RowsOf("roa")' : r.name \notin task.got}
    BY <1>4, <2>2, <2>3, <2>4
  <2> QED BY <1>4, <1>14, <2>2, <2>3, <2>4, <2>5, <2>6, <2>7
<1>17. ManifestsInv'
  <2>1. ASSUME NoRollover, broken.ees = {}, NEW e \in Active, e # d
        PROVE  \/ task.new # {} /\ e \in task.details
               \/ rpkid.mfts[e] = Manifest(s.rows, e)
    <3>1. Issued(s.rows, e) = Issued(rpkid.rows, e)
      BY <1>4, <1>11, <2>1, NotRolledYet DEF Issued
    <3>2. Manifest(s.rows, e) = Manifest(rpkid.rows, e)
      BY <3>1 DEF Manifest
    <3> QED BY <1>5, <2>1, <3>2 DEF ManifestsInv
  <2>2. Active' = Active /\ (NoRollover' <=> NoRollover)
    BY <1>1, <1>7 DEF NoRollover, Active
  <2>3. \A e \in Active : e \in Detail
    BY DEF Active
  <2>4. \A e \in Detail : rpkid'.state[e] # "pending" => rpkid'.mfts[e].what = e
    BY <1>1, <1>7, <1>10 DEF RowsFit
  <2>5. ASSUME NoRollover', broken'.ees = {}, NEW e \in Active'
        PROVE  \/ task'.at = "items" /\ task'.new # {} /\ e \in task'.details
               \/ rpkid'.mfts[e] = Manifest(rpkid'.rows, e)
    <3>1. NoRollover /\ broken.ees = {} /\ e \in Active /\ e \in Detail
      BY <1>1, <2>2, <2>3, <2>5
    <3>2. CASE e = d
      BY <1>14, <3>2
    <3>3. CASE e # d
      <4>1. \/ task.new # {} /\ e \in task.details
            \/ rpkid.mfts[e] = Manifest(s.rows, e)
        BY <2>1, <3>1, <3>3
      <4> QED BY <1>1, <1>7, <1>14, <3>1, <4>1
    <3> QED BY <3>2, <3>3
  <2> QED BY <2>4, <2>5 DEF ManifestsInv
<1>18. RolloverInv'
  <2>1. NoRollover' <=> NoRollover
    BY <1>1, <1>7 DEF NoRollover, Active
  <2> QED BY <1>1, <1>5, <1>7, <2>1 DEF RolloverInv
<1>19. Types'
  <2>1. RpkidType(rpkid')
    BY <1>1, <1>7
  <2> QED BY <1>1, <1>14, <2>1 DEF Ind, Types
<1>20. TypeOK'
  <2>1. rpkid'.state \in [Detail -> {"pending", "active", "deprecated"}]
        /\ rpkid'.unsent \subseteq Detail
    BY <1>1, <1>7 DEF RpkidType
  <2>2. task'.at \in {"idle", "read", "count", "filter", "reply", "items"}
    BY <1>14
  <2> QED BY <1>1, <1>10, <1>13, <2>1, <2>2 DEF Ind, TypeOK, RowsFit
<1> QED BY <1>13, <1>15, <1>16, <1>17, <1>18, <1>19, <1>20 DEF Safe, Ind, RequestsInv

\* A key rollover moves what the old ca_detail has issued to the new one.
LEMMA ActivateSafe ==
    ASSUME Ind, NEW d \in Detail, NEW e \in Detail, Activate(d, e)
    PROVE  Safe
<1> DEFINE mine(kind) == Issued(RowsOf(kind), d)
           found(r) == CHOOSE x \in Covering((Active \ {d}) \cup {e}, r.name) : TRUE
           roas == {Product("roa", r.name, found(r), NextVersion, r.name) : r \in mine("roa")}
           gbrs == {Product("gbr", r.name, d, NextVersion, r.name) : r \in mine("gbr")}
           ees == {Reissue(r, r.obj.what) : r \in mine("ee")}
           new == roas \cup gbrs \cup ees
           gone == mine("roa") \cup mine("gbr")
           lost == gone \cup mine("ee")
           rows == Saved(new, lost)
           mfts == [x \in {d, e} |->
                        Manifest(IF x = e /\ mine("ee") = {} THEN rpkid.rows ELSE rows, x)]
           t == Rpkid(new, lost, gone, mfts)
           s == [t EXCEPT !.state[d] = "deprecated", !.state[e] = "active"]
<1>1. /\ rpkid.state[d] = "active" /\ rpkid.state[e] = "pending" /\ CaOf[d] = CaOf[e]
      /\ CallPubd(s, Pdus(new, lost) \cup ManifestPdus(mfts) \cup RetryPdus({d, e}, rows, new))
      /\ broken' = [broken EXCEPT !.rolled = @ \/ task.at = "items"]
      /\ UNCHANGED <<irdb, task, steady, slices>>
  BY DEF Activate
<1>2. /\ RpkidType(rpkid) /\ RoaRowsOK(rpkid) /\ ActiveIn(rpkid) = Active
      /\ rpkid.rows \subseteq Row /\ rpkid.serial \in Nat
      /\ NextVersion \in Nat /\ NextVersion # 0
  BY IndRows, TaskFields
<1>3. DOMAIN mfts = {d, e} /\ \A x \in {d, e} : mfts[x].what = x
  BY DEF Manifest
<1>4. \A r : /\ r \in mine("roa") <=> r \in rpkid.rows /\ r.kind = "roa" /\ r.detail = d
             /\ r \in mine("gbr") <=> r \in rpkid.rows /\ r.kind = "gbr" /\ r.detail = d
             /\ r \in mine("ee") <=> r \in rpkid.rows /\ r.kind = "ee" /\ r.detail = d
  BY DEF Issued, RowsOf
<1>5. d # e /\ d \in Active /\ e \notin Active
  BY <1>1 DEF Active
<1>6. \A pdu \in ManifestPdus(mfts) : pdu.uri[1] = "mft"
  BY DEF ManifestPdus, ManifestUri
<1> HIDE DEF mine
<1>7. ASSUME NEW r \in mine("roa")
      PROVE  /\ found(r) \in Covering((Active \ {d}) \cup {e}, r.name)
             /\ found(r) \in Detail
  <2>1. Need[r.name] \subseteq Covers[CaOf[e]]
    <3>1. r \in rpkid.rows /\ r.kind = "roa" /\ r.detail = d
      BY <1>4
    <3>2. r.detail \in Covering(ActiveIn(rpkid), r.name)
      BY <1>2, <3>1 DEF RoaRowsOK
    <3> QED BY <1>1, <3>1, <3>2 DEF Covering
  <2>2. e \in Covering((Active \ {d}) \cup {e}, r.name)
    BY <2>1 DEF Covering
  <2>3. found(r) \in Covering((Active \ {d}) \cup {e}, r.name)
    BY <2>2
  <2> QED BY <2>3 DEF Covering, Active
<1>8. \A r, x : r.name = x.name => found(r) = found(x)
  OBVIOUS
<1> HIDE DEF found
<1>9. ASSUME NEW r \in mine("roa"), NEW p,
             p = Product("roa", r.name, found(r), NextVersion, r.name)
      PROVE  /\ p \in Row /\ p.kind = "roa" /\ p.name = r.name /\ p.detail = found(r)
             /\ p.obj.ver = NextVersion /\ p.obj.what = r.name
  <2>1. "roa" \in Kind /\ r \in Row /\ r.obj.what = r.name
    BY <1>2, <1>4 DEF RoaRowsOK, Kind
  <2>2. r.name \in Name /\ r.name \in What
    BY <2>1 DEF Row, What
  <2> QED BY <1>2, <1>7, <1>9, <2>1, <2>2, ProductFacts
<1>10. ASSUME NEW r \in mine("gbr"), NEW p,
              p = Product("gbr", r.name, d, NextVersion, r.name)
       PROVE  p \in Row /\ p.kind = "gbr" /\ p.detail = d /\ p.obj.ver = NextVersion
  <2>1. "gbr" \in Kind /\ r.name \in Name /\ r.name \in What
    BY <1>2, <1>4 DEF Row, What, Kind
  <2> QED BY <1>2, <1>10, <2>1, ProductFacts
<1>11. ASSUME NEW r \in mine("ee"), NEW p, p = Reissue(r, r.obj.what)
       PROVE  p \in Row /\ p.kind = "ee" /\ p.detail = d /\ p.obj.ver = NextVersion
  <2>1. "ee" \in Kind /\ r.name \in Name /\ r.obj.what \in What /\ r.detail = d
    BY <1>2, <1>4 DEF Row, Kind
  <2> QED BY <1>2, <1>11, <2>1, ProductFacts DEF Reissue
<1> HIDE DEF roas, gbrs, ees
<1>12. /\ \A p \in roas : /\ p \in Row /\ p.kind = "roa" /\ p.obj.what = p.name
                           /\ p.obj.ver = NextVersion
                           /\ \E r \in mine("roa") : p.name = r.name /\ p.detail = found(r)
       /\ \A r \in mine("roa") : \E p \in roas : p.name = r.name
  BY <1>9 DEF roas
<1>13. \A p \in gbrs \cup ees : /\ p \in Row /\ p.kind # "roa" /\ p.detail = d
                                /\ p.obj.ver = NextVersion
  BY <1>10, <1>11 DEF gbrs, ees
<1>14. /\ \A p \in new : p \in Row /\ p.obj.ver = NextVersion /\ (p.kind = "roa" => p \in roas)
       /\ roas \subseteq new
  BY <1>12, <1>13
<1>15. /\ \A r \in lost : r \in rpkid.rows /\ r.detail = d
       /\ \A r \in lost : r.kind \in {"roa", "gbr"} => r \in gone
       /\ \A r \in rpkid.rows : r.detail = d => r \in lost
  BY <1>2, <1>4 DEF Row, Kind
<1> HIDE DEF new, gone, lost
<1>16. /\ rows \subseteq rpkid.rows \cup new /\ new \subseteq rows
       /\ \A r \in rpkid.rows : r \in rows \/ \E x \in new \cup lost : SameRow(r, x)
       /\ \A r \in rpkid.rows, x \in lost : r \in rows /\ SameRow(r, x) => r \in new
  BY DEF Saved
<1> HIDE DEF rows, mfts
<1>17. Written(t, new, lost, gone, mfts)
  <2>1. new \in SUBSET Row /\ DOMAIN mfts \subseteq Detail
    BY <1>3, <1>14
  <2> QED BY <2>1, RpkidFacts
<1> HIDE DEF t
<1>18. /\ RpkidType(t) /\ t.state = rpkid.state /\ t.rows = rows
       /\ t.revoked = rpkid.revoked \cup Uris(gone)
       /\ t.serial = IF new = {} THEN rpkid.serial ELSE NextVersion
       /\ \A x \in Detail : t.mfts[x] = IF x \in {d, e} THEN mfts[x] ELSE rpkid.mfts[x]
  BY <1>3, <1>17 DEF Written, rows
<1>19. /\ RpkidType(s) /\ s.rows = t.rows /\ s.revoked = t.revoked
       /\ s.serial = t.serial /\ s.mfts = t.mfts
       /\ s.state = [rpkid.state EXCEPT ![d] = "deprecated", ![e] = "active"]
  <2> DEFINE Fields == [state : [Detail -> {"pending", "active", "deprecated"}],
                        rows : SUBSET Row, revoked : {t.revoked}, serial : Nat,
                        mfts : {t.mfts}, unsent : SUBSET Detail]
  <2>1. t \in Fields
    BY <1>18 DEF RpkidType
  <2>2. /\ s \in Fields /\ s.rows = t.rows /\ s.revoked = t.revoked
        /\ s.serial = t.serial /\ s.mfts = t.mfts
        /\ s.state = [t.state EXCEPT ![d] = "deprecated", ![e] = "active"]
    BY <2>1
  <2> HIDE DEF s
  <2>3. RpkidType(s)
    BY <2>2 DEF RpkidType
  <2> QED BY <1>18, <2>2, <2>3
<1> HIDE DEF s
<1>20. /\ ActiveIn(s) = (Active \ {d}) \cup {e}
       /\ \A x \in Detail : s.state[x] # "pending" => rpkid.state[x] # "pending" \/ x = e
       /\ s.state[d] = "deprecated"
       /\ \A x \in Detail : rpkid.state[x] = "deprecated" => s.state[x] = "deprecated"
  <2>1. rpkid.state \in [Detail -> {"pending", "active", "deprecated"}]
    BY <1>2 DEF RpkidType
  <2> QED BY <1>1, <1>5, <1>19, <2>1 DEF ActiveIn, Active
\* A row of a ROA that stays is not the old ca_detail's, and its ROA is not moved.
<1>21. ASSUME NEW r \in rows, r.kind = "roa", r \notin new
       PROVE  r \in rpkid.rows /\ r.detail # d /\ \A x \in mine("roa") : x.name # r.name
  <2>1. r \in rpkid.rows
    BY <1>16, <1>21
  <2>2. \A x \in lost : ~SameRow(r, x)
    BY <1>16, <1>21, <2>1
  <2>3. r.detail # d
    BY <1>15, <2>1, <2>2 DEF SameRow
  <2>4. \A x \in mine("roa") : x.name # r.name
    BY <1>2, <1>4, <1>21, <2>1, <2>3 DEF RoaRowsOK
  <2> QED BY <2>1, <2>3, <2>4
<1>22. RoaRowsOK(s)
  <2>1. ASSUME NEW r \in rows, r.kind = "roa"
        PROVE  r.obj.what = r.name /\ r.detail \in Covering(ActiveIn(s), r.name)
    <3>1. CASE r \in new
      <4>1. PICK x \in mine("roa") : r.name = x.name /\ r.detail = found(x)
        BY <1>12, <1>14, <2>1, <3>1
      <4>2. r.detail \in Covering(ActiveIn(s), r.name)
        BY <1>7, <1>20, <4>1
      <4>3. r.obj.what = r.name
        BY <1>12, <1>14, <2>1, <3>1
      <4> QED BY <4>2, <4>3
    <3>2. CASE r \notin new
      BY <1>2, <1>20, <1>21, <2>1, <3>2 DEF RoaRowsOK, Covering
    <3> QED BY <3>1, <3>2
  <2>2. ASSUME NEW r \in rows, NEW x \in rows, r.kind = "roa", x.kind = "roa", r.name = x.name
        PROVE  r.detail = x.detail
    <3>1. CASE r \in new /\ x \in new
      BY <1>8, <1>12, <1>14, <2>2, <3>1
    <3>2. CASE r \notin new /\ x \notin new
      BY <1>2, <1>21, <2>2, <3>2 DEF RoaRowsOK
    <3>3. CASE (r \in new) # (x \in new)
      BY <1>12, <1>14, <1>21, <2>2, <3>3
    <3> QED BY <3>1, <3>2, <3>3
  <2> QED BY <1>18, <1>19, <2>1, <2>2 DEF RoaRowsOK
<1>23. RowsFit(s)
  <2>1. RowsFit(rpkid)
    BY IndFits
  <2>2. \A r \in new : r.detail \in Detail /\ r.obj.ver \in 1..s.serial
    BY <1>2, <1>14, <1>18, <1>19 DEF Row, NextVersion
  <2>3. \A r \in rpkid.rows : r.detail \in Detail /\ r.obj.ver \in 1..s.serial
    BY <1>2, <1>18, <1>19, <2>1 DEF RowsFit, NextVersion
  <2>4. \A x \in Detail : s.state[x] # "pending" => s.mfts[x].what = x
    BY <1>3, <1>18, <1>19, <1>20, <2>1 DEF RowsFit
  <2>5. \A r \in s.rows : r.detail \in Detail /\ r.obj.ver \in 1..s.serial
    BY <1>16, <1>18, <1>19, <2>2, <2>3
  <2> QED BY <2>4, <2>5 DEF RowsFit
<1>24. broken' \in [ees : SUBSET Gski, rolled : BOOLEAN] /\ broken'.ees = broken.ees
       /\ (broken'.rolled <=> broken.rolled \/ task.at = "items")
  <2>1. broken \in [ees : SUBSET Gski, rolled : BOOLEAN]
    BY DEF Ind, Types
  <2> QED BY <1>1, <2>1
<1>25. StillKnown(s)
  <2>1. ASSUME NEW r \in rpkid.rows, r.kind \in {"roa", "gbr"}
        PROVE  Uri(r) \in KnownTo(s)
    <3>1. CASE r \in rows
      BY <1>18, <1>19, <3>1 DEF KnownTo
    <3>2. CASE r \notin rows
      <4>1. PICK x \in new \cup lost : SameRow(r, x)
        BY <1>16, <3>2
      <4>2. r.detail = d
        <5>1. CASE r.kind = "gbr"
          <6>1. x.detail = r.detail /\ x.kind = "gbr"
            BY <4>1, <5>1 DEF SameRow
          <6> QED BY <1>12, <1>13, <1>15, <6>1 DEF new
        <5>2. CASE r.kind = "roa"
          <6>1. x.name = r.name /\ x.kind = "roa"
            BY <4>1, <5>2 DEF SameRow
          <6>2. PICK y \in rpkid.rows : y.kind = "roa" /\ y.name = r.name /\ y.detail = d
            BY <1>4, <1>12, <1>14, <1>15, <6>1
          <6> QED BY <1>2, <5>2, <6>2 DEF RoaRowsOK
        <5> QED BY <2>1, <5>1, <5>2
      <4>3. r \in gone
        BY <1>15, <2>1, <4>2
      <4> QED BY <1>18, <1>19, <4>3 DEF KnownTo, Uris
    <3> QED BY <3>1, <3>2
  <2>2. \A r \in rpkid.rows : Uri(r)[1] = r.kind
    BY <1>2, UriFacts
  <2> QED BY <1>18, <1>19, <1>24, <2>1, <2>2 DEF StillKnown, KnownTo
<1>26. SignedOK(s, new) /\ new \in SUBSET Row /\ lost \in SUBSET Row
  BY <1>2, <1>12, <1>14, <1>15, <1>16, <1>18, <1>19 DEF SignedOK, KnownTo
<1>27. \A c : Replaced(new, lost, c)
  BY <1>4, <1>12, <1>14, <1>15 DEF Replaced
<1>28. \A r \in RowsOf("roa") : \E x \in s.rows : x.kind = "roa" /\ x.name = r.name
  <2>1. SUFFICES ASSUME NEW r \in rpkid.rows, r.kind = "roa"
                 PROVE  \E x \in rows : x.kind = "roa" /\ x.name = r.name
    BY <1>18, <1>19 DEF RowsOf
  <2>2. CASE r \notin rows
    <3>1. PICK x \in new \cup lost : x.kind = "roa" /\ x.name = r.name
      BY <1>16, <2>1, <2>2 DEF SameRow
    <3>2. \E y \in new : y.kind = "roa" /\ y.name = r.name
      BY <1>4, <1>12, <1>14, <1>15, <3>1
    <3> QED BY <1>16, <3>2
  <2> QED BY <2>1, <2>2
<1>29. CallPubd(s, Message(s, new, lost, ManifestPdus(mfts), {d, e}))
  BY <1>1, <1>18, <1>19 DEF Message
<1>31. /\ Restamped(s) /\ failures' \in 0..MaxTroubles
       /\ PubdInv' /\ RoaRowsInv' /\ WithdrawnStep /\ RoaKeptStep
       /\ \A u \in DOMAIN pubd' : pubd'[u] # None
  BY <1>6, <1>19, <1>22, <1>23, <1>25, <1>26, <1>27, <1>28, <1>29, FitCanSend, MessageStep
<1>32. /\ RpkidType(rpkid') /\ rpkid'.state = s.state /\ Active' = ActiveIn(s)
       /\ \A r \in rpkid'.rows : r.detail \in Detail /\ r.obj.ver \in 1..rpkid'.serial
       /\ \A x \in Detail : rpkid'.state[x] # "pending" => rpkid'.mfts[x].what = x
       /\ rpkid'.state \in [Detail -> {"pending", "active", "deprecated"}]
       /\ rpkid'.unsent \subseteq Detail
  BY <1>19, <1>23, <1>31, AfterRestamping
<1>33. RolloverInv' /\ ~NoRollover'
  <2>1. \E x \in FirstActive : s.state[x] = "deprecated"
    BY <1>5, <1>20, RequestsAssumption DEF Ind, RequestsInv, RolloverInv, NoRollover
  <2>2. ~NoRollover'
    BY <1>32, <2>1 DEF NoRollover, ActiveIn
  <2> QED BY <1>32, <2>1, <2>2 DEF RolloverInv
<1>34. LoadedInv' /\ InstancesInv' /\ ManifestsInv'
  <2>1. LoadedInv'
    BY <1>1 DEF Ind, RequestsInv, LoadedInv
  <2>2. InstancesInv'
    BY <1>1, <1>24 DEF InstancesInv
  <2> QED BY <1>32, <1>33, <2>1, <2>2 DEF ManifestsInv
<1>35. Types'
  <2>1. failures' \in Nat
    BY <1>31, RequestsAssumption
  <2>2. TaskType'
    BY <1>1 DEF Ind, Types, TaskType
  <2> QED BY <1>1, <1>24, <1>32, <2>1, <2>2 DEF Ind, Types
<1>36. TypeOK'
  BY <1>1, <1>31, <1>32 DEF Ind, TypeOK
<1> QED BY <1>31, <1>33, <1>34, <1>35, <1>36 DEF Safe, Ind, RequestsInv


(***************************************************************************)
(* Steps that change neither rpkid's rows nor what pubd has.               *)
(***************************************************************************)
LEMMA QuietKeeps ==
    ASSUME Ind, UNCHANGED <<rpkid, pubd, broken, failures, slices>>,
           irdb' \in Irdb, steady' \subseteq Content,
           TaskType', LoadedInv', InstancesInv',
           task.at = "items" =>
               task'.at = "items" /\ task'.new = task.new /\ task.details \subseteq task'.details
    PROVE  Safe
<1>1. Types'
  BY DEF Ind, Types
<1>2. TypeOK'
  <2>1. irdb'.roa \subseteq Content /\ irdb'.gbr \subseteq Scope \X Vcard
    BY DEF Irdb
  <2>2. task'.at \in {"idle", "read", "count", "filter", "reply", "items"}
    BY DEF TaskType
  <2> QED BY <2>1, <2>2 DEF Ind, TypeOK
<1>3. RolloverInv' /\ RoaRowsInv' /\ PubdInv'
  BY DEF Ind, RequestsInv, RolloverInv, NoRollover, RoaRowsInv, RowsOf, Active, PubdInv
<1>4. ManifestsInv'
  <2>1. Active' = Active /\ (NoRollover' <=> NoRollover)
    BY DEF Active, NoRollover
  <2> QED BY <2>1 DEF Ind, RequestsInv, ManifestsInv
<1>5. RoaKeptStep
  BY DEF RoaKeptStep, RoasAt
<1>6. WithdrawnStep
  BY DEF WithdrawnStep
<1> QED BY <1>1, <1>2, <1>3, <1>4, <1>5, <1>6 DEF Safe, Ind, RequestsInv

LEMMA ChangeSafe ==
    ASSUME Ind, NEW f \in Irdb, Change(f)
    PROVE  Safe
<1>1. /\ irdb' = [f EXCEPT !.changes = @ + 1] /\ steady' = steady \cap f.roa
      /\ UNCHANGED <<rpkid, pubd, task, broken, failures, slices>>
  BY DEF Change
<1>2. irdb' \in Irdb
  BY <1>1 DEF Irdb
<1>3. steady' \subseteq steady /\ steady \subseteq Content
  BY <1>1 DEF Ind, TypeOK
<1>4. TaskType'
  BY <1>1 DEF Ind, Types, TaskType
<1>5. LoadedInv'
  <2>1. LoadedInv
    BY DEF Ind, RequestsInv
  <2> QED BY <1>1, <1>3, <2>1 DEF LoadedInv
<1>6. InstancesInv'
  BY <1>1 DEF Ind, RequestsInv, InstancesInv, RowsOf
<1> QED BY <1>1, <1>2, <1>3, <1>4, <1>5, <1>6, QuietKeeps

LEMMA IrdbChangesSafe ==
    ASSUME Ind, IrdbChanges
    PROVE  Safe
<1>1. irdb \in Irdb
  BY DEF Ind, Types
<1>2. CASE \E contents \in SUBSET Content : LoadRoaRequests(contents)
  <2>1. PICK contents \in SUBSET Content : LoadRoaRequests(contents)
    BY <1>2
  <2> DEFINE f == [irdb EXCEPT !.roa = contents, !.batch = irdb.changes + 1]
  <2>2. f \in Irdb
    <3>1. irdb.changes + 1 \in Nat
      BY <1>1 DEF Irdb
    <3> QED BY <1>1, <3>1 DEF Irdb
  <2>3. Change(f)
    BY <2>1 DEF LoadRoaRequests
  <2> QED BY <2>2, <2>3, ChangeSafe
<1>3. CASE \E scope \in Scope, vcards \in SUBSET Vcard : LoadGhostbusterRequests(scope, vcards)
  <2>1. PICK scope \in Scope, vcards \in SUBSET Vcard : LoadGhostbusterRequests(scope, vcards)
    BY <1>3
  <2> DEFINE gbr == {g \in irdb.gbr : g[1] # scope} \cup ({scope} \X vcards)
             f == [irdb EXCEPT !.gbr = gbr]
  <2>2. f \in Irdb
    <3>1. {g \in irdb.gbr : g[1] # scope} \subseteq Scope \X Vcard
      BY <1>1 DEF Irdb
    <3>2. {scope} \X vcards \subseteq Scope \X Vcard
      OBVIOUS
    <3>3. gbr \in SUBSET (Scope \X Vcard)
      BY <3>1, <3>2
    <3> HIDE DEF gbr
    <3> QED BY <1>1, <3>3 DEF Irdb
  <2>3. Change(f)
    BY <2>1 DEF LoadGhostbusterRequests
  <2> QED BY <2>2, <2>3, ChangeSafe
<1>4. CASE \E g \in Gski, what \in EeResources : AddRouterCertificateRequest(g, what)
  <2>1. PICK g \in Gski, what \in EeResources : AddRouterCertificateRequest(g, what)
    BY <1>4
  <2> DEFINE request == [gski |-> g, id |-> irdb.changes + 1, what |-> what]
             f == [irdb EXCEPT !.ee = @ \cup {request}]
  <2>2. request \in EeRequest
    BY <1>1 DEF Irdb, EeRequest
  <2>3. f \in Irdb
    BY <1>1, <2>2 DEF Irdb
  <2>4. Change(f)
    BY <2>1 DEF AddRouterCertificateRequest
  <2> QED BY <2>3, <2>4, ChangeSafe
<1>5. CASE \E e \in irdb.ee : DeleteRouterCertificateRequest(e)
  <2>1. PICK e \in irdb.ee : DeleteRouterCertificateRequest(e)
    BY <1>5
  <2> DEFINE f == [irdb EXCEPT !.ee = @ \ {e}]
  <2>2. f \in Irdb
    BY <1>1 DEF Irdb
  <2>3. Change(f)
    BY <2>1 DEF DeleteRouterCertificateRequest
  <2> QED BY <2>2, <2>3, ChangeSafe
<1> QED BY <1>2, <1>3, <1>4, <1>5 DEF IrdbChanges

\* A task asks irdbd.
LEMMA AskSafe ==
    ASSUME Ind, AskRoas \/ AskGhostbusters \/ AskEes
    PROVE  Safe
<1>1. /\ irdb \in Irdb /\ TaskType /\ LoadedInv /\ steady \subseteq Content
  BY DEF Ind, Types, RequestsInv, TypeOK
<1>2. PICK kind, at, unread :
        /\ Ask(kind, at, unread)
        /\ \/ /\ kind = "roa" /\ at = "read" /\ unread = irdb.roa \X {irdb.batch}
              /\ steady' = irdb.roa
           \/ kind = "gbr" /\ at = "count" /\ unread = Ca /\ steady' = steady
           \/ kind = "ee" /\ at = "read" /\ unread = irdb.ee /\ steady' = steady
  BY DEF AskRoas, AskGhostbusters, AskEes
<1>3. /\ task.kind = kind /\ task.at = "idle"
      /\ task' = [task EXCEPT !.at = IF unread = {} THEN "reply" ELSE at, !.unread = unread]
      /\ UNCHANGED <<irdb, rpkid, pubd, broken, failures, slices>>
  BY <1>2 DEF Ask
<1>4. /\ task'.kind = task.kind /\ task'.at = (IF unread = {} THEN "reply" ELSE at)
      /\ task'.unread = unread /\ task'.got = task.got /\ task'.items = task.items
      /\ task'.torn = task.torn /\ task'.new = task.new /\ task'.gone = task.gone
      /\ task' \in [kind : {"roa", "gbr", "ee", "regen", "retry"},
                 at : {"idle", "read", "count", "filter", "reply", "items"},
                 unread : {task'.unread}, scope : Scope, got : {task'.got}, torn : BOOLEAN,
                 items : {task'.items}, orphans : SUBSET Row, details : SUBSET Detail,
                 new : SUBSET Row, gone : SUBSET Row]
  <2> DEFINE Fields == [kind : {"roa", "gbr", "ee", "regen", "retry"},
                 at : {"idle", "read", "count", "filter", "reply", "items"},
                 unread : {task.unread, unread}, scope : Scope, got : {task.got}, torn : BOOLEAN,
                 items : {task.items}, orphans : SUBSET Row, details : SUBSET Detail,
                 new : SUBSET Row, gone : SUBSET Row]
  <2>1. task \in Fields
    BY <1>1 DEF TaskType
  <2>2. (IF unread = {} THEN "reply" ELSE at) \in {"read", "count", "reply"}
    BY <1>2
  <2> QED BY <1>3, <2>1, <2>2
<1>5. irdb.roa \subseteq Content /\ irdb.batch \in Nat /\ irdb.ee \subseteq EeRequest
  BY <1>1 DEF Irdb
<1>6. TaskType'
  <2>1. CASE kind = "roa"
    <3>1. unread \subseteq Content \X Nat /\ task'.at \in {"read", "reply"}
      BY <1>2, <1>4, <1>5, <2>1
    <3>2. task.got \subseteq Content /\ task.items \subseteq Content \X SUBSET Row
      BY <1>1, <1>3, <2>1 DEF TaskType
    <3>3. task'.kind = "roa" /\ task'.unread = unread
      BY <1>3, <1>4, <2>1
    <3> QED BY <1>4, <3>1, <3>2, <3>3 DEF TaskType
  <2>2. CASE kind = "gbr"
    <3>1. unread \subseteq Ca /\ task'.at \in {"count", "reply"}
      BY <1>2, <1>4, <2>2
    <3> QED BY <1>1, <1>3, <1>4, <2>2, <3>1 DEF TaskType
  <2>3. CASE kind = "ee"
    <3>1. unread \subseteq EeRequest /\ task'.at \in {"read", "reply"}
      BY <1>2, <1>4, <1>5, <2>3
    <3> QED BY <1>1, <1>3, <1>4, <2>3, <3>1 DEF TaskType
  <2> QED BY <1>2, <2>1, <2>2, <2>3
<1>7. LoadedInv'
  <2>1. ASSUME kind = "roa"
        PROVE  /\ steady' \subseteq {x[1] : x \in unread}
               /\ unread = {} => steady' = {}
    <3>1. \A c \in irdb.roa : <<c, irdb.batch>> \in unread /\ <<c, irdb.batch>>[1] = c
      BY <1>2, <2>1
    <3> QED BY <1>2, <2>1, <3>1
  <2>2. task'.new = {} /\ task'.gone = {} /\ task'.at # "items"
    <3>1. task.new = {} /\ task.gone = {}
      BY <1>1, <1>3 DEF LoadedInv
    <3>2. task'.at \in {"read", "count", "reply"}
      BY <1>2, <1>4
    <3> QED BY <1>4, <3>1, <3>2
  <2>3. task'.kind = "roa" => kind = "roa" /\ (task'.at = "reply" => unread = {})
    BY <1>2, <1>3, <1>4
  <2> QED BY <1>4, <2>1, <2>2, <2>3 DEF LoadedInv
<1>8. InstancesInv'
  BY <1>2, <1>4 DEF InstancesInv
<1> QED BY <1>1, <1>2, <1>3, <1>5, <1>6, <1>7, <1>8, QuietKeeps


\* One SELECT of irdbd's answer.
LEMMA ReadingSafe ==
    ASSUME Ind, NEW x, NEW got, Reading(x, got), steady' = steady,
           \/ /\ task.kind = "roa" /\ task.at = "read" /\ x \in task.unread
              /\ got = {} \/ got = {x[1]}
           \/ /\ task.kind = "gbr" /\ task.at = "filter"
              /\ got \subseteq Ca \X Vcard
           \/ /\ task.kind = "ee" /\ task.at = "read"
              /\ got \subseteq EeReply
    PROVE  Safe
<1> DEFINE at == IF task.unread # {x} THEN IF task.kind = "gbr" THEN "count" ELSE "read"
                                      ELSE "reply"
           torn == task.torn \/ (task.kind = "roa" /\ got = {})
<1>1. /\ irdb \in Irdb /\ TaskType /\ LoadedInv /\ steady \subseteq Content
  BY DEF Ind, Types, RequestsInv, TypeOK
<1>2. /\ task' = [task EXCEPT !.unread = @ \ {x}, !.got = @ \cup got, !.at = at, !.torn = torn]
      /\ UNCHANGED <<irdb, rpkid, pubd, broken, failures, slices>>
  BY DEF Reading
<1>3. /\ at \in {"read", "count", "reply"} /\ torn \in BOOLEAN
      /\ at = "count" => task.kind = "gbr"
      /\ at = "read" => task.kind # "gbr" /\ task.unread # {x}
      /\ at = "reply" => task.unread = {x}
      /\ task.torn => torn
      /\ ~torn /\ task.kind = "roa" => got # {}
  OBVIOUS
<1> HIDE DEF at, torn
<1>4. /\ task'.kind = task.kind /\ task'.at = at /\ task'.torn = torn
      /\ task'.unread = task.unread \ {x} /\ task'.got = task.got \cup got
      /\ task'.items = task.items /\ task'.new = task.new /\ task'.gone = task.gone
      /\ task' \in [kind : {"roa", "gbr", "ee", "regen", "retry"},
                 at : {"idle", "read", "count", "filter", "reply", "items"},
                 unread : {task'.unread}, scope : Scope, got : {task'.got}, torn : BOOLEAN,
                 items : {task'.items}, orphans : SUBSET Row, details : SUBSET Detail,
                 new : SUBSET Row, gone : SUBSET Row]
  <2> DEFINE Fields == [kind : {"roa", "gbr", "ee", "regen", "retry"},
                 at : {"idle", "read", "count", "filter", "reply", "items"},
                 unread : {task.unread, task.unread \ {x}}, scope : Scope,
                 got : {task.got, task.got \cup got}, torn : BOOLEAN,
                 items : {task.items}, orphans : SUBSET Row, details : SUBSET Detail,
                 new : SUBSET Row, gone : SUBSET Row]
  <2>1. task \in Fields
    BY <1>1 DEF TaskType
  <2> QED BY <1>2, <1>3, <2>1
<1>5. TaskType'
  <2>1. CASE task.kind = "roa"
    <3>1. task.unread \subseteq Content \X Nat /\ task.got \subseteq Content
      BY <1>1, <2>1 DEF TaskType
    <3>2. got \subseteq Content
      BY <2>1, <3>1
    <3> QED BY <1>1, <1>3, <1>4, <2>1, <3>1, <3>2 DEF TaskType
  <2>2. CASE task.kind = "gbr"
    BY <1>1, <1>3, <1>4, <2>2 DEF TaskType
  <2>3. CASE task.kind = "ee"
    BY <1>1, <1>3, <1>4, <2>3 DEF TaskType
  <2> QED BY <2>1, <2>2, <2>3
<1>6. LoadedInv'
  <2>1. ASSUME task.kind = "roa", ~torn
        PROVE  /\ at = "read" => steady \subseteq task'.got \cup {y[1] : y \in task'.unread}
               /\ at = "reply" => steady \subseteq task'.got
    <3>1. steady \subseteq task.got \cup {y[1] : y \in task.unread} /\ got = {x[1]}
      BY <1>1, <1>3, <2>1 DEF LoadedInv
    <3> QED BY <1>3, <1>4, <3>1
  <2> QED BY <1>1, <1>2, <1>3, <1>4, <2>1 DEF LoadedInv
<1>7. InstancesInv'
  BY <1>3, <1>4 DEF InstancesInv
<1>8. task.at # "items"
  OBVIOUS
<1> QED BY <1>1, <1>2, <1>5, <1>6, <1>7, <1>8, QuietKeeps

LEMMA ReadSafe ==
    ASSUME Ind, ReadRoa \/ ReadEe \/ ReadGhostbusters
    PROVE  Safe
<1>1. irdb \in Irdb /\ TaskType
  BY DEF Ind, Types
<1>2. CASE ReadRoa
  <2>1. PICK x \in task.unread : Reading(x, IF x[2] = irdb.batch THEN {x[1]} ELSE {})
    BY <1>2 DEF ReadRoa
  <2>2. task.kind = "roa" /\ task.at = "read" /\ steady' = steady
    BY <1>2, <2>1 DEF ReadRoa, Reading
  <2> QED BY <2>1, <2>2, ReadingSafe
<1>3. CASE ReadEe
  <2>1. PICK x \in task.unread :
            Reading(x, {[gski |-> x.gski, what |-> IF x \in irdb.ee THEN x.what ELSE {}]})
    BY <1>3 DEF ReadEe
  <2>2. task.kind = "ee" /\ task.at = "read" /\ steady' = steady
    BY <1>3, <2>1 DEF ReadEe, Reading
  <2>3. x \in EeRequest
    BY <1>1, <2>2 DEF TaskType
  <2>4. [gski |-> x.gski, what |-> IF x \in irdb.ee THEN x.what ELSE {}] \in EeReply
    BY <2>3 DEF EeRequest, EeReply
  <2> QED BY <2>1, <2>2, <2>4, ReadingSafe
<1>4. CASE ReadGhostbusters
  <2> DEFINE answer(ca) == {<<ca, g[2]>> : g \in {x \in irdb.gbr : x[1] = task.scope}}
  <2>1. PICK ca \in task.items : Reading(ca, answer(ca))
    BY <1>4 DEF ReadGhostbusters
  <2>2. task.at = "filter" /\ task.kind = "gbr" /\ steady' = steady /\ ca \in Ca
    BY <1>1, <1>4, <2>1 DEF ReadGhostbusters, Reading, TaskType
  <2>3. \A g \in irdb.gbr : g[2] \in Vcard
    BY <1>1 DEF Irdb
  <2>4. answer(ca) \subseteq Ca \X Vcard
    BY <2>2, <2>3
  <2> HIDE DEF answer
  <2> QED BY <2>1, <2>2, <2>4, ReadingSafe
<1> QED BY <1>2, <1>3, <1>4

LEMMA CountGhostbustersSafe ==
    ASSUME Ind, CountGhostbusters
    PROVE  Safe
<1>1. /\ irdb \in Irdb /\ TaskType /\ LoadedInv /\ steady \subseteq Content
  BY DEF Ind, Types, RequestsInv, TypeOK
<1>2. PICK ca \in task.unread :
        task' = [task EXCEPT !.at = "filter", !.unread = {ca} \cup @, !.items = {ca},
                    !.scope = IF \E g \in irdb.gbr : g[1] = ca THEN ca ELSE "any"]
  BY DEF CountGhostbusters
<1>3. /\ task.at = "count" /\ task.kind = "gbr" /\ ca \in Ca /\ {ca} \cup task.unread = task.unread
      /\ UNCHANGED <<irdb, rpkid, pubd, steady, broken, failures, slices>>
  BY <1>1, <1>2 DEF CountGhostbusters, TaskType
<1>4. /\ task'.kind = task.kind /\ task'.at = "filter" /\ task'.torn = task.torn
      /\ task'.unread = task.unread /\ task'.got = task.got
      /\ task'.items = {ca} /\ task'.new = task.new /\ task'.gone = task.gone
      /\ task' \in [kind : {"roa", "gbr", "ee", "regen", "retry"},
                 at : {"idle", "read", "count", "filter", "reply", "items"},
                 unread : {task'.unread}, scope : Scope, got : {task'.got}, torn : BOOLEAN,
                 items : {task'.items}, orphans : SUBSET Row, details : SUBSET Detail,
                 new : SUBSET Row, gone : SUBSET Row]
  <2> DEFINE Fields == [kind : {"roa", "gbr", "ee", "regen", "retry"},
                 at : {"idle", "read", "count", "filter", "reply", "items"},
                 unread : {task.unread}, scope : Scope, got : {task.got}, torn : BOOLEAN,
                 items : {task.items, {ca}}, orphans : SUBSET Row, details : SUBSET Detail,
                 new : SUBSET Row, gone : SUBSET Row]
  <2>1. task \in Fields
    BY <1>1 DEF TaskType
  <2>2. (IF \E g \in irdb.gbr : g[1] = ca THEN ca ELSE "any") \in Scope
    BY <1>3 DEF Scope
  <2> QED BY <1>2, <1>3, <2>1, <2>2
<1>5. TaskType'
  BY <1>1, <1>3, <1>4 DEF TaskType
<1>6. LoadedInv' /\ InstancesInv'
  BY <1>1, <1>3, <1>4 DEF LoadedInv, InstancesInv
<1> QED BY <1>1, <1>3, <1>5, <1>6, QuietKeeps

\* The rows are loaded when the answer is there.
LEMMA CompareRoasSafe ==
    ASSUME Ind, CompareRoas
    PROVE  Safe
<1> DEFINE rows(c) == {r \in RowsOf("roa") : r.name = c}
           items == {<<c, rows(c)>> : c \in task.got}
           orphans == {r \in RowsOf("roa") : r.name \notin task.got}
<1>1. /\ irdb \in Irdb /\ TaskType /\ LoadedInv /\ steady \subseteq Content
  BY DEF Ind, Types, RequestsInv, TypeOK
<1>2. /\ task.kind = "roa" /\ task.at = "reply"
      /\ task' = [task EXCEPT !.at = "items", !.items = items, !.orphans = orphans]
      /\ UNCHANGED <<irdb, rpkid, pubd, steady, broken, failures, slices>>
  BY DEF CompareRoas, Same
<1>3. rpkid.rows \subseteq Row /\ task.got \subseteq Content
  BY <1>2, IndRows, TaskFields
<1>4. /\ \A c : rows(c) \in SUBSET Row /\ \A r \in rows(c) : r.kind = "roa" /\ r.name = c
      /\ orphans \in SUBSET Row /\ \A r \in orphans : r.kind = "roa" /\ r.name \notin task.got
      /\ RowsOf("roa")' = RowsOf("roa")
  BY <1>2, <1>3 DEF RowsOf
<1>5. \A x \in items : x \in Content \X SUBSET Row /\ x[1] \in task.got /\ x[2] = rows(x[1])
  BY <1>3, <1>4
<1>6. task.new = {} /\ task.gone = {}
  BY <1>1, <1>2 DEF LoadedInv
<1> HIDE DEF items, orphans
<1>7. /\ task'.kind = "roa" /\ task'.at = "items" /\ task'.torn = task.torn
      /\ task'.unread = task.unread /\ task'.got = task.got
      /\ task'.items = items /\ task'.orphans = orphans /\ task'.new = {} /\ task'.gone = {}
      /\ task' \in [kind : {"roa", "gbr", "ee", "regen", "retry"},
                 at : {"idle", "read", "count", "filter", "reply", "items"},
                 unread : {task'.unread}, scope : Scope, got : {task'.got}, torn : BOOLEAN,
                 items : {task'.items}, orphans : SUBSET Row, details : SUBSET Detail,
                 new : SUBSET Row, gone : SUBSET Row]
  <2> DEFINE Fields == [kind : {"roa", "gbr", "ee", "regen", "retry"},
                 at : {"idle", "read", "count", "filter", "reply", "items"},
                 unread : {task.unread}, scope : Scope, got : {task.got}, torn : BOOLEAN,
                 items : {task.items, items}, orphans : SUBSET Row, details : SUBSET Detail,
                 new : SUBSET Row, gone : SUBSET Row]
  <2>1. task \in Fields
    BY <1>1 DEF TaskType
  <2> QED BY <1>2, <1>4, <1>6, <2>1
<1>8. TaskType'
  BY <1>1, <1>2, <1>5, <1>7 DEF TaskType
<1>9. LoadedInv'
  <2>1. ~task.torn => steady \subseteq task.got
    BY <1>1, <1>2 DEF LoadedInv
  <2> QED BY <1>2, <1>4, <1>5, <1>7, <2>1 DEF LoadedInv
<1>10. InstancesInv'
  <2>1. orphans = {r \in RowsOf("roa")' : r.name \notin task'.got}
    BY <1>4, <1>7 DEF orphans
  <2>2. \A x \in items : x[2] = {r \in RowsOf("roa")' : r.name = x[1]}
    BY <1>4, <1>5
  <2> QED BY <1>7, <2>1, <2>2 DEF InstancesInv
<1> QED BY <1>1, <1>2, <1>8, <1>9, <1>10, QuietKeeps

LEMMA SkipRoaSafe ==
    ASSUME Ind, NEW x \in task.items, SkipRoa(x)
    PROVE  Safe
<1> DEFINE active == {r.detail : r \in x[2]} \cap Active
<1>1. /\ irdb \in Irdb /\ TaskType /\ LoadedInv /\ InstancesInv /\ steady \subseteq Content
  BY DEF Ind, Types, RequestsInv, TypeOK
<1>2. /\ task.at = "items" /\ task.kind = "roa"
      /\ task' = [task EXCEPT !.items = @ \ {x}, !.details = @ \cup active]
      /\ UNCHANGED <<irdb, rpkid, pubd, steady, broken, failures, slices>>
  BY TaskFields DEF SkipRoa, Turn, Same
<1>3. active \in SUBSET Detail
  BY DEF Active
<1> HIDE DEF active
<1>4. /\ task'.kind = "roa" /\ task'.at = "items" /\ task'.torn = task.torn
      /\ task'.unread = task.unread /\ task'.got = task.got
      /\ task'.items = task.items \ {x} /\ task'.orphans = task.orphans
      /\ task'.details = task.details \cup active
      /\ task'.new = task.new /\ task'.gone = task.gone
      /\ task' \in [kind : {"roa", "gbr", "ee", "regen", "retry"},
                 at : {"idle", "read", "count", "filter", "reply", "items"},
                 unread : {task'.unread}, scope : Scope, got : {task'.got}, torn : BOOLEAN,
                 items : {task'.items}, orphans : SUBSET Row, details : SUBSET Detail,
                 new : SUBSET Row, gone : SUBSET Row]
  <2> DEFINE Fields == [kind : {"roa", "gbr", "ee", "regen", "retry"},
                 at : {"idle", "read", "count", "filter", "reply", "items"},
                 unread : {task.unread}, scope : Scope, got : {task.got}, torn : BOOLEAN,
                 items : {task.items, task.items \ {x}}, orphans : SUBSET Row,
                 details : SUBSET Detail, new : SUBSET Row, gone : SUBSET Row]
  <2>1. task \in Fields
    BY <1>1 DEF TaskType
  <2> QED BY <1>2, <1>3, <2>1
<1>5. TaskType'
  BY <1>1, <1>2, <1>4 DEF TaskType
<1>6. LoadedInv'
  BY <1>1, <1>2, <1>4 DEF LoadedInv
<1>7. InstancesInv'
  <2>1. RowsOf("roa")' = RowsOf("roa")
    BY <1>2 DEF RowsOf
  <2> QED BY <1>1, <1>2, <1>4, <2>1 DEF InstancesInv
<1> QED BY <1>1, <1>2, <1>4, <1>5, <1>6, <1>7, QuietKeeps

LEMMA StutteringSafe ==
    ASSUME Ind, UNCHANGED vars
    PROVE  Safe
<1>1. irdb' \in Irdb /\ steady' \subseteq Content
  BY DEF vars, Ind, Types, TypeOK
<1>2. TaskType' /\ LoadedInv'
  BY DEF vars, Ind, Types, RequestsInv, TaskType, LoadedInv
<1>3. InstancesInv'
  BY DEF vars, Ind, RequestsInv, InstancesInv, RowsOf
<1> QED BY <1>1, <1>2, <1>3, QuietKeeps DEF vars


-----------------------------------------------------------------------------
(***************************************************************************)
(* The specification.                                                      *)
(***************************************************************************)
LEMMA InitInd ==
    ASSUME Init
    PROVE  Ind
<1> DEFINE state == [d \in Detail |-> IF d \in FirstActive THEN "active" ELSE "pending"]
           signed == [d \in Detail |-> IF d \in FirstActive THEN Manifest({}, d) ELSE None]
<1>1. /\ irdb \in [roa : SUBSET Content, batch : {0}, ee : {{}}, gbr : {{}}, changes : {0}]
      /\ rpkid = [state |-> state, rows |-> {}, revoked |-> {}, serial |-> 0,
                  mfts |-> signed, unsent |-> {}]
      /\ pubd = [u \in {ManifestUri(d) : d \in FirstActive} |-> signed[u[3]]]
      /\ task = Ready("roa") /\ steady = {} /\ broken = [ees |-> {}, rolled |-> FALSE]
      /\ failures = 0 /\ slices = 0
  BY DEF Init
<1>2. FirstActive \subseteq Detail /\ {} \notin Detail /\ MaxTroubles \in Nat
  BY RequestsAssumption
<1>3. /\ state \in [Detail -> {"pending", "active", "deprecated"}]
      /\ \A d \in Detail : (state[d] = "active") <=> d \in FirstActive
      /\ \A d \in Detail : (state[d] # "pending") <=> d \in FirstActive
  OBVIOUS
<1>4. \A d \in Detail : /\ d \in FirstActive => signed[d] = Manifest({}, d) /\ signed[d] # None
                        /\ d \in FirstActive => signed[d].what = d
  BY <1>2 DEF Manifest, None
<1>5. \A u \in DOMAIN pubd : u[1] = "mft" /\ u[3] \in FirstActive /\ pubd[u] = signed[u[3]]
  BY <1>1 DEF ManifestUri
<1> HIDE DEF state, signed
<1>6. /\ rpkid.state = state /\ rpkid.rows = {} /\ rpkid.revoked = {} /\ rpkid.serial = 0
      /\ rpkid.mfts = signed /\ rpkid.unsent = {} /\ RpkidType(rpkid)
  BY <1>1, <1>3 DEF RpkidType
<1>7. /\ task.kind = "roa" /\ task.at = "idle" /\ task.unread = {} /\ task.got = {}
      /\ task.items = {} /\ task.new = {} /\ task.gone = {} /\ task.orphans = {}
      /\ task.details = {} /\ task.scope = "any" /\ task.torn = FALSE
  BY <1>1 DEF Ready
<1>8. Active = FirstActive
  BY <1>2, <1>3, <1>6 DEF Active
<1>9. irdb \in Irdb /\ irdb.roa \subseteq Content /\ irdb.gbr = {}
  BY <1>1 DEF Irdb
<1>10. TaskType
  <2>1. task \in [kind : {"roa", "gbr", "ee", "regen", "retry"},
                 at : {"idle", "read", "count", "filter", "reply", "items"},
                 unread : {task.unread}, scope : Scope, got : {task.got}, torn : BOOLEAN,
                 items : {task.items}, orphans : SUBSET Row, details : SUBSET Detail,
                 new : SUBSET Row, gone : SUBSET Row]
    BY <1>1 DEF Ready, Scope
  <2> QED BY <1>7, <2>1 DEF TaskType
<1>11. Types
  <2>1. broken \in [ees : SUBSET Gski, rolled : BOOLEAN]
    BY <1>1
  <2> QED BY <1>1, <1>6, <1>9, <1>10, <2>1 DEF Types
<1>12. TypeOK
  <2>1. \A u \in DOMAIN pubd : pubd[u] # None
    BY <1>2, <1>4, <1>5
  <2>2. \A r \in rpkid.rows : r.detail \in Detail /\ r.obj.ver \in 1..rpkid.serial
    BY <1>6
  <2>3. rpkid.state \in [Detail -> {"pending", "active", "deprecated"}] /\ rpkid.unsent \subseteq Detail
    BY <1>3, <1>6
  <2>4. irdb.roa \subseteq Content /\ irdb.gbr \subseteq Scope \X Vcard
    BY <1>9
  <2>5. steady \subseteq Content /\ {failures, slices} \subseteq 0..MaxTroubles
    BY <1>1, <1>2
  <2>6. task.at \in {"idle", "read", "count", "filter", "reply", "items"}
    BY <1>7
  <2> QED BY <2>1, <2>2, <2>3, <2>4, <2>5, <2>6 DEF TypeOK
<1>13. RolloverInv
  BY <1>1, <1>8 DEF RolloverInv, NoRollover
<1>14. RoaRowsInv /\ PubdInv
  BY <1>5, <1>6 DEF RoaRowsInv, RowsOf, PubdInv
<1>15. LoadedInv /\ InstancesInv
  BY <1>7 DEF LoadedInv, InstancesInv
<1>16. ManifestsInv
  BY <1>2, <1>3, <1>4, <1>6, <1>8 DEF ManifestsInv
<1> QED BY <1>11, <1>12, <1>13, <1>14, <1>15, <1>16 DEF Ind, RequestsInv

LEMMA NextSafe ==
    ASSUME Ind, [Next]_vars
    PROVE  Safe
<1>1. CASE IrdbChanges
  BY <1>1, IrdbChangesSafe
<1>2. CASE AskRoas \/ AskGhostbusters \/ AskEes
  BY <1>2, AskSafe
<1>3. CASE ReadRoa \/ ReadEe \/ ReadGhostbusters
  BY <1>3, ReadSafe
<1>4. CASE CountGhostbusters
  BY <1>4, CountGhostbustersSafe
<1>5. CASE CompareRoas
  BY <1>5, CompareRoasSafe
<1>6. CASE \E x \in task.items : SkipRoa(x) \/ \E d \in Detail : SignRoa(x, d)
  BY <1>6, SkipRoaSafe, SignRoaSafe
<1>7. CASE FinishRoas
  BY <1>7, FinishRoasSafe
<1>8. CASE PostponeRoas
  BY <1>8, PostponeRoasSafe
<1>9. CASE UpdateGhostbusters
  BY <1>9, UpdateGhostbustersSafe
<1>10. CASE UpdateEes
  BY <1>10, UpdateEesSafe
<1>11. CASE AbortedEes
  BY <1>11, AbortEesSafe DEF AbortedEes
<1>12. CASE \E due \in SUBSET Signing : Regenerate(due)
  BY <1>12, RegenerateSafe
<1>13. CASE Retry
  BY <1>13, RetrySafe
<1>14. CASE \E d, e \in Detail : Activate(d, e)
  BY <1>14, ActivateSafe
<1>15. CASE UNCHANGED vars
  BY <1>15, StutteringSafe
<1> QED BY <1>1, <1>2, <1>3, <1>4, <1>5, <1>6, <1>7, <1>8, <1>9, <1>10, <1>11, <1>12,
           <1>13, <1>14, <1>15 DEF Next, TaskStep

\* What the rows, the loaded instances, the manifests and pubd have to do with
\* each other holds in every reachable state.
THEOREM RequestsInvariant == Spec => []Ind
<1>1. Init => Ind
  BY InitInd
<1>2. Ind /\ [Next]_vars => Ind'
  BY NextSafe DEF Safe
<1> QED BY <1>1, <1>2, PTL DEF Spec

\* Between two tasks the manifest of every active ca_detail lists exactly what
\* it has issued, however IRDB changes, lost messages and resyncs came between
\* (CADetail.generate_crl_and_manifest is called last, in every task).
THEOREM ManifestsList == Spec => []ManifestExact
<1>1. Ind => ManifestExact
  <2>1. SUFFICES ASSUME Ind, broken.ees = {}, task.at = "idle", Active = FirstActive,
                        NEW d \in Active
                 PROVE  rpkid.mfts[d] = Manifest(rpkid.rows, d)
    BY DEF ManifestExact, Ind
  <2>2. task.at # "items"
    BY <2>1
  <2> QED BY <2>1, <2>2, ManifestsAreExact DEF NoRollover
<1> QED BY <1>1, RequestsInvariant, PTL

\* A ROA stays at pubd as long as it is asked for, through every other request,
\* lost message and key rollover (ROA.update leaves it alone, ROA.regenerate
\* signs it anew), except when irdbd reads its request while load_roa_requests
\* replaces it, and when resync keeps the objects of another ca_detail only.
THEOREM RoasAreKept == Spec => RoaKept
<1>1. Ind /\ [Next]_vars => RoaKeptStep
  BY NextSafe DEF Safe
<1>2. Ind /\ [Next]_vars =>
        [LET held == RoasAt(pubd) \cap {r.name : r \in RowsOf("roa")}
         IN  ~task.torn =>
                \A c \in steady' \cap held : c \in RoasAt(pubd') \/ ResyncDrops(c)]_vars
  BY <1>1 DEF RoaKeptStep
<1> QED BY <1>2, RequestsInvariant, PTL DEF Spec, RoaKept

\* A ROA or a ghostbuster record that pubd no longer has has been revoked, or is
\* still in the database to be sent again (ROA.revoke and Ghostbuster.revoke
\* come before the withdrawal), unless a rollover came into a running UpdateROAs.
THEOREM WithdrawnAreRevoked == Spec => WithdrawnIsRevoked
<1>1. Ind /\ [Next]_vars => WithdrawnStep
  BY NextSafe DEF Safe
<1>2. KnownTo(rpkid)' = rpkid'.revoked \cup {Uri(r) : r \in rpkid'.rows}
  BY DEF KnownTo, Uris
<1>3. Ind /\ [Next]_vars =>
        [~broken'.rolled => \A u \in DOMAIN pubd \ DOMAIN pubd' :
            u[1] \in {"roa", "gbr"} =>
                u \in rpkid'.revoked \cup {Uri(r) : r \in rpkid'.rows}]_vars
  BY <1>1, <1>2 DEF WithdrawnStep
<1> QED BY <1>3, RequestsInvariant, PTL DEF Spec, WithdrawnIsRevoked

=============================================================================
