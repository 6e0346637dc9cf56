------------------------- MODULE CALifecycleProofs -------------------------
(***************************************************************************)
(* Proofs about CALifecycle, for every set of resources, keys and children *)
(* and any number of failures and changes: the keys of a CA are in order,  *)
(* and a rollover is make before break.                                    *)
(***************************************************************************)
EXTENDS CALifecycle, FiniteSetTheorems, TLAPS

-----------------------------------------------------------------------------
(***************************************************************************)
(* Databases.                                                              *)
(***************************************************************************)

\* Two databases with the same ca_details in the same states; the manifest and the
\* CRL of a revoked one do not fall behind.
Alike(d, e) ==
    /\ d \in Databases /\ e \in Databases /\ e.ca = d.ca
    /\ \A k \in Key : e.details[k] = None <=> d.details[k] = None
    /\ \A k \in Key : d.details[k] # None =>
          /\ e.details[k].state = d.details[k].state
          /\ e.details[k].state = "revoked" /\ e.details[k].lag => d.details[k].lag

Signers(d) == In(d, {"active", "deprecated"})

Pending(d) == In(d, {"pending"})
Deprecated(d) == In(d, {"deprecated"})
Revoked(d) == In(d, {"revoked"})
Current(d) == In(d, States \ {"revoked"})

Listed(d) == \A c \in d.certs : c.listed
CertsOK(d) == \A c \in d.certs : c.detail \in Active(d) /\ c.listed
RoasOK(d) == \A a \in d.roas : a.detail \in Signers(d)

\* What the children have in d they have in e.
Kept(d, e) == \A x \in d.certs : \E c \in e.certs : c.child = x.child /\ c.res = x.res

LEMMA DatabaseFields ==
    ASSUME NEW d \in Databases
    PROVE  /\ d = [ca |-> d.ca, details |-> d.details, certs |-> d.certs, roas |-> d.roas]
           /\ d.ca \in BOOLEAN /\ d.certs \subseteq Cert /\ d.roas \subseteq Roa
           /\ d.details \in [Key -> {None} \cup Detail]
BY DEF Databases

LEMMA KnownDetails ==
    ASSUME NEW d \in Databases, NEW k \in Key
    PROVE  /\ k \in Known(d) <=> d.details[k] # None
           /\ k \in Known(d) <=> d.details[k] \in Detail
           /\ \A states : k \in In(d, states) <=>
                  d.details[k] # None /\ d.details[k].state \in states
BY NoneAssumption DEF Databases, Known, In

LEMMA InFacts ==
    ASSUME NEW d \in Databases
    PROVE  /\ Known(d) \subseteq Key /\ Active(d) \subseteq Signers(d)
           /\ \A S : In(d, S) \subseteq Known(d)
           /\ \A S : \A T \in SUBSET S : In(d, T) \subseteq In(d, S)
           /\ \A S, T : S \cap T = {} => In(d, S) \cap In(d, T) = {}
           /\ \A k \in Known(d) : d.details[k].state \in States
BY NoneAssumption DEF Known, In, Active, Signers, Databases, Detail

LEMMA StateFacts ==
    ASSUME NEW d \in Databases
    PROVE  /\ Known(d) = Current(d) \cup Revoked(d)
           /\ Current(d) = Pending(d) \cup Signers(d)
           /\ Signers(d) = Active(d) \cup Deprecated(d)
           /\ Current(d) \cap Revoked(d) = {} /\ Pending(d) \cap Signers(d) = {}
           /\ Active(d) \cap Deprecated(d) = {}
<1>1. \A k \in Known(d) : d.details[k].state \in States
  BY InFacts
<1>2. Known(d) = Current(d) \cup Revoked(d) /\ Current(d) \cap Revoked(d) = {}
  BY <1>1 DEF Current, Revoked, In
<1>3. Current(d) = Pending(d) \cup Signers(d) /\ Pending(d) \cap Signers(d) = {}
  BY <1>1 DEF Current, Pending, Signers, In, States
<1>4. Signers(d) = Active(d) \cup Deprecated(d) /\ Active(d) \cap Deprecated(d) = {}
  BY DEF Signers, Active, Deprecated, In
<1> QED BY <1>2, <1>3, <1>4

LEMMA AlikeFacts ==
    ASSUME NEW d, NEW e, Alike(d, e)
    PROVE  /\ Known(e) = Known(d) /\ Active(e) = Active(d) /\ Signers(e) = Signers(d)
           /\ Pending(e) = Pending(d) /\ Deprecated(e) = Deprecated(d)
           /\ Revoked(e) = Revoked(d) /\ Current(e) = Current(d)
           /\ \A S : In(e, S) = In(d, S)
<1>1. Known(e) = Known(d)
  BY DEF Alike, Known
<1>2. \A S : In(e, S) = In(d, S)
  BY <1>1 DEF Alike, In, Known
<1>3. Active(e) = Active(d) /\ Signers(e) = Signers(d)
  BY <1>2 DEF Active, Signers
<1> QED BY <1>1, <1>2, <1>3 DEF Pending, Deprecated, Revoked, Current

LEMMA AlikeItself == ASSUME NEW d \in Databases PROVE Alike(d, d)
BY DEF Alike

LEMMA AlikeTransitive ==
    ASSUME NEW d, NEW e, NEW f, Alike(d, e), Alike(e, f)
    PROVE  Alike(d, f)
BY DEF Alike

LEMMA AlikeSane ==
    ASSUME NEW d, NEW e, Sane(d), Alike(d, e), CertsOK(e), RoasOK(e)
    PROVE  Sane(e)
<1>1. Known(e) = Known(d) /\ \A S : In(e, S) = In(d, S)
  BY AlikeFacts
<1>2. \A k \in In(e, {"revoked"}) : ~e.details[k].lag
  BY <1>1 DEF Sane, Alike, In, Known
<1> QED BY <1>1, <1>2 DEF Sane, CertsOK, RoasOK, Signers, Alike

LEMMA KeptItself == \A d : Kept(d, d)
BY DEF Kept

LEMMA KeptTransitive ==
    ASSUME NEW d, NEW e, NEW f, Kept(d, e), Kept(e, f)
    PROVE  Kept(d, f)
BY DEF Kept

LEMMA KeptHeld ==
    ASSUME NEW d, NEW e, Kept(d, e)
    PROVE  Held(d) \subseteq Held(e)
BY DEF Kept, Held

\* generate_crl_and_manifest.
LEMMA GenerateFacts ==
    ASSUME NEW d \in Databases, NEW k \in Known(d), NEW e, e = Generate(d, k)
    PROVE  /\ Alike(d, e) /\ Kept(d, e)
           /\ e.certs = {IF c.detail = k THEN [c EXCEPT !.listed = TRUE] ELSE c : c \in d.certs}
           /\ Listed(d) => e.certs = d.certs
           /\ \A a \in e.roas : \E x \in d.roas : a.for = x.for /\ a.detail = x.detail
           /\ ~e.details[k].lag
<1>1. /\ d = [ca |-> d.ca, details |-> d.details, certs |-> d.certs, roas |-> d.roas]
      /\ k \in Key /\ d.details \in [Key -> {None} \cup Detail]
      /\ d.details[k] \in Detail
      /\ d.certs \subseteq Cert /\ d.roas \subseteq Roa /\ d.ca \in BOOLEAN
  BY DatabaseFields, KnownDetails, InFacts
<1> DEFINE Cs == {IF c.detail = k THEN [c EXCEPT !.listed = TRUE] ELSE c : c \in d.certs}
           As == {IF a.detail = k THEN [a EXCEPT !.listed = TRUE] ELSE a : a \in d.roas}
           D == [d.details EXCEPT ![k].lag = FALSE]
<1>2. e = [ca |-> d.ca, details |-> D, certs |-> Cs, roas |-> As]
  BY <1>1 DEF Generate
<1>3. Cs \subseteq Cert /\ As \subseteq Roa
  BY <1>1 DEF Cert, Roa
<1>4. D \in [Key -> {None} \cup Detail]
  BY <1>1 DEF Detail
<1>5. e \in Databases
  BY <1>1, <1>2, <1>3, <1>4 DEF Databases
<1>6. /\ \A x \in Key : x # k => D[x] = d.details[x]
      /\ D[k].state = d.details[k].state /\ D[k].cert = d.details[k].cert /\ ~D[k].lag
      /\ D[k] \in Detail
  BY <1>1 DEF Detail
<1>7. Alike(d, e)
  <2>1. d.details[k] # None /\ D[k] # None
    BY <1>1, <1>6, NoneAssumption
  <2> HIDE DEF D
  <2>2. \A x \in Key : D[x] = None <=> d.details[x] = None
    BY <1>6, <2>1
  <2>3. \A x \in Key : D[x].state = d.details[x].state /\ D[x].cert = d.details[x].cert
                    /\ (D[x].lag => d.details[x].lag)
    BY <1>6
  <2> QED BY <1>2, <1>5, <2>2, <2>3 DEF Alike
<1>8. Listed(d) => Cs = d.certs
  <2> SUFFICES ASSUME Listed(d) PROVE Cs = d.certs
    OBVIOUS
  <2>1. \A c \in d.certs : [c EXCEPT !.listed = TRUE] = c
    BY <1>1 DEF Cert, Listed
  <2> QED BY <2>1
<1>9. ASSUME NEW x \in d.certs PROVE \E c \in Cs : c.child = x.child /\ c.res = x.res
  <2> DEFINE c == IF x.detail = k THEN [x EXCEPT !.listed = TRUE] ELSE x
  <2>1. c \in Cs
    OBVIOUS
  <2>2. c.child = x.child /\ c.res = x.res
    BY <1>1 DEF Cert
  <2> QED BY <2>1, <2>2
<1>10. ASSUME NEW a \in As PROVE \E x \in d.roas : a.for = x.for /\ a.detail = x.detail
  <2>1. PICK x \in d.roas : a = IF x.detail = k THEN [x EXCEPT !.listed = TRUE] ELSE x
    OBVIOUS
  <2> QED BY <1>1, <2>1 DEF Roa
<1>11. e.certs = {IF c.detail = k THEN [c EXCEPT !.listed = TRUE] ELSE c : c \in d.certs}
  BY <1>2
<1>12. Kept(d, e) /\ (Listed(d) => e.certs = d.certs)
  <2> HIDE DEF Cs
  <2> QED BY <1>2, <1>8, <1>9 DEF Kept
<1>13. ~e.details[k].lag
  BY <1>2, <1>6
<1>14. \A a \in e.roas : \E x \in d.roas : a.for = x.for /\ a.detail = x.detail
  <2> HIDE DEF As
  <2> QED BY <1>2, <1>10
<1> HIDE DEF Cs, As, D
<1> QED BY <1>7, <1>11, <1>12, <1>13, <1>14

\* The manifests of ca_details that can still sign lag behind.
LEMMA LagFacts ==
    ASSUME NEW d \in Databases, NEW ks \in SUBSET Signers(d), NEW e, e = Lag(d, ks)
    PROVE  Alike(d, e) /\ e.certs = d.certs /\ e.roas = d.roas
<1> DEFINE D == [k \in Key |-> IF k \in ks THEN [d.details[k] EXCEPT !.lag = TRUE]
                               ELSE d.details[k]]
<1>1. /\ d = [ca |-> d.ca, details |-> d.details, certs |-> d.certs, roas |-> d.roas]
      /\ d.details \in [Key -> {None} \cup Detail]
      /\ d.certs \subseteq Cert /\ d.roas \subseteq Roa /\ d.ca \in BOOLEAN
  BY DatabaseFields
<1>2. \A k \in ks : k \in Key /\ d.details[k] \in Detail /\ d.details[k] # None
                    /\ d.details[k].state # "revoked"
  BY NoneAssumption, <1>1 DEF Signers, In, Known
<1>3. e = [ca |-> d.ca, details |-> D, certs |-> d.certs, roas |-> d.roas]
  BY <1>1 DEF Lag
<1>4. \A k \in ks : /\ D[k] \in Detail /\ D[k] # None
                    /\ D[k].state = d.details[k].state /\ D[k].cert = d.details[k].cert
  <2>1. \A k \in ks : /\ D[k] \in Detail
                      /\ D[k].state = d.details[k].state /\ D[k].cert = d.details[k].cert
    BY <1>2 DEF Detail
  <2> HIDE DEF D
  <2> QED BY <2>1, NoneAssumption
<1>5. \A k \in Key \ ks : D[k] = d.details[k]
  OBVIOUS
<1>6. D \in [Key -> {None} \cup Detail]
  <2>1. \A k \in Key : D[k] \in {None} \cup Detail
    BY <1>1, <1>4, <1>5
  <2>2. D = [k \in Key |-> D[k]]
    OBVIOUS
  <2> HIDE DEF D
  <2> QED BY <2>1, <2>2
<1> HIDE DEF D
<1>7. e \in Databases
  BY <1>1, <1>3, <1>6 DEF Databases
<1> QED BY <1>2, <1>3, <1>4, <1>5, <1>7 DEF Alike

LEMMA DropCertsFacts ==
    ASSUME NEW d \in Databases, NEW cs, NEW e, e = DropCerts(d, cs),
           \A c \in cs : c.detail \in Signers(d)
    PROVE  Alike(d, e) /\ e.certs = d.certs \ cs /\ e.roas = d.roas
<1> DEFINE d1 == [d EXCEPT !.certs = @ \ cs]
           ks == {c.detail : c \in cs}
<1>1. /\ d1 = [ca |-> d.ca, details |-> d.details, certs |-> d.certs \ cs, roas |-> d.roas]
      /\ d1 \in Databases
  BY DatabaseFields DEF Databases
<1>2. e = Lag(d1, ks)
  BY DEF DropCerts
<1>3. Alike(d, d1) /\ d1.certs = d.certs \ cs /\ d1.roas = d.roas
  BY <1>1 DEF Alike
<1> HIDE DEF d1
<1>4. ks \subseteq Signers(d1)
  BY <1>3, AlikeFacts
<1> HIDE DEF ks
<1>5. Alike(d1, e) /\ e.certs = d1.certs /\ e.roas = d1.roas
  <2>1. d1 \in Databases /\ ks \in SUBSET Signers(d1)
    BY <1>1, <1>4
  <2> QED BY ONLY <2>1, <1>2, LagFacts
<1>6. Alike(d, e)
  BY ONLY <1>3, <1>5, AlikeTransitive
<1> QED BY ONLY <1>3, <1>5, <1>6

LEMMA DropRoasFacts ==
    ASSUME NEW d \in Databases, NEW rs, NEW e, e = DropRoas(d, rs),
           \A a \in rs : a.detail \in Signers(d)
    PROVE  Alike(d, e) /\ e.certs = d.certs /\ e.roas = d.roas \ rs
<1> DEFINE d1 == [d EXCEPT !.roas = @ \ rs]
           ks == {a.detail : a \in rs}
<1>1. /\ d1 = [ca |-> d.ca, details |-> d.details, certs |-> d.certs, roas |-> d.roas \ rs]
      /\ d1 \in Databases
  <2>1. d1 = [ca |-> d.ca, details |-> d.details, certs |-> d.certs, roas |-> d.roas \ rs]
    BY DEF Databases
  <2> HIDE DEF d1
  <2> QED BY <2>1, DatabaseFields DEF Databases
<1>2. e = Lag(d1, ks)
  BY DEF DropRoas
<1>3. Alike(d, d1) /\ d1.certs = d.certs /\ d1.roas = d.roas \ rs
  BY <1>1 DEF Alike
<1> HIDE DEF d1
<1>4. ks \subseteq Signers(d1)
  BY <1>3, AlikeFacts
<1> HIDE DEF ks
<1>5. Alike(d1, e) /\ e.certs = d1.certs /\ e.roas = d1.roas
  <2>1. d1 \in Databases /\ ks \in SUBSET Signers(d1)
    BY <1>1, <1>4
  <2> QED BY ONLY <2>1, <1>2, LagFacts
<1>6. Alike(d, e)
  BY ONLY <1>3, <1>5, AlikeTransitive
<1> QED BY ONLY <1>3, <1>5, <1>6

\* Adding certificates or ROAs.
LEMMA AddFacts ==
    ASSUME NEW d \in Databases, NEW cs \in SUBSET Cert, NEW rs \in SUBSET Roa
    PROVE  LET e == [d EXCEPT !.certs = @ \cup cs]
               f == [d EXCEPT !.roas = @ \cup rs]
           IN  /\ Alike(d, e) /\ e.certs = d.certs \cup cs /\ e.roas = d.roas
               /\ Alike(d, f) /\ f.certs = d.certs /\ f.roas = d.roas \cup rs
<1> DEFINE e == [d EXCEPT !.certs = @ \cup cs]
           f == [d EXCEPT !.roas = @ \cup rs]
<1>1. d.certs \cup cs \in SUBSET Cert /\ d.roas \cup rs \in SUBSET Roa
  BY DatabaseFields
<1>2. /\ e \in Databases /\ e.ca = d.ca /\ e.details = d.details
      /\ e.certs = d.certs \cup cs /\ e.roas = d.roas
  BY <1>1 DEF Databases
<1>3. /\ f \in Databases /\ f.ca = d.ca /\ f.details = d.details
      /\ f.certs = d.certs /\ f.roas = d.roas \cup rs
  BY <1>1 DEF Databases
<1> HIDE DEF e, f
<1>4. Alike(d, e) /\ Alike(d, f)
  BY <1>2, <1>3 DEF Alike
<1> QED BY <1>2, <1>3, <1>4 DEF e, f

\* CADetail.issue and ChildCert.reissue.
Certificate(child, k, res) == [child |-> child, detail |-> k, res |-> res, listed |-> TRUE]

LEMMA IssueFacts ==
    ASSUME NEW d \in Databases, Listed(d), NEW k \in Known(d), NEW child \in Child,
           NEW res \in SUBSET Res, NEW old, \A c \in old : c.detail \in Signers(d)
    PROVE  LET e == Issue(d, k, child, res, old)
           IN  /\ Alike(d, e)
               /\ e.certs = (d.certs \ old) \cup {Certificate(child, k, res)}
               /\ \A a \in e.roas : \E x \in d.roas : a.for = x.for /\ a.detail = x.detail
<1> DEFINE e == Issue(d, k, child, res, old)
<1> DEFINE row == [child |-> child, detail |-> k, res |-> res, listed |-> FALSE]
           d1 == DropCerts(d, old)
           d2 == [d1 EXCEPT !.certs = @ \cup {row}]
<1>1. k \in Key /\ row \in Cert /\ row.child = child /\ row.detail = k /\ row.res = res
  BY InFacts DEF Cert
<1>3. e = Generate(d2, k)
  BY DEF Issue
<1> HIDE DEF row, e
<1>2. [row EXCEPT !.listed = TRUE] = Certificate(child, k, res)
  <2> DEFINE new == [row EXCEPT !.listed = TRUE]
             other == Certificate(child, k, res)
  <2>1. /\ new \in Cert /\ new.child = child /\ new.detail = k /\ new.res = res
        /\ new.listed = TRUE
    BY <1>1 DEF Cert
  <2>2. /\ other \in Cert /\ other.child = child /\ other.detail = k /\ other.res = res
        /\ other.listed = TRUE
    BY <1>1 DEF Cert, Certificate
  <2> HIDE DEF new, other
  <2>3. new = other
    BY <2>1, <2>2 DEF Cert
  <2> QED BY <2>3 DEF new, other
<1>4. Alike(d, d1) /\ d1.certs = d.certs \ old /\ d1.roas = d.roas
  BY DropCertsFacts
<1> HIDE DEF d1
<1>5. Alike(d1, d2) /\ d2.certs = d1.certs \cup {row} /\ d2.roas = d1.roas
  <2>1. d1 \in Databases /\ {row} \in SUBSET Cert
    BY <1>1, <1>4 DEF Alike
  <2> QED BY <2>1, AddFacts
<1> HIDE DEF d2
<1>6. d2 \in Databases /\ Alike(d, d2) /\ k \in Known(d2)
  BY <1>4, <1>5, AlikeTransitive, AlikeFacts DEF Alike
<1>7. /\ Alike(d2, e)
      /\ e.certs = {IF c.detail = k THEN [c EXCEPT !.listed = TRUE] ELSE c : c \in d2.certs}
      /\ \A a \in e.roas : \E x \in d2.roas : a.for = x.for /\ a.detail = x.detail
  BY <1>3, <1>6, GenerateFacts
<1>8. \A c \in d.certs : [c EXCEPT !.listed = TRUE] = c
  BY DatabaseFields DEF Listed, Cert
<1>9. e.certs = (d.certs \ old) \cup {Certificate(child, k, res)}
  <2>1. \A c \in d.certs \ old : c \in e.certs
    BY <1>4, <1>5, <1>7, <1>8
  <2>2. Certificate(child, k, res) \in e.certs
    BY <1>1, <1>2, <1>5, <1>7
  <2>3. ASSUME NEW c \in e.certs PROVE c \in (d.certs \ old) \cup {Certificate(child, k, res)}
    <3>1. PICK x \in d2.certs : c = IF x.detail = k THEN [x EXCEPT !.listed = TRUE] ELSE x
      BY <1>7
    <3>2. CASE x = row
      BY <3>1, <3>2, <1>1, <1>2
    <3>3. CASE x \in d.certs \ old
      BY <3>1, <3>3, <1>8
    <3> QED BY <3>2, <3>3, <1>4, <1>5
  <2> QED BY <2>1, <2>2, <2>3
<1> QED BY <1>4, <1>5, <1>6, <1>7, <1>9, AlikeTransitive DEF e

LEMMA ReissueFacts ==
    ASSUME NEW d \in Databases, Listed(d), NEW c \in Cert, NEW k \in Signers(d),
           c.detail \in Signers(d), NEW res \in SUBSET Res, NEW e, e = Reissue(d, c, k, res)
    PROVE  /\ Alike(d, e) /\ Listed(e)
           /\ \A a \in e.roas : \E x \in d.roas : a.for = x.for /\ a.detail = x.detail
           /\ \A x \in e.certs : x \in d.certs \/ x.detail = k
           /\ c.res \subseteq res /\ c.detail # k =>
                 e.certs = (d.certs \ {c}) \cup {Certificate(c.child, k, res)}
<1> DEFINE child == c.child
           same == {x \in CertsOf(d, k) : x.child = c.child}
<1>1. child \in Child /\ k \in Known(d)
  BY InFacts DEF Cert, Signers
<1>2. CASE res = c.res /\ k = c.detail
  BY <1>2, AlikeItself DEF Reissue
<1>3. CASE ~(res = c.res /\ k = c.detail) /\ c.res \subseteq res
  <2> DEFINE old == {c}
  <2>1. e = Issue(d, k, child, res, old)
    BY <1>3 DEF Reissue
  <2>2. \A x \in old : x.detail \in Signers(d)
    OBVIOUS
  <2> HIDE DEF old, child
  <2>3. /\ Alike(d, e) /\ e.certs = (d.certs \ old) \cup {Certificate(child, k, res)}
        /\ \A a \in e.roas : \E x \in d.roas : a.for = x.for /\ a.detail = x.detail
    BY <2>1, <2>2, <1>1, IssueFacts
  <2> QED BY <2>3 DEF old, child, Certificate, Listed
<1>4. CASE ~(res = c.res /\ k = c.detail) /\ ~(c.res \subseteq res)
  <2> DEFINE d1 == DropCerts(d, same)
             d2 == Generate(d1, k)
             none == {}
  <2>1. e = Issue(d2, k, child, res, none)
    BY <1>4 DEF Reissue
  <2>2. \A x \in same : x.detail \in Signers(d)
    BY DEF CertsOf
  <2>3. Alike(d, d1) /\ d1.certs = d.certs \ same /\ d1.roas = d.roas
    <3> HIDE DEF same
    <3> QED BY <2>2, DropCertsFacts
  <2>4. d1 \in Databases /\ k \in Known(d1) /\ Listed(d1)
    BY <2>3, <1>1, AlikeFacts DEF Alike, Listed
  <2> HIDE DEF d1, same
  <2>5. /\ Alike(d1, d2) /\ d2.certs = d1.certs
        /\ \A a \in d2.roas : \E x \in d1.roas : a.for = x.for /\ a.detail = x.detail
    BY <2>4, GenerateFacts
  <2>6. d2 \in Databases /\ k \in Known(d2) /\ Listed(d2)
    BY <2>4, <2>5, AlikeFacts DEF Alike, Listed
  <2> HIDE DEF d2
  <2>11. \A x \in none : x.detail \in Signers(d2)
    OBVIOUS
  <2> HIDE DEF none, child
  <2>7. /\ Alike(d2, e) /\ e.certs = (d2.certs \ none) \cup {Certificate(child, k, res)}
        /\ \A a \in e.roas : \E x \in d2.roas : a.for = x.for /\ a.detail = x.detail
    BY <2>1, <2>6, <2>11, <1>1, IssueFacts, SMTT(60)
  <2>8. Alike(d, e)
    BY <2>3, <2>5, <2>7, AlikeTransitive
  <2>9. \A a \in e.roas : \E x \in d.roas : a.for = x.for /\ a.detail = x.detail
    BY <2>3, <2>5, <2>7
  <2>10. Listed(e) /\ \A x \in e.certs : x \in d.certs \/ x.detail = k
    BY <2>3, <2>5, <2>7 DEF none, child, Listed, Certificate
  <2> QED BY <1>4, <2>8, <2>9, <2>10
<1> QED BY <1>2, <1>3, <1>4

\* One turn of a loop that reissues under active ca_details.
LEMMA ReissueSane ==
    ASSUME NEW d, Sane(d), NEW c \in Cert, NEW k \in Active(d), c.detail \in Signers(d),
           NEW res \in SUBSET Res
    PROVE  Sane(Reissue(d, c, k, res)) /\ Alike(d, Reissue(d, c, k, res))
<1> DEFINE e == Reissue(d, c, k, res)
<1>1. d \in Databases /\ Listed(d) /\ k \in Signers(d) /\ k \in Known(d)
  BY InFacts DEF Sane, Listed, Active
<1>2. /\ Alike(d, e) /\ Listed(e)
      /\ \A a \in e.roas : \E x \in d.roas : a.for = x.for /\ a.detail = x.detail
      /\ \A x \in e.certs : x \in d.certs \/ x.detail = k
  BY <1>1, ReissueFacts
<1> HIDE DEF e
<1>3. Active(e) = Active(d) /\ Signers(e) = Signers(d)
  BY <1>2, AlikeFacts
<1>4. CertsOK(e) /\ RoasOK(e)
  BY <1>2, <1>3 DEF Sane, CertsOK, RoasOK, Listed, Signers
<1> QED BY <1>2, <1>4, AlikeSane DEF e

-----------------------------------------------------------------------------
(***************************************************************************)
(* The loops.                                                              *)
(***************************************************************************)
Generations == INSTANCE FoldLemmas WITH op <- GenerateOne
Reissues == INSTANCE FoldLemmas WITH op <- ReissueOne
Revocations == INSTANCE FoldLemmas WITH op <- ReissueOrRevoke

LEMMA GenerateAllFolds ==
    \A d, ks : GenerateAll(d, ks) = Generations!FoldOver(d, ks)
BY DEF GenerateAll, Generations!FoldOver, FoldSet, Generations!FoldSet,
       MapThenFoldSet, Generations!MapThenFoldSet

LEMMA ReissueFolds ==
    \A d, asks : FoldSet(ReissueOne, d, asks) = Reissues!FoldOver(d, asks)
BY DEF Reissues!FoldOver, FoldSet, Reissues!FoldSet,
       MapThenFoldSet, Reissues!MapThenFoldSet

LEMMA RevocationFolds ==
    \A d, asks : FoldSet(ReissueOrRevoke, d, asks) = Revocations!FoldOver(d, asks)
BY DEF Revocations!FoldOver, FoldSet, Revocations!FoldSet,
       MapThenFoldSet, Revocations!MapThenFoldSet

\* The ROAs of e are those of d, perhaps listed by now.
SameRoas(d, e) == \A a \in e.roas : \E x \in d.roas : a.for = x.for /\ a.detail = x.detail

LEMMA SameRoasTransitive ==
    ASSUME NEW d, NEW e, NEW f, SameRoas(d, e), SameRoas(e, f)
    PROVE  SameRoas(d, f)
BY DEF SameRoas

LEMMA SameRoasOK ==
    ASSUME NEW d, NEW e, Alike(d, e), SameRoas(d, e), RoasOK(d)
    PROVE  RoasOK(e)
BY AlikeFacts DEF SameRoas, RoasOK

LEMMA GenerateAllFacts ==
    ASSUME NEW d \in Databases, Listed(d), NEW ks \in SUBSET Known(d)
    PROVE  LET e == GenerateAll(d, ks)
           IN  Alike(d, e) /\ e.certs = d.certs /\ SameRoas(d, e)
<1> DEFINE Good == {p \in (SUBSET ks) \X Databases :
                        Alike(d, p[2]) /\ p[2].certs = d.certs /\ SameRoas(d, p[2])}
           e == GenerateAll(d, ks)
<1>1. IsFiniteSet(ks)
  BY InFacts, ConstantsAssumption, FS_Subset
<1>2. <<{}, d>> \in Good
  BY AlikeItself DEF SameRoas
<1>3. ASSUME NEW T \in SUBSET ks, NEW k \in ks \ T, NEW x, <<T, x>> \in Good
      PROVE  <<T \cup {k}, GenerateOne(k, x)>> \in Good
  <2>1. x \in Databases /\ Alike(d, x) /\ x.certs = d.certs /\ SameRoas(d, x)
    BY <1>3
  <2>2. k \in Known(x) /\ Listed(x)
    BY <2>1, AlikeFacts DEF Listed
  <2> DEFINE y == Generate(x, k)
  <2>3. Alike(x, y) /\ y.certs = x.certs /\ SameRoas(x, y)
    BY <2>1, <2>2, GenerateFacts DEF SameRoas
  <2> HIDE DEF y
  <2>4. Alike(d, y) /\ y.certs = d.certs /\ SameRoas(d, y) /\ y \in Databases
    BY <2>1, <2>3, AlikeTransitive, SameRoasTransitive DEF Alike
  <2>5. <<T \cup {k}, y>> \in Good
    BY <2>4
  <2> QED BY <2>5 DEF y, GenerateOne
<1> HIDE DEF Good
<1>4. <<ks, Generations!FoldOver(d, ks)>> \in Good
  <2>1. Generations!EveryTurn(Good, ks)
    BY <1>3 DEF Generations!EveryTurn
  <2>2. Generations!IsFiniteSet(ks)
    BY <1>1 DEF IsFiniteSet, Generations!IsFiniteSet
  <2> QED BY <1>2, <2>1, <2>2, Generations!SetFoldInvariant
<1>5. <<ks, e>> \in Good
  BY <1>4, GenerateAllFolds
<1> HIDE DEF e
<1> QED BY <1>5 DEF Good, e

\* ROA.regenerate.
LEMMA RoaDetailsFacts ==
    ASSUME NEW d \in Databases, NEW a
    PROVE  RoaDetails(d, a) \subseteq Active(d) /\ Active(d) \subseteq Key
BY InFacts DEF RoaDetails, Covering, Active

LEMMA RegenerateFacts ==
    ASSUME NEW d \in Databases, RoasOK(d), NEW rs \in SUBSET d.roas,
           \A a \in rs : RoaDetails(d, a) # {}
    PROVE  LET e == Regenerate(d, rs)
           IN  Alike(d, e) /\ e.certs = d.certs /\ RoasOK(e)
<1> DEFINE e == Regenerate(d, rs)
           d1 == DropRoas(d, rs)
           new == {NewRoa(a.for, RoaDetails(d, a)) : a \in rs}
<1>1. Alike(d, d1) /\ d1.certs = d.certs /\ d1.roas = d.roas \ rs
  BY DropRoasFacts DEF RoasOK
<1>2. \A a \in rs : (CHOOSE k \in RoaDetails(d, a) : TRUE) \in RoaDetails(d, a)
  OBVIOUS
<1>3. ASSUME NEW b \in new PROVE b \in Roa /\ b.detail \in Active(d)
  <2>1. PICK a \in rs : b = NewRoa(a.for, RoaDetails(d, a))
    OBVIOUS
  <2>2. a \in Roa
    BY DatabaseFields
  <2> DEFINE k == CHOOSE k \in RoaDetails(d, a) : TRUE
  <2>3. b = [for |-> a.for, detail |-> k, listed |-> FALSE]
    BY <2>1 DEF NewRoa
  <2>4. k \in Active(d) /\ k \in Key
    BY <1>2, RoaDetailsFacts
  <2> HIDE DEF k
  <2> QED BY <2>2, <2>3, <2>4 DEF Roa
<1>4. e = [d1 EXCEPT !.roas = @ \cup new]
  BY DEF Regenerate
<1>5. d1 \in Databases /\ new \in SUBSET Roa
  BY <1>1, <1>3 DEF Alike
<1> HIDE DEF e, d1, new
<1>6. Alike(d1, e) /\ e.certs = d1.certs /\ e.roas = d1.roas \cup new
  BY <1>4, <1>5, AddFacts
<1>7. Alike(d, e) /\ e.certs = d.certs
  BY <1>1, <1>6, AlikeTransitive
<1>8. RoasOK(e)
  <2>1. Signers(e) = Signers(d) /\ Active(d) \subseteq Signers(d)
    BY <1>7, AlikeFacts, InFacts
  <2> QED BY <2>1, <1>1, <1>3, <1>6 DEF RoasOK
<1> QED BY <1>7, <1>8 DEF e

LEMMA SaneFacts ==
    ASSUME NEW d, Sane(d)
    PROVE  d \in Databases /\ Listed(d) /\ CertsOK(d) /\ RoasOK(d)
BY DEF Sane, Listed, CertsOK, RoasOK, Signers

\* The same certificates, and a sane database stays sane.
LEMMA SameCertsSane ==
    ASSUME NEW d, Sane(d), NEW e, Alike(d, e), e.certs \subseteq d.certs, RoasOK(e)
    PROVE  Sane(e)
<1>1. CertsOK(e)
  BY SaneFacts, AlikeFacts DEF CertsOK
<1> QED BY <1>1, AlikeSane

LEMMA GenerateSane ==
    ASSUME NEW d, Sane(d), NEW k \in Known(d)
    PROVE  Sane(Generate(d, k)) /\ Alike(d, Generate(d, k))
<1> DEFINE e == Generate(d, k)
<1>1. Alike(d, e) /\ e.certs = d.certs /\ SameRoas(d, e)
  BY SaneFacts, GenerateFacts DEF SameRoas
<1> HIDE DEF e
<1> QED BY <1>1, SaneFacts, SameRoasOK, SameCertsSane DEF e

LEMMA GenerateAllSane ==
    ASSUME NEW d, Sane(d), NEW ks \in SUBSET Known(d)
    PROVE  Sane(GenerateAll(d, ks)) /\ Alike(d, GenerateAll(d, ks))
<1> DEFINE e == GenerateAll(d, ks)
<1>1. Alike(d, e) /\ e.certs = d.certs /\ SameRoas(d, e)
  BY SaneFacts, GenerateAllFacts
<1> HIDE DEF e
<1> QED BY <1>1, SaneFacts, SameRoasOK, SameCertsSane DEF e

-----------------------------------------------------------------------------
(***************************************************************************)
(* What the loops fold over is finite.                                     *)
(***************************************************************************)
LEMMA ImageIsFinite ==
    ASSUME NEW S, IsFiniteSet(S), NEW f, DOMAIN f = S, f = [x \in S |-> f[x]]
    PROVE  IsFiniteSet({f[x] : x \in S})
<1> DEFINE T == {f[x] : x \in S}
<1>1. f \in Surjection(S, T)
  <2>1. f \in [S -> T]
    OBVIOUS
  <2>2. \A t \in T : \E x \in S : f[x] = t
    OBVIOUS
  <2> HIDE DEF T
  <2> QED BY <2>1, <2>2 DEF Surjection
<1> HIDE DEF T
<1>2. IsFiniteSet(T)
  BY <1>1, FS_Surjection
<1> QED BY <1>2 DEF T

LEMMA CertIsFinite == IsFiniteSet(Cert)
<1> DEFINE Rows == (Child \X Key) \X ((SUBSET Res) \X BOOLEAN)
           row == [c \in Cert |-> << <<c.child, c.detail>>, <<c.res, c.listed>> >>]
<1>1. IsFiniteSet(BOOLEAN)
  <2>1. IsFiniteSet({TRUE} \cup {FALSE})
    BY FS_Singleton, FS_AddElement
  <2>2. BOOLEAN = {TRUE} \cup {FALSE}
    OBVIOUS
  <2> QED BY <2>1, <2>2
<1>2. IsFiniteSet(SUBSET Res)
  BY FS_SUBSET, ConstantsAssumption
<1>3. IsFiniteSet(Rows)
  <2>1. IsFiniteSet(Child \X Key) /\ IsFiniteSet((SUBSET Res) \X BOOLEAN)
    BY <1>1, <1>2, FS_Product, ConstantsAssumption
  <2> QED BY <2>1, FS_Product
<1>4. row \in Injection(Cert, Rows)
  <2>1. row \in [Cert -> Rows]
    BY DEF Cert
  <2>2. \A c, x \in Cert : row[c] = row[x] => c = x
    BY DEF Cert
  <2> HIDE DEF row, Rows
  <2> QED BY <2>1, <2>2 DEF Injection, IsInjective
<1> HIDE DEF Rows, row
<1> QED BY <1>3, <1>4, FS_Injection

-----------------------------------------------------------------------------
(***************************************************************************)
(* The methods.                                                            *)
(***************************************************************************)
LEMMA RegenerateSane ==
    ASSUME NEW d, Sane(d), NEW rs \in SUBSET d.roas, \A a \in rs : RoaDetails(d, a) # {}
    PROVE  LET e == Regenerate(d, rs)
           IN  Sane(e) /\ Alike(d, e) /\ e.certs = d.certs
<1> DEFINE e == Regenerate(d, rs)
<1>1. Alike(d, e) /\ e.certs = d.certs /\ RoasOK(e)
  BY SaneFacts, RegenerateFacts
<1> HIDE DEF e
<1> QED BY <1>1, SameCertsSane DEF e

LEMMA SetCertSane ==
    ASSUME NEW d, Sane(d), NEW k \in Known(d), NEW cert \in SUBSET Res
    PROVE  LET e == SetCert(d, k, cert)
           IN  Sane(e) /\ Alike(d, e) /\ e.certs = d.certs
<1> DEFINE d1 == [d EXCEPT !.details[k].cert = cert]
           e == Generate(d1, k)
<1>1. /\ d \in Databases /\ k \in Key /\ d.details[k] \in Detail
      /\ d.details \in [Key -> {None} \cup Detail]
  BY SaneFacts, InFacts, KnownDetails, DatabaseFields
<1>2. /\ d1.ca = d.ca /\ d1.certs = d.certs /\ d1.roas = d.roas
      /\ d1.details = [d.details EXCEPT ![k].cert = cert]
      /\ d1 \in Databases
  <2>1. [d.details EXCEPT ![k].cert = cert] \in [Key -> {None} \cup Detail]
    BY <1>1 DEF Detail
  <2>2. /\ d1.ca = d.ca /\ d1.certs = d.certs /\ d1.roas = d.roas
        /\ d1.details = [d.details EXCEPT ![k].cert = cert]
    BY <1>1 DEF Databases
  <2>3. d1 = [d EXCEPT !.details = [d.details EXCEPT ![k].cert = cert]]
    OBVIOUS
  <2>4. d1 \in Databases
    BY <1>1, <2>1, <2>3 DEF Databases
  <2> QED BY <2>2, <2>4
<1>3. /\ \A x \in Key : x # k => d1.details[x] = d.details[x]
      /\ d1.details[k].state = d.details[k].state /\ d1.details[k].lag = d.details[k].lag
      /\ d1.details[k] \in Detail
  BY <1>1, <1>2 DEF Detail
<1> HIDE DEF d1
<1>4. Alike(d, d1)
  <2>1. d.details[k] # None /\ d1.details[k] # None
    BY <1>1, <1>3, NoneAssumption
  <2> QED BY <1>1, <1>2, <1>3, <2>1 DEF Alike
<1>5. Sane(d1)
  BY <1>2, <1>4, SaneFacts, AlikeFacts, SameCertsSane DEF RoasOK
<1>6. k \in Known(d1) /\ Listed(d1)
  BY <1>4, <1>5, AlikeFacts, SaneFacts
<1>7. Sane(e) /\ Alike(d1, e) /\ e.certs = d1.certs
  BY <1>2, <1>5, <1>6, GenerateSane, GenerateFacts
<1> HIDE DEF e
<1>8. Sane(e) /\ Alike(d, e) /\ e.certs = d.certs
  BY <1>2, <1>4, <1>7, AlikeTransitive
<1> QED BY <1>8 DEF SetCert, e, d1

LEMMA SetStateFacts ==
    ASSUME NEW d \in Databases, NEW k \in Known(d), NEW s \in States
    PROVE  LET e == SetState(d, k, s)
           IN  /\ e \in Databases /\ e.ca = d.ca /\ e.certs = d.certs /\ e.roas = d.roas
               /\ Known(e) = Known(d)
               /\ \A x \in Key : e.details[x] # None =>
                     e.details[x].lag = d.details[x].lag
               /\ Active(e) = IF s = "active" THEN Active(d) \cup {k} ELSE Active(d) \ {k}
               /\ Pending(e) = IF s = "pending" THEN Pending(d) \cup {k} ELSE Pending(d) \ {k}
               /\ Deprecated(e) = IF s = "deprecated" THEN Deprecated(d) \cup {k}
                                  ELSE Deprecated(d) \ {k}
               /\ Revoked(e) = IF s = "revoked" THEN Revoked(d) \cup {k} ELSE Revoked(d) \ {k}
               /\ Current(e) = IF s = "revoked" THEN Current(d) \ {k} ELSE Current(d) \cup {k}
               /\ Signers(e) = IF s \in {"active", "deprecated"} THEN Signers(d) \cup {k}
                               ELSE Signers(d) \ {k}
<1> DEFINE e == SetState(d, k, s)
           D == [d.details EXCEPT ![k].state = s]
<1>1. /\ k \in Key /\ d.details[k] \in Detail
      /\ d.details \in [Key -> {None} \cup Detail]
  BY InFacts, KnownDetails, DatabaseFields
<1>2. D \in [Key -> {None} \cup Detail]
  BY <1>1 DEF Detail
<1>3. /\ \A x \in Key : x # k => D[x] = d.details[x]
      /\ D[k].state = s /\ D[k].lag = d.details[k].lag
      /\ D[k] \in Detail
  BY <1>1 DEF Detail
<1>4. e = [d EXCEPT !.details = D]
  BY DEF SetState
<1> HIDE DEF D, e
<1>5. /\ e \in Databases /\ e.ca = d.ca /\ e.certs = d.certs /\ e.roas = d.roas
      /\ e.details = D
  BY <1>2, <1>4 DEF Databases
<1>6. D[k] # None /\ d.details[k] # None
  BY <1>1, <1>3, NoneAssumption
<1>7. Known(e) = Known(d)
  BY <1>3, <1>5, <1>6 DEF Known
<1>8. \A x \in Key : e.details[x] # None => e.details[x].lag = d.details[x].lag
  BY <1>3, <1>5
<1>9. /\ Active(e) = IF s = "active" THEN Active(d) \cup {k} ELSE Active(d) \ {k}
      /\ Pending(e) = IF s = "pending" THEN Pending(d) \cup {k} ELSE Pending(d) \ {k}
  BY <1>1, <1>3, <1>5, <1>6, <1>7 DEF In, Known, Active, Pending
<1>10. /\ Deprecated(e) = IF s = "deprecated" THEN Deprecated(d) \cup {k} ELSE Deprecated(d) \ {k}
       /\ Revoked(e) = IF s = "revoked" THEN Revoked(d) \cup {k} ELSE Revoked(d) \ {k}
  BY <1>1, <1>3, <1>5, <1>6, <1>7 DEF In, Known, Deprecated, Revoked
<1>11. Current(e) = IF s = "revoked" THEN Current(d) \ {k} ELSE Current(d) \cup {k}
  BY <1>1, <1>3, <1>5, <1>6, <1>7 DEF In, Known, Current, States
<1>12. Signers(e) = IF s \in {"active", "deprecated"} THEN Signers(d) \cup {k} ELSE Signers(d) \ {k}
  BY <1>1, <1>3, <1>5, <1>6, <1>7 DEF In, Known, Signers
<1> QED BY <1>5, <1>7, <1>8, <1>9, <1>10, <1>11, <1>12 DEF e

\* The loop in activate: every certificate under the predecessor gets a successor
\* under the new ca_detail.
LEMMA MoveChildren ==
    ASSUME NEW d \in Databases, NEW k \in Active(d), NEW old \in Signers(d), old # k,
           \A c \in d.certs : c.detail = old /\ c.listed
    PROVE  LET asks == {[cert |-> c, detail |-> k, res |-> c.res] : c \in CertsOf(d, old)}
               e == FoldSet(ReissueOne, d, asks)
           IN  /\ Alike(d, e) /\ Listed(e) /\ SameRoas(d, e) /\ Kept(d, e)
               /\ \A c \in e.certs : c.detail = k
<1> DEFINE Request(c) == [cert |-> c, detail |-> k, res |-> c.res]
           asks == {Request(c) : c \in CertsOf(d, old)}
           Left(T, x) == \A c \in x.certs : c.detail = k \/ (c \in d.certs /\ Request(c) \notin T)
           Good == {p \in (SUBSET asks) \X Databases :
                        /\ Alike(d, p[2]) /\ Listed(p[2]) /\ SameRoas(d, p[2]) /\ Kept(d, p[2])
                        /\ Left(p[1], p[2])}
<1>1. IsFiniteSet(asks)
  <2> DEFINE C == CertsOf(d, old)
             f == [c \in C |-> Request(c)]
  <2>1. C \in SUBSET Cert
    BY DatabaseFields DEF CertsOf
  <2>2. IsFiniteSet(C)
    BY <2>1, CertIsFinite, FS_Subset
  <2>3. f = [c \in C |-> f[c]] /\ DOMAIN f = C
    OBVIOUS
  <2>4. asks = {f[c] : c \in C}
    OBVIOUS
  <2> HIDE DEF f, C, asks
  <2> QED BY <2>2, <2>3, <2>4, ImageIsFinite
<1>2. <<{}, d>> \in Good
  BY AlikeItself, KeptItself DEF SameRoas, Listed
<1>3. ASSUME NEW T \in SUBSET asks, NEW ask \in asks \ T, NEW x, <<T, x>> \in Good
      PROVE  <<T \cup {ask}, ReissueOne(ask, x)>> \in Good
  <2>1. PICK c \in CertsOf(d, old) : ask = Request(c)
    OBVIOUS
  <2>2. c \in Cert /\ c \in d.certs /\ c.detail = old /\ c.res \in SUBSET Res
    BY DatabaseFields DEF CertsOf, Cert
  <2>3. ask.cert = c /\ ask.detail = k /\ ask.res = c.res
    BY <2>1
  <2> DEFINE y == Reissue(x, c, k, c.res)
  <2>4. ReissueOne(ask, x) = y
    BY <2>3 DEF ReissueOne
  <2>5. /\ x \in Databases /\ Alike(d, x) /\ Listed(x) /\ SameRoas(d, x) /\ Kept(d, x)
        /\ Left(T, x)
    BY <1>3
  <2>6. k \in Signers(x) /\ c.detail \in Signers(x)
    BY <2>2, <2>5, AlikeFacts, InFacts
  <2>7. /\ Alike(x, y) /\ Listed(y) /\ SameRoas(x, y)
        /\ y.certs = (x.certs \ {c}) \cup {Certificate(c.child, k, c.res)}
    BY <2>2, <2>5, <2>6, ReissueFacts DEF SameRoas
  <2> HIDE DEF y, asks, Request
  <2>8. Alike(d, y) /\ SameRoas(d, y) /\ y \in Databases
    BY <2>5, <2>7, AlikeTransitive, SameRoasTransitive DEF Alike
  <2>9. Kept(x, y)
    <3>1. Certificate(c.child, k, c.res).child = c.child /\ Certificate(c.child, k, c.res).res = c.res
      BY DEF Certificate
    <3> QED BY <2>7, <3>1 DEF Kept
  <2>10. Kept(d, y)
    BY <2>5, <2>9, KeptTransitive
  <2>11. Left(T \cup {ask}, y)
    <3> SUFFICES ASSUME NEW b \in y.certs, b.detail # k
                 PROVE  b \in d.certs /\ Request(b) \notin T \cup {ask}
      OBVIOUS
    <3>1. b \in x.certs /\ b # c
      BY <2>7 DEF Certificate
    <3>2. b \in d.certs /\ Request(b) \notin T
      BY <3>1, <2>5
    <3>3. Request(b) # ask
      BY <3>1, <2>3 DEF Request
    <3> QED BY <3>2, <3>3
  <2>12. T \cup {ask} \in SUBSET asks
    OBVIOUS
  <2> HIDE DEF Left
  <2>13. <<T \cup {ask}, y>> \in Good
    BY <2>7, <2>8, <2>10, <2>11, <2>12
  <2> QED BY <2>4, <2>13
<1>4. <<asks, Reissues!FoldOver(d, asks)>> \in Good
  <2> HIDE DEF Good, asks
  <2>1. Reissues!EveryTurn(Good, asks)
    BY <1>3 DEF Reissues!EveryTurn
  <2>2. Reissues!IsFiniteSet(asks)
    BY <1>1 DEF IsFiniteSet, Reissues!IsFiniteSet
  <2> QED BY <1>2, <2>1, <2>2, Reissues!SetFoldInvariant
<1> DEFINE e == FoldSet(ReissueOne, d, asks)
<1>5. <<asks, e>> \in Good
  <2> HIDE DEF Good, asks
  <2> QED BY <1>4, ReissueFolds
<1>6. Alike(d, e) /\ Listed(e) /\ SameRoas(d, e) /\ Kept(d, e) /\ Left(asks, e)
  <2> HIDE DEF e, asks, Left
  <2> QED BY <1>5
<1>7. \A c \in e.certs : c.detail = k
  <2>1. \A c \in d.certs : Request(c) \in asks
    BY DEF CertsOf
  <2> HIDE DEF e, asks, Request
  <2> QED BY <1>6, <2>1
<1> QED BY <1>6, <1>7

\* What activate leaves behind.
Activated(d, k, old, e) ==
    /\ Sane(e) /\ e.ca = d.ca /\ Known(e) = Known(d)
    /\ Current(e) = Current(d)
    /\ Pending(e) = Pending(d) \ {k}
    /\ Revoked(e) = Revoked(d)
    /\ Active(e) = IF old = None THEN Active(d) \cup {k} ELSE {k}
    /\ old # None => Held(d) \subseteq Held(e)

\* CADetail.activate.
LEMMA ActivateFacts ==
    ASSUME NEW d, Sane(d), NEW k \in Pending(d), NEW cert \in SUBSET Res,
           NEW old \in Key \cup {None}, old # None => Active(d) = {old},
           NEW e \in Activate(d, k, cert, old)
    PROVE  Activated(d, k, old, e)
<1> SUFFICES /\ Sane(e) /\ e.ca = d.ca /\ Known(e) = Known(d)
             /\ Current(e) = Current(d)
             /\ Pending(e) = Pending(d) \ {k}
             /\ Revoked(e) = Revoked(d)
             /\ Active(e) = IF old = None THEN Active(d) \cup {k} ELSE {k}
             /\ old # None => Held(d) \subseteq Held(e)
  BY DEF Activated
<1> DEFINE d0 == SetCert(d, k, cert)
           d1 == SetState(d0, k, "active")
           d2 == SetState(d1, old, "deprecated")
<1>1. d \in Databases /\ k \in Key /\ k \in Known(d) /\ k \in Current(d)
      /\ k \notin Revoked(d) /\ k \notin Signers(d) /\ k \notin Active(d)
  BY SaneFacts, InFacts, StateFacts
<1>2. Sane(d0) /\ Alike(d, d0) /\ d0.certs = d.certs /\ d0.ca = d.ca
  BY <1>1, SetCertSane DEF Alike
<1> HIDE DEF d0
<1>3. /\ Known(d0) = Known(d) /\ d0 \in Databases
      /\ Active(d0) = Active(d) /\ Signers(d0) = Signers(d)
      /\ Pending(d0) = Pending(d) /\ Revoked(d0) = Revoked(d) /\ Current(d0) = Current(d)
  BY <1>2, AlikeFacts, SaneFacts
<1>4. /\ d1 \in Databases /\ d1.ca = d0.ca /\ d1.certs = d0.certs /\ d1.roas = d0.roas
      /\ Known(d1) = Known(d)
      /\ \A x \in Key : d1.details[x] # None => d1.details[x].lag = d0.details[x].lag
      /\ Active(d1) = Active(d0) \cup {k} /\ Signers(d1) = Signers(d0) \cup {k}
      /\ Pending(d1) = Pending(d0) \ {k} /\ Revoked(d1) = Revoked(d0) \ {k}
      /\ Current(d1) = Current(d0) \cup {k}
  <2>1. "active" \in States /\ k \in Known(d0)
    BY <1>1, <1>3 DEF States
  <2> QED BY <2>1, <1>3, SetStateFacts
<1> HIDE DEF d1
<1>5. /\ Current(d1) = Current(d)
      /\ Pending(d1) = Pending(d) \ {k}
      /\ Revoked(d1) = Revoked(d)
      /\ Active(d1) = Active(d) \cup {k} /\ Signers(d1) = Signers(d) \cup {k}
  BY <1>1, <1>3, <1>4
<1>6. \A x \in Revoked(d1) : ~d1.details[x].lag
  BY <1>2, <1>3, <1>4, <1>5, InFacts DEF Sane, Known, In, Revoked
<1>7. CASE old = None
  <2>1. e = d1
    BY <1>7 DEF Activate, d0, d1
  <2>2. Sane(d1)
    <3>1. CertsOK(d1) /\ RoasOK(d1)
      <4>1. CertsOK(d0) /\ RoasOK(d0) /\ Active(d0) = Active(d) /\ Signers(d0) = Signers(d)
        BY <1>2, <1>3, SaneFacts 
      <4> QED BY <4>1, <1>4, <1>5 DEF CertsOK, RoasOK
    <3>2. ~d1.ca => Known(d1) = {}
      BY <1>2, <1>3, <1>4 DEF Sane
    <3> QED BY <1>4, <1>6, <3>1, <3>2 DEF Sane, CertsOK, RoasOK, Signers, Revoked
  <2> QED BY <1>2, <1>4, <1>5, <1>7, <2>1, <2>2
<1>8. CASE old # None
  <2>1. old \in Key /\ old # k /\ Active(d) = {old} /\ old \in Known(d1) /\ k \in Known(d1)
    BY <1>1, <1>4, <1>8, InFacts DEF Active
  <2>2. /\ d2 \in Databases /\ d2.ca = d1.ca /\ d2.certs = d1.certs /\ d2.roas = d1.roas
        /\ Known(d2) = Known(d1)
        /\ \A x \in Key : d2.details[x] # None => d2.details[x].lag = d1.details[x].lag
        /\ Active(d2) = Active(d1) \ {old} /\ Signers(d2) = Signers(d1) \cup {old}
        /\ Pending(d2) = Pending(d1) \ {old} /\ Revoked(d2) = Revoked(d1) \ {old}
        /\ Current(d2) = Current(d1) \cup {old}
    <3>1. "deprecated" \in States
      BY DEF States
    <3> QED BY <2>1, <3>1, <1>4, SetStateFacts
  <2>3. /\ Current(d2) = Current(d)
        /\ Pending(d2) = Pending(d) \ {k}
        /\ Revoked(d2) = Revoked(d)
        /\ Active(d2) = {k} /\ Signers(d2) = Signers(d) \cup {k} /\ old \in Signers(d2)
    <3>1. old \in Current(d) /\ old \notin Pending(d) /\ old \notin Revoked(d) /\ old \in Signers(d)
      BY <1>1, <2>1, StateFacts
    <3> HIDE DEF d2
    <3>2. Active(d2) = {k}
      BY <1>5, <2>1, <2>2
    <3>3. Current(d2) = Current(d) /\ Pending(d2) = Pending(d) \ {k} /\ Revoked(d2) = Revoked(d)
      BY <1>5, <2>2, <3>1
    <3>4. Signers(d2) = Signers(d) \cup {k} /\ old \in Signers(d2)
      BY <1>5, <2>2, <3>1
    <3> QED BY <3>2, <3>3, <3>4
  <2>4. \A x \in Revoked(d2) : ~d2.details[x].lag
    BY <1>5, <1>6, <2>2, <2>3, InFacts DEF Known, In, Revoked
  <2>5. \A c \in d2.certs : c.detail = old /\ c.listed
    BY <1>2, <1>4, <2>1, <2>2, SaneFacts DEF CertsOK
  <2>6. RoasOK(d2)
    <3>1. RoasOK(d0) /\ Signers(d0) = Signers(d)
      BY <1>2, <1>3, SaneFacts DEF Signers
    <3> QED BY <3>1, <1>4, <2>2, <2>3 DEF RoasOK
  <2> DEFINE asks == {[cert |-> c, detail |-> k, res |-> c.res] : c \in CertsOf(d2, old)}
             d3 == FoldSet(ReissueOne, d2, asks)
             movable == {a \in RoasOf(d3, old) : RoaDetails(d3, a) # {}}
  <2>7. \/ e = Generate(Regenerate(d3, movable), old)
        \/ \E moved \in SUBSET movable : e = Regenerate(d3, moved)
    BY <1>8 DEF Activate, d0, d1
  <2> HIDE DEF d2
  <2>8. /\ Alike(d2, d3) /\ Listed(d3) /\ SameRoas(d2, d3) /\ Kept(d2, d3)
        /\ \A c \in d3.certs : c.detail = k
    BY <2>1, <2>2, <2>3, <2>5, MoveChildren
  <2> HIDE DEF d3
  <2>9. Sane(d3)
    <3>1. Known(d3) = Known(d2) /\ Active(d3) = Active(d2) /\ Signers(d3) = Signers(d2) /\ Revoked(d3) = Revoked(d2)
      BY <2>8, AlikeFacts
    <3>2. CertsOK(d3) /\ RoasOK(d3)
      BY <2>3, <2>6, <2>8, <3>1, SameRoasOK DEF CertsOK, Listed
    <3>3. \A x \in Revoked(d3) : ~d3.details[x].lag
      BY <2>4, <2>8, <3>1, InFacts DEF Alike, In, Known, Revoked
    <3>4. ~d3.ca => Known(d3) = {}
      BY <1>2, <1>3, <1>4, <2>2, <2>8, <3>1 DEF Sane, Alike
    <3> QED BY <2>8, <3>2, <3>3, <3>4 DEF Sane, CertsOK, RoasOK, Signers, Revoked, Alike
  <2>10. \A rs \in SUBSET movable :
            /\ Sane(Regenerate(d3, rs)) /\ Alike(d3, Regenerate(d3, rs))
            /\ Regenerate(d3, rs).certs = d3.certs
    <3> SUFFICES ASSUME NEW rs \in SUBSET movable
                 PROVE  /\ Sane(Regenerate(d3, rs)) /\ Alike(d3, Regenerate(d3, rs))
                        /\ Regenerate(d3, rs).certs = d3.certs
      OBVIOUS
    <3>1. rs \in SUBSET d3.roas /\ \A a \in rs : RoaDetails(d3, a) # {}
      BY DEF RoasOf
    <3> QED BY <2>9, <3>1, RegenerateSane
  <2> HIDE DEF movable
  <2>11. Sane(e) /\ Alike(d3, e) /\ Kept(d3, e)
    <3>1. CASE \E moved \in SUBSET movable : e = Regenerate(d3, moved)
      BY <3>1, <2>10 DEF Kept
    <3>2. CASE e = Generate(Regenerate(d3, movable), old)
      <4> DEFINE d4 == Regenerate(d3, movable)
      <4>1. Sane(d4) /\ Alike(d3, d4) /\ d4.certs = d3.certs
        BY <2>10
      <4> HIDE DEF d4
      <4>2. old \in Known(d4) /\ d4 \in Databases /\ Listed(d4) /\ e = Generate(d4, old)
        <5>1. Known(d4) = Known(d3) /\ Known(d3) = Known(d2)
          BY <4>1, <2>8, AlikeFacts
        <5> QED BY <5>1, <4>1, <2>1, <2>2, <3>2, SaneFacts DEF d4
      <4>3. Sane(e) /\ Alike(d4, e) /\ e.certs = d4.certs
        BY <4>1, <4>2, GenerateSane, GenerateFacts
      <4> QED BY <4>1, <4>3, AlikeTransitive DEF Kept
    <3> QED BY <2>7, <3>1, <3>2
  <2>12. Alike(d2, e) /\ Kept(d2, e)
    BY <2>8, <2>11, AlikeTransitive, KeptTransitive
  <2>13. /\ Known(e) = Known(d2) /\ Active(e) = Active(d2) /\ Pending(e) = Pending(d2)
         /\ Revoked(e) = Revoked(d2) /\ Current(e) = Current(d2)
         /\ e.ca = d2.ca
    BY <2>12, AlikeFacts DEF Alike
  <2>14. Held(d) \subseteq Held(e)
    <3>1. Kept(d, e)
      BY <2>12, <1>2, <1>4, <2>2 DEF Kept
    <3> QED BY <3>1, KeptHeld
  <2> QED BY <1>2, <1>4, <1>8, <2>2, <2>3, <2>11, <2>13, <2>14
<1> QED BY <1>7, <1>8

LEMMA DropCertsSane ==
    ASSUME NEW d, Sane(d), NEW cs, \A c \in cs : c.detail \in Signers(d)
    PROVE  Sane(DropCerts(d, cs)) /\ Alike(d, DropCerts(d, cs))
<1> DEFINE e == DropCerts(d, cs)
<1>1. Alike(d, e) /\ e.certs = d.certs \ cs /\ e.roas = d.roas
  BY SaneFacts, DropCertsFacts
<1> HIDE DEF e
<1>2. RoasOK(e)
  BY <1>1, SaneFacts, AlikeFacts DEF RoasOK
<1> QED BY <1>1, <1>2, SameCertsSane DEF e

LEMMA DropRoasSane ==
    ASSUME NEW d, Sane(d), NEW rs, \A a \in rs : a.detail \in Signers(d)
    PROVE  LET e == DropRoas(d, rs)
           IN  Sane(e) /\ Alike(d, e) /\ e.certs = d.certs /\ e.roas = d.roas \ rs
<1> DEFINE e == DropRoas(d, rs)
<1>1. Alike(d, e) /\ e.certs = d.certs /\ e.roas = d.roas \ rs
  BY SaneFacts, DropRoasFacts
<1> HIDE DEF e
<1>2. RoasOK(e)
  BY <1>1, SaneFacts, AlikeFacts DEF RoasOK
<1> QED BY <1>1, <1>2, SameCertsSane DEF e

\* What a loop may be asked to do.
Asks(d) == [cert : {c \in Cert : c.detail \in Signers(d)}, detail : Active(d), res : SUBSET Res]

LEMMA OneTurnSane ==
    ASSUME NEW d, Sane(d), NEW e, Sane(e), Alike(d, e), NEW ask \in Asks(d)
    PROVE  /\ Sane(ReissueOne(ask, e)) /\ Alike(d, ReissueOne(ask, e))
           /\ Sane(ReissueOrRevoke(ask, e)) /\ Alike(d, ReissueOrRevoke(ask, e))
<1>1. /\ ask.cert \in Cert /\ ask.cert.detail \in Signers(e)
      /\ ask.detail \in Active(e) /\ ask.res \in SUBSET Res
  BY AlikeFacts DEF Asks
<1>2. Sane(ReissueOne(ask, e)) /\ Alike(d, ReissueOne(ask, e))
  BY <1>1, ReissueSane, AlikeTransitive DEF ReissueOne
<1> DEFINE cs == {ask.cert}
           f == DropCerts(e, cs)
           g == Generate(f, ask.detail)
<1>3. Sane(f) /\ Alike(e, f)
  <2>1. \A c \in cs : c.detail \in Signers(e)
    BY <1>1
  <2> HIDE DEF cs
  <2> QED BY <2>1, DropCertsSane
<1> HIDE DEF f
<1>4. Sane(g) /\ Alike(d, g)
  <2>1. ask.detail \in Known(f)
    BY <1>1, <1>3, AlikeFacts, SaneFacts, InFacts DEF Active
  <2> QED BY <2>1, <1>3, GenerateSane, AlikeTransitive
<1>5. CASE ask.res = {}
  BY <1>2, <1>4, <1>5 DEF ReissueOrRevoke, f
<1>6. CASE ask.res # {}
  BY <1>2, <1>6 DEF ReissueOrRevoke
<1> QED BY <1>5, <1>6

LEMMA LoopsSane ==
    ASSUME NEW d, Sane(d), NEW asks \in SUBSET Asks(d), IsFiniteSet(asks)
    PROVE  /\ Sane(FoldSet(ReissueOne, d, asks)) /\ Alike(d, FoldSet(ReissueOne, d, asks))
           /\ Sane(FoldSet(ReissueOrRevoke, d, asks)) /\ Alike(d, FoldSet(ReissueOrRevoke, d, asks))
<1> DEFINE Good == {p \in (SUBSET asks) \X Databases : Sane(p[2]) /\ Alike(d, p[2])}
           e == FoldSet(ReissueOne, d, asks)
           f == FoldSet(ReissueOrRevoke, d, asks)
<1>1. <<{}, d>> \in Good
  BY SaneFacts, AlikeItself
<1>2. ASSUME NEW T \in SUBSET asks, NEW ask \in asks \ T, NEW x, <<T, x>> \in Good
      PROVE  /\ <<T \cup {ask}, ReissueOne(ask, x)>> \in Good
             /\ <<T \cup {ask}, ReissueOrRevoke(ask, x)>> \in Good
  <2>1. Sane(x) /\ Alike(d, x) /\ ask \in Asks(d)
    BY <1>2
  <2> DEFINE y == ReissueOne(ask, x)
             z == ReissueOrRevoke(ask, x)
  <2>2. Sane(y) /\ Alike(d, y) /\ Sane(z) /\ Alike(d, z)
    BY <2>1, OneTurnSane
  <2> HIDE DEF y, z
  <2>3. y \in Databases /\ z \in Databases
    BY <2>2, SaneFacts
  <2>4. <<T \cup {ask}, y>> \in Good /\ <<T \cup {ask}, z>> \in Good
    BY <2>2, <2>3
  <2> QED BY <2>4 DEF y, z
<1>3. <<asks, e>> \in Good
  <2> HIDE DEF Good, e
  <2>1. Reissues!EveryTurn(Good, asks)
    BY <1>2 DEF Reissues!EveryTurn
  <2>2. Reissues!IsFiniteSet(asks)
    BY DEF IsFiniteSet, Reissues!IsFiniteSet
  <2>3. <<asks, Reissues!FoldOver(d, asks)>> \in Good
    BY <1>1, <2>1, <2>2, Reissues!SetFoldInvariant
  <2> QED BY <2>3, ReissueFolds DEF e
<1>4. <<asks, f>> \in Good
  <2> HIDE DEF Good, f
  <2>1. Revocations!EveryTurn(Good, asks)
    BY <1>2 DEF Revocations!EveryTurn
  <2>2. Revocations!IsFiniteSet(asks)
    BY DEF IsFiniteSet, Revocations!IsFiniteSet
  <2>3. <<asks, Revocations!FoldOver(d, asks)>> \in Good
    BY <1>1, <2>1, <2>2, Revocations!SetFoldInvariant
  <2> QED BY <2>3, RevocationFolds DEF f
<1> HIDE DEF e, f
<1> QED BY <1>3, <1>4 DEF e, f

\* The asks of the loops in the model.
LEMMA AskedOf ==
    ASSUME NEW d, Sane(d), NEW C \in SUBSET d.certs, NEW f \in [C -> Active(d)],
           NEW g \in [C -> SUBSET Res]
    PROVE  LET asks == {[cert |-> c, detail |-> f[c], res |-> g[c]] : c \in C}
           IN  asks \in SUBSET Asks(d) /\ IsFiniteSet(asks)
<1> DEFINE asks == {[cert |-> c, detail |-> f[c], res |-> g[c]] : c \in C}
           h == [c \in C |-> [cert |-> c, detail |-> f[c], res |-> g[c]]]
<1>1. \A c \in C : c \in Cert /\ c.detail \in Signers(d)
  BY SaneFacts, DatabaseFields, InFacts DEF CertsOK
<1>2. asks \in SUBSET Asks(d)
  BY <1>1 DEF Asks
<1>3. IsFiniteSet(C)
  BY <1>1, CertIsFinite, FS_Subset
<1>4. h = [c \in C |-> h[c]] /\ DOMAIN h = C /\ asks = {h[c] : c \in C}
  OBVIOUS
<1> HIDE DEF h, asks
<1>5. IsFiniteSet(asks)
  BY <1>3, <1>4, ImageIsFinite
<1> QED BY <1>2, <1>5 DEF asks

\* CADetail.update.
LEMMA UpdateDetailSane ==
    ASSUME NEW d, Sane(d), NEW k \in Active(d), NEW cert \in SUBSET Res
    PROVE  Sane(UpdateDetail(d, k, cert)) /\ Alike(d, UpdateDetail(d, k, cert))
<1> DEFINE old == d.details[k].cert
           d1 == IF cert = old THEN d ELSE SetCert(d, k, cert)
           over == {c \in CertsOf(d1, k) : ~(c.res \subseteq cert)}
           asks == {[cert |-> c, detail |-> k, res |-> c.res \cap cert] : c \in over}
           d2 == FoldSet(ReissueOne, d1, asks)
           rs == {a \in RoasOf(d2, k) : a.for \notin cert}
<1>1. k \in Known(d) /\ d \in Databases
  BY SaneFacts, InFacts DEF Active
<1>2. Sane(d1) /\ Alike(d, d1)
  BY <1>1, SetCertSane, AlikeItself
<1>3. UpdateDetail(d, k, cert) = IF old \subseteq cert THEN d1 ELSE Regenerate(d2, rs)
  BY DEF UpdateDetail
<1> HIDE DEF d1, old
<1>4. asks \in SUBSET Asks(d1) /\ IsFiniteSet(asks)
  <2> DEFINE f == [c \in over |-> k]
             g == [c \in over |-> c.res \cap cert]
  <2>1. over \in SUBSET d1.certs /\ f \in [over -> Active(d1)] /\ g \in [over -> SUBSET Res]
    BY <1>2, AlikeFacts DEF CertsOf
  <2>2. asks = {[cert |-> c, detail |-> f[c], res |-> g[c]] : c \in over}
    OBVIOUS
  <2> HIDE DEF f, g, over, asks
  <2> QED BY <1>2, <2>1, <2>2, AskedOf
<1> HIDE DEF asks
<1>5. Sane(d2) /\ Alike(d1, d2)
  BY <1>2, <1>4, LoopsSane
<1> HIDE DEF d2
<1>6. k \in Active(d2)
  BY <1>2, <1>5, AlikeFacts
<1>7. rs \in SUBSET d2.roas /\ \A a \in rs : RoaDetails(d2, a) # {}
  BY <1>6 DEF RoasOf, RoaDetails
<1> HIDE DEF rs
<1>8. Sane(Regenerate(d2, rs)) /\ Alike(d2, Regenerate(d2, rs))
  BY <1>5, <1>7, RegenerateSane
<1>9. Alike(d, Regenerate(d2, rs))
  BY <1>2, <1>5, <1>8, AlikeTransitive
<1> QED BY <1>2, <1>3, <1>8, <1>9

\* UpdateChildrenTask and UpdateROAsTask.
LEMMA UpdateChildrenSane ==
    ASSUME NEW d, Sane(d)
    PROVE  Sane(UpdateChildrenIn(d)) /\ Alike(d, UpdateChildrenIn(d))
<1> DEFINE C == {x \in d.certs : x.detail \in Active(d)}
           asks == {[cert |-> c, detail |-> c.detail, res |-> Shrunk(d, c)] : c \in C}
<1>1. asks \in SUBSET Asks(d) /\ IsFiniteSet(asks)
  <2> DEFINE f == [c \in C |-> c.detail]
             g == [c \in C |-> Shrunk(d, c)]
  <2>1. C \in SUBSET d.certs /\ f \in [C -> Active(d)]
    OBVIOUS
  <2>2. g \in [C -> SUBSET Res]
    BY SaneFacts, DatabaseFields DEF Shrunk, Cert
  <2>3. asks = {[cert |-> c, detail |-> f[c], res |-> g[c]] : c \in C}
    OBVIOUS
  <2> HIDE DEF f, g, C, asks
  <2> QED BY <2>1, <2>2, <2>3, AskedOf
<1>2. UpdateChildrenIn(d) = FoldSet(ReissueOrRevoke, d, asks)
  BY DEF UpdateChildrenIn
<1> HIDE DEF asks
<1> QED BY <1>1, <1>2, LoopsSane

LEMMA AddRoasSane ==
    ASSUME NEW d, Sane(d), NEW rs \in SUBSET Roa, \A a \in rs : a.detail \in Active(d)
    PROVE  LET e == [d EXCEPT !.roas = @ \cup rs]
           IN  Sane(e) /\ Alike(d, e) /\ e.roas = d.roas \cup rs
<1> DEFINE e == [d EXCEPT !.roas = @ \cup rs]
<1>1. Alike(d, e) /\ e.certs = d.certs /\ e.roas = d.roas \cup rs
  BY SaneFacts, AddFacts
<1> HIDE DEF e
<1>2. RoasOK(e)
  BY <1>1, SaneFacts, AlikeFacts, InFacts DEF RoasOK
<1> QED BY <1>1, <1>2, SameCertsSane DEF e

LEMMA UpdateROAsSane ==
    ASSUME NEW d, Sane(d), want \in SUBSET Res
    PROVE  Sane(UpdateROAsIn(d)) /\ Alike(d, UpdateROAsIn(d))
<1> DEFINE wanted == {a \in d.roas : a.for \in want}
           orphans == d.roas \ wanted
           stale == {a \in wanted : RoaDetails(d, a) # {} /\ a.detail \notin Covering(d, a.for)}
           created == {r \in want \ {a.for : a \in wanted} : Covering(d, r) # {}}
           new == {NewRoa(r, Covering(d, r)) : r \in created}
           d1 == Regenerate(d, stale)
           d2 == [d1 EXCEPT !.roas = @ \cup new]
           d3 == DropRoas(d2, orphans)
           touched == {a.detail : a \in {b \in d2.roas : b.for \in want /\ RoaDetails(d2, b) # {}}}
                      \cup {a.detail : a \in orphans}
<1>1. \/ UpdateROAsIn(d) = d
      \/ UpdateROAsIn(d) = GenerateAll(d3, touched)
  BY DEF UpdateROAsIn
<1>2. Sane(d1) /\ Alike(d, d1)
  <2>1. stale \in SUBSET d.roas /\ \A a \in stale : RoaDetails(d, a) # {}
    OBVIOUS
  <2> HIDE DEF stale
  <2> QED BY <2>1, RegenerateSane
<1>3. new \in SUBSET Roa /\ \A a \in new : a.detail \in Active(d1)
  <2> SUFFICES ASSUME NEW a \in new PROVE a \in Roa /\ a.detail \in Active(d1)
    OBVIOUS
  <2>1. PICK r \in created : a = NewRoa(r, Covering(d, r))
    OBVIOUS
  <2> DEFINE k == CHOOSE k \in Covering(d, r) : TRUE
  <2>2. k \in Covering(d, r) /\ r \in Res
    OBVIOUS
  <2>3. a = [for |-> r, detail |-> k, listed |-> FALSE]
    BY <2>1 DEF NewRoa
  <2> HIDE DEF k, d1
  <2>4. k \in Active(d1) /\ k \in Key
    BY <2>2, <1>2, AlikeFacts, SaneFacts, InFacts DEF Covering, Active
  <2> QED BY <2>2, <2>3, <2>4 DEF Roa
<1> HIDE DEF d1, new
<1>4. Sane(d2) /\ Alike(d1, d2) /\ Alike(d, d2)
  BY <1>2, <1>3, AddRoasSane, AlikeTransitive
<1> HIDE DEF d2
<1>5. \A a \in orphans : a.detail \in Signers(d2)
  BY <1>4, SaneFacts, AlikeFacts DEF RoasOK
<1> HIDE DEF orphans
<1>6. Sane(d3) /\ Alike(d2, d3) /\ Alike(d, d3)
  BY <1>4, <1>5, DropRoasSane, AlikeTransitive
<1> HIDE DEF d3
<1>7. touched \in SUBSET Known(d3)
  <2>1. \A a \in d2.roas \cup orphans : a.detail \in Signers(d2)
    BY <1>4, <1>5, SaneFacts DEF RoasOK
  <2>2. Signers(d2) \subseteq Known(d3)
    BY <1>6, AlikeFacts, SaneFacts, InFacts DEF Signers
  <2> QED BY <2>1, <2>2
<1> HIDE DEF touched
<1>8. Sane(GenerateAll(d3, touched)) /\ Alike(d, GenerateAll(d3, touched))
  BY <1>6, <1>7, GenerateAllSane, AlikeTransitive
<1> QED BY <1>1, <1>8, SaneFacts, AlikeItself

\* Requests of children.
LEMMA IssueSane ==
    ASSUME NEW d, Sane(d), NEW k \in Active(d), NEW child \in Child, NEW res \in SUBSET Res
    PROVE  Sane(Issue(d, k, child, res, {})) /\ Alike(d, Issue(d, k, child, res, {}))
<1> DEFINE none == {}
           e == Issue(d, k, child, res, none)
<1>1. k \in Known(d) /\ d \in Databases /\ Listed(d) /\ \A c \in none : c.detail \in Signers(d)
  BY SaneFacts, InFacts DEF Active
<1>5. e = Issue(d, k, child, res, none)
  OBVIOUS
<1> HIDE DEF none, e
<1>2. Alike(d, e) /\ e.certs = (d.certs \ none) \cup {Certificate(child, k, res)} /\ SameRoas(d, e)
  <2>1. /\ Alike(d, e) /\ e.certs = (d.certs \ none) \cup {Certificate(child, k, res)}
        /\ \A a \in e.roas : \E x \in d.roas : a.for = x.for /\ a.detail = x.detail
    BY <1>1, <1>5, IssueFacts, SMTT(60)
  <2> QED BY <2>1 DEF SameRoas
<1>3. CertsOK(e)
  BY <1>2, SaneFacts, AlikeFacts DEF CertsOK, Certificate
<1>4. Sane(e)
  BY <1>2, <1>3, SaneFacts, SameRoasOK, AlikeSane
<1> QED BY <1>2, <1>4 DEF e, none

\* CA.revoke, one ca_detail.
LEMMA FinishRevokeFacts ==
    ASSUME NEW d, Sane(d), NEW k \in Deprecated(d)
    PROVE  LET e == FinishRevoke(d, k)
           IN  /\ Sane(e) /\ Known(e) = Known(d)
               /\ Active(e) = Active(d) /\ Pending(e) = Pending(d)
               /\ Deprecated(e) = Deprecated(d) \ {k} /\ Revoked(e) = Revoked(d) \cup {k}
               /\ Held(d) \subseteq Held(e)
<1> DEFINE cs == CertsOf(d, k)
           d1 == DropCerts(d, cs)
           rs == RoasOf(d, k)
           d2 == DropRoas(d1, rs)
           d3 == Generate(d2, k)
           e == SetState(d3, k, "revoked")
<1>1. /\ d \in Databases /\ k \in Known(d) /\ k \in Signers(d) /\ k \notin Active(d)
      /\ k \in Key /\ k \notin Pending(d)
  BY SaneFacts, StateFacts, InFacts
<1>2. cs = {}
  BY <1>1, SaneFacts DEF CertsOf, CertsOK
<1>3. Sane(d1) /\ Alike(d, d1) /\ d1.certs = d.certs /\ d1.roas = d.roas
  <2>1. \A c \in cs : c.detail \in Signers(d)
    BY <1>2
  <2> HIDE DEF cs
  <2>2. Sane(d1) /\ Alike(d, d1)
    BY <2>1, DropCertsSane
  <2>3. d1.certs = d.certs \ cs /\ d1.roas = d.roas
    BY <1>1, <2>1, DropCertsFacts
  <2> QED BY <1>2, <2>2, <2>3
<1> HIDE DEF d1
<1>4. Sane(d2) /\ Alike(d1, d2) /\ d2.certs = d.certs /\ \A a \in d2.roas : a.detail # k
  <2>1. \A a \in rs : a.detail \in Signers(d1)
    BY <1>1, <1>3, AlikeFacts DEF RoasOf
  <2>2. \A a \in d.roas \ rs : a.detail # k
    BY DEF RoasOf
  <2> HIDE DEF rs
  <2>3. Sane(d2) /\ Alike(d1, d2) /\ d2.certs = d1.certs /\ d2.roas = d1.roas \ rs
    BY <1>3, <2>1, DropRoasSane
  <2> QED BY <1>3, <2>2, <2>3
<1> HIDE DEF d2
<1>5. /\ Sane(d3) /\ Alike(d2, d3) /\ d3.certs = d.certs /\ \A a \in d3.roas : a.detail # k
      /\ ~d3.details[k].lag
  <2>1. k \in Known(d2) /\ d2 \in Databases /\ Listed(d2)
    BY <1>1, <1>3, <1>4, AlikeFacts, SaneFacts
  <2> QED BY <1>4, <2>1, GenerateSane, GenerateFacts
<1> HIDE DEF d3
<1>6. /\ Alike(d, d3) /\ d3 \in Databases /\ k \in Known(d3)
      /\ Known(d3) = Known(d) /\ Active(d3) = Active(d) /\ Pending(d3) = Pending(d)
      /\ Deprecated(d3) = Deprecated(d) /\ Revoked(d3) = Revoked(d) /\ Signers(d3) = Signers(d)
  <2>1. Alike(d, d3)
    BY <1>3, <1>4, <1>5, AlikeTransitive
  <2> QED BY <2>1, <1>1, <1>5, AlikeFacts, SaneFacts
<1>7. /\ e \in Databases /\ e.ca = d3.ca /\ e.certs = d3.certs /\ e.roas = d3.roas
      /\ Known(e) = Known(d3)
      /\ \A x \in Key : e.details[x] # None => e.details[x].lag = d3.details[x].lag
      /\ Active(e) = Active(d3) \ {k} /\ Signers(e) = Signers(d3) \ {k}
      /\ Pending(e) = Pending(d3) \ {k} /\ Revoked(e) = Revoked(d3) \cup {k}
      /\ Deprecated(e) = Deprecated(d3) \ {k}
  <2>1. "revoked" \in States
    BY DEF States
  <2> QED BY <1>6, <2>1, SetStateFacts
<1> HIDE DEF e
<1>8. Sane(e)
  <2>1. CertsOK(e) /\ RoasOK(e)
    BY <1>1, <1>5, <1>6, <1>7, SaneFacts DEF CertsOK, RoasOK
  <2>2. ASSUME NEW x \in Revoked(e) PROVE ~e.details[x].lag
    <3>1. x \in Key /\ e.details[x] # None /\ e.details[x].lag = d3.details[x].lag
      BY <1>7 DEF Revoked, In, Known
    <3>2. CASE x = k
      BY <1>5, <3>1, <3>2
    <3>3. CASE x \in Revoked(d3)
      BY <1>5, <3>1, <3>3 DEF Sane, Revoked
    <3> QED BY <1>7, <3>2, <3>3
  <2>3. ~e.ca => Known(e) = {}
    BY <1>5, <1>7 DEF Sane
  <2> QED BY <1>7, <2>1, <2>2, <2>3 DEF Sane, CertsOK, RoasOK, Signers, Revoked
<1>9. Held(d) \subseteq Held(e)
  BY <1>5, <1>7 DEF Held
<1>10. FinishRevoke(d, k) = e
  BY DEF FinishRevoke, e, d3, d2, d1
<1> QED BY <1>1, <1>6, <1>7, <1>8, <1>9, <1>10

\* CADetail.destroy and CA.create_detail.
LEMMA DestroyFacts ==
    ASSUME NEW d, Sane(d), NEW ks
    PROVE  LET e == Destroy(d, ks)
           IN  /\ Sane(e) /\ e.ca = d.ca /\ Known(e) = Known(d) \ ks
               /\ Active(e) = Active(d) \ ks /\ Pending(e) = Pending(d) \ ks
               /\ Revoked(e) = Revoked(d) \ ks /\ Current(e) = Current(d) \ ks
<1> DEFINE e == Destroy(d, ks)
           D == [k \in Key |-> IF k \in ks THEN None ELSE d.details[k]]
           Cs == {c \in d.certs : c.detail \notin ks}
           As == {a \in d.roas : a.detail \notin ks}
<1>1. /\ d \in Databases /\ d.details \in [Key -> {None} \cup Detail]
      /\ d.certs \subseteq Cert /\ d.roas \subseteq Roa
  BY SaneFacts, DatabaseFields
<1>2. D \in [Key -> {None} \cup Detail]
  BY <1>1
<1>3. Cs \in SUBSET Cert /\ As \in SUBSET Roa
  BY <1>1
<1>4. e = [d EXCEPT !.details = D, !.certs = Cs, !.roas = As]
  BY DEF Destroy
<1>5. \A k \in Key : D[k] = IF k \in ks THEN None ELSE d.details[k]
  OBVIOUS
<1>6. (\A c \in Cs : c \in d.certs /\ c.detail \notin ks) /\ (\A a \in As : a \in d.roas /\ a.detail \notin ks)
  OBVIOUS
<1> HIDE DEF e, D, Cs, As
<1>7. /\ e \in Databases /\ e.ca = d.ca /\ e.details = D /\ e.certs = Cs /\ e.roas = As
  BY <1>1, <1>2, <1>3, <1>4 DEF Databases
<1>8. Known(e) = Known(d) \ ks
  BY <1>5, <1>7 DEF Known
<1>9. Active(e) = Active(d) \ ks /\ Pending(e) = Pending(d) \ ks
  BY <1>5, <1>7, <1>8 DEF Active, Pending, In, Known
<1>10. Revoked(e) = Revoked(d) \ ks /\ Current(e) = Current(d) \ ks
  BY <1>5, <1>7, <1>8 DEF Revoked, Current, In, Known
<1>11. Signers(e) = Signers(d) \ ks
  BY <1>5, <1>7, <1>8 DEF Signers, In, Known
<1>12. Sane(e)
  <2>1. CertsOK(e) /\ RoasOK(e)
    BY <1>6, <1>7, <1>9, <1>11, SaneFacts DEF CertsOK, RoasOK
  <2>2. \A k \in Revoked(e) : ~e.details[k].lag
    BY <1>5, <1>7, <1>10 DEF Sane, Revoked, In, Known
  <2>3. ~e.ca => Known(e) = {}
    BY <1>7, <1>8 DEF Sane
  <2> QED BY <1>7, <2>1, <2>2, <2>3 DEF Sane, CertsOK, RoasOK, Signers, Revoked
<1> QED BY <1>7, <1>8, <1>9, <1>10, <1>12 DEF e

LEMMA CreateDetailFacts ==
    ASSUME NEW d, Sane(d), NEW k \in Key \ Known(d)
    PROVE  LET e == CreateDetail(d, k)
           IN  /\ Sane(e) /\ Known(e) = Known(d) \cup {k} /\ Active(e) = Active(d)
               /\ Pending(e) = Pending(d) \cup {k} /\ Revoked(e) = Revoked(d)
<1> DEFINE e == CreateDetail(d, k)
           row == [state |-> "pending", cert |-> {}, lag |-> FALSE]
           D == [d.details EXCEPT ![k] = row]
<1>1. d \in Databases /\ d.details \in [Key -> {None} \cup Detail]
  BY SaneFacts, DatabaseFields
<1>2. row \in Detail /\ row.state = "pending"
  BY DEF Detail, States
<1>3. e = [d EXCEPT !.ca = TRUE, !.details = D]
  BY DEF CreateDetail
<1> HIDE DEF row
<1>4. row # None
  BY <1>2, NoneAssumption
<1>5. D \in [Key -> {None} \cup Detail]
  BY <1>1, <1>2
<1>6. D[k] = row /\ \A x \in Key : x # k => D[x] = d.details[x]
  BY <1>1
<1> HIDE DEF e, D
<1>7. e \in Databases /\ e.ca = TRUE /\ e.details = D /\ e.certs = d.certs /\ e.roas = d.roas
  BY <1>1, <1>3, <1>5 DEF Databases
<1>8. Known(e) = Known(d) \cup {k}
  BY <1>4, <1>6, <1>7 DEF Known
<1>9. Active(e) = Active(d) /\ Pending(e) = Pending(d) \cup {k}
  BY <1>2, <1>6, <1>7, <1>8 DEF Active, Pending, In, Known
<1>10. Revoked(e) = Revoked(d) /\ Signers(e) = Signers(d)
  BY <1>2, <1>6, <1>7, <1>8 DEF Revoked, Signers, In, Known
<1>11. Sane(e)
  <2>1. CertsOK(e) /\ RoasOK(e)
    BY <1>7, <1>9, <1>10, SaneFacts DEF CertsOK, RoasOK
  <2>2. \A x \in Revoked(e) : ~e.details[x].lag
    BY <1>6, <1>7, <1>10 DEF Sane, Revoked, In, Known
  <2> QED BY <1>7, <2>1, <2>2 DEF Sane, CertsOK, RoasOK, Signers, Revoked
<1> QED BY <1>8, <1>9, <1>10, <1>11 DEF e

-----------------------------------------------------------------------------
(***************************************************************************)
(* The inductive invariant: KeysInv, and the types of the rest.            *)
(***************************************************************************)
WorldOK ==
    /\ issued \in [Key -> {None} \cup SUBSET Res]
    /\ grant \in SUBSET Res /\ want \in SUBSET Res /\ irdb \in [Child -> SUBSET Res]
    /\ faults \in [Faults -> 0..MaxFaults] /\ changes \in 0..MaxChanges

Ind == WorldOK /\ KeysInv

LEMMA NoTaskFacts ==
    /\ NoTask \in Tasks /\ NoTask.name = "none" /\ NoTask.at = "none"
    /\ NoTask.key = None /\ NoTask.old = None /\ NoTask.todo = {}
BY DEF NoTask, Tasks

LEMMA NoTaskInv == ASSUME task = NoTask PROVE TaskInv
BY NoTaskFacts DEF TaskInv

LEMMA IndTypes == ASSUME Ind PROVE TypeOK
<1>1. task \in Tasks
  BY DEF Ind, KeysInv, TaskInv
<1>2. /\ db \in Databases /\ task.at \in {"none", "next", "request", "reply"}
      /\ task.name \in {"none", "poll", "rekey", "revoke", "forget"}
      /\ task.todo \in SUBSET Key /\ task.key \in Key \cup {None}
  BY <1>1, SaneFacts DEF Ind, KeysInv, Tasks
<1>3. task.todo \cup {task.key} \subseteq
          IF task.name = "forget" THEN Key \cup {None} ELSE Known(db) \cup {None}
  <2>1. CASE task.name = "none"
    <3>1. task = NoTask
      BY <2>1 DEF Ind, KeysInv, TaskInv
    <3> QED BY <3>1, NoTaskFacts
  <2>2. CASE task.name = "poll"
    BY <2>2, <1>2, InFacts DEF Ind, KeysInv, TaskInv, PollInv
  <2>3. CASE task.name = "rekey"
    BY <2>3, <1>2, InFacts DEF Ind, KeysInv, TaskInv, RekeyInv
  <2>4. CASE task.name = "revoke"
    BY <2>4, <1>2, InFacts DEF Ind, KeysInv, TaskInv, RevokeInv
  <2>5. CASE task.name = "forget"
    BY <2>5, <1>2
  <2> QED BY <1>2, <2>1, <2>2, <2>3, <2>4, <2>5
<1> QED BY <1>2, <1>3 DEF Ind, WorldOK, TypeOK, Databases

\* The parts of the invariant, in the words of this module.
LEMMA IndParts ==
    ASSUME Ind
    PROVE  /\ WorldOK /\ Sane(db) /\ TaskInv /\ task \in Tasks /\ db \in Databases
           /\ NoReplyLost => /\ \A k, l \in Active(db) : k = l
                             /\ \A k \in Pending(db) :
                                   issued[k] = None
                                   \/ (task.name = "rekey" /\ task.at = "reply" /\ task.key = k)
           /\ \A k \in Revoked(db) : issued[k] = None
BY SaneFacts DEF Ind, KeysInv, TaskInv, PendingInv, Pending, Revoked

\* A step after which no coroutine is under way.
LEMMA TaskDone ==
    ASSUME WorldOK', Sane(db'), task' = NoTask,
           NoReplyLost' => /\ \A k, l \in Active(db') : k = l
                           /\ \A k \in Pending(db') : issued'[k] = None,
           \A k \in Revoked(db') : issued'[k] = None
    PROVE  Ind'
<1>1. TaskInv'
  BY NoTaskFacts DEF TaskInv
<1>2. NoReplyLost' => PendingInv'
  BY NoTaskFacts DEF PendingInv, Pending
<1> QED BY <1>1, <1>2 DEF Ind, KeysInv, Revoked

\* The periodic tasks and the requests of the children.
LEMMA IdleStep ==
    ASSUME Ind, task = NoTask, task' = task, Sane(db'), Alike(db, db'),
           UNCHANGED <<grant, issued, irdb, want, faults>>, changes' \in 0..MaxChanges
    PROVE  Ind'
<1>1. WorldOK' /\ (NoReplyLost' <=> NoReplyLost)
  BY DEF Ind, WorldOK, NoReplyLost
<1>2. Active(db') = Active(db) /\ Pending(db') = Pending(db) /\ Revoked(db') = Revoked(db)
  BY AlikeFacts
<1>3. task.name # "rekey"
  BY NoTaskFacts
<1> QED BY <1>1, <1>2, <1>3, IndParts, TaskDone

\* The world changes, and the database and the coroutine do not.
LEMMA ChangeIsBounded == ASSUME Change, Ind PROVE changes' \in 0..MaxChanges
BY ConstantsAssumption DEF Change, Ind, WorldOK

LEMMA WorldStep ==
    ASSUME Ind, UNCHANGED <<db, task, faults>>, WorldOK',
           \A k \in Key : issued[k] = None => issued'[k] = None
    PROVE  Ind'
<1>1. Pending(db) \subseteq Key /\ Revoked(db) \subseteq Key
  BY IndParts, InFacts DEF Pending, Revoked
<1>2. TaskInv'
  <2>1. task.name = "revoke" /\ task.at # "next" => task.key \in Key
    BY IndParts, InFacts DEF TaskInv, RevokeInv
  <2>2. (PollInv => PollInv') /\ (RekeyInv => RekeyInv')
    BY DEF PollInv, RekeyInv
  <2>3. RevokeInv /\ task.name = "revoke" => RevokeInv'
    BY <2>1 DEF RevokeInv
  <2> QED BY <2>2, <2>3 DEF TaskInv, Ind, KeysInv
<1>3. NoReplyLost' => PendingInv'
  BY <1>1 DEF Ind, KeysInv, NoReplyLost, PendingInv, Pending
<1>4. \A k \in Revoked(db) : issued'[k] = None
  BY <1>1, IndParts
<1> QED BY <1>2, <1>3, <1>4 DEF Ind, KeysInv, Revoked

\* A new ca_detail, for which a rekey begins.
LEMMA StartRekeyStep ==
    ASSUME Ind, task = NoTask, NEW old \in Key \cup {None},
           Active(db) = IF old = None THEN {} ELSE {old}, StartRekey(old),
           UNCHANGED <<grant, issued, irdb, want, faults>>, changes' \in 0..MaxChanges
    PROVE  Ind'
<1>1. PICK k \in FreshKeys : db' = CreateDetail(db, k) /\ Ask("rekey", k, old)
  BY DEF StartRekey
<1>2. k \in Key \ Known(db) /\ issued[k] = None
  BY DEF FreshKeys, Known
<1>3. /\ Sane(db') /\ Known(db') = Known(db) \cup {k} /\ Active(db') = Active(db)
      /\ Pending(db') = Pending(db) \cup {k} /\ Revoked(db') = Revoked(db)
  BY <1>1, <1>2, IndParts, CreateDetailFacts
<1>4. /\ task' \in Tasks /\ task'.name = "rekey" /\ task'.at = "request" /\ task'.key = k
      /\ task'.old = old /\ task'.todo = {}
  <2>1. task \in Tasks /\ task.todo = {}
    BY NoTaskFacts
  <2>2. task' = [task EXCEPT !.name = "rekey", !.at = "request", !.key = k, !.old = old]
    BY <1>1 DEF Ask
  <2>3. k \in Key
    BY <1>2
  <2> QED BY ONLY <2>1, <2>2, <2>3, old \in Key \cup {None} DEF Tasks
<1>5. WorldOK' /\ (NoReplyLost' <=> NoReplyLost)
  BY DEF Ind, WorldOK, NoReplyLost
<1>6. RekeyInv'
  BY <1>3, <1>4 DEF RekeyInv, Pending
<1>7. TaskInv'
  BY <1>2, <1>4, <1>6 DEF TaskInv
<1>8. task.name # "rekey"
  BY NoTaskFacts
<1>9. NoReplyLost' => PendingInv'
  <2> SUFFICES ASSUME NoReplyLost PROVE PendingInv'
    BY <1>5
  <2>1. \A x, y \in Active(db') : x = y
    BY <1>3
  <2>2. \A x \in Pending(db') : issued'[x] = None
    BY <1>2, <1>3, <1>8, IndParts
  <2> QED BY <1>4, <2>1, <2>2 DEF PendingInv, Pending
<1> QED BY <1>3, <1>5, <1>7, <1>9, IndParts DEF Ind, KeysInv, Revoked

-----------------------------------------------------------------------------
(***************************************************************************)
(* One lemma per action.                                                   *)
(***************************************************************************)
LEMMA FailFacts ==
    ASSUME WorldOK, NEW f, Fail(f)
    PROVE  /\ faults' \in [Faults -> 0..MaxFaults] /\ (NoReplyLost' => NoReplyLost)
           /\ f = "reply" => ~NoReplyLost'
<1>1. f \in Faults /\ faults[f] \in 0..MaxFaults /\ faults[f] < MaxFaults
      /\ faults' = [faults EXCEPT ![f] = @ + 1] /\ faults \in [Faults -> 0..MaxFaults]
  BY DEF Fail, WorldOK
<1>2. faults[f] + 1 \in 0..MaxFaults /\ faults[f] + 1 # 0
  BY <1>1, ConstantsAssumption
<1> QED BY <1>1, <1>2 DEF NoReplyLost

LEMMA UnchangedFaults ==
    ASSUME UNCHANGED faults
    PROVE  NoReplyLost' <=> NoReplyLost
BY DEF NoReplyLost

LEMMA PollListStep == ASSUME Ind, PollList PROVE Ind'
<1>1. task = NoTask /\ UNCHANGED <<grant, issued, irdb, want, changes>>
  BY DEF PollList
<1>2. WorldOK /\ changes' \in 0..MaxChanges /\ None \in Key \cup {None}
  BY <1>1 DEF Ind, WorldOK
<1>3. CASE ~db.ca /\ grant # {} /\ StartRekey(None) /\ UNCHANGED faults
  <2>1. Active(db) = {}
    BY <1>3, IndParts, InFacts DEF Sane, Active
  <2> QED BY <1>1, <1>2, <1>3, <2>1, StartRekeyStep
<1>4. CASE db.ca /\ grant # {} /\ Current(db) = {} /\ StartRekey(None) /\ UNCHANGED faults
  <2>1. Active(db) = {}
    BY <1>4, IndParts, StateFacts
  <2> QED BY <1>1, <1>2, <1>4, <2>1, StartRekeyStep
<1>5. CASE /\ db.ca /\ grant = {} /\ task' = NoTask
           /\ \/ db' = [Destroy(db, Known(db)) EXCEPT !.ca = FALSE] /\ UNCHANGED faults
              \/ db' = Destroy(db, Known(db)) /\ Fail("publish")
  <2> DEFINE gone == Destroy(db, Known(db))
             bare == [gone EXCEPT !.ca = FALSE]
  <2>1. Sane(gone) /\ Known(gone) = {}
    BY IndParts, DestroyFacts
  <2> HIDE DEF gone
  <2>2. /\ bare \in Databases /\ bare.details = gone.details /\ bare.certs = gone.certs
        /\ bare.roas = gone.roas
    <3>1. gone \in Databases
      BY <2>1, SaneFacts
    <3> QED BY <3>1 DEF Databases
  <2> HIDE DEF bare
  <2>3. Known(bare) = {}
    BY <2>1, <2>2 DEF Known
  <2>4. gone.certs = {} /\ gone.roas = {}
    <3>1. Active(gone) = {} /\ Signers(gone) = {}
      BY <2>1, SaneFacts, InFacts DEF Active, Signers
    <3> QED BY <2>1, <3>1, SaneFacts DEF CertsOK, RoasOK
  <2>5. Sane(bare)
    BY <2>2, <2>3, <2>4 DEF Sane, In
  <2>6. Sane(db') /\ Known(db') = {} /\ WorldOK'
    <3>1. CASE db' = bare /\ UNCHANGED faults
      BY <1>1, <1>2, <2>3, <2>5, <3>1 DEF WorldOK
    <3>2. CASE db' = gone /\ Fail("publish")
      BY <1>1, <1>2, <2>1, <3>2, FailFacts DEF WorldOK
    <3> QED BY <1>5, <3>1, <3>2 DEF bare, gone
  <2>7. Active(db') = {} /\ Pending(db') = {} /\ Revoked(db') = {}
    BY <2>6 DEF Active, Pending, Revoked, In
  <2> QED BY <1>5, <2>6, <2>7, TaskDone
<1>6. CASE /\ db.ca /\ grant # {} /\ Current(db) # {}
           /\ task' = [NoTask EXCEPT !.name = "poll", !.at = "next", !.todo = Current(db),
                                     !.list = [grant |-> grant, certs |-> issued]]
           /\ UNCHANGED <<db, faults>>
  <2> DEFINE L == [grant |-> grant, certs |-> issued]
  <2>1. L \in Lists /\ L.certs = issued
    BY <1>2 DEF WorldOK, Lists
  <2> HIDE DEF L
  <2>2. Current(db) \subseteq Key
    BY IndParts, InFacts DEF Current
  <2>3. /\ task' \in Tasks /\ task'.name = "poll" /\ task'.at = "next" /\ task'.key = None
        /\ task'.old = None /\ task'.todo = Current(db) /\ task'.list = L
    <3>1. task' = [NoTask EXCEPT !.name = "poll", !.at = "next", !.todo = Current(db), !.list = L]
      BY <1>6 DEF L
    <3> QED BY <2>1, <2>2, <3>1, NoTaskFacts DEF Tasks
  <2>4. PollInv' /\ task'.key \notin task'.todo
    BY <1>6, <2>1, <2>2, <2>3, ConstantsAssumption DEF PollInv, Current
  <2>5. TaskInv'
    BY <2>3, <2>4 DEF TaskInv
  <2>6. task.name # "rekey"
    BY <1>1, NoTaskFacts
  <2>7. NoReplyLost' => PendingInv'
    BY <1>1, <1>6, <2>1, <2>3, <2>6, IndParts, UnchangedFaults DEF PendingInv, Pending
  <2> QED BY <1>1, <1>2, <1>6, <2>5, <2>7, IndParts DEF Ind, KeysInv, Revoked, WorldOK
<1> QED BY <1>1, <1>3, <1>4, <1>5, <1>6 DEF PollList, Current

LEMMA PollNextStep == ASSUME Ind, PollNext PROVE Ind'
<1>1. /\ task.name = "poll" /\ task.at = "next" /\ PollInv /\ task \in Tasks /\ task.key \notin task.todo
      /\ UNCHANGED <<grant, issued, irdb, want, changes>>
  BY DEF PollNext, Ind, KeysInv, TaskInv
<1>2. PICK k \in task.todo :
        LET listed == task.list.certs[k]
            rest == task.todo \ {k}
        IN  \/ /\ listed = None
               /\ db' = Destroy(db, {k})
               /\ \/ /\ task' = IF rest = {} THEN NoTask ELSE [task EXCEPT !.todo = rest]
                     /\ UNCHANGED faults
                  \/ Fail("publish") /\ task' = NoTask
            \/ /\ task' = IF rest = {} THEN NoTask ELSE [task EXCEPT !.todo = rest]
               /\ UNCHANGED <<db, faults>>
            \/ /\ listed # None /\ db.details[k].state \in {"pending", "active"}
               /\ task' = [task EXCEPT !.at = "request", !.key = k, !.todo = rest]
               /\ UNCHANGED <<db, faults>>
  BY DEF PollNext
<1> DEFINE rest == task.todo \ {k}
<1>3. /\ WorldOK /\ db \in Databases /\ Sane(db) /\ k \in Key /\ k \in Current(db)
      /\ task.todo \in SUBSET Key /\ task.todo \subseteq Current(db) /\ task.list \in Lists
      /\ task.old = None /\ task.key \in Known(db) \cup {None}
      /\ \A x \in Revoked(db) : issued[x] = None
      /\ NoReplyLost => /\ \A x, y \in Active(db) : x = y
                        /\ \A x \in Pending(db) : issued[x] = None /\ task.list.certs[x] = None
  BY <1>1, IndParts DEF PollInv, Tasks, Current, Ind, KeysInv, PendingInv, Pending
<1>4. /\ faults' \in [Faults -> 0..MaxFaults] /\ (NoReplyLost' => NoReplyLost)
  BY <1>2, <1>3, FailFacts, UnchangedFaults DEF WorldOK
<1>5. WorldOK'
  BY <1>1, <1>3, <1>4 DEF WorldOK
\* The rest of the list, with what is left of the database.
<1>6. ASSUME Sane(db'), Known(db') \subseteq Known(db), Active(db') \subseteq Active(db),
             Pending(db') \subseteq Pending(db), Revoked(db') \subseteq Revoked(db),
             rest \subseteq Current(db'), task.key \in Known(db') \cup {None},
             task' = NoTask \/ task' = [task EXCEPT !.todo = rest]
      PROVE  Ind'
  <2>1. CASE task' = NoTask
    BY <1>1, <1>3, <1>4, <1>5, <1>6, <2>1, TaskDone
  <2>2. CASE task' = [task EXCEPT !.todo = rest]
    <3>1. /\ task' \in Tasks /\ task'.name = "poll" /\ task'.at = "next" /\ task'.key = task.key
          /\ task'.old = None /\ task'.todo = rest /\ task'.list = task.list
      BY <1>1, <1>3, <2>2 DEF Tasks
    <3>2. PollInv' /\ task'.key \notin task'.todo
      BY <1>1, <1>3, <1>6, <3>1 DEF PollInv, Current
    <3>3. NoReplyLost' => PendingInv'
      BY <1>1, <1>3, <1>4, <1>6, <3>1 DEF PendingInv, Pending
    <3> QED BY <1>1, <1>3, <1>5, <1>6, <3>1, <3>2, <3>3 DEF Ind, KeysInv, TaskInv, Revoked
  <2> QED BY <1>6, <2>1, <2>2
<1>7. CASE db' = Destroy(db, {k}) /\ (task' = NoTask \/ task' = [task EXCEPT !.todo = rest])
  <2> DEFINE ks == {k}
  <2>1. db' = Destroy(db, ks)
    BY <1>7
  <2> HIDE DEF ks
  <2>2. /\ Sane(db') /\ Known(db') = Known(db) \ ks /\ Active(db') = Active(db) \ ks
        /\ Pending(db') = Pending(db) \ ks /\ Revoked(db') = Revoked(db) \ ks
        /\ Current(db') = Current(db) \ ks
    BY <1>3, <2>1, DestroyFacts
  <2>3. rest \subseteq Current(db') /\ task.key \in Known(db') \cup {None}
    BY <1>1, <1>3, <2>2 DEF ks
  <2> QED BY <1>6, <1>7, <2>2, <2>3
<1>8. CASE db' = db /\ (task' = NoTask \/ task' = [task EXCEPT !.todo = rest])
  BY <1>3, <1>6, <1>8
<1>9. CASE /\ task.list.certs[k] # None /\ db.details[k].state \in {"pending", "active"}
           /\ task' = [task EXCEPT !.at = "request", !.key = k, !.todo = rest]
           /\ UNCHANGED <<db, faults>>
  <2>1. /\ task' \in Tasks /\ task'.name = "poll" /\ task'.at = "request" /\ task'.key = k
        /\ task'.old = None /\ task'.todo = rest /\ task'.list = task.list
    BY <1>1, <1>3, <1>9 DEF Tasks
  <2>2. k \in Known(db) /\ k \in In(db, {"pending", "active"})
    BY <1>3, <1>9 DEF Current, In
  <2>3. PollInv' /\ task'.key \notin task'.todo
    BY <1>3, <1>9, <2>1, <2>2 DEF PollInv, Current
  <2>4. NoReplyLost => k \in Active(db)
    <3>1. k \in Pending(db) \/ k \in Active(db)
      BY <2>2 DEF In, Pending, Active
    <3> QED BY <1>3, <1>9, <3>1
  <2>5. NoReplyLost' => PendingInv'
    BY <1>1, <1>3, <1>4, <1>9, <2>1, <2>4 DEF PendingInv, Pending
  <2> QED BY <1>1, <1>3, <1>5, <1>9, <2>1, <2>3, <2>5 DEF Ind, KeysInv, TaskInv, Revoked
<1> QED BY <1>2, <1>7, <1>8, <1>9

LEMMA ParentStep == ASSUME Ind, Parent PROVE Ind'
<1>1. task.at = "request" /\ UNCHANGED <<db, grant, irdb, want, faults, changes>>
  BY DEF Parent
<1>2. WorldOK /\ task \in Tasks /\ Sane(db) /\ TaskInv /\ db \in Databases
  BY IndParts
<1>3. NoReplyLost' <=> NoReplyLost
  BY <1>1, UnchangedFaults
<1>4. CASE /\ task.name \in {"poll", "rekey"} /\ issued' = [issued EXCEPT ![task.key] = grant]
           /\ task' = [task EXCEPT !.at = "reply", !.cert = grant]
  <2>1. task.key \in In(db, {"pending", "active"})
    BY <1>1, <1>2, <1>4 DEF TaskInv, PollInv, RekeyInv, In
  <2>2. task.key \in Key /\ task.key \notin Revoked(db)
    BY <1>2, <2>1 DEF In, Known, Revoked
  <2>3. WorldOK' /\ \A k \in Key : k # task.key => issued'[k] = issued[k]
    BY <1>1, <1>2, <1>4, <2>2 DEF WorldOK
  <2>4. /\ task' \in Tasks /\ task'.name = task.name /\ task'.at = "reply" /\ task'.key = task.key
        /\ task'.old = task.old /\ task'.todo = task.todo /\ task'.list = task.list
    BY <1>2, <1>4 DEF Tasks, WorldOK
  <2>5. TaskInv'
    <3>1. task.name = "poll" => PollInv'
      BY <1>1, <1>2, <2>4 DEF TaskInv, PollInv
    <3>2. task.name = "rekey" => RekeyInv'
      BY <1>1, <1>2, <2>4 DEF TaskInv, RekeyInv
    <3> QED BY <1>2, <1>4, <2>4, <3>1, <3>2 DEF TaskInv
  <2>6. NoReplyLost' => PendingInv'
    <3> SUFFICES ASSUME NoReplyLost PROVE PendingInv'
      BY <1>3
    <3>1. PendingInv
      BY DEF Ind, KeysInv
    <3>2. CASE task.name = "poll"
      <4>1. task.key \in Active(db) /\ task.key \notin Pending(db)
        BY <1>1, <1>2, <3>1, <3>2, StateFacts DEF PendingInv
      <4>2. \A k \in Pending(db) : k \in Key
        BY <1>2, InFacts DEF Pending
      <4> QED BY <1>1, <2>3, <2>4, <3>1, <3>2, <4>1, <4>2 DEF PendingInv, Pending
    <3>3. CASE task.name = "rekey"
      <4>1. \A k \in Pending(db) : k \in Key
        BY <1>2, InFacts DEF Pending
      <4> QED BY <1>1, <2>3, <2>4, <3>1, <3>3, <4>1 DEF PendingInv, Pending
    <3> QED BY <1>4, <3>2, <3>3
  <2>7. \A k \in Revoked(db') : issued'[k] = None
    <3>1. \A k \in Revoked(db) : k \in Key
      BY <1>2, InFacts DEF Revoked
    <3> QED BY <1>1, <2>2, <2>3, <3>1, IndParts
  <2> QED BY <1>1, <1>2, <2>3, <2>5, <2>6, <2>7 DEF Ind, KeysInv, Revoked
<1>5. CASE task' = NoTask /\ UNCHANGED issued
  <2>1. WorldOK'
    BY <1>1, <1>2, <1>5 DEF WorldOK
  <2> QED BY <1>1, <1>2, <1>3, <1>5, <2>1, IndParts, TaskDone
<1>6. CASE /\ task.name \in {"revoke", "forget"} /\ issued' = [issued EXCEPT ![task.key] = None]
           /\ task' = [task EXCEPT !.at = "reply"]
  <2>1. task.key \in Key /\ (task.name = "revoke" => task.key \in Deprecated(db))
    BY <1>1, <1>2, <1>6, InFacts DEF TaskInv, RevokeInv, Deprecated
  <2>2. WorldOK' /\ issued'[task.key] = None /\ \A k \in Key : issued[k] = None => issued'[k] = None
    BY <1>1, <1>2, <1>6, <2>1 DEF WorldOK
  <2>3. /\ task' \in Tasks /\ task'.name = task.name /\ task'.at = "reply" /\ task'.key = task.key
        /\ task'.old = task.old /\ task'.todo = task.todo /\ task'.list = task.list
    BY <1>2, <1>6 DEF Tasks
  <2>4. TaskInv'
    <3>1. task.name = "revoke" => RevokeInv'
      BY <1>1, <1>2, <2>2, <2>3 DEF TaskInv, RevokeInv
    <3> QED BY <1>2, <1>6, <2>1, <2>3, <3>1 DEF TaskInv
  <2>5. \A k \in Pending(db) \cup Revoked(db) : k \in Key
    BY <1>2, InFacts DEF Pending, Revoked
  <2>6. NoReplyLost' => PendingInv'
    BY <1>1, <1>3, <1>6, <2>2, <2>3, <2>5 DEF Ind, KeysInv, PendingInv, Pending
  <2>7. \A k \in Revoked(db') : issued'[k] = None
    BY <1>1, <2>2, <2>5, IndParts
  <2> QED BY <1>1, <1>2, <2>2, <2>4, <2>6, <2>7 DEF Ind, KeysInv, Revoked
<1> QED BY <1>4, <1>5, <1>6 DEF Parent

LEMMA LoseStep == ASSUME Ind, Lose PROVE Ind'
<1>1. /\ task.at \in {"request", "reply"} /\ Fail(task.at) /\ task' = NoTask
      /\ UNCHANGED <<db, grant, issued, irdb, want, changes>>
  BY DEF Lose
<1>2. WorldOK /\ Sane(db)
  BY IndParts
<1>3. /\ faults' \in [Faults -> 0..MaxFaults] /\ (NoReplyLost' => NoReplyLost)
      /\ (NoReplyLost' => task.at # "reply")
  BY <1>1, <1>2, FailFacts
<1>4. WorldOK'
  BY <1>1, <1>2, <1>3 DEF WorldOK
<1> QED BY <1>1, <1>2, <1>3, <1>4, IndParts, TaskDone

LEMMA GotCertStep == ASSUME Ind, GotCert PROVE Ind'
<1> DEFINE k == task.key
<1>1. /\ task.at = "reply" /\ task.name \in {"poll", "rekey"}
      /\ UNCHANGED <<grant, issued, irdb, want, changes>> /\ Published
  BY DEF GotCert
<1>2. /\ WorldOK /\ task \in Tasks /\ Sane(db) /\ TaskInv /\ db \in Databases
      /\ task.cert \in SUBSET Res /\ task.old \in Key \cup {None} /\ task.todo \in SUBSET Key
  BY IndParts DEF Tasks
<1>3. k \in In(db, {"pending", "active"}) /\ (task.old # None => Active(db) = {task.old})
  BY <1>1, <1>2 DEF TaskInv, PollInv, RekeyInv, In
<1>4. /\ faults' \in [Faults -> 0..MaxFaults] /\ (NoReplyLost' => NoReplyLost)
      /\ \/ task' = NoTask
         \/ task' = [task EXCEPT !.at = "next"] /\ task.todo # {}
  BY <1>1, <1>2, FailFacts, UnchangedFaults DEF Published, Continue, WorldOK
<1>5. WorldOK'
  BY <1>1, <1>2, <1>4 DEF WorldOK
<1>6. /\ Sane(db') /\ Known(db') = Known(db) /\ Current(db') = Current(db)
      /\ Pending(db') \subseteq Pending(db) /\ Revoked(db') = Revoked(db)
      /\ NoReplyLost => /\ \A x, y \in Active(db') : x = y
                        /\ \A x \in Pending(db') : issued[x] = None
  <2>1. CASE db.details[k].state = "pending"
    <3> DEFINE old == task.old
               cert == task.cert
    <3>1. k \in Pending(db) /\ db' \in Activate(db, k, cert, old)
      BY <1>3, <2>1 DEF GotCert, Pending, In
    <3>2. /\ Sane(db') /\ Known(db') = Known(db) /\ Current(db') = Current(db)
          /\ Pending(db') = Pending(db) \ {k} /\ Revoked(db') = Revoked(db)
          /\ Active(db') = IF task.old = None THEN Active(db) \cup {k} ELSE {k}
      <4>1. cert \in SUBSET Res /\ old \in Key \cup {None} /\ (old # None => Active(db) = {old})
        BY <1>2, <1>3
      <4>2. task.old = old
        OBVIOUS
      <4> HIDE DEF k, old, cert
      <4>3. Activated(db, k, old, db')
        BY <3>1, <4>1, <1>2, ActivateFacts
      <4> QED BY <4>2, <4>3 DEF Activated
    <3>3. ASSUME NoReplyLost
          PROVE  /\ \A x, y \in Active(db') : x = y
                 /\ \A x \in Pending(db') : issued[x] = None
      <4>1. task.name = "rekey"
        <5>1. k \notin Active(db)
          BY <3>1, <1>2, StateFacts
        <5> QED BY <5>1, <1>1, <3>3 DEF Ind, KeysInv, PendingInv
      <4>2. task.old = None => Active(db) = {}
        BY <1>2, <4>1 DEF TaskInv, RekeyInv
      <4>3. \A x \in Pending(db) : x = k \/ issued[x] = None
        BY <3>3, IndParts
      <4> QED BY <3>2, <4>2, <4>3
    <3> QED BY <3>2, <3>3
  <2>2. CASE db.details[k].state # "pending"
    <3>1. k \in Active(db) /\ db' = UpdateDetail(db, k, task.cert)
      BY <1>3, <2>2 DEF GotCert, Active, In
    <3>2. Sane(db') /\ Alike(db, db')
      BY <3>1, <1>2, UpdateDetailSane
    <3>3. task.name = "poll"
      BY <1>1, <1>2, <1>3, <3>1, StateFacts DEF TaskInv, RekeyInv, Pending
    <3>4. /\ Known(db') = Known(db) /\ Current(db') = Current(db) /\ Revoked(db') = Revoked(db)
          /\ Pending(db') = Pending(db) /\ Active(db') = Active(db)
      BY <3>2, AlikeFacts
    <3> QED BY <3>2, <3>3, <3>4, IndParts
  <2> QED BY <2>1, <2>2
<1>7. \A x \in Revoked(db') : issued'[x] = None
  BY <1>1, <1>6, IndParts
<1>8. CASE task' = NoTask
  BY <1>1, <1>4, <1>5, <1>6, <1>7, <1>8, TaskDone
<1>9. CASE task' = [task EXCEPT !.at = "next"] /\ task.todo # {}
  <2>1. task.name = "poll" /\ PollInv
    BY <1>1, <1>2, <1>9 DEF TaskInv, RekeyInv
  <2>2. /\ task' \in Tasks /\ task'.name = "poll" /\ task'.at = "next" /\ task'.key = task.key
        /\ task'.old = task.old /\ task'.todo = task.todo /\ task'.list = task.list
    BY <1>2, <1>9, <2>1 DEF Tasks
  <2>3. TaskInv'
    <3>1. PollInv'
      BY <2>1, <2>2, <1>6 DEF PollInv, Current
    <3> QED BY <1>2, <2>2, <3>1 DEF TaskInv
  <2>4. NoReplyLost' => PendingInv'
    <3> SUFFICES ASSUME NoReplyLost PROVE PendingInv'
      BY <1>4
    <3>1. \A x \in Pending(db) : task.list.certs[x] = None
      BY <2>1 DEF Ind, KeysInv, PendingInv, Pending
    <3> QED BY <1>1, <1>6, <2>2, <3>1 DEF PendingInv, Pending
  <2> QED BY <1>5, <1>6, <1>7, <2>3, <2>4 DEF Ind, KeysInv, Revoked
<1> QED BY <1>4, <1>8, <1>9

LEMMA GotRevokedStep == ASSUME Ind, GotRevoked PROVE Ind'
<1> DEFINE k == task.key
<1>1. /\ task.at = "reply" /\ task.name \in {"revoke", "forget"} /\ Continue
      /\ db' = IF task.name = "revoke" THEN FinishRevoke(db, k) ELSE db
      /\ UNCHANGED <<grant, issued, irdb, want, faults, changes>>
  BY DEF GotRevoked
<1>2. /\ WorldOK /\ task \in Tasks /\ Sane(db) /\ TaskInv /\ db \in Databases
      /\ task.todo \in SUBSET Key /\ task.key \notin task.todo
  BY IndParts DEF Tasks, TaskInv
<1>3. WorldOK' /\ (NoReplyLost' <=> NoReplyLost)
  BY <1>1, <1>2, UnchangedFaults DEF WorldOK
<1>4. task.name = "revoke" => k \in Deprecated(db) /\ issued[k] = None
  BY <1>1, <1>2 DEF TaskInv, RevokeInv, Deprecated
<1>5. /\ Sane(db') /\ Known(db') = Known(db) /\ Active(db') = Active(db)
      /\ Pending(db') = Pending(db)
      /\ \A x \in Revoked(db') : issued'[x] = None
      /\ task.name = "revoke" => Deprecated(db') = Deprecated(db) \ {k}
  <2>1. CASE task.name = "revoke"
    <3>1. /\ Sane(db') /\ Known(db') = Known(db) /\ Active(db') = Active(db)
          /\ Pending(db') = Pending(db) /\ Revoked(db') = Revoked(db) \cup {k}
          /\ Deprecated(db') = Deprecated(db) \ {k}
      BY <1>1, <1>2, <1>4, <2>1, FinishRevokeFacts
    <3> QED BY <1>1, <1>4, <2>1, <3>1, IndParts
  <2>2. CASE task.name # "revoke"
    BY <1>1, <1>2, <2>2, IndParts
  <2> QED BY <2>1, <2>2
<1>6. CASE task' = NoTask
  BY <1>1, <1>3, <1>5, <1>6, IndParts, TaskDone
<1>7. CASE task' = [task EXCEPT !.at = "next"]
  <2>1. /\ task' \in Tasks /\ task'.name = task.name /\ task'.at = "next" /\ task'.key = task.key
        /\ task'.todo = task.todo
    BY <1>2, <1>7 DEF Tasks
  <2>2. task.name = "revoke" => RevokeInv'
    BY <1>2, <1>5, <2>1 DEF TaskInv, RevokeInv, Deprecated
  <2>3. TaskInv'
    BY <1>1, <1>2, <2>1, <2>2 DEF TaskInv
  <2>4. NoReplyLost' => PendingInv'
    BY <1>1, <1>3, <1>5, <2>1 DEF Ind, KeysInv, PendingInv, Pending
  <2> QED BY <1>3, <1>5, <2>3, <2>4 DEF Ind, KeysInv, Revoked
<1> QED BY <1>1, <1>6, <1>7 DEF Continue

LEMMA RevokeNextStep == ASSUME Ind, RevokeNext PROVE Ind'
<1>1. /\ task.name \in {"revoke", "forget"} /\ task.at = "next"
      /\ UNCHANGED <<db, grant, issued, irdb, want, faults, changes>>
  BY DEF RevokeNext
<1>2. PICK k \in task.todo : task' = [task EXCEPT !.at = "request", !.key = k, !.todo = @ \ {k}]
  BY DEF RevokeNext
<1>3. task \in Tasks /\ TaskInv /\ k \in Key /\ db \in Databases
  BY <1>2, IndParts DEF Tasks
<1>4. /\ task' \in Tasks /\ task'.name = task.name /\ task'.at = "request" /\ task'.key = k
      /\ task'.todo = task.todo \ {k}
  BY <1>2, <1>3 DEF Tasks
<1>5. TaskInv'
  <2>1. task.name = "revoke" => RevokeInv'
    <3>1. In(db, {"deprecated"}) \subseteq Known(db)
      BY <1>3, InFacts
    <3> QED BY <1>1, <1>2, <1>3, <1>4, <3>1 DEF TaskInv, RevokeInv
  <2> QED BY <1>1, <1>3, <1>4, <2>1 DEF TaskInv
<1>6. NoReplyLost' => PendingInv'
  BY <1>1, <1>4, UnchangedFaults DEF Ind, KeysInv, PendingInv
<1> QED BY <1>1, <1>5, <1>6 DEF Ind, KeysInv, WorldOK

\* Of a finite set with at most one element.
LEMMA AtMostOne ==
    ASSUME NEW S, IsFiniteSet(S)
    PROVE  Cardinality(S) <= 1 <=> \A x, y \in S : x = y
<1>1. Cardinality(S) \in Nat
  BY FS_CardinalityType
<1>2. ASSUME Cardinality(S) <= 1 PROVE \A x, y \in S : x = y
  <2>1. Cardinality(S) = 0 \/ Cardinality(S) = 1
    BY <1>1, <1>2
  <2> QED BY <2>1, FS_EmptySet, FS_Singleton
<1>3. ASSUME \A x, y \in S : x = y PROVE Cardinality(S) <= 1
  <2>1. CASE S = {}
    BY <2>1, FS_EmptySet
  <2>2. CASE S # {}
    <3>1. PICK x : x \in S
      BY <2>2
    <3>2. S = {x}
      BY <1>3, <3>1
    <3> QED BY <3>2, FS_Singleton
  <2> QED BY <2>1, <2>2
<1> QED BY <1>2, <1>3

LEMMA ActiveIsFinite == ASSUME NEW d \in Databases PROVE IsFiniteSet(Active(d))
BY InFacts, ConstantsAssumption, FS_Subset DEF Active

LEMMA RekeyStep == ASSUME Ind, Rekey PROVE Ind'
<1> DEFINE old == IF Active(db) = {} THEN None ELSE CHOOSE k \in Active(db) : TRUE
<1>1. /\ task = NoTask /\ Change /\ StartRekey(old) /\ UNCHANGED <<grant, issued, irdb, want, faults>>
      /\ \A x, y \in Active(db) : x = y
  <2>1. IsFiniteSet(Active(db))
    BY IndParts, ActiveIsFinite
  <2> QED BY <2>1, AtMostOne DEF Rekey
<1>2. Active(db) \subseteq Key
  BY IndParts, InFacts DEF Active
<1>3. old \in Key \cup {None} /\ Active(db) = IF old = None THEN {} ELSE {old}
  BY <1>1, <1>2, ConstantsAssumption
<1> HIDE DEF old
<1> QED BY <1>1, <1>3, ChangeIsBounded, StartRekeyStep

LEMMA RevokeStep == ASSUME Ind, Revoke PROVE Ind'
<1>1. /\ task = NoTask /\ UNCHANGED <<db, grant, issued, irdb, want, faults, changes>>
      /\ task' = [NoTask EXCEPT !.name = "revoke", !.at = "next", !.todo = In(db, {"deprecated"})]
  BY DEF Revoke
<1>2. Deprecated(db) \subseteq Key
  BY IndParts, InFacts DEF Deprecated
<1>3. /\ task' \in Tasks /\ task'.name = "revoke" /\ task'.at = "next" /\ task'.key = None
      /\ task'.todo = In(db, {"deprecated"})
  BY <1>1, <1>2, NoTaskFacts DEF Tasks, Deprecated
<1>4. TaskInv'
  <2>1. RevokeInv'
    BY <1>1, <1>3 DEF RevokeInv
  <2> QED BY <1>2, <1>3, <2>1, ConstantsAssumption DEF TaskInv, Deprecated
<1>5. task.name # "rekey" /\ task.name # "poll"
  BY <1>1, NoTaskFacts
<1>6. NoReplyLost' => PendingInv'
  BY <1>1, <1>3, <1>5, UnchangedFaults DEF Ind, KeysInv, PendingInv
<1> QED BY <1>1, <1>4, <1>6 DEF Ind, KeysInv, WorldOK

LEMMA RevokeForgottenStep == ASSUME Ind, RevokeForgotten PROVE Ind'
<1> DEFINE forgotten == {k \in Key : issued[k] # None} \ In(db, States \ {"revoked"})
<1>1. /\ task = NoTask /\ UNCHANGED <<db, grant, issued, irdb, want, faults, changes>>
      /\ task' = [NoTask EXCEPT !.name = "forget", !.at = "next", !.todo = forgotten]
  BY DEF RevokeForgotten
<1>2. forgotten \subseteq Key
  OBVIOUS
<1> HIDE DEF forgotten
<1>3. /\ task' \in Tasks /\ task'.name = "forget" /\ task'.at = "next" /\ task'.key = None
      /\ task'.todo = forgotten
  BY <1>1, <1>2, NoTaskFacts DEF Tasks
<1>4. TaskInv'
  BY <1>2, <1>3, ConstantsAssumption DEF TaskInv
<1>5. task.name # "rekey" /\ task.name # "poll"
  BY <1>1, NoTaskFacts
<1>6. NoReplyLost' => PendingInv'
  BY <1>1, <1>3, <1>5, UnchangedFaults DEF Ind, KeysInv, PendingInv
<1> QED BY <1>1, <1>4, <1>6 DEF Ind, KeysInv, WorldOK

LEMMA UpdateChildrenStep == ASSUME Ind, UpdateChildren PROVE Ind'
<1>1. Sane(db') /\ Alike(db, db')
  BY IndParts, UpdateChildrenSane DEF UpdateChildren
<1> QED BY <1>1, IdleStep DEF UpdateChildren, Ind, WorldOK

LEMMA UpdateROAsStep == ASSUME Ind, UpdateROAs PROVE Ind'
<1>1. Sane(db') /\ Alike(db, db')
  BY IndParts, UpdateROAsSane DEF UpdateROAs, WorldOK
<1> QED BY <1>1, IdleStep DEF UpdateROAs, Ind, WorldOK

LEMMA RegenerateCRLStep == ASSUME Ind, NEW k \in Key, RegenerateCRL(k) PROVE Ind'
<1>1. k \in Known(db)
  BY IndParts, InFacts DEF RegenerateCRL
<1>2. Sane(db') /\ Alike(db, db')
  BY <1>1, IndParts, GenerateSane DEF RegenerateCRL
<1> QED BY <1>2, IdleStep DEF RegenerateCRL, Ind, WorldOK

LEMMA DestroyTombstoneStep == ASSUME Ind, NEW k \in Key, DestroyTombstone(k) PROVE Ind'
<1> DEFINE ks == {k}
<1>1. /\ task = NoTask /\ task' = task /\ db' = Destroy(db, ks) /\ ks \subseteq Revoked(db)
      /\ UNCHANGED <<grant, issued, irdb, want, faults, changes>>
  BY DEF DestroyTombstone, Revoked
<1> HIDE DEF ks
<1>2. /\ Sane(db') /\ Active(db') = Active(db) \ ks /\ Pending(db') = Pending(db) \ ks
      /\ Revoked(db') = Revoked(db) \ ks
  BY <1>1, IndParts, DestroyFacts
<1>3. WorldOK' /\ (NoReplyLost' <=> NoReplyLost)
  BY <1>1, UnchangedFaults DEF Ind, WorldOK
<1>4. task.name # "rekey"
  BY <1>1, NoTaskFacts
<1> QED BY <1>1, <1>2, <1>3, <1>4, IndParts, TaskDone

LEMMA ChildIssueStep == ASSUME Ind, NEW c \in Child, ChildIssue(c) PROVE Ind'
<1>1. /\ task = NoTask /\ task' = task
      /\ UNCHANGED <<grant, issued, irdb, want, faults, changes>>
  BY DEF ChildIssue
<1>2. PICK k \in Active(db) :
        LET res == irdb[c] \cap db.details[k].cert
            mine == {x \in CertsOf(db, k) : x.child = c}
        IN  db' = IF mine = {} THEN Issue(db, k, c, res, {})
                  ELSE Reissue(db, CHOOSE x \in mine : TRUE, k, res)
  BY DEF ChildIssue
<1> DEFINE res == irdb[c] \cap db.details[k].cert
           mine == {x \in CertsOf(db, k) : x.child = c}
           x == CHOOSE y \in mine : TRUE
<1>3. res \in SUBSET Res
  BY DEF Ind, WorldOK
<1> HIDE DEF res
<1>4. Sane(db') /\ Alike(db, db')
  <2>1. CASE mine = {}
    <3>1. db' = Issue(db, k, c, res, {})
      BY <1>2, <2>1 DEF res
    <3> QED BY <1>3, <3>1, IndParts, IssueSane
  <2>2. CASE mine # {}
    <3>1. db' = Reissue(db, x, k, res) /\ x \in mine
      BY <1>2, <2>2 DEF res
    <3>2. x \in db.certs /\ x.detail = k
      BY <3>1 DEF CertsOf
    <3> HIDE DEF x, mine
    <3>3. x \in Cert /\ x.detail \in Signers(db)
      BY <3>2, IndParts, SaneFacts, DatabaseFields, InFacts
    <3> QED BY <1>3, <3>1, <3>3, IndParts, ReissueSane
  <2> QED BY <2>1, <2>2
<1> QED BY <1>1, <1>4, IdleStep DEF Ind, WorldOK

LEMMA ChildRevokeStep == ASSUME Ind, NEW c \in Child, ChildRevoke(c) PROVE Ind'
<1> DEFINE mine == {x \in db.certs : x.child = c}
           d1 == DropCerts(db, mine)
           ks == {x.detail : x \in mine}
<1>1. /\ task = NoTask /\ task' = task /\ Change /\ db' = GenerateAll(d1, ks)
      /\ UNCHANGED <<grant, issued, irdb, want, faults>>
  BY DEF ChildRevoke
<1>2. \A x \in mine : x.detail \in Signers(db)
  BY IndParts, SaneFacts, InFacts DEF CertsOK
<1>3. ks \subseteq Signers(db)
  BY <1>2
<1> HIDE DEF mine, ks
<1>4. Sane(d1) /\ Alike(db, d1)
  BY <1>2, IndParts, DropCertsSane
<1>5. ks \in SUBSET Known(d1)
  BY <1>3, <1>4, IndParts, AlikeFacts, SaneFacts, InFacts DEF Signers
<1> HIDE DEF d1
<1>6. Sane(db') /\ Alike(db, db')
  BY <1>1, <1>4, <1>5, GenerateAllSane, AlikeTransitive
<1> QED BY <1>1, <1>6, ChangeIsBounded, IdleStep

LEMMA SetGrantStep == ASSUME Ind, SetGrant PROVE Ind'
<1>1. WorldOK'
  BY ChangeIsBounded DEF SetGrant, Ind, WorldOK
<1> QED BY <1>1, WorldStep DEF SetGrant

LEMMA ParentUpdatesStep == ASSUME Ind, ParentUpdates PROVE Ind'
<1>1. WorldOK'
  BY DEF ParentUpdates, Ind, WorldOK
<1>2. \A k \in Key : issued[k] = None => issued'[k] = None
  BY DEF ParentUpdates
<1> QED BY <1>1, <1>2, WorldStep DEF ParentUpdates

LEMMA SetIrdbStep == ASSUME Ind, SetIrdb PROVE Ind'
<1>1. WorldOK'
  BY ChangeIsBounded DEF SetIrdb, Ind, WorldOK
<1> QED BY <1>1, WorldStep DEF SetIrdb

LEMMA InitInd == Init => Ind
<1> SUFFICES ASSUME Init PROVE Ind
  OBVIOUS
<1>1. WorldOK
  BY ConstantsAssumption DEF Init, WorldOK
<1>2. Sane(db) /\ Known(db) = {}
  BY DEF Init, Sane, Databases, In, Known
<1>3. TaskInv
  BY NoTaskInv DEF Init
<1>4. Active(db) = {} /\ Pending(db) = {} /\ Revoked(db) = {}
  BY <1>2 DEF Active, Pending, Revoked, In
<1>5. task.name # "poll"
  BY NoTaskFacts DEF Init
<1> QED BY <1>1, <1>2, <1>3, <1>4, <1>5 DEF Ind, KeysInv, PendingInv, Active, Pending, Revoked

LEMMA NextInd == Ind /\ [Next]_vars => Ind'
<1> SUFFICES ASSUME Ind, [Next]_vars PROVE Ind'
  OBVIOUS
<1>1. CASE PollList \/ PollNext \/ Parent \/ Lose
  BY <1>1, PollListStep, PollNextStep, ParentStep, LoseStep
<1>2. CASE GotCert \/ GotRevoked \/ RevokeNext
  BY <1>2, GotCertStep, GotRevokedStep, RevokeNextStep
<1>3. CASE Rekey \/ Revoke \/ RevokeForgotten
  BY <1>3, RekeyStep, RevokeStep, RevokeForgottenStep
<1>4. CASE UpdateChildren \/ UpdateROAs
  BY <1>4, UpdateChildrenStep, UpdateROAsStep
<1>5. CASE \E k \in Key : RegenerateCRL(k) \/ DestroyTombstone(k)
  BY <1>5, RegenerateCRLStep, DestroyTombstoneStep
<1>6. CASE \E c \in Child : ChildIssue(c) \/ ChildRevoke(c)
  BY <1>6, ChildIssueStep, ChildRevokeStep
<1>7. CASE SetGrant \/ ParentUpdates \/ SetIrdb
  BY <1>7, SetGrantStep, ParentUpdatesStep, SetIrdbStep
<1>8. CASE UNCHANGED vars
  BY <1>8 DEF vars, Ind, WorldOK, KeysInv, TaskInv, PollInv, RekeyInv, RevokeInv, NoReplyLost,
              PendingInv
<1> QED BY <1>1, <1>2, <1>3, <1>4, <1>5, <1>6, <1>7, <1>8 DEF Next

-----------------------------------------------------------------------------
(***************************************************************************)
(* What follows from the invariant.                                        *)
(***************************************************************************)

\* In every state the databases are what the methods leave behind, and the
\* coroutine under way knows what its next step assumes (KeysInv).
THEOREM KeysInvariant == Spec => []Ind
<1> QED BY InitInd, NextInd, PTL DEF Spec

LEMMA IndOneActive == Ind => OneActiveUnlessLost
<1> SUFFICES ASSUME Ind, NoReplyLost PROVE OneActive
  BY DEF OneActiveUnlessLost, NoReplyLost
<1>1. IsFiniteSet(Active(db)) /\ \A k, l \in Active(db) : k = l
  BY IndParts, ActiveIsFinite
<1> QED BY <1>1, AtMostOne DEF OneActive

LEMMA IndKeyGone == Ind => KeyGone
<1> SUFFICES ASSUME Ind, NEW k \in Revoked(db)
             PROVE  /\ issued[k] = None /\ ~db.details[k].lag
                    /\ CertsOf(db, k) = {} /\ RoasOf(db, k) = {}
  BY DEF KeyGone, Revoked
<1>1. issued[k] = None /\ ~db.details[k].lag
  BY IndParts DEF Sane, Revoked
<1>2. k \notin Signers(db)
  BY IndParts, StateFacts
<1>3. k \notin Active(db)
  BY IndParts, StateFacts
<1> QED BY <1>1, <1>2, <1>3, IndParts, SaneFacts DEF CertsOK, RoasOK, CertsOf, RoasOf

LEMMA IndManifestListsCerts == Ind => ManifestListsCerts
BY IndParts DEF ManifestListsCerts, Sane, Active, In

\* The keys of a CA are in order, for any number of keys, children, resources,
\* failures and changes: at most one active ca_detail unless the answer to a
\* request for a certificate was lost, every certificate under a ca_detail that
\* can sign for it and on its manifest, and nothing left of a key thrown away.
THEOREM KeysAreInOrder == Spec => []KeysInOrder
<1>1. Ind => KeysInOrder
  BY IndTypes, IndOneActive, IndKeyGone, IndManifestListsCerts DEF KeysInOrder
<1> QED BY <1>1, KeysInvariant, PTL

\* The answer to a rekey: what children hold is reissued under the new
\* ca_detail before the old one is deprecated.
LEMMA RekeyKeeps ==
    ASSUME Ind, GotCert, task.name = "rekey", task.old # None
    PROVE  Held(db) \subseteq Held(db') /\ Active(db') # {}
<1> DEFINE k == task.key
           old == task.old
           cert == task.cert
<1>1. task.at = "reply" /\ k \in Pending(db) /\ Active(db) = {old}
  BY IndParts DEF GotCert, TaskInv, RekeyInv, Pending
<1>2. db' \in Activate(db, k, cert, old)
  BY <1>1 DEF GotCert, Pending, In
<1>3. cert \in SUBSET Res /\ old \in Key \cup {None} /\ old # None
  BY IndParts DEF Tasks
<1> HIDE DEF k, old, cert
<1>4. Activated(db, k, old, db')
  BY <1>1, <1>2, <1>3, IndParts, ActivateFacts
<1> QED BY <1>3, <1>4 DEF Activated

\* The answer to a revocation: nothing under a deprecated ca_detail is a
\* child's any more.
LEMMA RevocationKeeps ==
    ASSUME Ind, GotRevoked, task.name = "revoke"
    PROVE  Held(db) \subseteq Held(db') /\ Active(db') = Active(db)
<1> DEFINE k == task.key
<1>1. k \in Deprecated(db) /\ db' = FinishRevoke(db, k)
  BY IndParts DEF GotRevoked, TaskInv, RevokeInv, Deprecated
<1> HIDE DEF k
<1> QED BY <1>1, IndParts, FinishRevokeFacts

\* Every other step leaves the database alone, or is not a rollover's.
LEMMA RolloverSteps ==
    ASSUME Ind, [Next]_vars, task.name \in {"rekey", "revoke"}
    PROVE  \/ db' = db
           \/ GotCert /\ task.name = "rekey"
           \/ GotRevoked /\ task.name = "revoke"
<1>1. task # NoTask
  BY NoTaskFacts
<1>2. CASE \/ PollList \/ Rekey \/ Revoke \/ RevokeForgotten \/ UpdateChildren \/ UpdateROAs
           \/ \E k \in Key : RegenerateCRL(k) \/ DestroyTombstone(k)
           \/ \E c \in Child : ChildIssue(c) \/ ChildRevoke(c)
  BY <1>1, <1>2 DEF PollList, Rekey, Revoke, RevokeForgotten, UpdateChildren, UpdateROAs,
                    RegenerateCRL, DestroyTombstone, ChildIssue, ChildRevoke
<1>3. CASE PollNext \/ Parent \/ Lose \/ RevokeNext
  BY <1>3 DEF PollNext, Parent, Lose, RevokeNext
<1>4. CASE GotCert \/ GotRevoked
  BY <1>4 DEF GotCert, GotRevoked
<1>5. CASE SetGrant \/ ParentUpdates \/ SetIrdb \/ UNCHANGED vars
  BY <1>5 DEF SetGrant, ParentUpdates, SetIrdb, vars
<1> QED BY <1>2, <1>3, <1>4, <1>5 DEF Next

\* Neither a rekey nor the revocation of the old key takes a resource from a
\* child, or the active ca_detail from the CA, in any of their steps.
THEOREM RolloverIsMakeBeforeBreak == Spec => MakeBeforeBreak
<1>1. ASSUME Ind, [Next]_vars,
             (task.name = "rekey" /\ task.old # None) \/ task.name = "revoke"
      PROVE  /\ Held(db) \subseteq Held(db')
             /\ Active(db) # {} => Active(db') # {}
  <2>1. CASE db' = db
    BY <2>1
  <2>2. CASE GotCert /\ task.name = "rekey"
    BY <1>1, <2>2, RekeyKeeps
  <2>3. CASE GotRevoked /\ task.name = "revoke"
    BY <1>1, <2>3, RevocationKeeps
  <2> QED BY <1>1, <2>1, <2>2, <2>3, RolloverSteps
<1> QED BY <1>1, KeysInvariant, PTL DEF Spec, MakeBeforeBreak

=============================================================================
