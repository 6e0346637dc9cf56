------------------------- MODULE PublicationProofs -------------------------
(***************************************************************************)
(* Proofs about Publication, for every set of certificates, any order of   *)
(* operations and failures and every bound.                                *)
(*                                                                         *)
(*  - With any number of coroutines: type correctness, and that a message  *)
(*    has one PDU for a URI (OnePduForEachUri).                            *)
(*  - With one coroutine and any number of ca_details: messages are exact  *)
(*    (QueueIsExact) and manifests complete (ManifestsAreComplete).        *)
(*  - With one coroutine and one ca_detail: an accepted resynchronization  *)
(*    repairs pubd (ResynchronizationRepairs).                             *)
(*                                                                         *)
(* The restrictions are the code's: coroutines that overlap save each      *)
(* other's rows again, and resync forgets all active ca_details but one.   *)
(***************************************************************************)
EXTENDS Publication, FiniteSetTheorems, SequenceTheorems, WellFoundedInduction, TLAPS

Values == {None} \cup Version

LEMMA Constants ==
    /\ IsFiniteSet(Product) /\ Task \subseteq Proc
    /\ DetailOf \in [Product -> Detail]
    /\ Listed \in Seq(Detail) /\ Range(Listed) = Detail
    /\ Detail \cap Product = {} /\ URI = Detail \cup Product
    /\ MaxFailures \in Nat /\ MaxVersion \in Nat \ {0}
    /\ Values \subseteq Nat /\ None = 0 /\ Version = 1 .. MaxVersion /\ None \notin Version
    /\ Values = {None} \cup Version
    /\ PDU = [uri : URI, hash : Values, new : Values]
BY PublicationAssumption DEF URI, Version, None, Values, PDU

-----------------------------------------------------------------------------
(***************************************************************************)
(* Sequences.                                                              *)
(***************************************************************************)

\* A set of numbers has a smallest one.
LEMMA MinIsLeast ==
    ASSUME NEW S \in SUBSET Nat, S # {}
    PROVE  Min(S) \in S /\ \A j \in S : Min(S) <= j
<1> DEFINE Least(x) == \A j \in S : x <= j
<1>1. IsWellFoundedOn(OpToRel(<, Nat), Nat)
  BY NatLessThanWellFounded
<1>2. PICK x \in S : \A y \in S : ~ (<<y, x>> \in OpToRel(<, Nat))
  BY <1>1, WFMin
<1>3. Least(x)
  <2>1. \A y \in S : ~ (y < x)
    BY <1>2 DEF OpToRel
  <2> QED BY <2>1
<1> HIDE DEF Least
<1>4. Least(CHOOSE y \in S : Least(y)) /\ (CHOOSE y \in S : Least(y)) \in S
  BY <1>3
<1> QED BY <1>4 DEF Min, Least

\* Taking one element out of a sequence.
LEMMA RemoveAtFacts ==
    ASSUME NEW S, NEW q \in Seq(S), NEW i \in DOMAIN q
    PROVE  /\ RemoveAt(q, i) \in Seq(S)
           /\ Len(RemoveAt(q, i)) = Len(q) - 1
           /\ \A j \in 1 .. Len(q) - 1 :
                 RemoveAt(q, i)[j] = q[IF j < i THEN j ELSE j + 1]
<1> DEFINE a == SubSeq(q, 1, i - 1)
           b == SubSeq(q, i + 1, Len(q))
<1>1. Len(q) \in Nat /\ i \in 1 .. Len(q) /\ DOMAIN q = 1 .. Len(q)
  OBVIOUS
<1>2. a \in Seq(S) /\ Len(a) = i - 1 /\ \A j \in 1 .. i - 1 : a[j] = q[j]
  <2>1. \A k \in 1 .. i - 1 : k \in 1 .. Len(q)
    BY <1>1
  <2> QED BY <1>1, <2>1, SubSeqProperties
<1>3. /\ b \in Seq(S) /\ Len(b) = Len(q) - i
      /\ \A j \in 1 .. Len(q) - i : b[j] = q[i + j]
  <2> DEFINE m == i + 1
             n == Len(q)
  <2>1. m \in 1 .. n + 1 /\ n \in m - 1 .. n /\ n \in Nat /\ i \in 1 .. n /\ n = Len(q)
    BY <1>1
  <2> HIDE DEF m, n
  <2>2. /\ SubSeq(q, m, n) \in Seq(S)
        /\ Len(SubSeq(q, m, n)) = n - m + 1
        /\ \A j \in 1 .. n - m + 1 : SubSeq(q, m, n)[j] = q[m + j - 1]
    BY <2>1, SubSeqProperties
  <2>3. n - m + 1 = n - i /\ \A j \in 1 .. n - i : m + j - 1 = i + j
    BY <2>1 DEF m
  <2> QED BY <2>2, <2>3 DEF m, n
<1>4. RemoveAt(q, i) = a \o b
  BY DEF RemoveAt
<1> HIDE DEF a, b
<1>5. /\ a \o b \in Seq(S) /\ Len(a \o b) = Len(q) - 1
      /\ \A j \in 1 .. Len(q) - 1 : (a \o b)[j] = IF j <= i - 1 THEN a[j] ELSE b[j - (i - 1)]
  <2>1. Len(a) + Len(b) = Len(q) - 1
    BY <1>1, <1>2, <1>3
  <2>2. a \in Seq(S) /\ b \in Seq(S) /\ Len(a) = i - 1
    BY <1>2, <1>3
  <2>3. /\ a \o b \in Seq(S)
        /\ Len(a \o b) = Len(a) + Len(b)
        /\ \A j \in 1 .. Len(a) + Len(b) :
              (a \o b)[j] = IF j <= Len(a) THEN a[j] ELSE b[j - Len(a)]
    BY <2>2, ConcatProperties
  <2> QED BY <2>1, <2>2, <2>3
<1>6. ASSUME NEW j \in 1 .. Len(q) - 1
      PROVE  (a \o b)[j] = q[IF j < i THEN j ELSE j + 1]
  <2>1. CASE j < i
    BY <2>1, <1>1, <1>2, <1>5
  <2>2. CASE ~ (j < i)
    <3>1. j - (i - 1) \in 1 .. Len(q) - i /\ i + (j - (i - 1)) = j + 1
      BY <2>2, <1>1
    <3>2. b[j - (i - 1)] = q[j + 1]
      BY <3>1, <1>3
    <3>3. ~ (j <= i - 1)
      BY <2>2, <1>1
    <3> QED BY <2>2, <3>2, <3>3, <1>5
  <2> QED BY <2>1, <2>2
<1> QED BY <1>4, <1>5, <1>6

\* r has the elements of q, each at a place of its own, but for the one at i.
AllBut(q, i, r) ==
    /\ \A j \in DOMAIN r : \E k \in DOMAIN q \ {i} : r[j] = q[k]
    /\ \A k \in DOMAIN q \ {i} : \E j \in DOMAIN r : r[j] = q[k]
    /\ \A f, g \in DOMAIN r : f # g =>
          \E k, l \in DOMAIN q : k # l /\ r[f] = q[k] /\ r[g] = q[l]

LEMMA RemoveAtRange ==
    ASSUME NEW S, NEW q \in Seq(S), NEW i \in DOMAIN q
    PROVE  AllBut(q, i, RemoveAt(q, i))
<1> DEFINE r == RemoveAt(q, i)
           at(j) == IF j < i THEN j ELSE j + 1
<1>1. /\ r \in Seq(S) /\ Len(r) = Len(q) - 1 /\ \A j \in 1 .. Len(q) - 1 : r[j] = q[at(j)]
      /\ Len(q) \in Nat /\ i \in 1 .. Len(q) /\ DOMAIN q = 1 .. Len(q) /\ DOMAIN r = 1 .. Len(q) - 1
  BY RemoveAtFacts
<1> HIDE DEF r
<1>2. \A j \in DOMAIN r : at(j) \in DOMAIN q \ {i} /\ r[j] = q[at(j)]
  BY <1>1
<1>3. \A k \in DOMAIN q \ {i} : LET j == IF k < i THEN k ELSE k - 1
                               IN  j \in DOMAIN r /\ at(j) = k
  BY <1>1
<1>4. \A f, g \in DOMAIN r : f # g => at(f) # at(g)
  BY <1>1
<1> HIDE DEF at
<1> QED BY <1>2, <1>3, <1>4 DEF r, AllBut


-----------------------------------------------------------------------------
(***************************************************************************)
(* The queue.                                                              *)
(***************************************************************************)

\* What a coroutine works on before it yields.
Work == [objs : [URI -> Values], stamp : [URI -> {"clear", "recent", "stale"}],
         pdus : Seq(PDU), handlers : [URI -> Values]]

\* No two PDUs of a message are for one URI.
Distinct(q) == \A i, j \in DOMAIN q : q[i].uri = q[j].uri => i = j

\* A set of PDUs has one for u.
Has(Q, u) == \E e \in Q : e.uri = u

LEMMA PlaceFacts ==
    ASSUME NEW s \in Work, NEW u
    PROVE  /\ PlaceOf(s, u) = 0 => ~ Has(Range(s.pdus), u)
           /\ PlaceOf(s, u) # 0 => /\ PlaceOf(s, u) \in DOMAIN s.pdus
                                   /\ s.pdus[PlaceOf(s, u)].uri = u
<1> DEFINE I == {i \in 1 .. Len(s.pdus) : s.pdus[i].uri = u}
<1>1. PlaceOf(s, u) = IF I # {} THEN Min(I) ELSE 0
  BY DEF PlaceOf, SelectInSeq
<1>2. s.pdus \in Seq(PDU) /\ DOMAIN s.pdus = 1 .. Len(s.pdus) /\ Len(s.pdus) \in Nat
  BY DEF Work
<1>3. I \in SUBSET Nat /\ 0 \notin I
  BY <1>2
<1>4. I # {} => Min(I) \in I
  BY <1>3, MinIsLeast
<1>5. I = {} => ~ Has(Range(s.pdus), u)
  BY <1>2 DEF Has, Range
<1> QED BY <1>1, <1>2, <1>3, <1>4, <1>5

\* A PDU goes to the end of the queue q.
PutIs(s, q, u, hash, new, handler, t) ==
    /\ t \in Work /\ t.objs = s.objs /\ t.stamp = s.stamp
    /\ Range(t.pdus) = Range(q) \cup
          (IF hash = None /\ new = None THEN {}
           ELSE {[uri |-> u, hash |-> hash, new |-> new]})
    /\ t.handlers = IF (hash = None /\ new = None) \/ handler = None
                    THEN s.handlers ELSE [s.handlers EXCEPT ![u] = handler]
    /\ Distinct(q) /\ ~ Has(Range(q), u) => Distinct(t.pdus)

LEMMA PutFacts ==
    ASSUME NEW s \in Work, NEW q \in Seq(PDU), NEW u \in URI,
           NEW hash \in Values, NEW new \in Values, NEW handler \in Values
    PROVE  PutIs(s, q, u, hash, new, handler, Put(s, q, u, hash, new, handler))
<1> DEFINE t == Put(s, q, u, hash, new, handler)
           e == [uri |-> u, hash |-> hash, new |-> new]
           nothing == hash = None /\ new = None
<1>1. e \in PDU
  BY Constants
<1>2. /\ s.objs \in [URI -> Values] /\ s.stamp \in [URI -> {"clear", "recent", "stale"}]
      /\ s.handlers \in [URI -> Values] /\ s.pdus \in Seq(PDU)
      /\ s = [objs |-> s.objs, stamp |-> s.stamp, pdus |-> s.pdus, handlers |-> s.handlers]
  BY DEF Work
<1>3. CASE nothing
  <2>1. t = [s EXCEPT !.pdus = q]
    BY <1>3 DEF Put
  <2>2. t \in Work /\ t.objs = s.objs /\ t.stamp = s.stamp /\ t.pdus = q
        /\ t.handlers = s.handlers
    BY <2>1, <1>2 DEF Work
  <2> HIDE DEF t
  <2>3. PutIs(s, q, u, hash, new, handler, t)
    BY <2>2, <1>3 DEF PutIs
  <2> QED BY <2>3 DEF t
<1>4. CASE ~ nothing
  <2> DEFINE h == IF handler = None THEN s.handlers ELSE [s.handlers EXCEPT ![u] = handler]
             r == Append(q, e)
  <2>1. h = [s.handlers EXCEPT ![u] = IF handler = None THEN @ ELSE handler]
    BY <1>2
  <2>2. t = [s EXCEPT !.pdus = r, !.handlers[u] = IF handler = None THEN @ ELSE handler]
    BY <1>4 DEF Put
  <2>3. h \in [URI -> Values]
    BY <1>2
  <2>4. r \in Seq(PDU) /\ DOMAIN q = 1 .. Len(q) /\ DOMAIN r = 1 .. Len(q) + 1
        /\ Len(q) \in Nat /\ r[Len(q) + 1] = e /\ \A i \in 1 .. Len(q) : r[i] = q[i]
    BY <1>1
  <2> HIDE DEF h, r
  <2>5. t = [s EXCEPT !.pdus = r, !.handlers = h]
    BY <2>1, <2>2, <1>2
  <2>6. t \in Work /\ t.objs = s.objs /\ t.stamp = s.stamp /\ t.pdus = r /\ t.handlers = h
    BY <2>3, <2>4, <2>5, <1>2 DEF Work
  <2>7. Range(r) = Range(q) \cup {e}
    BY <2>4 DEF Range
  <2>8. ASSUME Distinct(q), ~ Has(Range(q), u)
        PROVE  Distinct(r)
    <3>1. \A i \in 1 .. Len(q) : r[i].uri # u
      BY <2>4, <2>8 DEF Has, Range
    <3>2. e.uri = u
      OBVIOUS
    <3> HIDE DEF e
    <3> QED BY <2>4, <2>8, <3>1, <3>2 DEF Distinct
  <2> HIDE DEF t
  <2>9. PutIs(s, q, u, hash, new, handler, t)
    BY <2>6, <2>7, <2>8, <1>4 DEF h, PutIs
  <2> QED BY <2>9 DEF t
<1> QED BY <1>3, <1>4


\* One more action on u: what it becomes in a message that is distinct.  The
\* hash is what the message already had for u, if anything.
Becomes(s, t, u, hash, new, handler) ==
    LET nothing == hash = None /\ new = None
    IN  /\ Range(t.pdus) = {e \in Range(s.pdus) : e.uri # u}
              \cup (IF nothing THEN {} ELSE {[uri |-> u, hash |-> hash, new |-> new]})
        /\ t.handlers = IF nothing \/ handler = None THEN s.handlers
                        ELSE [s.handlers EXCEPT ![u] = handler]

EnqueueIs(s, u, old, new, handler, t) ==
    /\ t \in Work /\ t.objs = s.objs /\ t.stamp = s.stamp
    /\ Distinct(s.pdus) =>
          /\ Distinct(t.pdus)
          /\ \E hash \in Values :
                /\ ~ Has(Range(s.pdus), u) => hash = old
                /\ \A e \in Range(s.pdus) : e.uri = u => e.hash = hash
                /\ Becomes(s, t, u, hash, new, handler)

LEMMA EnqueueFacts ==
    ASSUME NEW s \in Work, NEW u \in URI, NEW old \in Values, NEW new \in Values,
           NEW handler \in Values
    PROVE  EnqueueIs(s, u, old, new, handler, Enqueue(s, u, old, new, handler))
<1> DEFINE i == PlaceOf(s, u)
           t == Enqueue(s, u, old, new, handler)
<1>1. s.pdus \in Seq(PDU) /\ DOMAIN s.pdus = 1 .. Len(s.pdus) /\ Len(s.pdus) \in Nat
  BY DEF Work
<1>2. CASE i = 0
  <2>1. t = Put(s, s.pdus, u, old, new, handler)
    BY <1>2 DEF Enqueue
  <2>2. ~ Has(Range(s.pdus), u)
    BY <1>2, PlaceFacts
  <2>3. Range(s.pdus) = {e \in Range(s.pdus) : e.uri # u}
    BY <2>2 DEF Has
  <2>4. /\ t \in Work /\ t.objs = s.objs /\ t.stamp = s.stamp
        /\ Becomes(s, t, u, old, new, handler)
        /\ Distinct(s.pdus) => Distinct(t.pdus)
    BY <2>1, <2>2, <2>3, <1>1, PutFacts DEF Becomes, PutIs
  <2>5. \A e \in Range(s.pdus) : e.uri = u => e.hash = old
    BY <2>2 DEF Has
  <2> HIDE DEF t
  <2>6. EnqueueIs(s, u, old, new, handler, t)
    BY <2>2, <2>4, <2>5 DEF EnqueueIs
  <2> QED BY <2>6 DEF t
<1>3. CASE i # 0
  <2> DEFINE rest == RemoveAt(s.pdus, i)
             was == s.pdus[i].hash
  <2>1. t = Put(s, rest, u, was, new, handler)
    BY <1>3 DEF Enqueue
  <2>2. i \in DOMAIN s.pdus /\ s.pdus[i].uri = u
    BY <1>3, PlaceFacts
  <2>3. was \in Values
    <3>1. s.pdus[i] \in PDU
      BY <2>2, <1>1
    <3> QED BY <3>1, Constants
  <2>4. rest \in Seq(PDU)
    BY <2>2, <1>1, RemoveAtFacts
  <2>5. Has(Range(s.pdus), u)
    BY <2>2 DEF Has, Range
  <2> HIDE DEF rest, was
  <2>6. t \in Work /\ t.objs = s.objs /\ t.stamp = s.stamp
    <3>1. PutIs(s, rest, u, was, new, handler, Put(s, rest, u, was, new, handler))
      BY <2>3, <2>4, PutFacts
    <3> QED BY <2>1, <3>1 DEF PutIs
  <2>7. ASSUME Distinct(s.pdus)
        PROVE  /\ Distinct(rest) /\ ~ Has(Range(rest), u)
               /\ Range(rest) = {e \in Range(s.pdus) : e.uri # u}
               /\ \A e \in Range(s.pdus) : e.uri = u => e.hash = was
    <3>1. /\ \A j \in DOMAIN rest : \E k \in DOMAIN s.pdus \ {i} : rest[j] = s.pdus[k]
          /\ \A k \in DOMAIN s.pdus \ {i} : \E j \in DOMAIN rest : rest[j] = s.pdus[k]
          /\ \A f, g \in DOMAIN rest : f # g =>
                \E k, l \in DOMAIN s.pdus : k # l /\ rest[f] = s.pdus[k] /\ rest[g] = s.pdus[l]
      <4>1. AllBut(s.pdus, i, rest)
        BY <2>2, <1>1, RemoveAtRange DEF rest
      <4> QED BY <4>1 DEF AllBut
    <3>2. \A k \in DOMAIN s.pdus : s.pdus[k].uri = u => k = i
      BY <2>2, <2>7 DEF Distinct
    <3>3. Distinct(rest)
      BY <3>1, <2>7 DEF Distinct
    <3>4. Range(rest) = {e \in Range(s.pdus) : e.uri # u}
      BY <3>1, <3>2, <2>2 DEF Range
    <3>5. \A e \in Range(s.pdus) : e.uri = u => e.hash = was
      BY <3>2 DEF Range, was
    <3> QED BY <3>3, <3>4, <3>5 DEF Has
  <2>8. ASSUME Distinct(s.pdus)
        PROVE  Distinct(t.pdus) /\ Becomes(s, t, u, was, new, handler)
    <3>1. PutIs(s, rest, u, was, new, handler, t)
      BY <2>1, <2>3, <2>4, PutFacts
    <3> QED BY <3>1, <2>7, <2>8 DEF Becomes, PutIs
  <2> HIDE DEF t
  <2>9. EnqueueIs(s, u, old, new, handler, t)
    BY <2>3, <2>5, <2>6, <2>7, <2>8 DEF EnqueueIs
  <2> QED BY <2>9 DEF t
<1> QED BY <1>2, <1>3

-----------------------------------------------------------------------------
(***************************************************************************)
(* What a coroutine has queued.  Q is the set of its PDUs.                 *)
(***************************************************************************)

\* A PDU brings what the database holds now, and so does its handler.
Kept(Q, o, h) ==
    \A e \in Q : /\ e.new = o[e.uri]
                 /\ h[e.uri] \in {None, e.new}
                 /\ e.hash # None \/ e.new # None

\* A certificate not in T, the ones that have been treated, is in the queue only
\* as a retry.
Fresh(Q, h, T) ==
    /\ \A e \in Q : e.uri \in Product \ T => e.hash = None /\ e.new # None
    /\ \A u \in Product \ T : h[u] # None => Has(Q, u)

\* The message turns what pubd holds, db, into the database.
Exact(Q, o, st, h, db) ==
    /\ \A e \in Q : e.hash = db[e.uri]
    /\ \A u \in URI : /\ ~ Has(Q, u) => o[u] = db[u]
                      /\ st[u] # "clear" => Has(Q, u) /\ h[u] # None /\ o[u] # None

Good(s, T) ==
    /\ s \in Work
    /\ Distinct(s.pdus)
    /\ Kept(Range(s.pdus), s.objs, s.handlers)
    /\ Fresh(Range(s.pdus), s.handlers, T)

ExactFor(s, db) == Exact(Range(s.pdus), s.objs, s.stamp, s.handlers, db)


-----------------------------------------------------------------------------
(***************************************************************************)
(* What the operations do to the rows.                                     *)
(***************************************************************************)

Retries == INSTANCE FoldLemmas WITH op <- Again
Checks == INSTANCE FoldLemmas WITH op <- CheckFailed

LEMMA RetriesFold ==
    \A s, d : CheckFailed(s, d) = Retries!Fold(s, StaleOf(s, d))
BY DEF CheckFailed, Retries!Fold, FoldLeft, Retries!FoldLeft, MapThenFoldSet,
       Retries!MapThenFoldSet, Max, Retries!Max

LEMMA ChecksFold ==
    \A s, seq : FoldLeft(CheckFailed, s, seq) = Checks!Fold(s, seq)
BY DEF Checks!Fold, FoldLeft, Checks!FoldLeft, MapThenFoldSet,
       Checks!MapThenFoldSet, Max, Checks!Max

\* A finite set's elements, in some order.
LEMMA SetToSeqType ==
    ASSUME NEW S, IsFiniteSet(S)
    PROVE  /\ SetToSeq(S) \in Seq(S)
           /\ Range(SetToSeq(S)) = S
           /\ \A i, j \in DOMAIN SetToSeq(S) : SetToSeq(S)[i] = SetToSeq(S)[j] => i = j
<1> DEFINE n == Cardinality(S)
           P(f) == IsInjective(f)
<1>1. n \in Nat /\ ExistsBijection(1 .. n, S)
  BY FS_CardinalityType
<1>2. PICK g \in [1 .. n -> S] : IsInjective(g)
  BY <1>1 DEF ExistsBijection, Bijection, Injection, IsInjective
<1> HIDE DEF P
<1>3. \E f \in [1 .. n -> S] : P(f)
  BY <1>2 DEF P
<1>4. /\ (CHOOSE f \in [1 .. n -> S] : P(f)) \in [1 .. n -> S]
      /\ P(CHOOSE f \in [1 .. n -> S] : P(f))
  BY <1>3
<1> DEFINE f == SetToSeq(S)
<1>5. f \in [1 .. n -> S] /\ IsInjective(f)
  BY <1>4 DEF SetToSeq, P
<1> HIDE DEF f, n
<1>6. f \in Injection(1 .. n, S)
  BY <1>5 DEF Injection, IsInjective
<1>7. Cardinality(1 .. n) = n /\ IsFiniteSet(1 .. n)
  BY <1>1, FS_Interval
<1>8. f \in Surjection(1 .. n, S)
  BY <1>6, <1>7, FS_Injection DEF n
<1>9. Range(f) = S
  BY <1>8 DEF Surjection, Range
<1>10. f \in Seq(S)
  BY <1>1, <1>5
<1> QED BY <1>5, <1>9, <1>10 DEF f, IsInjective

LEMMA StaleOfType ==
    ASSUME NEW s, NEW d \in Detail
    PROVE  StaleOf(s, d) \in Seq({u \in URI : Stale(s, u)})
<1> DEFINE S == {u \in Product : DetailOf[u] = d /\ Stale(s, u)}
           St == {u \in URI : Stale(s, u)}
           a == IF Stale(s, d) THEN <<d>> ELSE << >>
           b == SetToSeq(S)
<1>1. S \subseteq Product /\ S \subseteq St /\ (Stale(s, d) => d \in St)
  BY Constants
<1> HIDE DEF S, St
<1>2. IsFiniteSet(S)
  BY <1>1, Constants, FS_Subset
<1>3. b \in Seq(S)
  BY <1>2, SetToSeqType
<1>4. b \in Seq(St)
  BY <1>1, <1>3
<1>5. a \in Seq(St)
  BY <1>1
<1> HIDE DEF a, b
<1>6. a \o b \in Seq(St)
  BY <1>4, <1>5
<1>7. StaleOf(s, d) = a \o b
  BY DEF StaleOf, a, b, S
<1> QED BY <1>6, <1>7 DEF St

\* check_failed_publication does not touch the rows.
LEMMA CheckFailedType ==
    ASSUME NEW s \in Work, NEW d \in Detail
    PROVE  LET t == CheckFailed(s, d)
           IN  t \in Work /\ t.objs = s.objs /\ t.stamp = s.stamp
<1> DEFINE Same == {t \in Work : t.objs = s.objs /\ t.stamp = s.stamp}
           St == {u \in URI : Stale(s, u)}
           q == StaleOf(s, d)
<1>1. q \in Seq(St)
  BY StaleOfType
<1>2. ASSUME NEW t \in Same, NEW i \in DOMAIN q PROVE Again(t, q[i]) \in Same
  <2>1. q[i] \in URI /\ t \in Work /\ t.objs[q[i]] \in Values
    <3>1. q[i] \in URI
      BY <1>1
    <3> QED BY <3>1 DEF Work
  <2>2. None \in Values
    BY DEF Values
  <2> HIDE DEF q
  <2>3. EnqueueIs(t, q[i], None, t.objs[q[i]], t.objs[q[i]], Again(t, q[i]))
    BY <2>1, <2>2, EnqueueFacts DEF Again
  <2> QED BY <2>3 DEF EnqueueIs
<1>3. s \in Same
  OBVIOUS
<1> HIDE DEF Same, q, St
<1>4. Retries!Fold(s, q) \in Same
  BY <1>1, <1>2, <1>3, Retries!FoldInvariant
<1>5. CheckFailed(s, d) \in Same
  BY <1>4, RetriesFold DEF q
<1> QED BY <1>5 DEF Same

\* A row is saved with its new object.
SaveRow(s, u, v) == [s EXCEPT !.objs[u] = v, !.stamp[u] = "recent"]

\* A row is deleted.
DropRow(s, u) == [s EXCEPT !.objs[u] = None, !.stamp[u] = "clear"]

IsSaved(s, u, v, t) ==
    /\ t \in Work
    /\ t.objs = [s.objs EXCEPT ![u] = v] /\ t.stamp = [s.stamp EXCEPT ![u] = "recent"]
    /\ t.pdus = s.pdus /\ t.handlers = s.handlers

IsDropped(s, u, t) ==
    /\ t \in Work
    /\ t.objs = [s.objs EXCEPT ![u] = None] /\ t.stamp = [s.stamp EXCEPT ![u] = "clear"]
    /\ t.pdus = s.pdus /\ t.handlers = s.handlers

LEMMA RowFacts ==
    ASSUME NEW s \in Work, NEW u \in URI
    PROVE  /\ \A v \in Version : IsSaved(s, u, v, SaveRow(s, u, v))
           /\ IsDropped(s, u, DropRow(s, u))
<1> SUFFICES ASSUME NEW v \in Version
             PROVE  IsSaved(s, u, v, SaveRow(s, u, v)) /\ IsDropped(s, u, DropRow(s, u))
  BY Constants
<1>1. /\ s.objs \in [URI -> Values] /\ s.stamp \in [URI -> {"clear", "recent", "stale"}]
      /\ s.handlers \in [URI -> Values] /\ s.pdus \in Seq(PDU)
      /\ s = [objs |-> s.objs, stamp |-> s.stamp, pdus |-> s.pdus, handlers |-> s.handlers]
  BY DEF Work
<1>2. v \in Values /\ None \in Values
  BY DEF Values
<1>3. [s.objs EXCEPT ![u] = v] \in [URI -> Values] /\ [s.objs EXCEPT ![u] = None] \in [URI -> Values]
  BY <1>1, <1>2
<1>4. /\ [s.stamp EXCEPT ![u] = "recent"] \in [URI -> {"clear", "recent", "stale"}]
      /\ [s.stamp EXCEPT ![u] = "clear"] \in [URI -> {"clear", "recent", "stale"}]
  BY <1>1
<1>5. /\ SaveRow(s, u, v) \in Work
      /\ SaveRow(s, u, v).objs = [s.objs EXCEPT ![u] = v]
      /\ SaveRow(s, u, v).stamp = [s.stamp EXCEPT ![u] = "recent"]
      /\ SaveRow(s, u, v).pdus = s.pdus /\ SaveRow(s, u, v).handlers = s.handlers
  <2> DEFINE o == [s.objs EXCEPT ![u] = v]
             st == [s.stamp EXCEPT ![u] = "recent"]
             r == SaveRow(s, u, v)
  <2>1. r = [s EXCEPT !.objs[u] = v, !.stamp[u] = "recent"]
    BY DEF SaveRow
  <2>2. /\ o = [s.objs EXCEPT ![u] = v] /\ st = [s.stamp EXCEPT ![u] = "recent"]
        /\ o \in [URI -> Values] /\ st \in [URI -> {"clear", "recent", "stale"}]
    BY <1>3, <1>4
  <2> HIDE DEF o, st
  <2>3. r = [s EXCEPT !.objs = o, !.stamp = st]
    BY <2>1, <2>2, <1>1
  <2>4. r \in Work /\ r.objs = o /\ r.stamp = st /\ r.pdus = s.pdus /\ r.handlers = s.handlers
    BY <2>2, <2>3, <1>1 DEF Work
  <2> QED BY <2>2, <2>4
<1>6. /\ DropRow(s, u) \in Work
      /\ DropRow(s, u).objs = [s.objs EXCEPT ![u] = None]
      /\ DropRow(s, u).stamp = [s.stamp EXCEPT ![u] = "clear"]
      /\ DropRow(s, u).pdus = s.pdus /\ DropRow(s, u).handlers = s.handlers
  <2> DEFINE o == [s.objs EXCEPT ![u] = None]
             st == [s.stamp EXCEPT ![u] = "clear"]
             r == DropRow(s, u)
  <2>1. r = [s EXCEPT !.objs[u] = None, !.stamp[u] = "clear"]
    BY DEF DropRow
  <2>2. /\ o = [s.objs EXCEPT ![u] = None] /\ st = [s.stamp EXCEPT ![u] = "clear"]
        /\ o \in [URI -> Values] /\ st \in [URI -> {"clear", "recent", "stale"}]
    BY <1>3, <1>4
  <2> HIDE DEF o, st
  <2>3. r = [s EXCEPT !.objs = o, !.stamp = st]
    BY <2>1, <2>2, <1>1
  <2>4. r \in Work /\ r.objs = o /\ r.stamp = st /\ r.pdus = s.pdus /\ r.handlers = s.handlers
    BY <2>2, <2>3, <1>1 DEF Work
  <2> QED BY <2>2, <2>4
<1> QED BY <1>5, <1>6 DEF IsSaved, IsDropped


LEMMA GenerateIs ==
    \A s, d, v : Generate(s, d, v) =
        LET t == CheckFailed(s, d) IN Enqueue(SaveRow(t, d, v), d, t.objs[d], v, v)
BY DEF Generate, SaveRow

LEMMA IssueIs ==
    \A s, u, v : Issue(s, u, v) =
        LET t == CheckFailed(s, DetailOf[u])
        IN  Generate(Enqueue(SaveRow(t, u, v), u, t.objs[u], v, v), DetailOf[u], v)
BY DEF Issue, SaveRow

LEMMA RevokeIs ==
    \A s, u : Revoke(s, u) = DropRow(Enqueue(s, u, s.objs[u], None, None), u)
BY DEF Revoke, DropRow

\* Saving a row and queueing its object.
Saving(t, u, v) == Enqueue(SaveRow(t, u, v), u, t.objs[u], v, v)

LEMMA SavingType ==
    ASSUME NEW t \in Work, NEW u \in URI, NEW v \in Version
    PROVE  Saving(t, u, v) \in Work /\ Saving(t, u, v).objs = [t.objs EXCEPT ![u] = v]
<1> DEFINE r == SaveRow(t, u, v)
<1>1. r \in Work /\ r.objs = [t.objs EXCEPT ![u] = v]
  <2>1. IsSaved(t, u, v, r)
    BY RowFacts
  <2> QED BY <2>1 DEF IsSaved
<1>2. t.objs[u] \in Values /\ v \in Values
  BY DEF Work, Values
<1> HIDE DEF r
<1>3. EnqueueIs(r, u, t.objs[u], v, v, Enqueue(r, u, t.objs[u], v, v))
  BY <1>1, <1>2, EnqueueFacts
<1> QED BY <1>1, <1>3 DEF EnqueueIs, Saving, r

LEMMA GenerateType ==
    ASSUME NEW s \in Work, NEW d \in Detail, NEW v \in Version
    PROVE  Generate(s, d, v) \in Work /\ Generate(s, d, v).objs = [s.objs EXCEPT ![d] = v]
<1> DEFINE t == CheckFailed(s, d)
<1>1. t \in Work /\ t.objs = s.objs
  BY CheckFailedType
<1> HIDE DEF t
<1>2. Saving(t, d, v) \in Work /\ Saving(t, d, v).objs = [s.objs EXCEPT ![d] = v]
  BY <1>1, SavingType, Constants
<1>3. Generate(s, d, v) = Saving(t, d, v)
  BY GenerateIs DEF Saving, t
<1> QED BY <1>2, <1>3

LEMMA IssueType ==
    ASSUME NEW s \in Work, NEW u \in Product, NEW v \in Version
    PROVE  /\ Issue(s, u, v) \in Work
           /\ Issue(s, u, v).objs = [s.objs EXCEPT ![u] = v, ![DetailOf[u]] = v]
<1> DEFINE t == CheckFailed(s, DetailOf[u])
           r == Saving(t, u, v)
<1>1. DetailOf[u] \in Detail /\ u \in URI
  BY Constants
<1>2. t \in Work /\ t.objs = s.objs
  BY <1>1, CheckFailedType
<1> HIDE DEF t
<1>3. r \in Work /\ r.objs = [s.objs EXCEPT ![u] = v]
  BY <1>1, <1>2, SavingType
<1> HIDE DEF r
<1>4. Generate(r, DetailOf[u], v) \in Work
      /\ Generate(r, DetailOf[u], v).objs = [r.objs EXCEPT ![DetailOf[u]] = v]
  BY <1>1, <1>3, GenerateType
<1>5. Issue(s, u, v) = Generate(r, DetailOf[u], v)
  BY IssueIs DEF Saving, t, r
<1> QED BY <1>3, <1>4, <1>5

LEMMA RevokeType ==
    ASSUME NEW s \in Work, NEW u \in Product
    PROVE  Revoke(s, u) \in Work /\ Revoke(s, u).objs = [s.objs EXCEPT ![u] = None]
<1> DEFINE t == Enqueue(s, u, s.objs[u], None, None)
<1>1. u \in URI /\ s.objs[u] \in Values /\ None \in Values
  BY Constants DEF Work, Values
<1>2. EnqueueIs(s, u, s.objs[u], None, None, t)
  BY <1>1, EnqueueFacts
<1> HIDE DEF t
<1>3. t \in Work /\ t.objs = s.objs
  BY <1>2 DEF EnqueueIs
<1>4. IsDropped(t, u, DropRow(t, u))
  BY <1>1, <1>3, RowFacts
<1>5. DropRow(t, u) \in Work /\ DropRow(t, u).objs = [s.objs EXCEPT ![u] = None]
  BY <1>3, <1>4 DEF IsDropped
<1>6. Revoke(s, u) = DropRow(t, u)
  BY RevokeIs DEF t
<1> QED BY <1>5, <1>6

LEMMA RetryType ==
    ASSUME NEW s \in Work
    PROVE  LET t == FoldLeft(CheckFailed, s, Listed)
           IN  t \in Work /\ t.objs = s.objs /\ t.stamp = s.stamp
<1> DEFINE Same == {t \in Work : t.objs = s.objs /\ t.stamp = s.stamp}
<1>1. s \in Same
  OBVIOUS
<1>2. ASSUME NEW t \in Same, NEW i \in DOMAIN Listed PROVE CheckFailed(t, Listed[i]) \in Same
  <2>1. Listed[i] \in Detail /\ t \in Work
    BY Constants
  <2> QED BY <2>1, CheckFailedType
<1> HIDE DEF Same
<1>3. Checks!Fold(s, Listed) \in Same
  BY <1>1, <1>2, Constants, Checks!FoldInvariant
<1>4. FoldLeft(CheckFailed, s, Listed) \in Same
  BY <1>3, ChecksFold
<1> QED BY <1>4 DEF Same


-----------------------------------------------------------------------------
(***************************************************************************)
(* The operations keep what has been queued in order.                      *)
(***************************************************************************)

\* A PDU that publishes v at u takes the place of what Q had for u.
Published(Q, o, st, sts, h, T, db, u, hash, v) ==
    LET R == {e \in Q : e.uri # u} \cup {[uri |-> u, hash |-> hash, new |-> v]}
        objects == [o EXCEPT ![u] = v]
        hs == [h EXCEPT ![u] = v]
    IN  /\ Kept(Q, o, h) => Kept(R, objects, hs)
        /\ Fresh(Q, h, T) /\ (u \in Product \ T => hash = None) => Fresh(R, hs, T)
        /\ Exact(Q, o, st, h, db) /\ hash = db[u] => Exact(R, objects, sts, hs, db)

LEMMA PublishMore ==
    ASSUME NEW Q \in SUBSET PDU, NEW o \in [URI -> Values], NEW h \in [URI -> Values],
           NEW st, NEW sts, NEW T, NEW db,
           NEW u \in URI, NEW hash \in Values, NEW v \in Version,
           \A x \in URI : x # u => sts[x] = st[x]
    PROVE  Published(Q, o, st, sts, h, T, db, u, hash, v)
<1> DEFINE e0 == [uri |-> u, hash |-> hash, new |-> v]
           R == {e \in Q : e.uri # u} \cup {e0}
           objects == [o EXCEPT ![u] = v]
           hs == [h EXCEPT ![u] = v]
<1>1. e0.uri = u /\ e0.hash = hash /\ e0.new = v /\ v # None
  BY Constants
<1>2. /\ objects[u] = v /\ hs[u] = v
      /\ \A x \in URI : x # u => objects[x] = o[x] /\ hs[x] = h[x]
  OBVIOUS
<1>3. \A e \in Q : e.uri \in URI
  BY DEF PDU
<1>4. \A e : e \in R <=> (e \in Q /\ e.uri # u) \/ e = e0
  OBVIOUS
<1>5. \A x : Has(R, x) <=> x = u \/ Has(Q, x)
  BY <1>1, <1>4 DEF Has
<1> HIDE DEF R, e0, objects, hs
<1>6. Kept(Q, o, h) => Kept(R, objects, hs)
  BY <1>1, <1>2, <1>3, <1>4 DEF Kept
<1>7. Fresh(Q, h, T) /\ (u \in Product \ T => hash = None) => Fresh(R, hs, T)
  BY <1>1, <1>2, <1>4, <1>5, Constants DEF Fresh
<1>8. ASSUME Exact(Q, o, st, h, db), hash = db[u]
      PROVE  Exact(R, objects, sts, hs, db)
  BY <1>1, <1>2, <1>3, <1>4, <1>5, <1>8 DEF Exact
<1> QED BY <1>6, <1>7, <1>8 DEF R, e0, objects, hs, Published

\* A withdrawal at u, which is not sent if pubd does not have the object.
Withdrawn(Q, o, st, sts, h, T, db, u, hash) ==
    LET R == {e \in Q : e.uri # u} \cup
                (IF hash = None THEN {} ELSE {[uri |-> u, hash |-> hash, new |-> None]})
        objects == [o EXCEPT ![u] = None]
    IN  /\ Kept(Q, o, h) /\ (hash # None => h[u] = None) => Kept(R, objects, h)
        /\ Fresh(Q, h, T) => Fresh(R, h, T \cup {u})
        /\ Exact(Q, o, st, h, db) /\ hash = db[u] => Exact(R, objects, sts, h, db)

LEMMA WithdrawMore ==
    ASSUME NEW Q \in SUBSET PDU, NEW o \in [URI -> Values], NEW h \in [URI -> Values],
           NEW st, NEW sts, NEW T, NEW db, NEW u \in URI, NEW hash \in Values,
           \A x \in URI : x # u => sts[x] = st[x], sts[u] = "clear"
    PROVE  Withdrawn(Q, o, st, sts, h, T, db, u, hash)
<1> DEFINE e0 == [uri |-> u, hash |-> hash, new |-> None]
           R == {e \in Q : e.uri # u} \cup (IF hash = None THEN {} ELSE {e0})
           objects == [o EXCEPT ![u] = None]
<1>1. e0.uri = u /\ e0.hash = hash /\ e0.new = None
  OBVIOUS
<1>2. objects[u] = None /\ \A x \in URI : x # u => objects[x] = o[x]
  OBVIOUS
<1>3. \A e \in Q : e.uri \in URI
  BY DEF PDU
<1>4. \A e : e \in R <=> (e \in Q /\ e.uri # u) \/ (hash # None /\ e = e0)
  OBVIOUS
<1>5. \A x : Has(R, x) <=> (x = u /\ hash # None) \/ (x # u /\ Has(Q, x))
  BY <1>1, <1>4 DEF Has
<1> HIDE DEF R, e0, objects
<1>6. Kept(Q, o, h) /\ (hash # None => h[u] = None) => Kept(R, objects, h)
  BY <1>1, <1>2, <1>3, <1>4 DEF Kept
<1>7. Fresh(Q, h, T) => Fresh(R, h, T \cup {u})
  BY <1>1, <1>4, <1>5 DEF Fresh
<1>8. ASSUME Exact(Q, o, st, h, db), hash = db[u]
      PROVE  Exact(R, objects, sts, h, db)
  <2>1. ASSUME NEW e \in R PROVE e.hash = db[e.uri]
    BY <1>1, <1>4, <1>8 DEF Exact
  <2>2. ASSUME NEW x \in URI
        PROVE  /\ ~ Has(R, x) => objects[x] = db[x]
               /\ sts[x] # "clear" => Has(R, x) /\ h[x] # None /\ objects[x] # None
    BY <1>2, <1>5, <1>8 DEF Exact
  <2> QED BY <2>1, <2>2 DEF Exact
<1> QED BY <1>6, <1>7, <1>8 DEF R, e0, objects, Withdrawn


LEMMA GoodParts ==
    ASSUME NEW s, NEW T, Good(s, T)
    PROVE  /\ s \in Work /\ Range(s.pdus) \in SUBSET PDU
           /\ s.objs \in [URI -> Values] /\ s.handlers \in [URI -> Values]
           /\ Distinct(s.pdus)
           /\ Kept(Range(s.pdus), s.objs, s.handlers)
           /\ Fresh(Range(s.pdus), s.handlers, T)
BY DEF Good, Work, Range

\* From s, t is in order again, with the certificates in T treated.
Keeps(s, t, T, db) == Good(t, T) /\ (ExactFor(s, db) => ExactFor(t, db))

\* Queueing a new object, or the same once more, with its instance's handler.
LEMMA PublishKeeps ==
    ASSUME NEW s, NEW r, NEW T, NEW db, Good(s, T), r \in Work,
           NEW u \in URI, NEW v \in Version, NEW old \in Values,
           r.pdus = s.pdus, r.handlers = s.handlers, r.objs = [s.objs EXCEPT ![u] = v],
           \A x \in URI : x # u => r.stamp[x] = s.stamp[x],
           u \in Product \ T => old = None,
           ExactFor(s, db) => old = db[u] \/ Has(Range(s.pdus), u)
    PROVE  Keeps(s, Enqueue(r, u, old, v, v), T, db)
<1> DEFINE t == Enqueue(r, u, old, v, v)
           Q == Range(s.pdus)
           h == s.handlers
           R(hash) == {e \in Q : e.uri # u} \cup {[uri |-> u, hash |-> hash, new |-> v]}
           hs == [h EXCEPT ![u] = v]
<1>1. /\ s \in Work /\ Q \in SUBSET PDU /\ s.objs \in [URI -> Values] /\ h \in [URI -> Values]
      /\ Distinct(s.pdus) /\ Kept(Q, s.objs, h) /\ Fresh(Q, h, T)
  BY GoodParts
<1>2. v \in Values /\ v # None /\ None \in Values
  BY Constants
<1>3. EnqueueIs(r, u, old, v, v, t)
  BY <1>2, EnqueueFacts
<1> HIDE DEF t
<1>4. t \in Work /\ t.objs = r.objs /\ t.stamp = r.stamp /\ Distinct(t.pdus)
  BY <1>1, <1>3 DEF EnqueueIs
<1>5. PICK hash \in Values :
          /\ ~ Has(Q, u) => hash = old
          /\ \A e \in Q : e.uri = u => e.hash = hash
          /\ Becomes(r, t, u, hash, v, v)
  BY <1>1, <1>3 DEF EnqueueIs
<1>6. Range(t.pdus) = R(hash) /\ t.handlers = hs
  BY <1>2, <1>5 DEF Becomes
<1>7. u \in Product \ T => hash = None
  BY <1>1, <1>5 DEF Fresh, Has
<1>8. ExactFor(s, db) => hash = db[u]
  BY <1>5 DEF ExactFor, Exact, Has
<1> HIDE DEF Q, h
<1>9. /\ Kept(R(hash), r.objs, hs) /\ Fresh(R(hash), hs, T)
      /\ Exact(Q, s.objs, s.stamp, h, db) /\ hash = db[u]
           => Exact(R(hash), r.objs, r.stamp, hs, db)
  <2>1. Published(Q, s.objs, s.stamp, r.stamp, h, T, db, u, hash, v)
    BY <1>1, PublishMore
  <2> QED BY <2>1, <1>1, <1>7 DEF Published
<1> HIDE DEF R, hs
<1>10. Good(t, T)
  BY <1>4, <1>6, <1>9 DEF Good
<1>11. ExactFor(s, db) => ExactFor(t, db)
  BY <1>4, <1>6, <1>8, <1>9 DEF ExactFor, Q, h
<1> QED BY <1>10, <1>11 DEF t, Keeps


LEMMA AgainKeeps ==
    ASSUME NEW s, NEW T, NEW db, Good(s, T), NEW u \in URI, Stale(s, u)
    PROVE  Keeps(s, Again(s, u), T, db)
<1>1. s \in Work /\ s.objs \in [URI -> Values]
  BY GoodParts
<1>2. s.objs[u] \in Version /\ None \in Values /\ s.stamp[u] # "clear"
  BY <1>1, Constants DEF Stale
<1>3. s.objs = [s.objs EXCEPT ![u] = s.objs[u]]
  BY <1>1
<1>4. ExactFor(s, db) => None = db[u] \/ Has(Range(s.pdus), u)
  BY <1>2 DEF ExactFor, Exact
<1> DEFINE v == s.objs[u]
<1>5. v \in Version /\ s.objs = [s.objs EXCEPT ![u] = v] /\ Again(s, u) = Enqueue(s, u, None, v, v)
  BY <1>2, <1>3 DEF Again
<1> HIDE DEF v
<1>6. Keeps(s, Enqueue(s, u, None, v, v), T, db)
  BY <1>1, <1>2, <1>4, <1>5, PublishKeeps
<1> QED BY <1>5, <1>6

LEMMA CheckFailedKeeps ==
    ASSUME NEW s, NEW T, NEW db, Good(s, T), NEW d \in Detail
    PROVE  Keeps(s, CheckFailed(s, d), T, db)
<1> DEFINE Same == {t \in Work : t.objs = s.objs /\ t.stamp = s.stamp /\ Keeps(s, t, T, db)}
           St == {u \in URI : Stale(s, u)}
           q == StaleOf(s, d)
<1>1. q \in Seq(St)
  BY StaleOfType
<1>2. ASSUME NEW t \in Same, NEW i \in DOMAIN q PROVE Again(t, q[i]) \in Same
  <2>1. q[i] \in URI /\ Stale(t, q[i]) /\ t \in Work /\ t.objs[q[i]] \in Values
    <3>1. q[i] \in St
      BY <1>1
    <3>2. q[i] \in URI /\ Stale(t, q[i])
      BY <3>1 DEF Stale
    <3> QED BY <3>2 DEF Work
  <2>2. None \in Values /\ Keeps(s, t, T, db)
    BY DEF Values
  <2> HIDE DEF q
  <2>3. EnqueueIs(t, q[i], None, t.objs[q[i]], t.objs[q[i]], Again(t, q[i]))
    BY <2>1, <2>2, EnqueueFacts DEF Again
  <2>4. /\ Again(t, q[i]) \in Work /\ Again(t, q[i]).objs = s.objs
        /\ Again(t, q[i]).stamp = s.stamp
    BY <2>3 DEF EnqueueIs
  <2>5. Keeps(t, Again(t, q[i]), T, db)
    BY <2>1, <2>2, AgainKeeps DEF Keeps
  <2>6. Keeps(s, Again(t, q[i]), T, db)
    BY <2>2, <2>5 DEF Keeps
  <2> QED BY <2>4, <2>6
<1>3. s \in Same
  BY DEF Keeps, Good
<1> HIDE DEF Same, q, St
<1>4. Retries!Fold(s, q) \in Same
  BY <1>1, <1>2, <1>3, Retries!FoldInvariant
<1>5. CheckFailed(s, d) \in Same
  BY <1>4, RetriesFold DEF q
<1> QED BY <1>5 DEF Same

LEMMA SavingKeeps ==
    ASSUME NEW s, NEW T, NEW db, Good(s, T), NEW v \in Version,
           NEW u \in URI, u \notin Product \ T
    PROVE  Keeps(s, Saving(s, u, v), T, db)
<1> DEFINE r == SaveRow(s, u, v)
           old == s.objs[u]
<1>1. s \in Work /\ s.objs \in [URI -> Values] /\ s.stamp \in [URI -> {"clear", "recent", "stale"}]
  BY GoodParts DEF Work
<1>2. IsSaved(s, u, v, r)
  BY <1>1, RowFacts
<1> HIDE DEF r
<1>3. r \in Work /\ r.pdus = s.pdus /\ r.handlers = s.handlers /\ r.objs = [s.objs EXCEPT ![u] = v]
  BY <1>2 DEF IsSaved
<1>4. \A x \in URI : x # u => r.stamp[x] = s.stamp[x]
  BY <1>1, <1>2 DEF IsSaved
<1>5. old \in Values
  BY <1>1
<1>6. ExactFor(s, db) => old = db[u] \/ Has(Range(s.pdus), u)
  BY DEF ExactFor, Exact
<1> HIDE DEF old
<1>7. Keeps(s, Enqueue(r, u, old, v, v), T, db)
  BY <1>3, <1>4, <1>5, <1>6, PublishKeeps
<1> QED BY <1>7 DEF Saving, r, old

LEMMA GenerateKeeps ==
    ASSUME NEW s, NEW T, NEW db, Good(s, T), NEW v \in Version, NEW d \in Detail
    PROVE  Keeps(s, Generate(s, d, v), T, db)
<1> DEFINE t == CheckFailed(s, d)
<1>1. Keeps(s, t, T, db)
  BY CheckFailedKeeps
<1>2. d \in URI /\ d \notin Product \ T
  BY Constants
<1>3. Generate(s, d, v) = Saving(t, d, v)
  BY GenerateIs DEF Saving
<1> HIDE DEF t
<1>4. Keeps(t, Saving(t, d, v), T, db)
  BY <1>1, <1>2, SavingKeeps DEF Keeps
<1> QED BY <1>1, <1>3, <1>4 DEF Keeps

LEMMA IssueKeeps ==
    ASSUME NEW s, NEW T, NEW db, Good(s, T), NEW v \in Version, NEW u \in Product \cap T
    PROVE  Keeps(s, Issue(s, u, v), T, db)
<1> DEFINE t == CheckFailed(s, DetailOf[u])
           r == Saving(t, u, v)
<1>1. DetailOf[u] \in Detail /\ u \in URI /\ u \notin Product \ T
  BY Constants
<1>2. Keeps(s, t, T, db)
  BY <1>1, CheckFailedKeeps
<1>3. Issue(s, u, v) = Generate(r, DetailOf[u], v)
  BY IssueIs DEF Saving
<1> HIDE DEF t
<1>4. Keeps(t, r, T, db)
  BY <1>1, <1>2, SavingKeeps DEF Keeps
<1> HIDE DEF r
<1>5. Keeps(r, Generate(r, DetailOf[u], v), T, db)
  BY <1>1, <1>4, GenerateKeeps DEF Keeps
<1> QED BY <1>2, <1>3, <1>4, <1>5 DEF Keeps

\* A certificate that has not been treated is revoked.
LEMMA RevokeKeeps ==
    ASSUME NEW s, NEW T, NEW db, Good(s, T), NEW u \in Product \ T, s.objs[u] # None
    PROVE  Keeps(s, Revoke(s, u), T \cup {u}, db)
<1> DEFINE t == Enqueue(s, u, s.objs[u], None, None)
           r == DropRow(t, u)
           Q == Range(s.pdus)
           h == s.handlers
           old == s.objs[u]
           R(hash) == {e \in Q : e.uri # u} \cup
                       (IF hash = None THEN {} ELSE {[uri |-> u, hash |-> hash, new |-> None]})
<1>1. /\ s \in Work /\ Q \in SUBSET PDU /\ s.objs \in [URI -> Values] /\ h \in [URI -> Values]
      /\ Distinct(s.pdus) /\ Kept(Q, s.objs, h) /\ Fresh(Q, h, T)
      /\ u \in URI /\ old \in Values /\ None \in Values
      /\ s.stamp \in [URI -> {"clear", "recent", "stale"}]
  <2>1. /\ s \in Work /\ Q \in SUBSET PDU /\ s.objs \in [URI -> Values] /\ h \in [URI -> Values]
        /\ Distinct(s.pdus) /\ Kept(Q, s.objs, h) /\ Fresh(Q, h, T)
    BY GoodParts
  <2>2. u \in URI /\ None \in Values
    BY Constants
  <2>3. s.stamp \in [URI -> {"clear", "recent", "stale"}]
    BY <2>1 DEF Work
  <2>4. old \in Values
    BY <2>1, <2>2
  <2> QED BY <2>1, <2>2, <2>3, <2>4
<1>2. EnqueueIs(s, u, old, None, None, t)
  BY <1>1, EnqueueFacts
<1> HIDE DEF t
<1>3. t \in Work /\ t.objs = s.objs /\ t.stamp = s.stamp /\ Distinct(t.pdus)
  BY <1>1, <1>2 DEF EnqueueIs
<1>4. PICK hash \in Values :
          /\ ~ Has(Q, u) => hash = old
          /\ \A e \in Q : e.uri = u => e.hash = hash
          /\ Becomes(s, t, u, hash, None, None)
  BY <1>1, <1>2 DEF EnqueueIs
<1>5. Range(t.pdus) = R(hash) /\ t.handlers = h
  BY <1>4 DEF Becomes
<1>6. IsDropped(t, u, r)
  BY <1>1, <1>3, RowFacts
<1> HIDE DEF r
<1>7. /\ r \in Work /\ r.objs = [s.objs EXCEPT ![u] = None]
      /\ r.stamp = [s.stamp EXCEPT ![u] = "clear"]
      /\ r.pdus = t.pdus /\ r.handlers = h
  BY <1>3, <1>5, <1>6 DEF IsDropped
<1>8. (\A x \in URI : x # u => r.stamp[x] = s.stamp[x]) /\ r.stamp[u] = "clear"
  BY <1>1, <1>7
<1>9. hash # None => h[u] = None
  BY <1>1, <1>4 DEF Fresh, Has
<1>10. ExactFor(s, db) => hash = db[u]
  BY <1>1, <1>4 DEF ExactFor, Exact, Has
<1>11. Withdrawn(Q, s.objs, s.stamp, r.stamp, h, T, db, u, hash)
  <2> HIDE DEF Q, h, old
  <2> QED BY <1>1, <1>8, WithdrawMore
<1>12. /\ Kept(R(hash), r.objs, h) /\ Fresh(R(hash), h, T \cup {u})
       /\ Exact(Q, s.objs, s.stamp, h, db) /\ hash = db[u]
            => Exact(R(hash), r.objs, r.stamp, h, db)
  BY <1>1, <1>7, <1>9, <1>11 DEF Withdrawn
<1> HIDE DEF R
<1>13. Good(r, T \cup {u})
  BY <1>3, <1>5, <1>7, <1>12 DEF Good
<1>14. ExactFor(s, db) => ExactFor(r, db)
  BY <1>5, <1>7, <1>10, <1>12 DEF ExactFor
<1> QED BY <1>13, <1>14, RevokeIs DEF Keeps, r, t

\* Treating one more is allowed.
LEMMA GoodWider ==
    ASSUME NEW s, NEW T, NEW U, T \subseteq U, Good(s, T)
    PROVE  Good(s, U)
BY DEF Good, Fresh


-----------------------------------------------------------------------------
(***************************************************************************)
(* The line for the lock.                                                  *)
(***************************************************************************)
Places == {"idle", "queue", "ready", "sent", "world", "list", "resync", "resent"}
Away == {"idle", "queue"}
Served == {"sent", "resent"}

\* Those who wait, each once; the one who is being served is the first.
LineOK(l, c) ==
    /\ c \in [Proc -> Places]
    /\ l \in Seq(Proc) /\ IsInjective(l)
    /\ Range(l) = {p \in Proc : c[p] \notin Away}
    /\ \A p \in Proc : c[p] \in Served => l # << >> /\ Head(l) = p

LEMMA Joining ==
    ASSUME NEW l, NEW c, LineOK(l, c), NEW p \in Proc, c[p] \in Away,
           NEW x \in Places \ (Away \cup Served)
    PROVE  LineOK(Append(l, p), [c EXCEPT ![p] = x])
<1> DEFINE m == Append(l, p)
           d == [c EXCEPT ![p] = x]
<1>1. /\ l \in Seq(Proc) /\ Len(l) \in Nat /\ DOMAIN l = 1 .. Len(l) /\ c \in [Proc -> Places]
      /\ \A i \in 1 .. Len(l) : l[i] \in Proc
  BY DEF LineOK
<1>2. /\ m \in Seq(Proc) /\ DOMAIN m = 1 .. Len(l) + 1 /\ Len(m) = Len(l) + 1 /\ m[Len(l) + 1] = p
      /\ \A i \in 1 .. Len(l) : m[i] = l[i]
  BY <1>1
<1>3. d \in [Proc -> Places] /\ d[p] = x /\ \A q \in Proc : q # p => d[q] = c[q]
  BY <1>1
<1>4. \A i \in 1 .. Len(l) : l[i] # p
  BY <1>1 DEF LineOK, Range
<1>5. \A i, j \in 1 .. Len(l) : l[i] = l[j] => i = j
  BY <1>1 DEF LineOK, IsInjective
<1> HIDE DEF m, d
<1>6. IsInjective(m)
  BY <1>1, <1>2, <1>4, <1>5 DEF IsInjective
<1>7. Range(m) = Range(l) \cup {p}
  BY <1>1, <1>2 DEF Range
<1>8. Range(m) = {q \in Proc : d[q] \notin Away}
  BY <1>3, <1>7 DEF LineOK
<1>9. ASSUME NEW q \in Proc, d[q] \in Served PROVE m # << >> /\ Head(m) = q
  <2>1. c[q] \in Served
    BY <1>3, <1>9
  <2>2. l # << >> /\ Head(l) = q
    BY <2>1 DEF LineOK
  <2>3. 1 \in 1 .. Len(l) /\ l[1] = q
    BY <1>1, <2>2
  <2> QED BY <1>2, <2>3
<1> QED BY <1>2, <1>3, <1>6, <1>8, <1>9 DEF LineOK, m, d

LEMMA Leaving ==
    ASSUME NEW l, NEW c, LineOK(l, c), NEW p \in Proc
    PROVE  LineOK(RemoveFirst(l, p), [c EXCEPT ![p] = "idle"])
<1> DEFINE m == RemoveFirst(l, p)
           d == [c EXCEPT ![p] = "idle"]
           I == {i \in 1 .. Len(l) : l[i] = p}
<1>1. /\ l \in Seq(Proc) /\ Len(l) \in Nat /\ DOMAIN l = 1 .. Len(l) /\ c \in [Proc -> Places]
      /\ \A i \in 1 .. Len(l) : l[i] \in Proc
  BY DEF LineOK
<1>2. \A i, j \in 1 .. Len(l) : l[i] = l[j] => i = j
  BY <1>1 DEF LineOK, IsInjective
<1>3. d \in [Proc -> Places] /\ d[p] = "idle" /\ \A q \in Proc : q # p => d[q] = c[q]
  BY <1>1 DEF Places
<1> HIDE DEF d
<1>4. CASE I = {}
  <2>1. m = l
    BY <1>4 DEF RemoveFirst
  <2>2. p \notin Range(l)
    BY <1>1, <1>4 DEF Range
  <2>3. Range(l) = {q \in Proc : d[q] \notin Away}
    BY <1>3, <2>2 DEF LineOK, Away
  <2>4. \A q \in Proc : d[q] \in Served => l # << >> /\ Head(l) = q
    BY <1>3 DEF LineOK, Served
  <2> QED BY <1>3, <2>1, <2>3, <2>4 DEF LineOK, d
<1>5. CASE I # {}
  <2> DEFINE k == Min(I)
  <2>1. k \in I
    <3>1. I \in SUBSET Nat
      BY <1>1
    <3> HIDE DEF I
    <3> QED BY <3>1, <1>5, MinIsLeast
  <2>2. \E i \in 1 .. Len(l) : l[i] = p
    BY <1>5
  <2>3. SelectInSeq(l, LAMBDA v : v = p) = k
    BY <1>5 DEF SelectInSeq
  <2>4. m = RemoveAt(l, k)
    BY <2>2, <2>3 DEF RemoveFirst
  <2>5. k \in DOMAIN l /\ l[k] = p
    BY <2>1, <1>1
  <2> HIDE DEF k, I, m
  <2>6. /\ m \in Seq(Proc) /\ Len(m) = Len(l) - 1
        /\ \A j \in 1 .. Len(l) - 1 : m[j] = l[IF j < k THEN j ELSE j + 1]
    BY <2>4, <2>5, <1>1, RemoveAtFacts
  <2>7. /\ \A j \in DOMAIN m : \E i \in DOMAIN l \ {k} : m[j] = l[i]
        /\ \A i \in DOMAIN l \ {k} : \E j \in DOMAIN m : m[j] = l[i]
        /\ \A f, g \in DOMAIN m : f # g =>
              \E i, j \in DOMAIN l : i # j /\ m[f] = l[i] /\ m[g] = l[j]
    <3>1. AllBut(l, k, m)
      BY <2>4, <2>5, <1>1, RemoveAtRange
    <3> QED BY <3>1 DEF AllBut
  <2>8. IsInjective(m)
    BY <2>7, <1>1, <1>2 DEF IsInjective
  <2>9. Range(m) = Range(l) \ {p}
    BY <2>5, <2>7, <1>1, <1>2 DEF Range
  <2>10. Range(m) = {q \in Proc : d[q] \notin Away}
    BY <2>9, <1>3 DEF LineOK, Away
  <2>11. ASSUME NEW q \in Proc, d[q] \in Served PROVE m # << >> /\ Head(m) = q
    <3>1. c[q] \in Served /\ q # p
      BY <1>3, <2>11 DEF Served
    <3>2. l # << >> /\ Head(l) = q
      BY <3>1 DEF LineOK
    <3>3. 1 \in 1 .. Len(l) /\ l[1] = q
      BY <1>1, <3>2
    <3>4. k # 1 /\ k \in 1 .. Len(l)
      BY <2>5, <3>1, <3>3, <1>1
    <3>5. 1 < k /\ Len(l) - 1 >= 1
      BY <3>4, <1>1
    <3>6. m[1] = q /\ Len(m) >= 1
      BY <2>6, <3>3, <3>5, <1>1
    <3> QED BY <2>6, <3>6
  <2> QED BY <1>3, <2>6, <2>8, <2>10, <2>11 DEF LineOK, d, m
<1> QED BY <1>4, <1>5

LEMMA BackInLine ==
    ASSUME NEW l, NEW c, LineOK(l, c), NEW p \in Proc, l # << >>, Head(l) = p,
           NEW x \in Places \ (Away \cup Served)
    PROVE  LineOK(Append(Tail(l), p), [c EXCEPT ![p] = x])
<1> DEFINE m == Append(Tail(l), p)
           d == [c EXCEPT ![p] = x]
           n == Len(l)
<1>1. /\ l \in Seq(Proc) /\ n = Len(l) /\ n \in Nat /\ n >= 1 /\ DOMAIN l = 1 .. n /\ c \in [Proc -> Places]
      /\ \A i \in 1 .. n : l[i] \in Proc
      /\ l[1] = p
  BY DEF LineOK
<1>2. \A i, j \in 1 .. n : l[i] = l[j] => i = j
  BY <1>1 DEF LineOK, IsInjective
<1>3. /\ Tail(l) \in Seq(Proc) /\ Len(Tail(l)) = n - 1
      /\ \A i \in 1 .. n - 1 : Tail(l)[i] = l[i + 1]
  BY <1>1
<1>4. /\ m \in Seq(Proc) /\ Len(m) = n /\ DOMAIN m = 1 .. n /\ m[n] = p
      /\ \A i \in 1 .. n - 1 : m[i] = l[i + 1]
  BY <1>1, <1>3
<1>5. d \in [Proc -> Places] /\ d[p] = x /\ \A q \in Proc : q # p => d[q] = c[q]
  BY <1>1
<1> HIDE DEF m, d, n
<1>6. IsInjective(m)
  <2> DEFINE at(i) == IF i = n THEN 1 ELSE i + 1
  <2>1. \A i \in 1 .. n : at(i) \in 1 .. n /\ m[i] = l[at(i)]
    BY <1>1, <1>4
  <2>2. \A i, j \in 1 .. n : at(i) = at(j) => i = j
    BY <1>1
  <2> HIDE DEF at
  <2>3. \A i, j \in 1 .. n : m[i] = m[j] => i = j
    <3> TAKE i, j \in 1 .. n
    <3>1. l[at(i)] = l[at(j)] => at(i) = at(j)
      BY <2>1, <1>2
    <3> QED BY <3>1, <2>1, <2>2
  <2>4. DOMAIN m = 1 .. n
    BY <1>4
  <2> QED BY <2>3, <2>4 DEF IsInjective
<1>7. Range(m) = Range(l)
  <2>1. \A i \in 1 .. n : \E j \in 1 .. n : m[i] = l[j]
    <3> TAKE i \in 1 .. n
    <3>1. CASE i = n
      BY <3>1, <1>1, <1>4
    <3>2. CASE i # n
      <4>1. i + 1 \in 1 .. n /\ i \in 1 .. n - 1
        BY <3>2, <1>1
      <4> QED BY <4>1, <1>4
    <3> QED BY <3>1, <3>2
  <2>2. \A j \in 1 .. n : \E i \in 1 .. n : m[i] = l[j]
    <3> TAKE j \in 1 .. n
    <3>1. CASE j = 1
      BY <3>1, <1>1, <1>4
    <3>2. CASE j # 1
      <4>1. j - 1 \in 1 .. n - 1 /\ j - 1 \in 1 .. n /\ (j - 1) + 1 = j
        BY <3>2, <1>1
      <4>2. m[j - 1] = l[j]
        BY <4>1, <1>4
      <4> QED BY <4>1, <4>2
    <3> QED BY <3>1, <3>2
  <2>3. Range(m) \subseteq Range(l)
    <3>1. Range(m) = {m[i] : i \in 1 .. n} /\ \A j \in 1 .. n : l[j] \in Range(l)
      BY <1>1, <1>4 DEF Range
    <3> QED BY <2>1, <3>1
  <2>4. Range(l) \subseteq Range(m)
    <3>1. Range(l) = {l[j] : j \in 1 .. n} /\ \A i \in 1 .. n : m[i] \in Range(m)
      BY <1>1, <1>4 DEF Range
    <3> QED BY <2>2, <3>1
  <2> QED BY <2>3, <2>4
<1>8. p \in Range(l)
  BY <1>1 DEF Range
<1>9. Range(m) = {q \in Proc : d[q] \notin Away}
  BY <1>5, <1>7, <1>8 DEF LineOK
<1>10. \A q \in Proc : d[q] \notin Served
  BY <1>5 DEF LineOK
<1> QED BY <1>4, <1>5, <1>6, <1>9, <1>10 DEF LineOK, m, d

LEMMA Staying ==
    ASSUME NEW l, NEW c, LineOK(l, c), NEW p \in Proc, NEW x \in Places,
           c[p] \in Away <=> x \in Away,
           x \in Served => l # << >> /\ Head(l) = p
    PROVE  LineOK(l, [c EXCEPT ![p] = x])
<1> DEFINE d == [c EXCEPT ![p] = x]
<1>1. d \in [Proc -> Places] /\ d[p] = x /\ \A q \in Proc : q # p => d[q] = c[q]
  BY DEF LineOK
<1> HIDE DEF d
<1> QED BY <1>1 DEF LineOK, d


-----------------------------------------------------------------------------
(***************************************************************************)
(* Types, for any number of coroutines.                                    *)
(***************************************************************************)
RowsOK(o, st, db, ls, v) ==
    /\ o \in [URI -> Values] /\ st \in [URI -> {"clear", "recent", "stale"}]
    /\ db \in [URI -> Values]
    /\ ls \in Seq([Product -> Values]) /\ Len(ls) = v /\ v \in Version

Replies == [ok : Nat, error : {"none", "sync", "other"}]

CorosOK(c, q, h, t, r) ==
    /\ q \in [Proc -> Seq(PDU)]
    /\ h \in [Proc -> [URI -> Values]]
    /\ t \in [Proc -> SUBSET Product]
    /\ r \in [Proc -> Replies]
    /\ \A p \in Proc : r[p].ok <= Len(q[p]) /\ (c[p] \notin Served => r[p].ok = 0)

Types ==
    /\ RowsOK(objs, stamp, pubd, listing, version)
    /\ CorosOK(pc, queue, handlers, touched, reply)
    /\ LineOK(line, pc)
    /\ failures \in [Kind -> 0 .. MaxFailures]

LEMMA TypesImply == Types => TypeOK
<1> SUFFICES ASSUME Types PROVE TypeOK
  OBVIOUS
<1>1. /\ objs \in [URI -> Values] /\ stamp \in [URI -> {"clear", "recent", "stale"}]
      /\ pubd \in [URI -> Values] /\ version \in Version
      /\ handlers \in [Proc -> [URI -> Values]] /\ touched \in [Proc -> SUBSET Product]
      /\ failures \in [Kind -> 0 .. MaxFailures]
      /\ pc \in [Proc -> Places] /\ IsInjective(line)
      /\ Range(line) = {p \in Proc : pc[p] \notin Away}
  BY DEF Types, RowsOK, CorosOK, LineOK
<1>2. \A p \in Proc : Range(queue[p]) \subseteq PDU
  BY DEF Types, CorosOK, Range
<1>3. ASSUME NEW p \in Proc
      PROVE  reply[p].ok \in 0 .. Len(queue[p]) /\ reply[p].error \in {"none", "sync", "other"}
  <2>1. reply[p] \in Replies /\ reply[p].ok <= Len(queue[p]) /\ queue[p] \in Seq(PDU)
    BY DEF Types, CorosOK
  <2>2. Len(queue[p]) \in Nat
    BY <2>1
  <2> QED BY <2>1, <2>2 DEF Replies
<1>4. \A v \in 1 .. version : listing[v] \in [Product -> Values]
  BY DEF Types, RowsOK
<1> QED BY <1>1, <1>2, <1>3, <1>4 DEF TypeOK, Values, Places, Away

LEMMA InitTypes == Init => Types
<1> SUFFICES ASSUME Init PROVE Types
  OBVIOUS
<1>1. 1 \in Version /\ 1 \in Values /\ None \in Values
  BY Constants
<1>2. RowsOK(objs, stamp, pubd, listing, version)
  <2>1. listing = <<[u \in Product |-> None]>> /\ [u \in Product |-> None] \in [Product -> Values]
    BY <1>1 DEF Init
  <2>2. listing \in Seq([Product -> Values]) /\ Len(listing) = 1
    BY <2>1
  <2> QED BY <1>1, <2>2 DEF Init, RowsOK
<1>3. CorosOK(pc, queue, handlers, touched, reply)
  <2>1. NoHandlers \in [URI -> Values] /\ NoReply \in Replies
    BY <1>1 DEF NoHandlers, NoReply, Replies
  <2>2. reply = [p \in Proc |-> NoReply] /\ queue = [p \in Proc |-> << >>]
        /\ handlers = [p \in Proc |-> NoHandlers] /\ touched = [p \in Proc |-> {}]
    BY DEF Init
  <2>3. NoReply.ok <= Len(<< >>) /\ NoReply.ok = 0 /\ << >> \in Seq(PDU)
    BY DEF NoReply
  <2> HIDE DEF NoReply, NoHandlers
  <2> QED BY <2>1, <2>2, <2>3 DEF CorosOK
<1>4. LineOK(line, pc)
  <2>1. pc = [p \in Proc |-> "idle"] /\ line = << >>
    BY DEF Init
  <2>2. Range(line) = {} /\ IsInjective(line) /\ line \in Seq(Proc)
    BY <2>1 DEF Range, IsInjective
  <2> QED BY <2>1, <2>2 DEF LineOK, Places, Away, Served
<1>5. failures \in [Kind -> 0 .. MaxFailures]
  BY Constants DEF Init
<1> QED BY <1>2, <1>3, <1>4, <1>5 DEF Types

\* What the coroutine p reads.
LEMMA StateType ==
    ASSUME Types, NEW p \in Proc
    PROVE  /\ State(p) \in Work /\ State(p).objs = objs /\ State(p).stamp = stamp
           /\ State(p).pdus = queue[p] /\ State(p).handlers = handlers[p]
           /\ queue[p] \in Seq(PDU) /\ handlers[p] \in [URI -> Values]
<1>1. /\ objs \in [URI -> Values] /\ stamp \in [URI -> {"clear", "recent", "stale"}]
      /\ queue[p] \in Seq(PDU) /\ handlers[p] \in [URI -> Values]
  BY DEF Types, RowsOK, CorosOK
<1> QED BY <1>1 DEF State, Work

\* A change to what one coroutine has.
LEMMA CoroStep ==
    ASSUME CorosOK(pc, queue, handlers, touched, reply), NEW p \in Proc,
           NEW q \in Seq(PDU), NEW h \in [URI -> Values], NEW t \in SUBSET Product,
           NEW r \in Replies, r.ok <= Len(q), NEW x, x \notin Served => r.ok = 0,
           pc \in [Proc -> Places]
    PROVE  CorosOK([pc EXCEPT ![p] = x], [queue EXCEPT ![p] = q], [handlers EXCEPT ![p] = h],
                   [touched EXCEPT ![p] = t], [reply EXCEPT ![p] = r])
BY DEF CorosOK

LEMMA CoroSame ==
    ASSUME CorosOK(pc, queue, handlers, touched, reply), NEW p \in Proc
    PROVE  /\ queue[p] \in Seq(PDU) /\ queue = [queue EXCEPT ![p] = queue[p]]
           /\ handlers[p] \in [URI -> Values] /\ handlers = [handlers EXCEPT ![p] = handlers[p]]
           /\ touched[p] \in SUBSET Product /\ touched = [touched EXCEPT ![p] = touched[p]]
           /\ reply[p] \in Replies /\ reply = [reply EXCEPT ![p] = reply[p]]
           /\ reply[p].ok <= Len(queue[p]) /\ (pc[p] \notin Served => reply[p].ok = 0)
BY DEF CorosOK


LEMMA TypesParts ==
    ASSUME Types
    PROVE  /\ RowsOK(objs, stamp, pubd, listing, version)
           /\ CorosOK(pc, queue, handlers, touched, reply)
           /\ LineOK(line, pc) /\ pc \in [Proc -> Places] /\ line \in Seq(Proc)
           /\ failures \in [Kind -> 0 .. MaxFailures]
BY DEF Types, LineOK

LEMMA IdleTypes ==
    ASSUME Types, NEW p \in Proc, Idle(p)
    PROVE  CorosOK(pc, queue, handlers, touched, reply)' /\ LineOK(line, pc)'
<1>1. /\ NoHandlers \in [URI -> Values] /\ NoReply \in Replies
      /\ NoReply.ok = 0 /\ NoReply.ok <= Len(<< >>) /\ << >> \in Seq(PDU)
  BY Constants DEF NoHandlers, NoReply, Replies
<1>2. LineOK(RemoveFirst(line, p), [pc EXCEPT ![p] = "idle"])
  BY TypesParts, Leaving
<1>3. CorosOK([pc EXCEPT ![p] = "idle"], [queue EXCEPT ![p] = << >>],
              [handlers EXCEPT ![p] = NoHandlers], [touched EXCEPT ![p] = {}],
              [reply EXCEPT ![p] = NoReply])
  <2> HIDE DEF NoHandlers, NoReply
  <2> QED BY <1>1, TypesParts, CoroStep
<1> QED BY <1>2, <1>3 DEF Idle

LEMMA QueueingTypes ==
    ASSUME Types, NEW p \in Proc, NEW s \in Work, NEW uris \in SUBSET Product,
           NEW next \in {"queue", "ready", "world"}, pc[p] \in Away,
           Queueing(p, s, uris, next)
    PROVE  CorosOK(pc, queue, handlers, touched, reply)' /\ LineOK(line, pc)'
<1>1. /\ s.pdus \in Seq(PDU) /\ s.handlers \in [URI -> Values]
      /\ s.objs \in [URI -> Values] /\ s.stamp \in [URI -> {"clear", "recent", "stale"}]
  BY DEF Work
<1>2. /\ touched[p] \in SUBSET Product /\ reply[p] \in Replies
      /\ reply = [reply EXCEPT ![p] = reply[p]] /\ reply[p].ok = 0
  BY TypesParts, CoroSame DEF Away, Served
<1>3. touched[p] \cup uris \in SUBSET Product
  BY <1>2
<1>4. reply[p].ok <= Len(s.pdus)
  BY <1>1, <1>2
<1>5. CorosOK([pc EXCEPT ![p] = next], [queue EXCEPT ![p] = s.pdus],
              [handlers EXCEPT ![p] = s.handlers], [touched EXCEPT ![p] = touched[p] \cup uris],
              [reply EXCEPT ![p] = reply[p]])
  BY <1>1, <1>2, <1>3, <1>4, TypesParts, CoroStep
<1>6. CASE next = "queue"
  <2>1. LineOK(line, [pc EXCEPT ![p] = next])
    BY <1>6, TypesParts, Staying DEF Away, Served, Places
  <2> QED BY <1>2, <1>5, <1>6, <2>1 DEF Queueing
<1>7. CASE next # "queue"
  <2>1. next \in Places \ (Away \cup Served)
    BY <1>7 DEF Away, Served, Places
  <2>2. LineOK(Append(line, p), [pc EXCEPT ![p] = next])
    BY <2>1, TypesParts, Joining
  <2> QED BY <1>2, <1>5, <1>7, <2>2 DEF Queueing
<1> QED BY <1>6, <1>7


LEMMA ProductsType ==
    ASSUME NEW o \in [URI -> Values]
    PROVE  Products(o) \in [Product -> Values]
BY Constants DEF Products

LEMMA SigningTypes ==
    ASSUME Types, NEW p \in Proc, NEW s \in Work, NEW uris \in SUBSET Product,
           NEW next \in {"queue", "ready"}, Signing(p, s, uris, next)
    PROVE  Types'
<1>1. pc[p] \in Away /\ Queueing(p, s, uris, next)
  BY DEF Signing, Away
<1>2. CorosOK(pc, queue, handlers, touched, reply)' /\ LineOK(line, pc)'
  BY <1>1, QueueingTypes
<1>3. failures' \in [Kind -> 0 .. MaxFailures]
  BY <1>1, TypesParts DEF Queueing
<1>4. RowsOK(objs, stamp, pubd, listing, version)'
  <2>1. /\ s.objs \in [URI -> Values] /\ s.stamp \in [URI -> {"clear", "recent", "stale"}]
        /\ objs' = s.objs /\ stamp' = s.stamp /\ pubd' = pubd
    BY <1>1 DEF Work, Queueing
  <2>2. /\ pubd \in [URI -> Values] /\ listing \in Seq([Product -> Values])
        /\ Len(listing) = version /\ version \in Version
    BY TypesParts DEF RowsOK
  <2>3. Products(s.objs) \in [Product -> Values]
    BY <2>1, ProductsType
  <2>4. version' = version + 1 /\ version' \in Version
    BY <2>2, Constants DEF Signing
  <2> DEFINE new == Products(s.objs)
  <2>5. new \in [Product -> Values] /\ listing' = Append(listing, new)
    BY <2>3 DEF Signing
  <2> HIDE DEF new
  <2>6. listing' \in Seq([Product -> Values]) /\ Len(listing') = version'
    BY <2>2, <2>4, <2>5
  <2> QED BY <2>1, <2>2, <2>4, <2>6 DEF RowsOK
<1> QED BY <1>2, <1>3, <1>4 DEF Types

LEMMA NextVersion ==
    ASSUME Types, version < MaxVersion
    PROVE  version \in Version /\ version + 1 \in Version
BY TypesParts, Constants DEF RowsOK

LEMMA IssueCertTypes ==
    ASSUME Types, NEW p \in Proc, NEW u \in Product, NEW next \in {"queue", "ready"},
           IssueCert(p, u, next)
    PROVE  Types'
<1> DEFINE s == Issue(State(p), u, version + 1)
<1>1. version + 1 \in Version
  BY NextVersion DEF IssueCert, Signing
<1>2. s \in Work
  BY <1>1, StateType, IssueType
<1>3. Signing(p, s, {u}, next)
  BY DEF IssueCert
<1> HIDE DEF s
<1> QED BY <1>2, <1>3, SigningTypes

LEMMA RevokeCertTypes ==
    ASSUME Types, NEW p \in Proc, NEW u \in Product, NEW next \in {"queue", "ready"},
           RevokeCert(p, u, next)
    PROVE  Types'
<1> DEFINE r == Revoke(State(p), u)
           s == Generate(r, DetailOf[u], version + 1)
<1>1. version + 1 \in Version /\ DetailOf[u] \in Detail
  BY NextVersion, Constants DEF RevokeCert, Signing
<1>2. r \in Work
  BY StateType, RevokeType
<1>3. Signing(p, s, {u}, next)
  BY DEF RevokeCert
<1> HIDE DEF r
<1>4. s \in Work
  BY <1>1, <1>2, GenerateType
<1> HIDE DEF s
<1> QED BY <1>3, <1>4, SigningTypes

LEMMA RegenerateTypes ==
    ASSUME Types, NEW p \in Proc, NEW d \in Detail, Regenerate(p, d)
    PROVE  Types'
<1> DEFINE s == Generate(State(p), d, version + 1)
<1>1. version + 1 \in Version
  BY NextVersion DEF Regenerate, Signing
<1>2. s \in Work
  BY <1>1, StateType, GenerateType
<1>3. Signing(p, s, {}, "ready")
  BY DEF Regenerate
<1> HIDE DEF s
<1> QED BY <1>2, <1>3, SigningTypes

\* What RevokeAndIssue makes of the rows, and when.
AndIssued(p, u) == Issue(Generate(Revoke(State(p), u), DetailOf[u], version + 1), u, version + 2)

AndIssuing(p, u, next) ==
    /\ pc[p] \in Away /\ u \notin touched[p] /\ objs[u] # None
    /\ version + 1 < MaxVersion /\ version' = version + 2
    /\ Queueing(p, AndIssued(p, u), {u}, next)
    /\ listing' = listing \o <<[Products(objs) EXCEPT ![u] = None],
                               Products(AndIssued(p, u).objs)>>

LEMMA RevokeAndIssueIs ==
    ASSUME NEW p, NEW u, NEW next, RevokeAndIssue(p, u, next)
    PROVE  AndIssuing(p, u, next)
BY DEF RevokeAndIssue, AndIssuing, AndIssued, Away

LEMMA RevokedAndIssued ==
    ASSUME NEW s \in Work, NEW u \in Product, NEW v \in Version, NEW w \in Version
    PROVE  LET t == Issue(Generate(Revoke(s, u), DetailOf[u], v), u, w)
           IN  t \in Work /\ t.objs = [s.objs EXCEPT ![u] = w, ![DetailOf[u]] = w]
<1> DEFINE d == DetailOf[u]
           r == Revoke(s, u)
           g == Generate(r, d, v)
<1>1. d \in Detail /\ d \in URI /\ u \in URI /\ d # u /\ s.objs \in [URI -> Values]
  BY Constants DEF Work
<1>2. r \in Work /\ r.objs = [s.objs EXCEPT ![u] = None]
  BY RevokeType
<1> HIDE DEF r
<1>3. g \in Work /\ g.objs = [r.objs EXCEPT ![d] = v]
  BY <1>1, <1>2, GenerateType
<1> HIDE DEF g
<1>4. Issue(g, u, w) \in Work /\ Issue(g, u, w).objs = [g.objs EXCEPT ![u] = w, ![d] = w]
  BY <1>3, IssueType
<1>5. [g.objs EXCEPT ![u] = w, ![d] = w] = [s.objs EXCEPT ![u] = w, ![d] = w]
  BY <1>1, <1>2, <1>3
<1> QED BY <1>4, <1>5 DEF g, r

LEMMA AndIssuedType ==
    ASSUME Types, NEW p \in Proc, NEW u \in Product, version + 1 < MaxVersion
    PROVE  /\ AndIssued(p, u) \in Work
           /\ version \in Version /\ version + 1 \in Version /\ version + 2 \in Version
           /\ AndIssued(p, u).objs = [objs EXCEPT ![u] = version + 2,
                                                  ![DetailOf[u]] = version + 2]
<1>1. version \in Version /\ version + 1 \in Version /\ version + 2 \in Version
  BY TypesParts, Constants DEF RowsOK
<1>2. State(p) \in Work /\ State(p).objs = objs
  BY StateType
<1>3. \A s \in Work, v \in Version, w \in Version :
          LET t == Issue(Generate(Revoke(s, u), DetailOf[u], v), u, w)
          IN  t \in Work /\ t.objs = [s.objs EXCEPT ![u] = w, ![DetailOf[u]] = w]
  BY RevokedAndIssued
<1> QED BY <1>1, <1>2, <1>3 DEF AndIssued

LEMMA RevokeAndIssueTypes ==
    ASSUME Types, NEW p \in Proc, NEW u \in Product, NEW next \in {"queue", "ready"},
           RevokeAndIssue(p, u, next)
    PROVE  Types'
<1> DEFINE s == AndIssued(p, u)
<1>1. /\ pc[p] \in Away /\ version + 1 < MaxVersion /\ version' = version + 2
      /\ Queueing(p, s, {u}, next)
      /\ listing' = listing \o <<[Products(objs) EXCEPT ![u] = None], Products(s.objs)>>
  BY RevokeAndIssueIs DEF AndIssuing
<1>2. s \in Work /\ version + 2 \in Version
  BY <1>1, AndIssuedType
<1> HIDE DEF s
<1>3. CorosOK(pc, queue, handlers, touched, reply)' /\ LineOK(line, pc)'
  BY <1>1, <1>2, QueueingTypes
<1>4. failures' \in [Kind -> 0 .. MaxFailures]
  BY <1>1, TypesParts DEF Queueing
<1>5. RowsOK(objs, stamp, pubd, listing, version)'
  <2>1. /\ s.objs \in [URI -> Values] /\ s.stamp \in [URI -> {"clear", "recent", "stale"}]
        /\ objs' = s.objs /\ stamp' = s.stamp /\ pubd' = pubd
    BY <1>1, <1>2 DEF Work, Queueing
  <2>2. /\ pubd \in [URI -> Values] /\ listing \in Seq([Product -> Values])
        /\ Len(listing) = version /\ version \in Version /\ objs \in [URI -> Values]
    BY TypesParts DEF RowsOK
  <2> DEFINE one == [Products(objs) EXCEPT ![u] = None]
             two == Products(s.objs)
  <2>3. one \in [Product -> Values] /\ two \in [Product -> Values]
    BY <2>1, <2>2, ProductsType, Constants
  <2>4. listing' = listing \o <<one, two>>
    BY <1>1
  <2> HIDE DEF one, two
  <2>5. listing' \in Seq([Product -> Values]) /\ Len(listing') = version + 2
    BY <2>2, <2>3, <2>4, Constants
  <2> QED BY <1>1, <1>2, <2>1, <2>2, <2>5 DEF RowsOK
<1> QED BY <1>3, <1>4, <1>5 DEF Types

LEMMA RetryTypes ==
    ASSUME Types, NEW p \in Proc, Retry(p)
    PROVE  Types'
<1> DEFINE s == FoldLeft(CheckFailed, State(p), Listed)
<1>1. s \in Work /\ s.objs = objs /\ s.stamp = stamp
  BY StateType, RetryType
<1>2. pc[p] \in Away /\ Queueing(p, s, {}, "ready") /\ UNCHANGED <<version, listing>>
  BY DEF Retry, CanRetry, Away
<1> HIDE DEF s
<1>3. CorosOK(pc, queue, handlers, touched, reply)' /\ LineOK(line, pc)'
  BY <1>1, <1>2, QueueingTypes
<1> QED BY <1>1, <1>2, <1>3, TypesParts DEF Queueing, Types, RowsOK

LEMMA StartPublishWorldTypes ==
    ASSUME Types, NEW p \in Proc, StartPublishWorld(p)
    PROVE  Types'
<1> DEFINE s == State(p)
<1>1. s \in Work /\ s.objs = objs /\ s.stamp = stamp
  BY StateType
<1>2. pc[p] \in Away /\ Queueing(p, s, {}, "world") /\ UNCHANGED <<version, listing>>
  BY DEF StartPublishWorld, Away
<1> HIDE DEF s
<1>3. CorosOK(pc, queue, handlers, touched, reply)' /\ LineOK(line, pc)'
  BY <1>1, <1>2, QueueingTypes
<1> QED BY <1>1, <1>2, <1>3, TypesParts DEF Queueing, Types, RowsOK

LEMMA EndTaskTypes ==
    ASSUME Types, NEW p \in Proc, EndTask(p)
    PROVE  Types'
<1>1. /\ pc[p] \in Away /\ reply[p] \in Replies /\ reply = [reply EXCEPT ![p] = reply[p]]
      /\ reply[p].ok <= Len(queue[p]) /\ reply[p].ok = 0
      /\ queue[p] \in Seq(PDU) /\ queue = [queue EXCEPT ![p] = queue[p]]
      /\ handlers[p] \in [URI -> Values] /\ handlers = [handlers EXCEPT ![p] = handlers[p]]
      /\ touched[p] \in SUBSET Product /\ touched = [touched EXCEPT ![p] = touched[p]]
  BY TypesParts, CoroSame DEF EndTask, Away, Served
<1>2. "ready" \in Places \ (Away \cup Served)
  BY DEF Places, Away, Served
<1>3. LineOK(Append(line, p), [pc EXCEPT ![p] = "ready"])
  BY <1>1, <1>2, TypesParts, Joining
<1>4. CorosOK([pc EXCEPT ![p] = "ready"], [queue EXCEPT ![p] = queue[p]],
              [handlers EXCEPT ![p] = handlers[p]], [touched EXCEPT ![p] = touched[p]],
              [reply EXCEPT ![p] = reply[p]])
  BY <1>1, TypesParts, CoroStep
<1>5. CorosOK(pc, queue, handlers, touched, reply)'
  BY <1>1, <1>4 DEF EndTask
<1> QED BY <1>3, <1>5, TypesParts DEF EndTask, Types, RowsOK

\* A coroutine goes elsewhere without leaving the line, with another answer.
LEMMA MovedTypes ==
    ASSUME Types, NEW p \in Proc, HasLock(p), pc[p] \notin Away,
           NEW x \in Places \ Away, NEW r \in Replies, r.ok <= Len(queue[p]),
           x \notin Served => r.ok = 0,
           pc' = [pc EXCEPT ![p] = x], reply' = [reply EXCEPT ![p] = r],
           UNCHANGED <<queue, handlers, touched, line>>
    PROVE  CorosOK(pc, queue, handlers, touched, reply)' /\ LineOK(line, pc)'
<1>1. /\ queue[p] \in Seq(PDU) /\ queue = [queue EXCEPT ![p] = queue[p]]
      /\ handlers[p] \in [URI -> Values] /\ handlers = [handlers EXCEPT ![p] = handlers[p]]
      /\ touched[p] \in SUBSET Product /\ touched = [touched EXCEPT ![p] = touched[p]]
  BY TypesParts, CoroSame
<1>2. CorosOK([pc EXCEPT ![p] = x], [queue EXCEPT ![p] = queue[p]],
              [handlers EXCEPT ![p] = handlers[p]], [touched EXCEPT ![p] = touched[p]],
              [reply EXCEPT ![p] = r])
  BY <1>1, TypesParts, CoroStep
<1>3. LineOK(line, [pc EXCEPT ![p] = x])
  BY TypesParts, Staying DEF HasLock
<1>4. CorosOK(pc, queue, handlers, touched, reply)'
  BY <1>1, <1>2
<1> QED BY <1>3, <1>4

\* A message, applied as a whole.
LEMMA AppliedType ==
    ASSUME Types, NEW q \in Seq(PDU)
    PROVE  Applied(q) \in [URI -> Values]
<1> SUFFICES ASSUME NEW u \in URI
             PROVE  (IF \E i \in DOMAIN q : q[i].uri = u
                     THEN q[CHOOSE i \in DOMAIN q : q[i].uri = u].new ELSE pubd[u]) \in Values
  BY DEF Applied
<1>1. \A i \in DOMAIN q : q[i].new \in Values
  <2>1. \A i \in DOMAIN q : q[i] \in PDU
    OBVIOUS
  <2> QED BY <2>1, Constants
<1>2. pubd[u] \in Values
  BY TypesParts DEF RowsOK
<1> QED BY <1>1, <1>2

\* pubd's answer says which PDUs it went through.
LEMMA AnswerTypes ==
    ASSUME Types, NEW p \in Proc, Answer(p)
    PROVE  /\ pubd' \in [URI -> Values]
           /\ \E r \in Replies : r.ok <= Len(queue[p]) /\ reply' = [reply EXCEPT ![p] = r]
<1> DEFINE q == queue[p]
           bad == Refused(q)
           Least(i) == \A j \in bad : i <= j
           first == CHOOSE i \in bad : Least(i)
<1>1. q \in Seq(PDU) /\ Len(q) \in Nat /\ DOMAIN q = 1 .. Len(q)
  BY TypesParts, CoroSame
<1>2. CASE bad = {}
  <2> DEFINE r == [ok |-> Len(q), error |-> "none"]
  <2>1. pubd' = Applied(q) /\ reply' = [reply EXCEPT ![p] = r]
    BY <1>2 DEF Answer
  <2>2. r \in Replies /\ r.ok <= Len(q)
    BY <1>1 DEF Replies
  <2> QED BY <1>1, <2>1, <2>2, AppliedType
<1>3. CASE bad # {}
  <2> DEFINE r == [ok |-> first - 1, error |-> "sync"]
  <2>1. pubd' = pubd /\ reply' = [reply EXCEPT ![p] = r]
    BY <1>3 DEF Answer
  <2>2. bad \in SUBSET Nat /\ bad \subseteq 1 .. Len(q)
    BY <1>1 DEF Refused
  <2>3. Min(bad) \in bad /\ Least(Min(bad))
    BY <1>3, <2>2, MinIsLeast
  <2> HIDE DEF Least, bad
  <2>4. first \in bad
    BY <2>3
  <2>5. first \in 1 .. Len(q)
    BY <2>2, <2>4
  <2> HIDE DEF first
  <2>6. r \in Replies /\ r.ok <= Len(q)
    BY <1>1, <2>5 DEF Replies
  <2>7. pubd \in [URI -> Values]
    BY TypesParts DEF RowsOK
  <2> HIDE DEF r
  <2> QED BY <2>1, <2>6, <2>7
<1> QED BY <1>2, <1>3

LEMMA SendTypes ==
    ASSUME Types, NEW p \in Proc, Send(p)
    PROVE  Types'
<1>1. pubd' \in [URI -> Values]
  BY AnswerTypes DEF Send
<1>2. PICK r \in Replies : r.ok <= Len(queue[p]) /\ reply' = [reply EXCEPT ![p] = r]
  BY AnswerTypes DEF Send
<1> DEFINE x == IF pc[p] = "ready" THEN "sent" ELSE "resent"
<1>3. pc[p] \notin Away /\ x \in Places \ Away /\ x \in Served
  BY DEF Send, Away, Places, Served
<1>4. /\ pc' = [pc EXCEPT ![p] = x] /\ HasLock(p)
      /\ UNCHANGED <<queue, handlers, touched, line>>
  BY DEF Send
<1> HIDE DEF x
<1>5. CorosOK(pc, queue, handlers, touched, reply)' /\ LineOK(line, pc)'
  BY <1>2, <1>3, <1>4, MovedTypes
<1> QED BY <1>1, <1>5, TypesParts DEF Send, Types, RowsOK

LEMMA OverTypes ==
    ASSUME Types, NEW p \in Proc, Idle(p), UNCHANGED <<listing, pubd, version>>,
           failures' \in [Kind -> 0 .. MaxFailures],
           objs' \in [URI -> Values], stamp' \in [URI -> {"clear", "recent", "stale"}]
    PROVE  Types'
BY IdleTypes, TypesParts DEF Types, RowsOK

LEMMA FailTypes ==
    ASSUME Types, NEW kind, Fail(kind)
    PROVE  failures' \in [Kind -> 0 .. MaxFailures]
<1>1. /\ failures \in [Kind -> 0 .. MaxFailures] /\ kind \in Kind /\ MaxFailures \in Nat
      /\ "request" \in Kind /\ "reply" \in Kind /\ "rollback" \in Kind
  BY TypesParts, PublicationAssumption DEF Fail, Kind
<1>2. kind = "request" \/ kind = "reply" \/ kind = "rollback"
  BY <1>1 DEF Kind
<1>3. /\ failures["request"] \in 0 .. MaxFailures /\ failures["reply"] \in 0 .. MaxFailures
      /\ failures["rollback"] \in 0 .. MaxFailures
  BY <1>1
<1>4. failures[kind] + 1 \in 0 .. MaxFailures
  BY <1>1, <1>2, <1>3 DEF Fail
<1>5. failures' = [failures EXCEPT ![kind] = failures[kind] + 1]
  BY DEF Fail
<1> QED BY <1>1, <1>4, <1>5

LEMMA HandlersTypes ==
    ASSUME Types, NEW p \in Proc, RunHandlers(p)
    PROVE  objs' \in [URI -> Values] /\ stamp' \in [URI -> {"clear", "recent", "stale"}]
<1>1. /\ objs \in [URI -> Values] /\ stamp \in [URI -> {"clear", "recent", "stale"}]
      /\ handlers[p] \in [URI -> Values]
  BY TypesParts, CoroSame DEF RowsOK
<1> QED BY <1>1 DEF RunHandlers

LEMMA EndingTypes ==
    ASSUME Types, NEW p \in Proc,
           SendNothing(p) \/ Reply(p) \/ ReplyResync(p) \/ LoseRequest(p) \/ LoseReply(p)
    PROVE  Types'
<1>1. /\ failures \in [Kind -> 0 .. MaxFailures]
      /\ objs \in [URI -> Values] /\ stamp \in [URI -> {"clear", "recent", "stale"}]
  BY TypesParts DEF RowsOK
<1>2. CASE SendNothing(p)
  BY <1>1, <1>2, OverTypes DEF SendNothing
<1>3. CASE Reply(p)
  BY <1>1, <1>3, OverTypes, HandlersTypes DEF Reply
<1>4. CASE ReplyResync(p)
  BY <1>1, <1>4, OverTypes DEF ReplyResync
<1>5. CASE LoseRequest(p)
  BY <1>1, <1>5, OverTypes, FailTypes DEF LoseRequest
<1>6. CASE LoseReply(p)
  BY <1>1, <1>6, OverTypes, FailTypes DEF LoseReply
<1> QED BY <1>2, <1>3, <1>4, <1>5, <1>6

LEMMA ReplyOutOfSyncTypes ==
    ASSUME Types, NEW p \in Proc, ReplyOutOfSync(p)
    PROVE  Types'
<1>1. objs' \in [URI -> Values] /\ stamp' \in [URI -> {"clear", "recent", "stale"}]
  BY HandlersTypes DEF ReplyOutOfSync
<1>2. NoReply \in Replies /\ NoReply.ok = 0 /\ NoReply.ok <= Len(<< >>) /\ << >> \in Seq(PDU)
  BY DEF NoReply, Replies
<1>3. /\ handlers[p] \in [URI -> Values] /\ handlers = [handlers EXCEPT ![p] = handlers[p]]
      /\ touched[p] \in SUBSET Product /\ touched = [touched EXCEPT ![p] = touched[p]]
  BY TypesParts, CoroSame
<1>4. CorosOK([pc EXCEPT ![p] = "list"], [queue EXCEPT ![p] = << >>],
              [handlers EXCEPT ![p] = handlers[p]], [touched EXCEPT ![p] = touched[p]],
              [reply EXCEPT ![p] = NoReply])
  <2> HIDE DEF NoReply
  <2> QED BY <1>2, <1>3, TypesParts, CoroStep
<1>5. line # << >> /\ Head(line) = p
  BY TypesParts DEF LineOK, ReplyOutOfSync, Served
<1>6. "list" \in Places \ (Away \cup Served)
  BY DEF Places, Away, Served
<1>7. LineOK(Append(Tail(line), p), [pc EXCEPT ![p] = "list"])
  BY <1>5, <1>6, TypesParts, BackInLine
<1>8. CorosOK(pc, queue, handlers, touched, reply)' /\ LineOK(line, pc)'
  BY <1>3, <1>4, <1>7 DEF ReplyOutOfSync
<1> QED BY <1>1, <1>8, TypesParts DEF ReplyOutOfSync, Types, RowsOK


-----------------------------------------------------------------------------
(***************************************************************************)
(* The two messages that a list query's answer is made into.               *)
(***************************************************************************)

\* The URIs of set S, each once.
IsOrder(a, S) ==
    /\ a \in Seq(S) /\ Range(a) = S
    /\ \A i, j \in DOMAIN a : a[i] = a[j] => i = j

\* Two disjoint sets, one after the other.
LEMMA OrderBoth ==
    ASSUME NEW S, NEW U, S \cap U = {}, IsFiniteSet(S), IsFiniteSet(U)
    PROVE  IsOrder(SetToSeq(S) \o SetToSeq(U), S \cup U)
<1> DEFINE a == SetToSeq(S)
           b == SetToSeq(U)
           m == Len(a)
           n == Len(b)
           c == a \o b
<1>1. /\ a \in Seq(S) /\ Range(a) = S /\ \A i, j \in DOMAIN a : a[i] = a[j] => i = j
      /\ b \in Seq(U) /\ Range(b) = U /\ \A i, j \in DOMAIN b : b[i] = b[j] => i = j
  BY SetToSeqType
<1>2. DOMAIN a = 1 .. m /\ DOMAIN b = 1 .. n /\ m \in Nat /\ n \in Nat
  BY <1>1
<1>3. a \in Seq(S \cup U) /\ b \in Seq(S \cup U)
  BY <1>1
<1> HIDE DEF a, b
<1>4. /\ c \in Seq(S \cup U) /\ DOMAIN c = 1 .. m + n
      /\ \A i \in 1 .. m : c[i] = a[i]
      /\ \A j \in 1 .. n : c[m + j] = b[j]
  <2>1. /\ c \in Seq(S \cup U) /\ Len(c) = m + n
        /\ \A i \in 1 .. m + n : c[i] = IF i <= m THEN a[i] ELSE b[i - m]
    BY <1>3, ConcatProperties
  <2>2. \A j \in 1 .. n : m + j \in 1 .. m + n /\ ~ (m + j <= m) /\ (m + j) - m = j
    BY <1>2
  <2>3. \A i \in 1 .. m : i \in 1 .. m + n /\ i <= m
    BY <1>2
  <2> HIDE DEF c, m, n
  <2>4. DOMAIN c = 1 .. m + n
    BY <2>1, LenProperties
  <2> QED BY <2>1, <2>2, <2>3, <2>4
<1> HIDE DEF c, m, n
<1>5. \A i \in 1 .. m + n : i \in 1 .. m \/ \E j \in 1 .. n : i = m + j
  <2> TAKE i \in 1 .. m + n
  <2>1. CASE i <= m
    BY <2>1, <1>2
  <2>2. CASE ~ (i <= m)
    <3>1. i - m \in 1 .. n /\ i = m + (i - m)
      BY <2>2, <1>2
    <3> QED BY <3>1
  <2> QED BY <2>1, <2>2
<1>6. \A i \in 1 .. m : a[i] \in S /\ i \in 1 .. m + n
  BY <1>1, <1>2
<1>7. \A j \in 1 .. n : b[j] \in U /\ m + j \in 1 .. m + n
  BY <1>1, <1>2
<1>8. Range(c) = S \cup U
  <2>1. \A x \in S : \E i \in 1 .. m : a[i] = x
    BY <1>1, <1>2 DEF Range
  <2>2. \A x \in U : \E j \in 1 .. n : b[j] = x
    BY <1>1, <1>2 DEF Range
  <2>3. \A x \in S \cup U : \E i \in 1 .. m + n : c[i] = x
    <3>1. \A x \in S : \E i \in 1 .. m + n : c[i] = x
      <4> TAKE x \in S
      <4>1. PICK i \in 1 .. m : a[i] = x
        BY <2>1
      <4> QED BY <4>1, <1>4, <1>6
    <3>2. \A x \in U : \E i \in 1 .. m + n : c[i] = x
      <4> TAKE x \in U
      <4>1. PICK k \in 1 .. n : b[k] = x
        BY <2>2
      <4>2. m + k \in 1 .. m + n /\ c[m + k] = x
        BY <4>1, <1>2, <1>4, <1>7
      <4> QED BY <4>2
    <3> QED BY <3>1, <3>2
  <2>4. \A i \in 1 .. m + n : c[i] \in S \cup U
    <3> TAKE i \in 1 .. m + n
    <3>1. CASE i \in 1 .. m
      <4>1. c[i] = a[i]
        BY <3>1, <1>4
      <4> QED BY <3>1, <4>1, <1>6
    <3>2. CASE \E k \in 1 .. n : i = m + k
      <4>1. PICK k \in 1 .. n : i = m + k
        BY <3>2
      <4>2. c[i] = b[k]
        BY <4>1, <1>2, <1>4
      <4> QED BY <4>2, <1>7
    <3> QED BY <3>1, <3>2, <1>5
  <2> QED BY <2>3, <2>4, <1>4 DEF Range
<1>9. ASSUME NEW i \in DOMAIN c, NEW j \in DOMAIN c, c[i] = c[j]
      PROVE  i = j
  <2>1. i \in 1 .. m + n /\ j \in 1 .. m + n
    BY <1>4
  <2>2. CASE i \in 1 .. m /\ j \in 1 .. m
    BY <2>2, <1>1, <1>2, <1>4, <1>9
  <2>3. CASE i \in 1 .. m /\ \E k \in 1 .. n : j = m + k
    BY <2>3, <1>4, <1>6, <1>7, <1>9
  <2>4. CASE j \in 1 .. m /\ \E k \in 1 .. n : i = m + k
    BY <2>4, <1>4, <1>6, <1>7, <1>9
  <2>5. CASE (\E k \in 1 .. n : i = m + k) /\ (\E k \in 1 .. n : j = m + k)
    <3>1. PICK k \in 1 .. n, l \in 1 .. n : i = m + k /\ j = m + l
      BY <2>5
    <3>2. b[k] = b[l]
      <4>1. c[m + k] = b[k] /\ c[m + l] = b[l]
        BY <1>2, <1>4
      <4> QED BY <3>1, <4>1, <1>9
    <3> QED BY <3>1, <3>2, <1>1, <1>2
  <2> QED BY <2>1, <2>2, <2>3, <2>4, <2>5, <1>5
<1> QED BY <1>4, <1>8, <1>9 DEF IsOrder, c, a, b

\* A message with one PDU for each URI of S: what is published there according
\* to o, over what pubd has.
Orders(q, S, o) ==
    /\ q \in Seq(PDU) /\ Distinct(q)
    /\ \A e \in Range(q) : e.uri \in S /\ e.hash = pubd[e.uri] /\ e.new = o[e.uri]
    /\ \A u \in S : Has(Range(q), u)

LEMMA MessageOf ==
    ASSUME Types, NEW S \in SUBSET URI, NEW a, IsOrder(a, S), NEW o \in [URI -> Values]
    PROVE  Orders([i \in DOMAIN a |-> [uri |-> a[i], hash |-> pubd[a[i]], new |-> o[a[i]]]], S, o)
<1> DEFINE pdu(u) == [uri |-> u, hash |-> pubd[u], new |-> o[u]]
           q == [i \in DOMAIN a |-> pdu(a[i])]
<1>1. /\ a \in Seq(S) /\ Range(a) = S /\ DOMAIN a = 1 .. Len(a) /\ Len(a) \in Nat
      /\ \A i, j \in DOMAIN a : a[i] = a[j] => i = j
      /\ \A i \in DOMAIN a : a[i] \in S
  BY DEF IsOrder
<1>2. pubd \in [URI -> Values]
  BY TypesParts DEF RowsOK
<1>3. \A u \in URI : /\ pdu(u) \in PDU /\ pdu(u).uri = u /\ pdu(u).hash = pubd[u]
                     /\ pdu(u).new = o[u]
  BY <1>2, Constants
<1> HIDE DEF pdu
<1>4. DOMAIN q = DOMAIN a /\ \A i \in DOMAIN a : q[i] = pdu(a[i])
  OBVIOUS
<1>5. q \in Seq(PDU)
  BY <1>1, <1>3
<1> HIDE DEF q
<1>6. Distinct(q)
  BY <1>1, <1>3, <1>4 DEF Distinct
<1>7. ASSUME NEW e \in Range(q)
      PROVE  e.uri \in S /\ e.hash = pubd[e.uri] /\ e.new = o[e.uri]
  <2>1. PICK i \in DOMAIN a : e = pdu(a[i])
    BY <1>4 DEF Range
  <2> QED BY <2>1, <1>1, <1>3
<1>8. ASSUME NEW u \in S PROVE Has(Range(q), u)
  <2>1. PICK i \in DOMAIN a : u = a[i]
    BY <1>1 DEF Range
  <2>2. q[i] \in Range(q) /\ q[i].uri = u
    BY <2>1, <1>3, <1>4 DEF Range
  <2> QED BY <2>2 DEF Has
<1> QED BY <1>5, <1>6, <1>7, <1>8 DEF Orders, q, pdu

\* Only a finite number of objects.
LEMMA FiniteURI == IsFiniteSet(URI)
<1>1. IsFiniteSet(Detail)
  <2>1. Listed \in Seq(Detail) /\ Range(Listed) = Detail
    BY Constants
  <2>2. Len(Listed) \in Nat /\ DOMAIN Listed = 1 .. Len(Listed)
    BY <2>1
  <2>3. IsFiniteSet(1 .. Len(Listed))
    BY <2>2, FS_Interval
  <2>4. Listed \in Surjection(1 .. Len(Listed), Detail)
    BY <2>1, <2>2 DEF Range, Surjection
  <2> QED BY <2>3, <2>4, FS_Surjection
<1> QED BY <1>1, Constants, FS_Union

\* What publish_world sends.
LEMMA WorldMessageIs ==
    ASSUME Types
    PROVE  Orders(WorldMessage, {u \in URI : objs[u] # None \/ pubd[u] # None}, objs)
<1> DEFINE S == {u \in URI : objs[u] # None}
           U == {u \in URI : objs[u] = None /\ pubd[u] # None}
           a == SetToSeq(S) \o SetToSeq(U)
<1>1. S \cap U = {} /\ S \cup U = {u \in URI : objs[u] # None \/ pubd[u] # None}
      /\ S \cup U \in SUBSET URI
  OBVIOUS
<1>2. IsFiniteSet(S) /\ IsFiniteSet(U)
  BY FiniteURI, FS_Subset
<1> HIDE DEF S, U
<1>3. IsOrder(a, S \cup U)
  BY <1>1, <1>2, OrderBoth
<1>4. objs \in [URI -> Values]
  BY TypesParts DEF RowsOK
<1>5. WorldMessage = [i \in DOMAIN a |-> [uri |-> a[i], hash |-> pubd[a[i]], new |-> objs[a[i]]]]
  BY DEF WorldMessage, a, S, U
<1> HIDE DEF a
<1>6. Orders(WorldMessage, S \cup U, objs)
  BY <1>1, <1>3, <1>4, <1>5, MessageOf
<1> QED BY <1>1, <1>6

\* What resync sends.
LEMMA ResyncMessageIs ==
    ASSUME Types
    PROVE  /\ Ours \in [URI -> Values]
           /\ Orders(ResyncMessage, {u \in URI : pubd[u] # Ours[u]}, Ours)
<1> DEFINE S == {u \in OurObjs : pubd[u] # objs[u]}
           U == {u \in URI \ OurObjs : pubd[u] # None}
           a == SetToSeq(S) \o SetToSeq(U)
<1>1. OurObjs \in SUBSET URI
  BY DEF OurObjs
<1>2. S \cap U = {} /\ S \cup U = {u \in URI : pubd[u] # Ours[u]} /\ S \cup U \in SUBSET URI
  BY <1>1 DEF Ours
<1>3. IsFiniteSet(S) /\ IsFiniteSet(U)
  BY <1>1, FiniteURI, FS_Subset
<1>4. Ours \in [URI -> Values]
  <2>1. objs \in [URI -> Values] /\ None \in Values
    BY TypesParts, Constants DEF RowsOK
  <2> QED BY <2>1 DEF Ours
<1> HIDE DEF S, U
<1>5. IsOrder(a, S \cup U)
  BY <1>2, <1>3, OrderBoth
<1>6. ResyncMessage = [i \in DOMAIN a |-> [uri |-> a[i], hash |-> pubd[a[i]], new |-> Ours[a[i]]]]
  <2>1. ResyncMessage = [i \in DOMAIN a |-> [uri |-> a[i], hash |-> pubd[a[i]],
                            new |-> IF a[i] \in OurObjs THEN objs[a[i]] ELSE None]]
    BY DEF ResyncMessage, a, S, U
  <2>2. \A i \in DOMAIN a : a[i] \in URI
    <3>1. a \in Seq(S \cup U)
      BY <1>5 DEF IsOrder
    <3> QED BY <3>1, <1>2
  <2>3. \A i \in DOMAIN a : Ours[a[i]] = IF a[i] \in OurObjs THEN objs[a[i]] ELSE None
    BY <2>2 DEF Ours
  <2> HIDE DEF a
  <2> QED BY <2>1, <2>3
<1> HIDE DEF a
<1>7. Orders(ResyncMessage, S \cup U, Ours)
  BY <1>2, <1>4, <1>5, <1>6, MessageOf
<1> QED BY <1>2, <1>4, <1>7

LEMMA ListingTypes ==
    ASSUME Types, NEW p \in Proc, pc[p] \in Places \ (Away \cup Served), NEW q \in Seq(PDU),
           NEW x \in Places \ (Away \cup Served), Listing(p, q, x)
    PROVE  Types'
<1>1. /\ NoHandlers \in [URI -> Values] /\ reply[p] \in Replies
      /\ reply = [reply EXCEPT ![p] = reply[p]] /\ reply[p].ok = 0
      /\ touched[p] \in SUBSET Product /\ touched = [touched EXCEPT ![p] = touched[p]]
      /\ reply[p].ok <= Len(q)
  <2>1. NoHandlers \in [URI -> Values]
    BY Constants DEF NoHandlers
  <2>2. /\ reply[p] \in Replies
        /\ reply = [reply EXCEPT ![p] = reply[p]] /\ reply[p].ok = 0
        /\ touched[p] \in SUBSET Product /\ touched = [touched EXCEPT ![p] = touched[p]]
    BY TypesParts, CoroSame
  <2>3. reply[p].ok <= Len(q)
    BY <2>2
  <2> QED BY <2>1, <2>2, <2>3
<1>2. CorosOK([pc EXCEPT ![p] = x], [queue EXCEPT ![p] = q],
              [handlers EXCEPT ![p] = NoHandlers], [touched EXCEPT ![p] = touched[p]],
              [reply EXCEPT ![p] = reply[p]])
  <2> HIDE DEF NoHandlers
  <2> QED BY <1>1, TypesParts, CoroStep
<1>3. LineOK(Append(Tail(line), p), [pc EXCEPT ![p] = x])
  BY TypesParts, BackInLine DEF Listing, HasLock
<1>4. CorosOK(pc, queue, handlers, touched, reply)' /\ LineOK(line, pc)'
  BY <1>1, <1>2, <1>3 DEF Listing
<1> QED BY <1>4, TypesParts DEF Listing, Types, RowsOK

LEMMA MessageTypes ==
    ASSUME Types, NEW p \in Proc, ResyncList(p) \/ PublishWorld(p)
    PROVE  Types'
<1>1. /\ "list" \in Places \ (Away \cup Served) /\ "world" \in Places \ (Away \cup Served)
      /\ "resync" \in Places \ (Away \cup Served) /\ "ready" \in Places \ (Away \cup Served)
  BY DEF Places, Away, Served
<1>2. CASE ResyncList(p)
  <2>1. ResyncMessage \in Seq(PDU)
    BY ResyncMessageIs DEF Orders
  <2>2. pc[p] = "list" /\ Listing(p, ResyncMessage, "resync")
    BY <1>2 DEF ResyncList
  <2> QED BY <1>1, <2>1, <2>2, ListingTypes
<1>3. CASE PublishWorld(p)
  <2>1. WorldMessage \in Seq(PDU)
    BY WorldMessageIs DEF Orders
  <2>2. pc[p] = "world" /\ Listing(p, WorldMessage, "ready")
    BY <1>3 DEF PublishWorld
  <2> QED BY <1>1, <2>1, <2>2, ListingTypes
<1> QED BY <1>2, <1>3

LEMMA PubdRollsBackTypes ==
    ASSUME Types, NEW p \in Proc, PubdRollsBack(p)
    PROVE  Types'
<1> DEFINE r == [ok |-> Len(queue[p]), error |-> "other"]
<1>1. r \in Replies /\ r.ok <= Len(queue[p])
  <2>1. Len(queue[p]) \in Nat
    BY TypesParts, CoroSame
  <2> QED BY <2>1 DEF Replies
<1>2. /\ HasLock(p) /\ pc[p] \notin Away /\ pc' = [pc EXCEPT ![p] = "sent"]
      /\ reply' = [reply EXCEPT ![p] = r] /\ UNCHANGED <<queue, handlers, touched, line>>
  BY DEF PubdRollsBack, Away
<1>3. "sent" \in Places \ Away /\ "sent" \in Served
  BY DEF Places, Away, Served
<1> HIDE DEF r
<1>4. CorosOK(pc, queue, handlers, touched, reply)' /\ LineOK(line, pc)'
  BY <1>1, <1>2, <1>3, MovedTypes
<1>5. failures' \in [Kind -> 0 .. MaxFailures]
  BY FailTypes DEF PubdRollsBack
<1> QED BY <1>4, <1>5, TypesParts DEF PubdRollsBack, Types, RowsOK

LEMMA TickTypes ==
    ASSUME Types, Tick
    PROVE  Types'
<1>1. stamp' \in [URI -> {"clear", "recent", "stale"}]
  BY TypesParts DEF Tick, RowsOK
<1> QED BY <1>1, TypesParts DEF Tick, Types, RowsOK, CorosOK, LineOK

\* One coroutine's step, action by action.
StepOf(p) ==
    \/ \E u \in Product, next \in {"queue", "ready"} :
          IssueCert(p, u, next) \/ RevokeAndIssue(p, u, next) \/ RevokeCert(p, u, next)
    \/ \E d \in Detail : Regenerate(p, d)
    \/ Retry(p) \/ StartPublishWorld(p) \/ Calling(p) \/ Failing(p)

LEMMA Steps == Next => Tick \/ \E p \in Proc : StepOf(p)
BY DEF Next, StepOf

LEMMA StepTypes == Types /\ [Next]_vars => Types'
<1> SUFFICES ASSUME Types, [Next]_vars PROVE Types'
  OBVIOUS
<1>1. CASE Tick
  BY <1>1, TickTypes
<1>2. ASSUME NEW p \in Proc, StepOf(p) PROVE Types'
  <2>1. CASE \E u \in Product, next \in {"queue", "ready"} :
                IssueCert(p, u, next) \/ RevokeAndIssue(p, u, next) \/ RevokeCert(p, u, next)
    BY <2>1, IssueCertTypes, RevokeAndIssueTypes, RevokeCertTypes
  <2>2. CASE \E d \in Detail : Regenerate(p, d)
    BY <2>2, RegenerateTypes
  <2>3. CASE Retry(p) \/ StartPublishWorld(p)
    BY <2>3, RetryTypes, StartPublishWorldTypes
  <2>4. CASE Calling(p)
    BY <2>4, EndTaskTypes, SendTypes, EndingTypes, ReplyOutOfSyncTypes, MessageTypes DEF Calling
  <2>5. CASE Failing(p)
    BY <2>5, EndingTypes, PubdRollsBackTypes DEF Failing
  <2> QED BY <1>2, <2>1, <2>2, <2>3, <2>4, <2>5 DEF StepOf
<1>3. CASE UNCHANGED vars
  BY <1>3 DEF vars, Types, RowsOK, CorosOK, LineOK
<1> QED BY <1>1, <1>2, <1>3, Steps

\* Whatever the coroutines do, whoever fails and however long the line is,
\* every variable stays within its type; the line for the lock has exactly the
\* coroutines that are inside call_pubd or on their way into it, each of them
\* once.
THEOREM PublicationTypes == Spec => []TypeOK
<1>1. Spec => []Types
  BY InitTypes, StepTypes, PTL DEF Spec
<1> QED BY <1>1, TypesImply, PTL


-----------------------------------------------------------------------------
(***************************************************************************)
(* One PDU for each URI, with any number of coroutines.                    *)
(***************************************************************************)
Single(s) == s \in Work /\ Distinct(s.pdus)

LEMMA SingleEnqueue ==
    ASSUME NEW s \in Work, Single(s), NEW u \in URI, NEW old \in Values, NEW new \in Values
    PROVE  Single(Enqueue(s, u, old, new, new)) /\ Enqueue(s, u, old, new, new).objs = s.objs
<1>1. EnqueueIs(s, u, old, new, new, Enqueue(s, u, old, new, new))
  BY EnqueueFacts
<1> QED BY <1>1 DEF EnqueueIs, Single

LEMMA SingleCheckFailed ==
    ASSUME NEW s, Single(s), NEW d \in Detail
    PROVE  Single(CheckFailed(s, d))
<1> DEFINE Ones == {t \in Work : Single(t)}
           q == StaleOf(s, d)
           St == {u \in URI : Stale(s, u)}
<1>1. q \in Seq(St)
  BY StaleOfType
<1>2. s \in Ones
  BY DEF Single
<1>3. ASSUME NEW t \in Ones, NEW i \in DOMAIN q PROVE Again(t, q[i]) \in Ones
  <2>1. q[i] \in St
    BY <1>1
  <2>2. q[i] \in URI /\ t \in Work /\ t.objs[q[i]] \in Values /\ None \in Values
    BY <2>1 DEF Work, Values
  <2> HIDE DEF q, St
  <2>3. Single(Again(t, q[i]))
    BY <2>2, SingleEnqueue DEF Again
  <2> QED BY <2>3 DEF Single
<1> HIDE DEF Ones, q, St
<1>4. Retries!Fold(s, q) \in Ones
  BY <1>1, <1>2, <1>3, Retries!FoldInvariant
<1>5. CheckFailed(s, d) \in Ones
  BY <1>4, RetriesFold DEF q
<1> QED BY <1>5 DEF Ones

LEMMA SingleSaving ==
    ASSUME NEW s, Single(s), NEW u \in URI, NEW v \in Version
    PROVE  Single(Saving(s, u, v))
<1> DEFINE r == SaveRow(s, u, v)
<1>1. s \in Work /\ Distinct(s.pdus)
  BY DEF Single
<1>2. IsSaved(s, u, v, r)
  BY <1>1, RowFacts
<1>3. s.objs[u] \in Values /\ v \in Values
  BY <1>1 DEF Work, Values
<1> HIDE DEF r
<1>4. Single(r)
  BY <1>1, <1>2 DEF IsSaved, Single
<1>5. Single(Enqueue(r, u, s.objs[u], v, v))
  BY <1>3, <1>4, SingleEnqueue DEF Single
<1> QED BY <1>5 DEF Saving, r

LEMMA SingleGenerate ==
    ASSUME NEW s, Single(s), NEW d \in Detail, NEW v \in Version
    PROVE  Single(Generate(s, d, v))
<1>1. Single(CheckFailed(s, d)) /\ d \in URI
  BY SingleCheckFailed, Constants
<1>2. Single(Saving(CheckFailed(s, d), d, v))
  BY <1>1, SingleSaving
<1> QED BY <1>2, GenerateIs DEF Saving

LEMMA SingleIssue ==
    ASSUME NEW s, Single(s), NEW u \in Product, NEW v \in Version
    PROVE  Single(Issue(s, u, v))
<1> DEFINE t == CheckFailed(s, DetailOf[u])
           r == Saving(t, u, v)
<1>1. DetailOf[u] \in Detail /\ u \in URI
  BY Constants
<1>2. Single(t)
  BY <1>1, SingleCheckFailed
<1>3. Issue(s, u, v) = Generate(r, DetailOf[u], v)
  BY IssueIs DEF Saving
<1> HIDE DEF t
<1>4. Single(r)
  BY <1>1, <1>2, SingleSaving
<1> HIDE DEF r
<1>5. Single(Generate(r, DetailOf[u], v))
  BY <1>1, <1>4, SingleGenerate
<1> QED BY <1>3, <1>5

LEMMA SingleRevoke ==
    ASSUME NEW s, Single(s), NEW u \in Product
    PROVE  Single(Revoke(s, u))
<1> DEFINE t == Enqueue(s, u, s.objs[u], None, None)
<1>1. s \in Work /\ u \in URI /\ s.objs[u] \in Values /\ None \in Values
  BY Constants DEF Single, Work
<1>2. Single(t)
  BY <1>1, SingleEnqueue
<1> HIDE DEF t
<1>3. IsDropped(t, u, DropRow(t, u))
  BY <1>1, <1>2, RowFacts DEF Single
<1>4. Single(DropRow(t, u))
  BY <1>2, <1>3 DEF IsDropped, Single
<1> QED BY <1>4, RevokeIs DEF t

LEMMA SingleRetry ==
    ASSUME NEW s, Single(s)
    PROVE  Single(FoldLeft(CheckFailed, s, Listed))
<1> DEFINE Ones == {t \in Work : Single(t)}
<1>1. s \in Ones
  BY DEF Single
<1>2. ASSUME NEW t \in Ones, NEW i \in DOMAIN Listed PROVE CheckFailed(t, Listed[i]) \in Ones
  <2>1. Listed[i] \in Detail
    BY Constants
  <2>2. Single(CheckFailed(t, Listed[i]))
    BY <2>1, SingleCheckFailed
  <2> QED BY <2>2 DEF Single
<1> HIDE DEF Ones
<1>3. Checks!Fold(s, Listed) \in Ones
  BY <1>1, <1>2, Constants, Checks!FoldInvariant
<1>4. FoldLeft(CheckFailed, s, Listed) \in Ones
  BY <1>3, ChecksFold
<1> QED BY <1>4 DEF Ones

\* No coroutine has two PDUs for one URI.
Singles == \A p \in Proc : Distinct(queue[p])

LEMMA SinglesMore ==
    ASSUME Types, Singles, NEW p \in Proc, NEW q, Distinct(q), queue' = [queue EXCEPT ![p] = q]
    PROVE  Singles'
<1>1. queue \in [Proc -> Seq(PDU)]
  BY TypesParts DEF CorosOK
<1> QED BY <1>1 DEF Singles

LEMMA SinglesQueueing ==
    ASSUME Types, Singles, NEW p \in Proc, NEW s, Single(s), NEW uris, NEW next,
           Queueing(p, s, uris, next)
    PROVE  Singles'
BY SinglesMore DEF Queueing, Single

LEMMA StepSingles ==
    ASSUME Types, Singles, [Next]_vars
    PROVE  Singles'
<1>1. CASE queue' = queue
  BY <1>1 DEF Singles
<1>2. ASSUME NEW p \in Proc, Idle(p) PROVE Singles'
  <2>1. Distinct(<< >>)
    BY DEF Distinct
  <2> QED BY <1>2, <2>1, SinglesMore DEF Idle
<1>3. ASSUME NEW p \in Proc PROVE Single(State(p))
  BY StateType DEF Singles, Single
<1>4. ASSUME NEW p \in Proc, StepOf(p) PROVE Singles'
  <2>1. ASSUME NEW u \in Product, NEW next \in {"queue", "ready"},
               IssueCert(p, u, next) \/ RevokeCert(p, u, next)
        PROVE  Singles'
    <3> DEFINE v == version + 1
    <3>1. v \in Version /\ DetailOf[u] \in Detail
      BY <2>1, NextVersion, Constants DEF IssueCert, RevokeCert, Signing
    <3>2. IssueCert(p, u, next) => Queueing(p, Issue(State(p), u, v), {u}, next)
      BY DEF IssueCert, Signing
    <3>3. RevokeCert(p, u, next) =>
             Queueing(p, Generate(Revoke(State(p), u), DetailOf[u], v), {u}, next)
      BY DEF RevokeCert, Signing
    <3> HIDE DEF v
    <3>4. \A s : Single(s) => Single(Issue(s, u, v)) /\ Single(Generate(Revoke(s, u), DetailOf[u], v))
      BY <3>1, SingleIssue, SingleRevoke, SingleGenerate
    <3> QED BY <1>3, <2>1, <3>2, <3>3, <3>4, SinglesQueueing
  <2>2. ASSUME NEW u \in Product, NEW next \in {"queue", "ready"}, RevokeAndIssue(p, u, next)
        PROVE  Singles'
    <3>1. AndIssuing(p, u, next)
      BY <2>2, RevokeAndIssueIs
    <3>2. /\ Queueing(p, AndIssued(p, u), {u}, next) /\ DetailOf[u] \in Detail
          /\ version + 1 \in Version /\ version + 2 \in Version
      BY <3>1, AndIssuedType, Constants DEF AndIssuing
    <3>3. \A s : \A v, w \in Version :
             Single(s) => Single(Issue(Generate(Revoke(s, u), DetailOf[u], v), u, w))
      BY <3>2, SingleIssue, SingleRevoke, SingleGenerate
    <3>4. Single(AndIssued(p, u))
      BY <1>3, <3>2, <3>3 DEF AndIssued
    <3> QED BY <3>2, <3>4, SinglesQueueing
  <2>3. ASSUME NEW d \in Detail, Regenerate(p, d) PROVE Singles'
    <3> DEFINE v == version + 1
    <3>1. v \in Version /\ Queueing(p, Generate(State(p), d, v), {}, "ready")
      BY <2>3, NextVersion DEF Regenerate, Signing
    <3> HIDE DEF v
    <3>2. Single(Generate(State(p), d, v))
      <4>1. \A s : Single(s) => Single(Generate(s, d, v))
        BY <3>1, SingleGenerate
      <4> QED BY <1>3, <4>1
    <3> QED BY <3>1, <3>2, SinglesQueueing
  <2>4. CASE Retry(p)
    <3>1. Queueing(p, FoldLeft(CheckFailed, State(p), Listed), {}, "ready")
      BY <2>4 DEF Retry
    <3>2. Single(FoldLeft(CheckFailed, State(p), Listed))
      BY <1>3, SingleRetry
    <3> QED BY <3>1, <3>2, SinglesQueueing
  <2>5. CASE StartPublishWorld(p)
    BY <1>3, <2>5, SinglesQueueing DEF StartPublishWorld
  <2>6. CASE EndTask(p) \/ Send(p) \/ PubdRollsBack(p)
    BY <1>1, <2>6 DEF EndTask, Send, PubdRollsBack
  <2>7. CASE SendNothing(p) \/ Reply(p) \/ ReplyResync(p) \/ LoseRequest(p) \/ LoseReply(p)
    BY <1>2, <2>7 DEF SendNothing, Reply, ReplyResync, LoseRequest, LoseReply
  <2>8. CASE ReplyOutOfSync(p)
    <3>1. Distinct(<< >>)
      BY DEF Distinct
    <3> QED BY <2>8, <3>1, SinglesMore DEF ReplyOutOfSync
  <2>9. CASE ResyncList(p) \/ PublishWorld(p)
    <3>1. Distinct(ResyncMessage) /\ Distinct(WorldMessage)
      BY ResyncMessageIs, WorldMessageIs DEF Orders
    <3> QED BY <2>9, <3>1, SinglesMore DEF ResyncList, PublishWorld, Listing
  <2> QED BY <1>4, <2>1, <2>2, <2>3, <2>4, <2>5, <2>6, <2>7, <2>8, <2>9
          DEF StepOf, Calling, Failing
<1>5. CASE Tick \/ UNCHANGED vars
  BY <1>1, <1>5 DEF Tick, vars
<1> QED BY <1>4, <1>5, Steps

\* A message never has two PDUs for one URI, however many coroutines queue at
\* the same time: the first part of QueueExact, without its condition
\* (publication_queue.queue replaces what is queued, and the lists that resync
\* and publish_world_now make have each URI once).
THEOREM OnePduForEachUri ==
    Spec => [](\A p \in Proc : \A i, j \in DOMAIN queue[p] :
                   queue[p][i].uri = queue[p][j].uri => i = j)
<1>1. Init => Singles
  BY DEF Init, Singles, Distinct
<1>2. Types /\ Singles /\ [Next]_vars => Singles'
  BY StepSingles
<1>3. Singles => \A p \in Proc : \A i, j \in DOMAIN queue[p] :
                    queue[p][i].uri = queue[p][j].uri => i = j
  BY DEF Singles, Distinct
<1>4. Spec => []Types
  BY InitTypes, StepTypes, PTL DEF Spec
<1> QED BY <1>1, <1>2, <1>3, <1>4, PTL DEF Spec

-----------------------------------------------------------------------------
(***************************************************************************)
(* A coroutine that is alone.  Between its steps nobody else changes a row *)
(* or speaks to pubd, so what it has queued stays true of the database     *)
(* and, while nothing has failed, of pubd.                                 *)
(***************************************************************************)
Calm == {"idle", "queue", "ready", "world"}

\* The queue and its handlers agree with the database until pubd has answered.
Tidy(p) ==
    /\ pc[p] \in {"idle", "world"} => queue[p] = << >> /\ handlers[p] = NoHandlers
    /\ pc[p] \in Calm \cup {"sent"} =>
          Distinct(queue[p]) /\ Kept(Range(queue[p]), objs, handlers[p])
    /\ pc[p] \in Away => Fresh(Range(queue[p]), handlers[p], touched[p])

\* pubd has done all of it, and the callbacks will clear every timestamp.
Settled(p) ==
    /\ pubd = objs
    /\ reply[p].ok = Len(queue[p]) /\ reply[p].error = "none"
    /\ \A u \in URI : stamp[u] # "clear" => Has(Range(queue[p]), u) /\ handlers[p][u] # None

\* As long as nothing has failed, the queue is the difference between the
\* database and pubd.
Precise(p) ==
    NoFailures =>
        /\ pc[p] \in Calm \cup {"sent"}
        /\ pc[p] \in Calm => Exact(Range(queue[p]), objs, stamp, handlers[p], pubd)
        /\ pc[p] = "sent" => Settled(p)

\* Each detail's manifest lists what it has issued.
Manifests ==
    /\ \A d \in Detail : objs[d] \in 1 .. version
    /\ \A u \in Product : listing[objs[DetailOf[u]]][u] = objs[u]

Alone(p) == Tidy(p) /\ Precise(p) /\ Manifests

LEMMA InitAlone ==
    ASSUME Init, NEW p \in Proc
    PROVE  Alone(p)
<1>1. /\ pc[p] = "idle" /\ queue[p] = << >> /\ handlers[p] = NoHandlers /\ touched[p] = {}
      /\ pubd = objs /\ stamp = [u \in URI |-> "clear"] /\ version = 1
      /\ objs = [u \in URI |-> IF u \in Detail THEN 1 ELSE None]
      /\ listing = <<[u \in Product |-> None]>>
  BY DEF Init
<1>2. Range(queue[p]) = {}
  BY <1>1 DEF Range
<1>3. \A u \in URI : NoHandlers[u] = None
  BY DEF NoHandlers
<1>4. Distinct(queue[p])
  BY <1>1 DEF Distinct
<1>5. Kept({}, objs, NoHandlers) /\ Fresh({}, NoHandlers, {}) /\ Exact({}, objs, stamp, NoHandlers, pubd)
  BY <1>1, <1>3, Constants DEF Kept, Fresh, Exact, Has
<1>6. Tidy(p) /\ Precise(p)
  BY <1>1, <1>2, <1>4, <1>5 DEF Tidy, Precise, Calm
<1>7. Manifests
  <2>1. \A d \in Detail : objs[d] = 1
    BY <1>1, Constants
  <2>2. \A u \in Product : objs[u] = None /\ DetailOf[u] \in Detail
    BY <1>1, Constants
  <2>3. \A u \in Product : listing[1][u] = None
    BY <1>1
  <2> QED BY <1>1, <2>1, <2>2, <2>3 DEF Manifests
<1> QED BY <1>6, <1>7 DEF Alone

\* What the coroutine works on before it yields is in order.
LEMMA StateGood ==
    ASSUME Types, NEW p \in Proc, Alone(p), pc[p] \in Away
    PROVE  /\ Good(State(p), touched[p])
           /\ NoFailures => ExactFor(State(p), pubd)
<1>1. /\ State(p) \in Work /\ State(p).objs = objs /\ State(p).stamp = stamp
      /\ State(p).pdus = queue[p] /\ State(p).handlers = handlers[p]
  BY StateType
<1>2. pc[p] \in Calm
  BY DEF Away, Calm
<1> QED BY <1>1, <1>2 DEF Alone, Tidy, Precise, Good, ExactFor

\* Queueing more keeps it so.
LEMMA QueueingAlone ==
    ASSUME Types, NEW p \in Proc, Alone(p), pc[p] \in Away,
           NEW s, NEW uris \in SUBSET Product, NEW next \in {"queue", "ready"},
           Queueing(p, s, uris, next),
           Good(s, touched[p] \cup uris), NoFailures => ExactFor(s, pubd)
    PROVE  (Tidy(p) /\ Precise(p))'
<1>1. /\ pc' = [pc EXCEPT ![p] = next] /\ queue' = [queue EXCEPT ![p] = s.pdus]
      /\ handlers' = [handlers EXCEPT ![p] = s.handlers]
      /\ touched' = [touched EXCEPT ![p] = touched[p] \cup uris]
      /\ objs' = s.objs /\ stamp' = s.stamp /\ pubd' = pubd /\ failures' = failures
  BY DEF Queueing
<1>2. /\ pc'[p] = next /\ queue'[p] = s.pdus /\ handlers'[p] = s.handlers
      /\ touched'[p] = touched[p] \cup uris
  BY <1>1, TypesParts DEF CorosOK
<1>3. next \in Calm /\ next # "sent" /\ next \notin {"idle", "world"}
  BY DEF Calm
<1>4. Tidy(p)'
  BY <1>1, <1>2, <1>3 DEF Tidy, Good
<1>5. Precise(p)'
  BY <1>1, <1>2, <1>3 DEF Precise, ExactFor, NoFailures
<1> QED BY <1>4, <1>5

\* The operations that sign.
LEMMA IssueCertAlone ==
    ASSUME Types, NEW p \in Proc, Alone(p), NEW u \in Product, NEW next \in {"queue", "ready"},
           IssueCert(p, u, next)
    PROVE  (Tidy(p) /\ Precise(p))'
<1> DEFINE s == Issue(State(p), u, version + 1)
           T == touched[p] \cup {u}
<1>1. pc[p] \in Away /\ version + 1 \in Version /\ Queueing(p, s, {u}, next)
  BY NextVersion DEF IssueCert, Signing, Away
<1>2. Good(State(p), T) /\ (NoFailures => ExactFor(State(p), pubd))
  BY <1>1, StateGood, GoodWider
<1>3. u \in Product \cap T
  OBVIOUS
<1>4. Keeps(State(p), s, T, pubd)
  <2> HIDE DEF T
  <2> QED BY <1>1, <1>2, <1>3, IssueKeeps
<1> HIDE DEF s
<1> QED BY <1>1, <1>2, <1>4, QueueingAlone DEF Keeps

LEMMA RevokeCertAlone ==
    ASSUME Types, NEW p \in Proc, Alone(p), NEW u \in Product, NEW next \in {"queue", "ready"},
           RevokeCert(p, u, next)
    PROVE  (Tidy(p) /\ Precise(p))'
<1> DEFINE r == Revoke(State(p), u)
           s == Generate(r, DetailOf[u], version + 1)
           T == touched[p] \cup {u}
<1>1. /\ pc[p] \in Away /\ version + 1 \in Version /\ Queueing(p, s, {u}, next)
      /\ u \in Product \ touched[p] /\ objs[u] # None /\ DetailOf[u] \in Detail
  BY NextVersion, Constants DEF RevokeCert, Signing, Away
<1>2. Good(State(p), touched[p]) /\ (NoFailures => ExactFor(State(p), pubd))
  BY <1>1, StateGood
<1>3. State(p).objs[u] # None
  BY <1>1, StateType
<1>4. Keeps(State(p), r, T, pubd)
  BY <1>1, <1>2, <1>3, RevokeKeeps
<1> HIDE DEF r, T
<1>5. Keeps(r, s, T, pubd)
  BY <1>1, <1>4, GenerateKeeps DEF Keeps
<1> HIDE DEF s
<1> QED BY <1>1, <1>2, <1>4, <1>5, QueueingAlone DEF Keeps, T

LEMMA RevokedAndIssuedKeeps ==
    ASSUME NEW s, NEW T, NEW db, Good(s, T), NEW u \in Product \ T, s.objs[u] # None,
           NEW v \in Version, NEW w \in Version
    PROVE  Keeps(s, Issue(Generate(Revoke(s, u), DetailOf[u], v), u, w), T \cup {u}, db)
<1> DEFINE r == Revoke(s, u)
           g == Generate(r, DetailOf[u], v)
           U == T \cup {u}
<1>1. DetailOf[u] \in Detail /\ u \in Product \cap U
  BY Constants
<1>2. Keeps(s, r, U, db)
  BY RevokeKeeps
<1> HIDE DEF r, U
<1>3. Keeps(r, g, U, db)
  BY <1>1, <1>2, GenerateKeeps DEF Keeps
<1> HIDE DEF g
<1>4. Keeps(g, Issue(g, u, w), U, db)
  BY <1>1, <1>3, IssueKeeps DEF Keeps
<1> QED BY <1>2, <1>3, <1>4 DEF Keeps, g, r, U

LEMMA RevokeAndIssueAlone ==
    ASSUME Types, NEW p \in Proc, Alone(p), NEW u \in Product, NEW next \in {"queue", "ready"},
           RevokeAndIssue(p, u, next)
    PROVE  (Tidy(p) /\ Precise(p))'
<1> DEFINE s == AndIssued(p, u)
           T == touched[p]
<1>1. AndIssuing(p, u, next)
  BY RevokeAndIssueIs
<1>2. /\ pc[p] \in Away /\ Queueing(p, s, {u}, next) /\ u \in Product \ T /\ objs[u] # None
      /\ version + 1 \in Version /\ version + 2 \in Version
  BY <1>1, AndIssuedType DEF AndIssuing
<1>3. Good(State(p), T) /\ (NoFailures => ExactFor(State(p), pubd))
  BY <1>2, StateGood
<1>4. State(p).objs[u] # None
  BY <1>2, StateType
<1>5. Keeps(State(p), s, T \cup {u}, pubd)
  <2>1. \A v, w \in Version :
           Keeps(State(p), Issue(Generate(Revoke(State(p), u), DetailOf[u], v), u, w),
                 T \cup {u}, pubd)
    <3> HIDE DEF T
    <3> QED BY <1>2, <1>3, <1>4, RevokedAndIssuedKeeps
  <2> QED BY <1>2, <2>1 DEF AndIssued
<1> HIDE DEF s
<1> QED BY <1>2, <1>3, <1>5, QueueingAlone DEF Keeps

LEMMA RegenerateAlone ==
    ASSUME Types, NEW p \in Proc, Alone(p), NEW d \in Detail, Regenerate(p, d)
    PROVE  (Tidy(p) /\ Precise(p))'
<1> DEFINE s == Generate(State(p), d, version + 1)
           T == touched[p]
<1>1. pc[p] \in Away /\ version + 1 \in Version /\ Queueing(p, s, {}, "ready")
  BY NextVersion DEF Regenerate, Signing, Away
<1>2. Good(State(p), T) /\ (NoFailures => ExactFor(State(p), pubd))
  BY <1>1, StateGood
<1>3. Keeps(State(p), s, T, pubd)
  <2> HIDE DEF T
  <2> QED BY <1>1, <1>2, GenerateKeeps
<1>4. T \cup {} = T
  OBVIOUS
<1> HIDE DEF s
<1> QED BY <1>1, <1>2, <1>3, <1>4, QueueingAlone DEF Keeps

LEMMA RetryKeeps ==
    ASSUME NEW s, NEW T, NEW db, Good(s, T)
    PROVE  Keeps(s, FoldLeft(CheckFailed, s, Listed), T, db)
<1> DEFINE Fine == {t \in Work : Keeps(s, t, T, db)}
<1>1. s \in Fine
  BY DEF Keeps, Good
<1>2. ASSUME NEW t \in Fine, NEW i \in DOMAIN Listed PROVE CheckFailed(t, Listed[i]) \in Fine
  <2>1. Listed[i] \in Detail /\ t \in Work /\ Keeps(s, t, T, db)
    BY Constants
  <2>2. Keeps(t, CheckFailed(t, Listed[i]), T, db)
    BY <2>1, CheckFailedKeeps DEF Keeps
  <2>3. Keeps(s, CheckFailed(t, Listed[i]), T, db)
    BY <2>1, <2>2 DEF Keeps
  <2>4. CheckFailed(t, Listed[i]) \in Work
    BY <2>3 DEF Keeps, Good
  <2> QED BY <2>3, <2>4
<1> HIDE DEF Fine
<1>3. Checks!Fold(s, Listed) \in Fine
  BY <1>1, <1>2, Constants, Checks!FoldInvariant
<1>4. FoldLeft(CheckFailed, s, Listed) \in Fine
  BY <1>3, ChecksFold
<1> QED BY <1>4 DEF Fine

LEMMA RetryAlone ==
    ASSUME Types, NEW p \in Proc, Alone(p), Retry(p)
    PROVE  (Tidy(p) /\ Precise(p))'
<1> DEFINE s == FoldLeft(CheckFailed, State(p), Listed)
           T == touched[p]
<1>1. pc[p] \in Away /\ Queueing(p, s, {}, "ready")
  BY DEF Retry, CanRetry, Away
<1>2. Good(State(p), T) /\ (NoFailures => ExactFor(State(p), pubd))
  BY <1>1, StateGood
<1>3. Keeps(State(p), s, T, pubd)
  <2> HIDE DEF T
  <2> QED BY <1>2, RetryKeeps
<1>4. T \cup {} = T
  OBVIOUS
<1> HIDE DEF s
<1> QED BY <1>1, <1>2, <1>3, <1>4, QueueingAlone DEF Keeps

\* What the actions of p do to what p has.
LEMMA Mine ==
    ASSUME Types, NEW p \in Proc
    PROVE  /\ queue[p] \in Seq(PDU) /\ Range(queue[p]) \in SUBSET PDU
           /\ handlers[p] \in [URI -> Values] /\ reply[p] \in Replies
           /\ objs \in [URI -> Values] /\ pubd \in [URI -> Values]
           /\ \A x : /\ [pc EXCEPT ![p] = x][p] = x /\ [queue EXCEPT ![p] = x][p] = x
                     /\ [handlers EXCEPT ![p] = x][p] = x /\ [touched EXCEPT ![p] = x][p] = x
                     /\ [reply EXCEPT ![p] = x][p] = x
<1>1. /\ queue \in [Proc -> Seq(PDU)] /\ handlers \in [Proc -> [URI -> Values]]
      /\ touched \in [Proc -> SUBSET Product] /\ reply \in [Proc -> Replies]
      /\ pc \in [Proc -> Places] /\ objs \in [URI -> Values] /\ pubd \in [URI -> Values]
  BY TypesParts DEF CorosOK, RowsOK
<1>2. queue[p] \in Seq(PDU)
  BY <1>1
<1>3. Range(queue[p]) \in SUBSET PDU
  BY <1>2 DEF Range
<1> QED BY <1>1, <1>2, <1>3

\* A message that is the difference is accepted, and makes pubd the database.
LEMMA ExactMeans ==
    ASSUME Types, NEW q \in Seq(PDU), NEW h, Distinct(q), Kept(Range(q), objs, h),
           Exact(Range(q), objs, stamp, h, pubd)
    PROVE  Refused(q) = {} /\ Applied(q) = objs
<1>1. /\ objs \in [URI -> Values] /\ pubd \in [URI -> Values]
      /\ \A i \in DOMAIN q : q[i] \in PDU /\ q[i] \in Range(q)
  BY TypesParts DEF RowsOK, Range
<1>2. \A i \in DOMAIN q : /\ q[i].uri \in URI /\ q[i].new = objs[q[i].uri]
                          /\ q[i].hash = pubd[q[i].uri]
                          /\ q[i].hash # None \/ q[i].new # None
  BY <1>1 DEF Kept, Exact, PDU
<1>3. Refused(q) = {}
  BY <1>2 DEF Refused, Accepts
<1>4. ASSUME NEW u \in URI
      PROVE  (IF \E i \in DOMAIN q : q[i].uri = u
              THEN q[CHOOSE i \in DOMAIN q : q[i].uri = u].new ELSE pubd[u]) = objs[u]
  <2>1. CASE \E i \in DOMAIN q : q[i].uri = u
    BY <2>1, <1>2
  <2>2. CASE ~ \E i \in DOMAIN q : q[i].uri = u
    <3>1. ~ Has(Range(q), u)
      BY <2>2 DEF Has, Range
    <3> QED BY <2>2, <3>1 DEF Exact
  <2> QED BY <2>1, <2>2
<1>5. Applied(q) = objs
  BY <1>1, <1>4 DEF Applied
<1> QED BY <1>3, <1>5

LEMMA SendAlone ==
    ASSUME Types, NEW p \in Proc, Alone(p), Send(p)
    PROVE  (Tidy(p) /\ Precise(p))'
<1>1. CASE pc[p] = "resync"
  <2>1. pc'[p] = "resent" /\ ~ NoFailures /\ failures' = failures
    <3>1. pc' = [pc EXCEPT ![p] = "resent"] /\ failures' = failures
      BY <1>1 DEF Send
    <3>2. pc'[p] = "resent"
      BY <3>1, Mine
    <3>3. ~ NoFailures
      BY <1>1 DEF Alone, Precise, Calm
    <3> QED BY <3>1, <3>2, <3>3
  <2> QED BY <2>1 DEF Tidy, Precise, Calm, Away, NoFailures
<1>2. CASE pc[p] = "ready"
  <2>1. /\ pc'[p] = "sent" /\ UNCHANGED <<objs, stamp, queue, handlers, failures>>
    <3>1. pc' = [pc EXCEPT ![p] = "sent"] /\ UNCHANGED <<objs, stamp, queue, handlers, failures>>
      BY <1>2 DEF Send
    <3>2. pc'[p] = "sent"
      BY <3>1, Mine
    <3> QED BY <3>1, <3>2
  <2>2. Distinct(queue[p]) /\ Kept(Range(queue[p]), objs, handlers[p])
    BY <1>2 DEF Alone, Tidy, Calm
  <2>3. Tidy(p)'
    BY <2>1, <2>2 DEF Tidy, Calm, Away
  <2>4. ASSUME NoFailures PROVE Settled(p)'
    <3>1. Exact(Range(queue[p]), objs, stamp, handlers[p], pubd)
      BY <1>2, <2>4 DEF Alone, Precise, Calm
    <3>2. queue[p] \in Seq(PDU)
      BY Mine
    <3>3. Refused(queue[p]) = {} /\ Applied(queue[p]) = objs
      BY <2>2, <3>1, <3>2, ExactMeans
    <3>4. pubd' = objs /\ reply' = [reply EXCEPT ![p] = [ok |-> Len(queue[p]), error |-> "none"]]
      BY <3>3 DEF Send, Answer
    <3>5. reply'[p] = [ok |-> Len(queue[p]), error |-> "none"]
      BY <3>4, Mine
    <3>6. \A u \in URI : stamp[u] # "clear" => Has(Range(queue[p]), u) /\ handlers[p][u] # None
      BY <3>1 DEF Exact
    <3> QED BY <2>1, <3>4, <3>5, <3>6 DEF Settled
  <2>5. Precise(p)'
    BY <2>1, <2>4 DEF Precise, Calm, NoFailures
  <2> QED BY <2>3, <2>5
<1> QED BY <1>1, <1>2 DEF Send

\* After a coroutine is over it has nothing.
LEMMA IdleTidy ==
    ASSUME Types, NEW p \in Proc, Idle(p)
    PROVE  /\ Tidy(p)' /\ pc'[p] = "idle" /\ queue'[p] = << >> /\ handlers'[p] = NoHandlers
           /\ Range(queue'[p]) = {}
<1>1. /\ pc'[p] = "idle" /\ queue'[p] = << >> /\ handlers'[p] = NoHandlers /\ touched'[p] = {}
  BY Mine DEF Idle
<1>2. Range(queue'[p]) = {} /\ Distinct(queue'[p])
  BY <1>1 DEF Range, Distinct
<1>3. \A u \in URI : NoHandlers[u] = None
  BY DEF NoHandlers
<1>4. Kept({}, objs', NoHandlers) /\ Fresh({}, NoHandlers, {})
  BY <1>3, Constants DEF Kept, Fresh
<1> QED BY <1>1, <1>2, <1>4 DEF Tidy

\* The callbacks save what is in the database already.
LEMMA SavedSame ==
    ASSUME Types, NEW p \in Proc, Alone(p), pc[p] = "sent", RunHandlers(p)
    PROVE  objs' = objs
<1>1. objs \in [URI -> Values] /\ queue[p] \in Seq(PDU) /\ reply[p] \in Replies
      /\ reply[p].ok <= Len(queue[p])
  BY Mine, TypesParts, CoroSame
<1>2. Kept(Range(queue[p]), objs, handlers[p])
  BY DEF Alone, Tidy
<1>3. ASSUME NEW u \in Saved(p) PROVE handlers[p][u] = objs[u]
  <2>1. PICK i \in 1 .. reply[p].ok : queue[p][i].uri = u
    BY DEF Saved
  <2>2. i \in DOMAIN queue[p]
    BY <1>1, <2>1 DEF Replies
  <2>3. queue[p][i] \in Range(queue[p])
    BY <2>2 DEF Range
  <2>4. handlers[p][u] # None
    BY DEF Saved
  <2> QED BY <1>2, <2>1, <2>3, <2>4 DEF Kept
<1>4. objs' = [u \in URI |-> IF u \in Saved(p) THEN handlers[p][u] ELSE objs[u]]
  BY DEF RunHandlers
<1> QED BY <1>1, <1>3, <1>4

LEMMA ReplyAlone ==
    ASSUME Types, NEW p \in Proc, Alone(p), Reply(p)
    PROVE  (Tidy(p) /\ Precise(p))' /\ objs' = objs
<1>1. objs' = objs
  BY SavedSame DEF Reply
<1>2. Idle(p) /\ UNCHANGED <<pubd, failures>> /\ pc[p] = "sent"
  BY DEF Reply
<1>3. /\ Tidy(p)' /\ pc'[p] = "idle" /\ Range(queue'[p]) = {}
  BY <1>2, IdleTidy
<1>4. ASSUME NoFailures PROVE Exact({}, objs, stamp', handlers'[p], pubd)
  <2>1. Settled(p)
    BY <1>2, <1>4 DEF Alone, Precise
  <2>2. ASSUME NEW u \in URI PROVE stamp'[u] = "clear"
    <3>1. stamp'[u] = IF u \in Saved(p) THEN "clear" ELSE stamp[u]
      BY DEF Reply, RunHandlers
    <3>2. ASSUME stamp[u] # "clear" PROVE u \in Saved(p)
      <4>1. Has(Range(queue[p]), u) /\ handlers[p][u] # None /\ reply[p].ok = Len(queue[p])
        BY <2>1, <3>2 DEF Settled
      <4>2. queue[p] \in Seq(PDU)
        BY Mine
      <4>3. DOMAIN queue[p] = 1 .. Len(queue[p])
        BY <4>2
      <4>4. PICK i \in DOMAIN queue[p] : queue[p][i].uri = u
        BY <4>1 DEF Has, Range
      <4> QED BY <4>1, <4>3, <4>4 DEF Saved
    <3> QED BY <3>1, <3>2
  <2> QED BY <2>1, <2>2 DEF Settled, Exact, Has
<1>5. Precise(p)'
  BY <1>1, <1>2, <1>3, <1>4 DEF Precise, Calm, NoFailures
<1> QED BY <1>1, <1>3, <1>5

LEMMA ReplyOutOfSyncAlone ==
    ASSUME Types, NEW p \in Proc, Alone(p), ReplyOutOfSync(p)
    PROVE  (Tidy(p) /\ Precise(p))' /\ objs' = objs
<1>1. objs' = objs
  BY SavedSame DEF ReplyOutOfSync
<1>2. pc'[p] = "list" /\ failures' = failures /\ reply[p].error = "sync" /\ pc[p] = "sent"
  BY Mine DEF ReplyOutOfSync
<1>3. ~ NoFailures
  BY <1>2 DEF Alone, Precise, Settled
<1> QED BY <1>1, <1>2, <1>3 DEF Tidy, Precise, Calm, Away, NoFailures

\* An exception is a failure from then on.
LEMMA FailCounts ==
    ASSUME Types, NEW kind, Fail(kind)
    PROVE  ~ NoFailures'
<1>1. failures \in [Kind -> 0 .. MaxFailures] /\ kind \in Kind
  BY TypesParts, PublicationAssumption DEF Fail
<1>2. failures'[kind] = failures[kind] + 1 /\ failures[kind] \in 0 .. MaxFailures
  BY <1>1 DEF Fail
<1>3. failures'[kind] # 0
  BY <1>2, Constants
<1> QED BY <1>1, <1>3 DEF NoFailures

LEMMA EndingAlone ==
    ASSUME Types, NEW p \in Proc, Alone(p),
           SendNothing(p) \/ ReplyResync(p) \/ LoseRequest(p) \/ LoseReply(p)
    PROVE  (Tidy(p) /\ Precise(p))' /\ objs' = objs
<1>1. Idle(p) /\ UNCHANGED <<objs, stamp, pubd>>
  BY DEF SendNothing, ReplyResync, LoseRequest, LoseReply
<1>2. /\ Tidy(p)' /\ pc'[p] = "idle" /\ Range(queue'[p]) = {}
  BY <1>1, IdleTidy
<1>3. CASE LoseRequest(p) \/ LoseReply(p)
  <2>1. ~ NoFailures'
    BY <1>3, FailCounts DEF LoseRequest, LoseReply
  <2> QED BY <1>1, <1>2, <2>1 DEF Precise
<1>4. CASE ReplyResync(p)
  <2>1. ~ NoFailures'
    BY <1>4 DEF ReplyResync, Alone, Precise, Calm, NoFailures
  <2> QED BY <1>1, <1>2, <2>1 DEF Precise
<1>5. CASE SendNothing(p)
  <2>1. pc[p] \in {"ready", "resync"} /\ queue[p] = << >> /\ failures' = failures
    BY <1>5 DEF SendNothing
  <2>2. Range(queue[p]) = {}
    BY <2>1 DEF Range
  <2>3. ASSUME NoFailures PROVE Exact({}, objs, stamp, handlers'[p], pubd)
    <3>1. Exact({}, objs, stamp, handlers[p], pubd)
      BY <2>1, <2>2, <2>3 DEF Alone, Precise, Calm
    <3> QED BY <3>1 DEF Exact, Has
  <2>4. Precise(p)'
    BY <1>1, <1>2, <2>1, <2>3 DEF Precise, Calm, NoFailures
  <2> QED BY <1>1, <1>2, <2>4
<1> QED BY <1>1, <1>3, <1>4, <1>5 DEF SendNothing, ReplyResync, LoseRequest, LoseReply

LEMMA EndTaskAlone ==
    ASSUME Types, NEW p \in Proc, Alone(p), EndTask(p)
    PROVE  (Tidy(p) /\ Precise(p))'
<1>1. /\ pc[p] = "queue" /\ pc'[p] = "ready"
      /\ UNCHANGED <<objs, stamp, pubd, queue, handlers, failures>>
  BY Mine DEF EndTask
<1> QED BY <1>1 DEF Alone, Tidy, Precise, Calm, Away, NoFailures

LEMMA StartPublishWorldAlone ==
    ASSUME Types, NEW p \in Proc, Alone(p), StartPublishWorld(p)
    PROVE  (Tidy(p) /\ Precise(p))'
<1>1. /\ pc[p] = "idle" /\ pc' = [pc EXCEPT ![p] = "world"]
      /\ queue' = [queue EXCEPT ![p] = queue[p]]
      /\ handlers' = [handlers EXCEPT ![p] = handlers[p]]
      /\ objs' = objs /\ stamp' = stamp /\ UNCHANGED <<pubd, failures>>
  BY StateType DEF StartPublishWorld, Queueing
<1>2. pc'[p] = "world" /\ queue'[p] = queue[p] /\ handlers'[p] = handlers[p]
  BY <1>1, Mine
<1> QED BY <1>1, <1>2 DEF Alone, Tidy, Precise, Calm, Away, NoFailures

LEMMA PublishWorldAlone ==
    ASSUME Types, NEW p \in Proc, Alone(p), PublishWorld(p)
    PROVE  (Tidy(p) /\ Precise(p))'
<1> DEFINE q == WorldMessage
           S == {u \in URI : objs[u] # None \/ pubd[u] # None}
<1>1. /\ pc[p] = "world" /\ pc'[p] = "ready" /\ queue'[p] = q /\ handlers'[p] = NoHandlers
      /\ UNCHANGED <<objs, stamp, pubd, failures>>
  BY Mine DEF PublishWorld, Listing
<1>2. Orders(q, S, objs)
  BY WorldMessageIs
<1>3. \A u \in URI : NoHandlers[u] = None
  BY DEF NoHandlers
<1> HIDE DEF q
<1>4. /\ Distinct(q) /\ \A e \in Range(q) : e.uri \in S /\ e.hash = pubd[e.uri] /\ e.new = objs[e.uri]
  BY <1>2 DEF Orders
<1>5. \A u \in S : Has(Range(q), u)
  BY <1>2 DEF Orders
<1>6. Kept(Range(q), objs, NoHandlers)
  BY <1>3, <1>4 DEF Kept
<1>7. ASSUME NoFailures PROVE Exact(Range(q), objs, stamp, NoHandlers, pubd)
  <2>1. Exact(Range(queue[p]), objs, stamp, handlers[p], pubd) /\ queue[p] = << >>
    BY <1>1, <1>7 DEF Alone, Precise, Tidy, Calm
  <2>2. Range(queue[p]) = {}
    BY <2>1 DEF Range
  <2>3. \A u \in URI : stamp[u] = "clear"
    BY <2>1, <2>2 DEF Exact, Has
  <2> QED BY <2>3, <1>4, <1>5 DEF Exact
<1>8. Tidy(p)'
  BY <1>1, <1>4, <1>6 DEF Tidy, Calm, Away
<1>9. Precise(p)'
  BY <1>1, <1>7 DEF Precise, Calm, NoFailures
<1> QED BY <1>8, <1>9

LEMMA ResyncListAlone ==
    ASSUME Types, NEW p \in Proc, Alone(p), ResyncList(p)
    PROVE  (Tidy(p) /\ Precise(p))'
<1>1. pc[p] = "list" /\ pc'[p] = "resync" /\ failures' = failures
  BY Mine DEF ResyncList, Listing
<1>2. ~ NoFailures
  BY <1>1 DEF Alone, Precise, Calm
<1> QED BY <1>1, <1>2 DEF Tidy, Precise, Calm, Away, NoFailures

LEMMA PubdRollsBackAlone ==
    ASSUME Types, NEW p \in Proc, Alone(p), PubdRollsBack(p)
    PROVE  (Tidy(p) /\ Precise(p))'
<1>1. /\ pc[p] = "ready" /\ pc'[p] = "sent" /\ UNCHANGED <<objs, queue, handlers>>
  BY Mine DEF PubdRollsBack
<1>2. ~ NoFailures'
  BY FailCounts DEF PubdRollsBack
<1> QED BY <1>1, <1>2 DEF Alone, Tidy, Precise, Calm, Away

LEMMA TickAlone ==
    ASSUME Types, NEW p \in Proc, Alone(p), Tick
    PROVE  (Tidy(p) /\ Precise(p))'
<1>1. UNCHANGED <<objs, pubd, pc, queue, handlers, touched, reply, failures>>
  BY DEF Tick
<1>2. \A u \in URI : stamp'[u] # "clear" => stamp[u] # "clear"
  BY TypesParts DEF Tick, RowsOK
<1>3. Tidy(p)'
  BY <1>1 DEF Alone, Tidy
<1>4. Precise(p)'
  BY <1>1, <1>2 DEF Alone, Precise, Settled, Exact, NoFailures
<1> QED BY <1>3, <1>4

\* The last manifest of an operation lists what it leaves for its detail d, and
\* the other details' products are as they were.
LEMMA MoreManifests ==
    ASSUME Types, Manifests, NEW d \in Detail, NEW o \in [URI -> Values],
           version' \in Version, version' > version, objs' = o,
           \A i \in 1 .. version : listing'[i] = listing[i],
           listing'[version'] = Products(o), o[d] = version',
           \A x \in URI : x # d /\ (x \in Product => DetailOf[x] # d) => o[x] = objs[x]
    PROVE  Manifests'
<1>1. version \in Nat /\ version' \in Nat /\ version < version' /\ 1 <= version
  BY TypesParts, Constants DEF RowsOK
<1>2. ASSUME NEW e \in Detail PROVE objs'[e] \in 1 .. version'
  <2>1. CASE e = d
    BY <2>1, <1>1
  <2>2. CASE e # d
    <3>1. o[e] = objs[e] /\ objs[e] \in 1 .. version
      BY <2>2, Constants DEF Manifests
    <3> QED BY <3>1, <1>1
  <2> QED BY <2>1, <2>2
<1>3. ASSUME NEW u \in Product PROVE listing'[objs'[DetailOf[u]]][u] = objs'[u]
  <2>1. CASE DetailOf[u] = d
    <3>1. listing'[objs'[DetailOf[u]]] = Products(o)
      BY <2>1
    <3> QED BY <3>1 DEF Products
  <2>2. CASE DetailOf[u] # d
    <3>1. u \in URI /\ u # d /\ DetailOf[u] \in Detail /\ DetailOf[u] \in URI /\ DetailOf[u] \notin Product
      BY Constants
    <3>2. objs'[u] = objs[u] /\ objs'[DetailOf[u]] = objs[DetailOf[u]]
      BY <2>2, <3>1
    <3>3. objs[DetailOf[u]] \in 1 .. version /\ listing[objs[DetailOf[u]]][u] = objs[u]
      BY <3>1 DEF Manifests
    <3> QED BY <3>2, <3>3
  <2> QED BY <2>1, <2>2
<1> QED BY <1>2, <1>3 DEF Manifests

LEMMA SigningManifests ==
    ASSUME Types, Manifests, NEW p \in Proc, NEW s \in Work, NEW uris, NEW next,
           Signing(p, s, uris, next), NEW d \in Detail, s.objs[d] = version + 1,
           \A x \in URI : x # d /\ (x \in Product => DetailOf[x] # d) => s.objs[x] = objs[x]
    PROVE  Manifests'
<1> DEFINE new == Products(s.objs)
           o == s.objs
<1>1. /\ listing \in Seq([Product -> Values]) /\ Len(listing) = version /\ version \in Nat
      /\ version >= 1 /\ version + 1 \in Version
  BY NextVersion, TypesParts, Constants DEF RowsOK, Signing
<1>2. version' = version + 1 /\ listing' = Append(listing, new) /\ objs' = o
  BY DEF Signing, Queueing
<1>3. o \in [URI -> Values]
  BY DEF Work
<1> HIDE DEF new
<1>4. (\A i \in 1 .. version : listing'[i] = listing[i]) /\ listing'[version'] = new
  BY <1>1, <1>2
<1>5. version' > version /\ version' \in Version
  BY <1>1, <1>2
<1> HIDE DEF o
<1>6. listing'[version'] = Products(o)
  BY <1>4 DEF new, o
<1>7. /\ o[d] = version'
      /\ \A x \in URI : x # d /\ (x \in Product => DetailOf[x] # d) => o[x] = objs[x]
  BY <1>2 DEF o
<1> QED BY <1>2, <1>3, <1>4, <1>5, <1>6, <1>7, MoreManifests

LEMMA SigningsManifests ==
    ASSUME Types, Manifests, NEW p \in Proc, NEW u \in Product, NEW next \in {"queue", "ready"},
           IssueCert(p, u, next) \/ RevokeCert(p, u, next)
    PROVE  Manifests'
<1> DEFINE d == DetailOf[u]
           v == version + 1
<1>1. d \in Detail /\ d \in URI /\ u \in URI /\ d # u /\ objs \in [URI -> Values] /\ v \in Version
  BY Constants, NextVersion, TypesParts DEF RowsOK, IssueCert, RevokeCert, Signing
<1>2. State(p) \in Work /\ State(p).objs = objs
  BY StateType
<1>3. CASE IssueCert(p, u, next)
  <2> DEFINE s == Issue(State(p), u, v)
  <2>1. s \in Work /\ s.objs = [objs EXCEPT ![u] = v, ![d] = v]
    <3> HIDE DEF v
    <3>1. \A t \in Work : LET i == Issue(t, u, v)
                         IN  i \in Work /\ i.objs = [t.objs EXCEPT ![u] = v, ![d] = v]
      BY <1>1, IssueType
    <3> QED BY <1>2, <3>1
  <2>2. Signing(p, s, {u}, next)
    BY <1>3 DEF IssueCert
  <2> HIDE DEF s
  <2>3. s.objs[d] = v /\ \A x \in URI : x # d /\ x # u => s.objs[x] = objs[x]
    <3> HIDE DEF d, v
    <3> QED BY <1>1, <2>1
  <2>4. \A x \in URI : x # d /\ (x \in Product => DetailOf[x] # d) => s.objs[x] = objs[x]
    BY <2>3
  <2>5. s.objs[d] = version + 1 /\ s \in Work /\ d \in Detail
    BY <1>1, <2>1, <2>3
  <2> HIDE DEF d, v
  <2> QED BY <2>2, <2>4, <2>5, SigningManifests
<1>4. CASE RevokeCert(p, u, next)
  <2> DEFINE r == Revoke(State(p), u)
             s == Generate(r, d, v)
  <2>1. r \in Work /\ r.objs = [objs EXCEPT ![u] = None]
    BY <1>2, RevokeType
  <2>2. Signing(p, s, {u}, next)
    BY <1>4 DEF RevokeCert
  <2> HIDE DEF r
  <2>3. s \in Work /\ s.objs = [r.objs EXCEPT ![d] = v]
    <3> HIDE DEF v, d
    <3>1. \A t \in Work : /\ Generate(t, d, v) \in Work
                          /\ Generate(t, d, v).objs = [t.objs EXCEPT ![d] = v]
      BY <1>1, GenerateType
    <3> QED BY <2>1, <3>1
  <2> HIDE DEF s
  <2>4. s.objs[d] = v /\ \A x \in URI : x # d /\ x # u => s.objs[x] = objs[x]
    BY <1>1, <2>1, <2>3
  <2>5. \A x \in URI : x # d /\ (x \in Product => DetailOf[x] # d) => s.objs[x] = objs[x]
    BY <2>4
  <2> QED BY <1>1, <2>2, <2>3, <2>4, <2>5, SigningManifests
<1> QED BY <1>3, <1>4

LEMMA RegenerateManifests ==
    ASSUME Types, Manifests, NEW p \in Proc, NEW d \in Detail, Regenerate(p, d)
    PROVE  Manifests'
<1> DEFINE v == version + 1
           s == Generate(State(p), d, v)
<1>1. d \in URI /\ objs \in [URI -> Values] /\ v \in Version
  BY Constants, NextVersion, TypesParts DEF RowsOK, Regenerate, Signing
<1>2. s \in Work /\ s.objs = [objs EXCEPT ![d] = v]
  <2> HIDE DEF v
  <2>1. \A t \in Work : Generate(t, d, v) \in Work /\ Generate(t, d, v).objs = [t.objs EXCEPT ![d] = v]
    BY <1>1, GenerateType
  <2> QED BY <2>1, StateType
<1>3. Signing(p, s, {}, "ready")
  BY DEF Regenerate
<1> HIDE DEF s
<1>4. /\ s.objs[d] = version + 1
      /\ \A x \in URI : x # d /\ (x \in Product => DetailOf[x] # d) => s.objs[x] = objs[x]
  BY <1>1, <1>2
<1> QED BY <1>2, <1>3, <1>4, SigningManifests

LEMMA RevokeAndIssueManifests ==
    ASSUME Types, Manifests, NEW p \in Proc, NEW u \in Product, NEW next \in {"queue", "ready"},
           RevokeAndIssue(p, u, next)
    PROVE  Manifests'
<1> DEFINE d == DetailOf[u]
           s == AndIssued(p, u)
           one == [Products(objs) EXCEPT ![u] = None]
           two == Products(s.objs)
           o == s.objs
<1>1. AndIssuing(p, u, next)
  BY RevokeAndIssueIs
<1>2. /\ d \in Detail /\ d \in URI /\ u \in URI /\ d # u /\ objs \in [URI -> Values]
      /\ listing \in Seq([Product -> Values]) /\ Len(listing) = version
  BY Constants, TypesParts DEF RowsOK
<1>3. /\ version \in Nat /\ version >= 1 /\ version + 2 \in Version
      /\ s \in Work /\ s.objs = [objs EXCEPT ![u] = version + 2, ![d] = version + 2]
  <2>1. version + 1 < MaxVersion
    BY <1>1 DEF AndIssuing
  <2>2. version \in Version /\ version + 2 \in Version /\ s \in Work
    BY <2>1, AndIssuedType
  <2>3. s.objs = [objs EXCEPT ![u] = version + 2, ![d] = version + 2]
    BY <2>1, AndIssuedType
  <2>4. version \in Nat /\ version >= 1
    BY <2>2, Constants
  <2> QED BY <2>2, <2>3, <2>4
<1>4. version' = version + 2 /\ listing' = listing \o <<one, two>> /\ objs' = o
  BY <1>1 DEF AndIssuing, Queueing
<1>5. o \in [URI -> Values]
  BY <1>3 DEF Work
<1>6. o[d] = version' /\ \A x \in URI : x # d /\ x # u => o[x] = objs[x]
  BY <1>2, <1>3, <1>4
<1> HIDE DEF s, one, two
<1>7. (\A i \in 1 .. version : listing'[i] = listing[i]) /\ listing'[version'] = two
  BY <1>2, <1>3, <1>4
<1>8. listing'[version'] = Products(o)
  BY <1>7 DEF two
<1>9. version' > version /\ version' \in Version
  BY <1>3, <1>4
<1>10. \A x \in URI : x # d /\ (x \in Product => DetailOf[x] # d) => o[x] = objs[x]
  BY <1>6
<1> HIDE DEF o, d
<1> QED BY <1>2, <1>4, <1>5, <1>6, <1>7, <1>8, <1>9, <1>10, MoreManifests

LEMMA SameManifests ==
    ASSUME Manifests, UNCHANGED <<objs, listing, version>>
    PROVE  Manifests'
BY DEF Manifests

-----------------------------------------------------------------------------
\* Every step of a coroutine that is alone keeps it so.
LEMMA StepAlone ==
    ASSUME NEW p, Proc = {p}, Types, Alone(p), [Next]_vars
    PROVE  Alone(p)'
<1>1. p \in Proc /\ Manifests /\ State(p).objs = objs
  BY StateType DEF Alone
<1>2. CASE Tick
  <2>1. UNCHANGED <<objs, listing, version>>
    BY <1>2 DEF Tick
  <2> QED BY <1>1, <1>2, <2>1, TickAlone, SameManifests DEF Alone
<1>3. CASE StepOf(p)
  <2>1. CASE \E u \in Product, next \in {"queue", "ready"} :
                IssueCert(p, u, next) \/ RevokeAndIssue(p, u, next) \/ RevokeCert(p, u, next)
    BY <1>1, <2>1, IssueCertAlone, RevokeCertAlone, RevokeAndIssueAlone,
       SigningsManifests, RevokeAndIssueManifests DEF Alone
  <2>2. CASE \E d \in Detail : Regenerate(p, d)
    BY <1>1, <2>2, RegenerateAlone, RegenerateManifests DEF Alone
  <2>3. CASE Retry(p)
    <3>1. UNCHANGED <<objs, listing, version>>
      BY <1>1, <2>3, StateType, RetryType DEF Retry, Queueing
    <3> QED BY <1>1, <2>3, <3>1, RetryAlone, SameManifests DEF Alone
  <2>4. CASE StartPublishWorld(p)
    <3>1. UNCHANGED <<objs, listing, version>>
      BY <1>1, <2>4 DEF StartPublishWorld, Queueing
    <3> QED BY <1>1, <2>4, <3>1, StartPublishWorldAlone, SameManifests DEF Alone
  <2>5. CASE EndTask(p)
    <3>1. UNCHANGED <<objs, listing, version>>
      BY <2>5 DEF EndTask
    <3> QED BY <1>1, <2>5, <3>1, EndTaskAlone, SameManifests DEF Alone
  <2>6. CASE Send(p)
    <3>1. UNCHANGED <<objs, listing, version>>
      BY <2>6 DEF Send
    <3> QED BY <1>1, <2>6, <3>1, SendAlone, SameManifests DEF Alone
  <2>7. CASE SendNothing(p) \/ ReplyResync(p) \/ LoseRequest(p) \/ LoseReply(p)
    <3>1. UNCHANGED <<objs, listing, version>>
      BY <2>7 DEF SendNothing, ReplyResync, LoseRequest, LoseReply
    <3> QED BY <1>1, <2>7, <3>1, EndingAlone, SameManifests DEF Alone
  <2>8. CASE Reply(p)
    <3>1. UNCHANGED <<objs, listing, version>>
      BY <1>1, <2>8, ReplyAlone DEF Reply
    <3> QED BY <1>1, <2>8, <3>1, ReplyAlone, SameManifests DEF Alone
  <2>9. CASE ReplyOutOfSync(p)
    <3>1. UNCHANGED <<objs, listing, version>>
      BY <1>1, <2>9, ReplyOutOfSyncAlone DEF ReplyOutOfSync
    <3> QED BY <1>1, <2>9, <3>1, ReplyOutOfSyncAlone, SameManifests DEF Alone
  <2>10. CASE ResyncList(p) \/ PublishWorld(p)
    <3>1. UNCHANGED <<objs, listing, version>>
      BY <2>10 DEF ResyncList, PublishWorld, Listing
    <3> QED BY <1>1, <2>10, <3>1, ResyncListAlone, PublishWorldAlone, SameManifests DEF Alone
  <2>11. CASE PubdRollsBack(p)
    <3>1. UNCHANGED <<objs, listing, version>>
      BY <2>11 DEF PubdRollsBack
    <3> QED BY <1>1, <2>11, <3>1, PubdRollsBackAlone, SameManifests DEF Alone
  <2> QED BY <1>3, <2>1, <2>2, <2>3, <2>4, <2>5, <2>6, <2>7, <2>8, <2>9, <2>10, <2>11
          DEF StepOf, Calling, Failing
<1>4. CASE UNCHANGED vars
  BY <1>4 DEF vars, Alone, Tidy, Precise, Settled, Manifests, NoFailures
<1> QED BY <1>1, <1>2, <1>3, <1>4, Steps

LEMMA AloneAlways ==
    ASSUME NEW p, Proc = {p}
    PROVE  Spec => [](Types /\ Alone(p))
<1>1. Init => Types /\ Alone(p)
  BY InitTypes, InitAlone
<1>2. Types /\ Alone(p) /\ [Next]_vars => Types' /\ Alone(p)'
  BY StepTypes, StepAlone
<1> QED BY <1>1, <1>2, PTL DEF Spec

\* A message of a coroutine that is alone never has two PDUs for one URI, however
\* many operations, retries and revocations went into it.  While nothing has
\* failed pubd accepts every PDU of it, and holds rpkid's database after it
\* (publication_queue.queue, check_failed_publication).
THEOREM QueueIsExact ==
    ASSUME NEW p, Proc = {p}
    PROVE  Spec => []QueueExact
<1>1. Types /\ Alone(p) => QueueExact
  <2> SUFFICES ASSUME Types, Alone(p), NEW r \in Proc, pc[r] \in {"queue", "ready"}, NoFailures
               PROVE  /\ \A i, j \in DOMAIN queue[r] : queue[r][i].uri = queue[r][j].uri => i = j
                      /\ Refused(queue[r]) = {}
                      /\ Applied(queue[r]) = objs
    BY TypesImply DEF QueueExact
  <2>1. r = p /\ p \in Proc
    OBVIOUS
  <2>2. /\ Distinct(queue[p]) /\ Kept(Range(queue[p]), objs, handlers[p])
        /\ Exact(Range(queue[p]), objs, stamp, handlers[p], pubd)
    BY <2>1 DEF Alone, Tidy, Precise, Calm
  <2>3. queue[p] \in Seq(PDU)
    BY <2>1, Mine
  <2>4. Refused(queue[p]) = {} /\ Applied(queue[p]) = objs
    BY <2>2, <2>3, ExactMeans
  <2> QED BY <2>1, <2>2, <2>4 DEF Distinct
<1> QED BY <1>1, AloneAlways, PTL

\* With a coroutine that is alone, whatever fails, the manifest that the database
\* holds of each detail lists just the certificates it holds: the callbacks that
\* save an instance again never bring back an older object.
THEOREM ManifestsAreComplete ==
    ASSUME NEW p, Proc = {p}
    PROVE  Spec => []ManifestComplete
<1>1. Types /\ Alone(p) => ManifestComplete
  BY DEF Alone, Manifests, ManifestComplete
<1> QED BY <1>1, AloneAlways, PTL

-----------------------------------------------------------------------------
(***************************************************************************)
(* Resynchronization: what is not in our_objs is withdrawn.                *)
(***************************************************************************)

\* Until the second message is answered, it is the difference between what
\* pubd listed and our_objs; pubd took all of it or none.
Mended(p) ==
    /\ pc[p] = "resync" => Orders(queue[p], {u \in URI : pubd[u] # Ours[u]}, Ours)
    /\ pc[p] = "resent" /\ reply[p].error = "none" => pubd = Ours

LEMMA OursSame ==
    ASSUME objs' = objs
    PROVE  Ours' = Ours
BY DEF Ours, OurObjs

\* A message that is the difference between two lists makes one of the other.
LEMMA OrdersApplied ==
    ASSUME Types, NEW q, NEW o \in [URI -> Values], Orders(q, {u \in URI : pubd[u] # o[u]}, o)
    PROVE  Applied(q) = o
<1>1. /\ q \in Seq(PDU) /\ \A i \in DOMAIN q : q[i] \in Range(q)
      /\ \A e \in Range(q) : e.uri \in URI /\ e.new = o[e.uri]
  BY DEF Orders, Range
<1>2. \A u \in URI : ~ Has(Range(q), u) => pubd[u] = o[u]
  BY DEF Orders
<1>3. ASSUME NEW u \in URI
      PROVE  (IF \E i \in DOMAIN q : q[i].uri = u
              THEN q[CHOOSE i \in DOMAIN q : q[i].uri = u].new ELSE pubd[u]) = o[u]
  <2>1. CASE \E i \in DOMAIN q : q[i].uri = u
    BY <2>1, <1>1
  <2>2. CASE ~ \E i \in DOMAIN q : q[i].uri = u
    <3>1. ~ Has(Range(q), u)
      BY <2>2 DEF Has, Range
    <3> QED BY <2>2, <3>1, <1>2
  <2> QED BY <2>1, <2>2
<1> QED BY <1>3 DEF Applied

LEMMA StepMended ==
    ASSUME NEW p, Proc = {p}, Types, Mended(p), [Next]_vars
    PROVE  Mended(p)'
<1>1. p \in Proc
  OBVIOUS
<1>2. ASSUME pc'[p] \notin {"resync", "resent"} PROVE Mended(p)'
  BY <1>2 DEF Mended
<1>3. CASE Tick
  BY <1>3, OursSame DEF Tick, Mended, Orders, Has, Distinct
<1>4. CASE UNCHANGED vars
  BY <1>4, OursSame DEF vars, Mended, Orders, Has, Distinct
<1>5. ASSUME NEW s, NEW uris, NEW next \in {"queue", "ready", "world"}, Queueing(p, s, uris, next)
      PROVE  Mended(p)'
  <2>1. pc'[p] = next
    BY <1>1, <1>5, Mine DEF Queueing
  <2> QED BY <2>1, <1>2
<1>6. ASSUME Idle(p) PROVE Mended(p)'
  <2>1. pc'[p] = "idle"
    BY <1>1, <1>6, Mine DEF Idle
  <2> QED BY <2>1, <1>2
<1>7. CASE ResyncList(p)
  <2>1. /\ pc'[p] = "resync" /\ queue'[p] = ResyncMessage /\ pubd' = pubd /\ objs' = objs
    BY <1>1, <1>7, Mine DEF ResyncList, Listing
  <2>2. Orders(ResyncMessage, {u \in URI : pubd[u] # Ours[u]}, Ours) /\ Ours' = Ours
    BY <2>1, ResyncMessageIs, OursSame
  <2> HIDE DEF Mended
  <2>3. Orders(queue[p], {u \in URI : pubd[u] # Ours[u]}, Ours)'
    BY <2>1, <2>2 DEF Orders, Has, Distinct
  <2> QED BY <2>1, <2>3 DEF Mended
<1>8. CASE Send(p)
  <2>1. CASE pc[p] = "ready"
    <3>1. pc'[p] = "sent"
      BY <1>1, <1>8, <2>1, Mine DEF Send
    <3> QED BY <3>1, <1>2
  <2>2. CASE pc[p] = "resync"
    <3>1. pc'[p] = "resent" /\ Ours' = Ours
      BY <1>1, <1>8, <2>2, Mine, OursSame DEF Send
    <3>2. Orders(queue[p], {u \in URI : pubd[u] # Ours[u]}, Ours) /\ Ours \in [URI -> Values]
      BY <2>2, ResyncMessageIs DEF Mended
    <3>3. Applied(queue[p]) = Ours
      BY <3>2, <1>1, Mine, OrdersApplied
    <3>4. reply'[p].error = "none" => pubd' = Ours
      <4>1. CASE Refused(queue[p]) = {}
        BY <1>8, <4>1, <3>3 DEF Send, Answer
      <4>2. CASE Refused(queue[p]) # {}
        <5> DEFINE first == CHOOSE i \in Refused(queue[p]) : \A j \in Refused(queue[p]) : i <= j
                   r == [ok |-> first - 1, error |-> "sync"]
        <5>1. reply' = [reply EXCEPT ![p] = r]
          BY <1>8, <4>2 DEF Send, Answer
        <5>2. r.error = "sync"
          OBVIOUS
        <5> HIDE DEF r
        <5>3. reply'[p] = r
          BY <5>1, <1>1, Mine
        <5> QED BY <5>2, <5>3
      <4> QED BY <4>1, <4>2
    <3> QED BY <3>1, <3>4 DEF Mended
  <2> QED BY <1>8, <2>1, <2>2 DEF Send
<1>9. CASE StepOf(p)
  <2>1. CASE \E u \in Product, next \in {"queue", "ready"} :
                IssueCert(p, u, next) \/ RevokeAndIssue(p, u, next) \/ RevokeCert(p, u, next)
    BY <2>1, <1>5 DEF IssueCert, RevokeAndIssue, RevokeCert, Signing
  <2>2. CASE (\E e \in Detail : Regenerate(p, e)) \/ Retry(p) \/ StartPublishWorld(p)
    BY <2>2, <1>5 DEF Regenerate, Signing, Retry, StartPublishWorld
  <2>3. CASE SendNothing(p) \/ Reply(p) \/ ReplyResync(p) \/ LoseRequest(p) \/ LoseReply(p)
    BY <2>3, <1>6 DEF SendNothing, Reply, ReplyResync, LoseRequest, LoseReply
  <2>4. CASE EndTask(p) \/ ReplyOutOfSync(p) \/ PublishWorld(p) \/ PubdRollsBack(p)
    <3>1. \A x : [pc EXCEPT ![p] = x][p] = x
      BY <1>1, Mine
    <3>2. pc' = [pc EXCEPT ![p] = "ready"] \/ pc' = [pc EXCEPT ![p] = "list"]
             \/ pc' = [pc EXCEPT ![p] = "sent"]
      BY <2>4 DEF EndTask, ReplyOutOfSync, PublishWorld, Listing, PubdRollsBack
    <3>3. pc'[p] = "ready" \/ pc'[p] = "list" \/ pc'[p] = "sent"
      BY <3>1, <3>2
    <3> QED BY <3>3, <1>2
  <2> QED BY <1>7, <1>8, <1>9, <2>1, <2>2, <2>3, <2>4 DEF StepOf, Calling, Failing
<1> QED BY <1>3, <1>4, <1>9, Steps

\* With one coroutine and any number of details: a resynchronization whose
\* second message pubd accepted ends with pubd holding what the database has of
\* the last detail that the query listed and nothing of the others, whatever was
\* lost, applied twice or rolled back before (publication_queue.resync).
THEOREM ResynchronizationRepairs ==
    ASSUME NEW q, Proc = {q}
    PROVE  Spec => ResyncRepairs
<1> DEFINE Repaired == \A p \in Proc : ReplyResync(p) /\ reply[p].error = "none" => pubd' = Ours'
<1>1. Init => Mended(q)
  BY DEF Init, Mended
<1>2. Types /\ Mended(q) /\ [Next]_vars => Mended(q)'
  BY StepMended
<1>3. Mended(q) /\ [Next]_vars => [Repaired]_vars
  <2> SUFFICES ASSUME Mended(q), NEW p \in Proc, ReplyResync(p), reply[p].error = "none"
               PROVE  pubd' = Ours'
    OBVIOUS
  <2>1. p = q /\ pc[p] = "resent" /\ pubd' = pubd /\ objs' = objs
    BY DEF ReplyResync
  <2>2. pubd = Ours
    BY <2>1 DEF Mended
  <2> QED BY <2>1, <2>2, OursSame
<1>4. Spec => []Types
  BY InitTypes, StepTypes, PTL DEF Spec
<1>5. Spec => [][Repaired]_vars
  BY <1>1, <1>2, <1>3, <1>4, PTL DEF Spec
<1> QED BY <1>5, PTL DEF ResyncRepairs

\* With one detail these are all objects: pubd then has what rpkid has.
LEMMA OursIsAll ==
    ASSUME Types, NEW d, Detail = {d}
    PROVE  Ours = objs
<1>1. objs \in [URI -> Values]
  BY TypesParts DEF RowsOK
<1>2. OurDetails = {d}
  <2>1. Listed \in Seq(Detail) /\ Range(Listed) = Detail
    BY Constants
  <2>2. DOMAIN Listed = 1 .. Len(Listed) /\ Len(Listed) \in Nat
    BY <2>1
  <2>3. 1 .. Len(Listed) # {}
    BY <2>1, <2>2 DEF Range
  <2>4. Len(Listed) \in DOMAIN Listed
    BY <2>2, <2>3
  <2>5. Listed[Len(Listed)] \in Detail
    BY <2>1, <2>4 DEF Range
  <2> QED BY <2>5 DEF OurDetails
<1>3. \A u \in URI : u \in OurObjs <=> objs[u] # None
  BY <1>2, Constants DEF OurObjs, IssuedBy, URI
<1> QED BY <1>1, <1>3 DEF Ours

=============================================================================
