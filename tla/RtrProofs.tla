----------------------------- MODULE RtrProofs -----------------------------
(***************************************************************************)
(* Proofs about Rtr, for every finite set of payloads, every range of      *)
(* serial numbers and every bound on runs and crashes: type correctness,   *)
(* that the set named by current can be served, that a serial number and a *)
(* nonce name one set unless the clock comes round, and that a router      *)
(* which has committed a set under them has that one unless answers have   *)
(* crossed or a second has been used twice.                                *)
(***************************************************************************)
EXTENDS Rtr, FiniteSetTheorems, SequenceTheorems, TLAPS

NonceOrNone == Nonce \cup {None}
SerialOrNone == Serial \cup {None}

LEMMA Constants ==
    /\ None = -1 /\ Serial \subseteq Nat /\ Nonce \subseteq Nat \ {0}
    /\ MaxRuns \in Nat /\ MaxCrashes \in Nat
    /\ Unset \in Label /\ NoJob \in Job
BY RtrAssumption DEF None, Nonce, Unset, Label, NoJob, Job, Steps

-----------------------------------------------------------------------------
(***************************************************************************)
(* Types.                                                                  *)
(***************************************************************************)

\* A finite set's elements, in some order.
LEMMA SetToSeqType ==
    ASSUME NEW S, IsFiniteSet(S)
    PROVE  SetToSeq(S) \in Seq(S) /\ Range(SetToSeq(S)) = S
<1> DEFINE n == Cardinality(S)
           P(f) == IsInjective(f)
<1>1. n \in Nat /\ ExistsBijection(1 .. n, S)
  BY FS_CardinalityType
<1>2. PICK g \in [1 .. n -> S] : IsInjective(g)
  BY <1>1 DEF ExistsBijection, Bijection, Injection
<1> HIDE DEF P
<1>3. \E f \in [1 .. n -> S] : P(f)
  BY <1>2 DEF P
<1>4. /\ (CHOOSE f \in [1 .. n -> S] : P(f)) \in [1 .. n -> S]
      /\ P(CHOOSE f \in [1 .. n -> S] : P(f))
  BY <1>3
<1> DEFINE f == SetToSeq(S)
<1>5. f \in [1 .. n -> S] /\ IsInjective(f)
  BY <1>4 DEF SetToSeq, P
<1> HIDE DEF f, n
<1>6. f \in Injection(1 .. n, S)
  BY <1>5 DEF Injection
<1>7. Cardinality(1 .. n) = n /\ IsFiniteSet(1 .. n)
  BY <1>1, FS_Interval
<1>8. f \in Surjection(1 .. n, S)
  BY <1>6, <1>7, FS_Injection DEF n
<1>9. Range(f) = S
  BY <1>8 DEF Surjection, Range
<1>10. f \in Seq(S)
  BY <1>1, <1>5
<1> QED BY <1>9, <1>10 DEF f

\* The PDUs of a difference.
LEMMA PrefixPDUs ==
    ASSUME NEW S \in SUBSET Prefix, NEW b \in BOOLEAN
    PROVE  LET T == {[kind |-> "prefix", pdu |-> p, announce |-> b] : p \in S}
           IN  T \subseteq Answer /\ SetToSeq(T) \in Seq(Answer) /\ SetToSeq(T) \in Seq(T)
<1> DEFINE R(p) == [kind |-> "prefix", pdu |-> p, announce |-> b]
           T == {R(p) : p \in S}
           f == [p \in S |-> R(p)]
<1>1. IsFiniteSet(S)
  BY RtrAssumption, FS_Subset
<1>2. f \in Surjection(S, T)
  BY DEF Surjection
<1>3. IsFiniteSet(T)
  BY <1>1, <1>2, FS_Surjection
<1>4. T \subseteq Answer
  BY DEF Answer
<1> HIDE DEF T
<1>5. SetToSeq(T) \in Seq(T)
  BY <1>3, SetToSeqType
<1>6. SetToSeq(T) \in Seq(Answer)
  BY <1>4, <1>5
<1> QED BY <1>4, <1>5, <1>6 DEF T

LEMMA TransferType ==
    ASSUME TypeOK, NEW add \in SUBSET Prefix, NEW del \in SUBSET Prefix
    PROVE  Transfer(add, del) \in Seq(Answer)
<1>1. CacheResponse \in Answer /\ EndOfData \in Answer
  BY DEF TypeOK, CacheResponse, EndOfData, Answer
<1>2. <<CacheResponse>> \in Seq(Answer) /\ <<EndOfData>> \in Seq(Answer)
  BY <1>1
<1>3. SetToSeq({[kind |-> "prefix", pdu |-> p, announce |-> FALSE] : p \in del}) \in Seq(Answer)
  BY PrefixPDUs
<1>4. SetToSeq({[kind |-> "prefix", pdu |-> p, announce |-> TRUE] : p \in add}) \in Seq(Answer)
  BY PrefixPDUs
<1> QED BY <1>2, <1>3, <1>4 DEF Transfer

LEMMA AnswerFields ==
    ASSUME NEW p \in Answer
    PROVE  /\ p.kind = "prefix" => p.pdu \in Prefix
           /\ p.kind = "end" => p.serial \in SerialOrNone /\ p.nonce \in NonceOrNone
<1>1. CASE p \in [kind : {"response"}, nonce : NonceOrNone]
  BY <1>1
<1>2. CASE p \in [kind : {"end", "notify"}, serial : SerialOrNone, nonce : NonceOrNone]
  BY <1>2
<1>3. CASE p \in [kind : {"prefix"}, pdu : Prefix, announce : BOOLEAN]
  BY <1>3
<1>4. CASE p \in [kind : {"reset", "error"}]
  BY <1>4
<1> QED BY <1>1, <1>2, <1>3, <1>4 DEF Answer, SerialOrNone, NonceOrNone

\* The cron job's steps keep the types.
LEMMA TypeJob ==
    ASSUME TypeOK, JobInv,
           \/ \E s \in Serial, pdus \in SUBSET Prefix : StartJob(s, pdus)
           \/ JobStep \/ CrashJob
    PROVE  TypeOK'
<1> USE Constants
<1>0. ASSUME job' \in Job, UNCHANGED <<disk, hist, runs, conn, clientVars>>, crashes' \in Nat
      PROVE  TypeOK'
  BY <1>0 DEF TypeOK, disk, conn, clientVars
<1>1. ASSUME NEW s \in Serial, NEW pdus \in SUBSET Prefix, StartJob(s, pdus) PROVE TypeOK'
  <2>1. job' \in Job
    BY <1>1 DEF StartJob, TypeOK, Job, Label, Steps
  <2>2. runs' \in 0 .. MaxRuns
    BY <1>1 DEF StartJob, TypeOK
  <2>3. DOMAIN ax' \subseteq DOMAIN ax /\ \A t \in DOMAIN ax' : ax'[t] = ax[t]
    BY <1>1 DEF StartJob, Without
  <2> QED BY <1>1, <2>1, <2>2, <2>3 DEF StartJob, TypeOK, conn, clientVars
<1>2. ASSUME NEW v \in File, ax' = With(ax, job.serial, v), job.serial \in Serial, job' \in Job,
             UNCHANGED <<ix, current, hist, runs, crashes, conn, clientVars>>
      PROVE  TypeOK'
  <2>1. DOMAIN ax' = DOMAIN ax \cup {job.serial}
        /\ \A t \in DOMAIN ax' : ax'[t] = v \/ (t \in DOMAIN ax /\ ax'[t] = ax[t])
    BY <1>2 DEF With
  <2> QED BY <1>2, <2>1 DEF TypeOK, conn, clientVars
<1>3. ASSUME NEW step \in Steps, Continue(step) PROVE job' \in Job
  BY <1>3 DEF Continue, TypeOK, Job
<1>4. CASE OpenAxfr
  <2>1. PICK part \in SUBSET job.pdus : ax' = With(ax, job.serial, [pdus |-> part, torn |-> TRUE])
    BY <1>4 DEF OpenAxfr
  <2>2. [pdus |-> part, torn |-> TRUE] \in File /\ job' \in Job
    BY <1>4, <1>3 DEF OpenAxfr, TypeOK, File, Job, Steps
  <2> QED BY <1>4, <2>1, <2>2, <1>2 DEF OpenAxfr, JobInv, Writing
<1>5. CASE SaveAxfr
  <2>1. [pdus |-> job.pdus, torn |-> FALSE] \in File
    BY DEF TypeOK, File, Job
  <2>2. job' \in Job
    BY <1>5 DEF SaveAxfr, TypeOK, Job, Steps
  <2> QED BY <1>5, <2>1, <2>2, <1>2 DEF SaveAxfr, JobInv, Writing
<1>6. ASSUME NEW old \in Serial, SaveIxfr(old) PROVE TypeOK'
  <2>1. old \in DOMAIN ax /\ job.serial \in Serial
    BY <1>6 DEF SaveIxfr, JobInv, Writing
  <2> DEFINE d == Difference(job.pdus, ax[old].pdus)
  <2>2. d \in Diff
    BY <2>1 DEF TypeOK, Difference, Diff, File, Job
  <2>3. job' \in Job
    BY <1>6 DEF SaveIxfr, TypeOK, Job
  <2> HIDE DEF d
  <2>4. ix' = With(ix, <<job.serial, old>>, d)
    BY <1>6 DEF SaveIxfr, d
  <2>5. DOMAIN ix' = DOMAIN ix \cup {<<job.serial, old>>}
        /\ \A t \in DOMAIN ix' : ix'[t] = d \/ (t \in DOMAIN ix /\ ix'[t] = ix[t])
    BY <2>4 DEF With
  <2>6. DOMAIN ix' \subseteq Serial \X Serial
    BY <2>1, <2>5 DEF TypeOK
  <2>7. \A t \in DOMAIN ix' : ix'[t] \in Diff
    BY <2>2, <2>5 DEF TypeOK
  <2> QED BY <1>6, <2>3, <2>6, <2>7 DEF SaveIxfr, TypeOK, conn, clientVars
<1>7. CASE LoadFails \/ CrashJob
  <2>1. crashes' \in Nat
    BY <1>7 DEF LoadFails, CrashJob, TypeOK
  <2> QED BY <1>7, <2>1, <1>0 DEF LoadFails, CrashJob
<1>8. CASE MarkCurrent
  <2>1. runs \in Nonce
    BY <1>8 DEF MarkCurrent, JobInv, Writing, TypeOK, Nonce
  <2>2. job' \in Job
    BY <1>8, <2>1 DEF MarkCurrent, TypeOK, Job, Steps
  <2> QED BY <1>8, <2>2, <1>0 DEF MarkCurrent, TypeOK
<1>9. ASSUME DOMAIN ax' \subseteq DOMAIN ax, \A t \in DOMAIN ax' : ax'[t] = ax[t],
             DOMAIN ix' \subseteq DOMAIN ix, \A t \in DOMAIN ix' : ix'[t] = ix[t],
             job' \in Job, UNCHANGED <<current, hist, runs, crashes, conn, clientVars>>
      PROVE  TypeOK'
  BY <1>9 DEF TypeOK, conn, clientVars
<1>10. CASE DestroyIxfrs
  <2>1. ix' = << >> /\ ax' = ax /\ job' \in Job
    BY <1>10, <1>3 DEF DestroyIxfrs, Steps
  <2>2. DOMAIN ix' = {}
    BY <2>1
  <2> QED BY <1>10, <1>9, <2>1, <2>2 DEF DestroyIxfrs
<1>11. CASE DestroyAxfrs
  BY <1>11, <1>3, <1>9 DEF DestroyAxfrs, Steps, Without
<1>12. CASE DeleteOldIxfrs
  BY <1>12, <1>9 DEF DeleteOldIxfrs, Without
<1>13. CASE WriteCurrent
  <2>1. LabelOf(job) \in Label
    BY DEF TypeOK, Job, Label, LabelOf
  <2> DEFINE m == [serial |-> job.serial, nonce |-> job.nonce, pdus |-> job.pdus]
  <2>2. m \in Made
    BY <1>13 DEF WriteCurrent, JobInv, Writing, TypeOK, Job, Made
  <2>3. Append(hist, m) \in Seq(Made)
    BY <2>2 DEF TypeOK
  <2>4. job' \in Job
    BY <1>13, <1>3 DEF WriteCurrent, Steps
  <2> QED BY <1>13, <2>1, <2>3, <2>4 DEF WriteCurrent, TypeOK, conn, clientVars
<1>14. CASE KickAll
  <2>1. job' \in Job
    BY <1>14, <1>3 DEF KickAll, Steps
  <2> QED BY <1>14, <2>1 DEF KickAll, TypeOK, disk, clientVars
<1> QED
  BY <1>1, <1>4, <1>5, <1>6, <1>7, <1>8, <1>10, <1>11, <1>12, <1>13, <1>14 DEF JobStep

\* The server's steps keep the types.
LEMMA TypeServer ==
    ASSUME TypeOK, QueryWaits, ServerStep
    PROVE  TypeOK'
<1>1. CASE ReadCurrent
  BY <1>1 DEF ReadCurrent, TypeOK, Label, disk, genVars, clientVars
<1>2. CASE Notify
  <2> DEFINE n == [kind |-> "notify", serial |-> current.serial, nonce |-> current.nonce]
  <2>1. n \in Answer
    BY DEF TypeOK, Label, Answer
  <2> HIDE DEF n
  <2>2. Append(down, n) \in Seq(Answer)
    BY <2>1 DEF TypeOK
  <2>3. down' \in Seq(Answer)
    BY <1>2, <2>2 DEF Notify, TypeOK, n
  <2>4. server' \in [known : BOOLEAN, step : {"idle", "reply"},
                     serial : SerialOrNone, nonce : NonceOrNone]
    BY <1>2 DEF Notify, TypeOK, Label, SerialOrNone, NonceOrNone
  <2> QED
    BY <1>2, <2>3, <2>4
    DEF Notify, TypeOK, disk, genVars, clientVars, SerialOrNone, NonceOrNone
<1>3. CASE Reply
  <2>1. up # << >> /\ up \in Seq(Query)
    BY <1>3 DEF Reply, TypeOK, QueryWaits
  <2>2. Head(up) \in Query /\ Tail(up) \in Seq(Query)
    BY <2>1
  <2>3. CacheReset \in Seq(Answer) /\ ErrorReport \in Seq(Answer)
    <3>1. [kind |-> "reset"] \in Answer /\ [kind |-> "error"] \in Answer
      BY DEF Answer
    <3> QED BY <3>1 DEF CacheReset, ErrorReport
  <2>4. Transfer({}, {}) \in Seq(Answer)
    BY TransferType
  <2>5. SerialAnswer(Head(up)) \in Seq(Answer)
    <3>1. CASE <<server.serial, Head(up).serial>> \in DOMAIN ix
      <4> DEFINE d == ix[<<server.serial, Head(up).serial>>]
      <4>1. d \in Diff
        BY <3>1 DEF TypeOK
      <4>2. d.add \in SUBSET Prefix /\ d.del \in SUBSET Prefix
        BY <4>1 DEF Diff
      <4> HIDE DEF d
      <4>3. Transfer(d.add, d.del) \in Seq(Answer)
        BY <4>2, TransferType
      <4> QED BY <2>3, <2>4, <4>3 DEF SerialAnswer, d
    <3>2. CASE <<server.serial, Head(up).serial>> \notin DOMAIN ix
      BY <3>2, <2>3, <2>4 DEF SerialAnswer
    <3> QED BY <3>1, <3>2
  <2>6. ResetAnswer \in Seq(Answer)
    <3>1. CASE server.serial \in DOMAIN ax
      <4>1. ax[server.serial].pdus \in SUBSET Prefix
        BY <3>1 DEF TypeOK, File
      <4>2. Transfer(ax[server.serial].pdus, {}) \in Seq(Answer)
        BY <4>1, TransferType
      <4> QED BY <3>1, <4>2 DEF ResetAnswer
    <3>2. CASE server.serial \notin DOMAIN ax
      BY <3>2, <2>3 DEF ResetAnswer
    <3> QED BY <3>1, <3>2
  <2>7. PICK more \in Seq(Answer) : down' = down \o more
    BY <1>3, <2>5, <2>6 DEF Reply
  <2>8. down' \in Seq(Answer)
    BY <2>7 DEF TypeOK
  <2> QED BY <1>3, <2>2, <2>8 DEF Reply, TypeOK, disk, genVars, clientVars
<1> QED BY <1>1, <1>2, <1>3 DEF ServerStep

LEMMA QueryTypes ==
    ASSUME TypeOK
    PROVE  ResetQuery \in Query /\ SerialQuery \in Query /\ DueQuery \in Query
BY DEF TypeOK, ResetQuery, SerialQuery, DueQuery, Query

ClientType == [up : BOOLEAN, table : SUBSET Prefix, serial : SerialOrNone,
               nonce : NonceOrNone]

\* The client's steps keep the types.
LEMMA TypeClient ==
    ASSUME TypeOK, ClientStep \/ Poll \/ Expire \/ Disconnect \/ Restart
    PROVE  TypeOK'
<1> USE Constants DEF NonceOrNone, SerialOrNone
<1>1. ResetQuery \in Query /\ SerialQuery \in Query /\ DueQuery \in Query
  BY QueryTypes
<1>2. \A q \in {ResetQuery, SerialQuery, DueQuery} : Append(up, q) \in Seq(Query)
  BY <1>1 DEF TypeOK
<1>3. Emptied(client) \in ClientType /\ Emptied(saved) \in Table
  BY DEF TypeOK, Emptied, ClientType, Table
<1>4. ASSUME down # << >>
      PROVE  /\ Tail(down) \in Seq(Answer)
             /\ Head(down).kind = "prefix" => Head(down).pdu \in Prefix
             /\ Head(down).kind = "end" => /\ Head(down).serial \in SerialOrNone
                                           /\ Head(down).nonce \in NonceOrNone
  <2>1. Head(down) \in Answer /\ Tail(down) \in Seq(Answer)
    BY <1>4 DEF TypeOK
  <2> QED BY <2>1, AnswerFields
<1>5. ASSUME Gone, UNCHANGED <<disk, genVars>>, crashes' \in Nat PROVE TypeOK'
  <2>1. NoServer \in [known : BOOLEAN, step : {"idle", "reply"},
                      serial : SerialOrNone, nonce : NonceOrNone]
    BY DEF NoServer
  <2>2. << >> \in Seq(Query) /\ << >> \in Seq(Answer)
    OBVIOUS
  <2>3. [client EXCEPT !.up = FALSE] \in ClientType
    BY DEF TypeOK, ClientType
  <2> QED BY <1>5, <2>1, <2>2, <2>3 DEF Gone, TypeOK, disk, genVars, ClientType
<1>6. ASSUME UNCHANGED <<disk, genVars, crashes, server, kicked>>,
             up' \in Seq(Query), down' \in Seq(Answer),
             client' \in ClientType, saved' \in Table
      PROVE  TypeOK'
  BY <1>6 DEF TypeOK, disk, genVars, ClientType
<1>7. client \in ClientType /\ saved \in Table /\ up \in Seq(Query) /\ down \in Seq(Answer)
  BY DEF TypeOK, ClientType
<1>8. CASE ConsumeNotify
  BY <1>8, <1>2, <1>4, <1>6, <1>7 DEF ConsumeNotify, Receive, Consumed, clientVars
<1>9. CASE ConsumeResponse
  BY <1>9, <1>3, <1>4, <1>6, <1>7 DEF ConsumeResponse, Receive, Consumed, clientVars
<1>10. CASE ConsumePrefix
  <2>1. client' \in ClientType
    BY <1>10, <1>4, <1>7 DEF ConsumePrefix, Receive, ClientType
  <2> QED BY <1>10, <2>1, <1>4, <1>6, <1>7 DEF ConsumePrefix, Receive, Consumed
<1>11. CASE ConsumeDuplicate
  BY <1>11, <1>5 DEF ConsumeDuplicate, Receive, TypeOK
<1>12. CASE ConsumeEnd
  <2>1. client' \in ClientType /\ saved' \in Table
    BY <1>12, <1>4, <1>7 DEF ConsumeEnd, Receive, ClientType, Table
  <2> QED BY <1>12, <2>1, <1>4, <1>6, <1>7 DEF ConsumeEnd, Receive, Consumed
<1>13. CASE ConsumeReset
  BY <1>13, <1>2, <1>3, <1>4, <1>6, <1>7 DEF ConsumeReset, Receive, Consumed
<1>14. CASE ConsumeError
  BY <1>14, <1>4, <1>6, <1>7 DEF ConsumeError, Receive, Consumed, clientVars
<1>15. CASE Poll
  BY <1>15, <1>1, <1>2, <1>6, <1>7 DEF Poll, TimerFires, disk, genVars, clientVars
<1>16. CASE Expire
  BY <1>16, <1>1, <1>2, <1>3, <1>6, <1>7 DEF Expire, TimerFires, disk, genVars
<1>17. CASE Disconnect
  BY <1>17, <1>5 DEF Disconnect, TypeOK
<1>18. CASE Restart
  <2>1. client' \in ClientType
    BY <1>18, <1>7 DEF Restart, ClientType, Table
  <2> QED BY <1>18, <2>1, <1>6, <1>7 DEF Restart, conn
<1> QED
  BY <1>8, <1>9, <1>10, <1>11, <1>12, <1>13, <1>14, <1>15, <1>16, <1>17, <1>18
  DEF ClientStep

LEMMA TypeInit == Init => TypeOK
<1> SUFFICES ASSUME Init PROVE TypeOK
  OBVIOUS
<1>1. DOMAIN ax = {} /\ DOMAIN ix = {}
  BY DEF Init
<1>2. << >> \in Seq(Query) /\ << >> \in Seq(Answer) /\ << >> \in Seq(Made)
  OBVIOUS
<1>3. current \in Label /\ job \in Job /\ runs \in 0 .. MaxRuns /\ crashes \in Nat
  BY Constants DEF Init
<1>4. server \in [known : BOOLEAN, step : {"idle", "reply"},
                 serial : SerialOrNone, nonce : NonceOrNone]
  BY DEF Init, NoServer, SerialOrNone, NonceOrNone
<1>5. client \in ClientType /\ saved \in Table
  BY DEF Init, ClientType, Table, SerialOrNone, NonceOrNone
<1> QED
  BY <1>1, <1>2, <1>3, <1>4, <1>5
  DEF Init, TypeOK, ClientType, SerialOrNone, NonceOrNone

LEMMA TypeNext == TypeOK /\ JobInv /\ QueryWaits /\ [Step]_sysVars => TypeOK'
<1> SUFFICES ASSUME TypeOK, JobInv, QueryWaits, [Step]_sysVars PROVE TypeOK'
  OBVIOUS
<1>1. CASE UNCHANGED sysVars
  <2>1. /\ ax' = ax /\ ix' = ix /\ current' = current /\ job' = job /\ hist' = hist
        /\ runs' = runs /\ crashes' = crashes /\ server' = server /\ kicked' = kicked
        /\ up' = up /\ down' = down /\ client' = client /\ saved' = saved
    BY <1>1 DEF sysVars, disk, genVars, conn, clientVars
  <2> QED BY <2>1 DEF TypeOK
<1>2. CASE Step
  BY <1>2, TypeJob, TypeServer, TypeClient DEF Step
<1> QED BY <1>1, <1>2

LEMMA QueryWaitsNext == QueryWaits /\ TypeOK /\ [Step]_sysVars => QueryWaits'
<1> SUFFICES ASSUME QueryWaits, TypeOK, [Step]_sysVars PROVE QueryWaits'
  OBVIOUS
<1>1. ASSUME UNCHANGED <<server, up>> PROVE QueryWaits'
  BY <1>1 DEF QueryWaits
<1>2. ASSUME NEW s \in Serial, NEW pdus \in SUBSET Prefix, StartJob(s, pdus) PROVE QueryWaits'
  BY <1>2, <1>1 DEF StartJob, conn
<1>3. CASE JobStep \/ CrashJob
  BY <1>3, <1>1 DEF JobStep, CrashJob, OpenAxfr, SaveAxfr, SaveIxfr, LoadFails, MarkCurrent,
     DestroyIxfrs, DestroyAxfrs, WriteCurrent, KickAll, DeleteOldIxfrs, conn
<1>4. CASE ServerStep
  <2>1. server'.step = "reply" => up # << >> /\ up' = up
    <3>1. server \in [known : BOOLEAN, step : {"idle", "reply"},
                      serial : SerialOrNone, nonce : NonceOrNone]
      BY DEF TypeOK, SerialOrNone, NonceOrNone
    <3>2. CASE ReadCurrent
      BY <3>2 DEF ReadCurrent
    <3>3. CASE Reply
      <4>1. server'.step = "idle"
        BY <3>1, <3>3 DEF Reply
      <4> QED BY <4>1
    <3>4. CASE Notify
      <4>1. server'.step = "idle"
        BY <3>1, <3>4 DEF Notify
      <4> QED BY <4>1
    <3> QED BY <1>4, <3>2, <3>3, <3>4 DEF ServerStep
  <2> QED BY <2>1 DEF QueryWaits
<1>5. ASSUME Gone PROVE QueryWaits'
  BY <1>5 DEF Gone, NoServer, QueryWaits
<1>6. ASSUME NEW q \in Query, up' = Append(up, q) \/ up' = up, server' = server
      PROVE  QueryWaits'
  <2>1. up \in Seq(Query)
    BY DEF TypeOK
  <2>2. Len(Append(up, q)) = Len(up) + 1 /\ Len(up) \in Nat /\ Append(up, q) \in Seq(Query)
    BY <2>1
  <2>3. Append(up, q) # << >>
    BY <2>2
  <2> QED BY <1>6, <2>3 DEF QueryWaits
<1>7. CASE ClientStep
  BY <1>7, <1>1, <1>5, <1>6, QueryTypes DEF ClientStep, ConsumeNotify, ConsumeResponse, ConsumePrefix,
     ConsumeDuplicate, ConsumeEnd, ConsumeReset, ConsumeError, Consumed
<1>8. CASE Poll \/ Expire
  <2>1. server' = server /\ (up' = Append(up, DueQuery) \/ up' = Append(up, ResetQuery))
    BY <1>8 DEF Poll, Expire, TimerFires
  <2> QED BY <2>1, <1>6, QueryTypes
<1>10. CASE Disconnect \/ Restart
  BY <1>10, <1>1, <1>5 DEF Disconnect, Restart, conn
<1>9. CASE UNCHANGED sysVars
  BY <1>9, <1>1 DEF sysVars, conn
<1> QED BY <1>2, <1>3, <1>4, <1>7, <1>8, <1>9, <1>10 DEF Step


-----------------------------------------------------------------------------
(***************************************************************************)
(* CurrentIsServable.  JobInv and it are inductive relative to TypeOK.     *)
(***************************************************************************)

\* The full set of current is whole, or gone for a reason.
Servable ==
    current # Unset =>
        IF current.serial \in DOMAIN ax
        THEN /\ ~ax[current.serial].torn
             /\ ax[current.serial].pdus = Last(hist).pdus
        ELSE crashes > 0 \/ (job.step = "write" /\ seq_ge(current.serial, job.serial))

LEMMA UnsetSerial ==
    ASSUME TypeOK, JobInv
    PROVE  current = Unset <=> current.serial = None
<1>1. hist # << >> => current.serial \in Serial
  <2> SUFFICES ASSUME hist # << >> PROVE current.serial \in Serial
    OBVIOUS
  <2>1. Last(hist) \in Made
    BY DEF TypeOK, Last
  <2> QED BY <2>1 DEF JobInv, LabelOf, Made
<1> QED BY <1>1, Constants DEF JobInv, Unset

LEMMA JobNext ==
    ASSUME TypeOK, JobInv, Servable, [Step]_sysVars
    PROVE  JobInv' /\ Servable'
<1> USE DEF NewNonce
<1>1. ASSUME UNCHANGED <<disk, genVars>>, crashes' >= crashes, crashes' \in Nat
      PROVE  JobInv' /\ Servable'
  BY <1>1 DEF disk, genVars, JobInv, Servable, TypeOK
<1>2. ASSUME NEW s \in Serial, NEW pdus \in SUBSET Prefix, Fresh(s), StartJob(s, pdus)
      PROVE  JobInv' /\ Servable'
  <2>1. /\ \A t \in DOMAIN ax : t = current.serial => t \in DOMAIN ax'
        /\ \A t \in DOMAIN ax' : t \in DOMAIN ax /\ ax'[t] = ax[t]
    BY <1>2 DEF StartJob, Without
  <2>2. /\ UNCHANGED <<ix, current, hist, crashes>> /\ runs' = runs + 1
        /\ job.step = "idle"
    BY <1>2 DEF StartJob
  <2>3. job' = job \/ (job'.step = "axfr" /\ job'.serial = s)
    BY <1>2 DEF StartJob
  <2>4. s # current.serial
    BY <1>2 DEF Fresh
  <2>5. JobInv'
    BY <2>2, <2>3, <2>4 DEF JobInv, Writing, TypeOK
  <2>6. Servable'
    BY <2>1, <2>2, <2>3 DEF Servable
  <2> QED BY <2>5, <2>6
<1>3. CASE OpenAxfr
  <2>1. PICK part : ax' = With(ax, job.serial, [pdus |-> part, torn |-> TRUE])
    BY <1>3 DEF OpenAxfr
  <2>2. job' = [job EXCEPT !.step = "axfrclose"] /\ UNCHANGED <<current, hist, runs, crashes>>
    BY <1>3 DEF OpenAxfr, Continue
  <2>3. job'.step = "axfrclose" /\ job'.serial = job.serial /\ job.step = "axfr"
    BY <1>3, <2>2 DEF OpenAxfr, TypeOK, Job
  <2>4. job.serial # current.serial
    BY <2>3 DEF JobInv, Writing
  <2>5. current.serial \in DOMAIN ax' <=> current.serial \in DOMAIN ax
    BY <2>1, <2>4 DEF With
  <2>6. current.serial \in DOMAIN ax => ax'[current.serial] = ax[current.serial]
    BY <2>1, <2>4 DEF With
  <2>7. JobInv'
    BY <2>2, <2>3 DEF JobInv, Writing
  <2>8. Servable'
    BY <2>2, <2>3, <2>5, <2>6 DEF Servable
  <2> QED BY <2>7, <2>8
<1>4. CASE SaveAxfr
  <2>1. ax' = With(ax, job.serial, [pdus |-> job.pdus, torn |-> FALSE])
    BY <1>4 DEF SaveAxfr
  <2>2. /\ job' = [job EXCEPT !.step = "ixfr", !.others = DOMAIN ax \ {job.serial}]
        /\ UNCHANGED <<current, hist, runs, crashes>> /\ job.step = "axfrclose"
    BY <1>4 DEF SaveAxfr
  <2>3. /\ job'.step = "ixfr" /\ job'.serial = job.serial /\ job'.pdus = job.pdus
        /\ job'.others \subseteq DOMAIN ax
    BY <2>2 DEF TypeOK, Job
  <2>4. job.serial # current.serial /\ job.serial \in Serial /\ runs >= 1
    BY <2>2 DEF JobInv, Writing
  <2>5. /\ current.serial \in DOMAIN ax' <=> current.serial \in DOMAIN ax
        /\ current.serial \in DOMAIN ax => ax'[current.serial] = ax[current.serial]
        /\ DOMAIN ax \subseteq DOMAIN ax'
        /\ job.serial \in DOMAIN ax'
        /\ ax'[job.serial] = [pdus |-> job.pdus, torn |-> FALSE]
    BY <2>1, <2>4 DEF With
  <2>6. JobInv'
    BY <2>2, <2>3, <2>4, <2>5 DEF JobInv, Writing
  <2>7. Servable'
    BY <2>2, <2>3, <2>5 DEF Servable
  <2> QED BY <2>6, <2>7
<1>5. ASSUME NEW old, SaveIxfr(old) PROVE JobInv' /\ Servable'
  <2>1. /\ job' = [job EXCEPT !.others = @ \ {old}]
        /\ UNCHANGED <<ax, current, hist, runs, crashes>> /\ job.step = "ixfr"
    BY <1>5 DEF SaveIxfr
  <2>2. /\ job'.step = "ixfr" /\ job'.serial = job.serial /\ job'.pdus = job.pdus
        /\ job'.others \subseteq job.others
    BY <2>1 DEF TypeOK, Job
  <2> QED BY <2>1, <2>2 DEF JobInv, Writing, Servable
<1>6. CASE LoadFails \/ CrashJob
  <2>1. /\ job'.step = "idle" /\ UNCHANGED <<disk, hist, runs>>
        /\ (crashes' = crashes /\ job.step = "ixfr") \/ crashes' = crashes + 1
    BY <1>6 DEF LoadFails, CrashJob, NoJob
  <2> QED BY <2>1 DEF JobInv, Writing, Servable, TypeOK, disk
<1>7. CASE MarkCurrent
  <2>1. /\ job.step = "ixfr" /\ UNCHANGED <<disk, hist, runs, crashes>>
        /\ job'.serial = job.serial /\ job'.pdus = job.pdus
        /\ job'.step = IF NewNonce THEN "destroyix" ELSE "write"
    BY <1>7 DEF MarkCurrent, TypeOK, Job
  <2> QED BY <2>1 DEF JobInv, Writing, Servable, disk
<1>8. CASE DestroyIxfrs
  <2>1. /\ job.step = "destroyix" /\ UNCHANGED <<ax, current, hist, runs, crashes>>
        /\ job'.serial = job.serial /\ job'.pdus = job.pdus /\ job'.step = "destroyax"
    BY <1>8 DEF DestroyIxfrs, Continue, TypeOK, Job
  <2> QED BY <2>1 DEF JobInv, Writing, Servable
<1>9. CASE DestroyAxfrs
  <2>1. /\ job.step = "destroyax" /\ UNCHANGED <<current, hist, runs, crashes>>
        /\ job'.serial = job.serial /\ job'.pdus = job.pdus /\ job'.step = "write"
    BY <1>9 DEF DestroyAxfrs, Continue, TypeOK, Job
  <2>2. job.serial \in DOMAIN ax /\ job.serial # current.serial /\ NewNonce
    BY <2>1 DEF JobInv, Writing
  <2>3. DOMAIN ax' = {job.serial} /\ ax'[job.serial] = ax[job.serial]
    BY <1>9, <2>2 DEF DestroyAxfrs, Without
  <2>4. JobInv'
    BY <2>1, <2>2, <2>3 DEF JobInv, Writing
  <2>5. Servable'
    BY <2>1, <2>2, <2>3, UnsetSerial DEF Servable
  <2> QED BY <2>4, <2>5
<1>10. CASE WriteCurrent
  <2> DEFINE m == [serial |-> job.serial, nonce |-> job.nonce, pdus |-> job.pdus]
  <2>1. /\ job.step = "write" /\ UNCHANGED <<ax, runs, crashes>>
        /\ current' = LabelOf(job) /\ hist' = Append(hist, m) /\ job'.step = "kick"
    BY <1>10 DEF WriteCurrent, Continue, TypeOK, Job
  <2>2. Last(hist') = m /\ hist' # << >>
    BY <2>1 DEF Last, TypeOK
  <2>3. /\ job.serial \in DOMAIN ax /\ job.serial \in Serial
        /\ ax[job.serial] = [pdus |-> job.pdus, torn |-> FALSE]
    BY <2>1 DEF JobInv, Writing
  <2>4. current' = LabelOf(m) /\ current'.serial = job.serial
    BY <2>1 DEF LabelOf
  <2>5. current' # Unset
    BY <2>3, <2>4, Constants DEF Unset
  <2>6. JobInv'
    BY <2>1, <2>2, <2>4, <2>5 DEF JobInv, Writing
  <2>7. Servable'
    BY <2>1, <2>2, <2>3, <2>4 DEF Servable
  <2> QED BY <2>6, <2>7
<1>11. CASE KickAll \/ DeleteOldIxfrs
  <2>1. /\ job.step \in {"kick", "cleanup"} /\ job'.step \in {"cleanup", "idle"}
        /\ UNCHANGED <<ax, current, hist, runs, crashes>>
    BY <1>11 DEF KickAll, DeleteOldIxfrs, Continue, TypeOK, Job, disk, NoJob
  <2> QED BY <2>1 DEF JobInv, Writing, Servable
<1>12. CASE ServerStep
  BY <1>12, <1>1 DEF ServerStep, ReadCurrent, Reply, Notify, TypeOK
<1>13. CASE ClientStep
  BY <1>13, <1>1 DEF ClientStep, ConsumeNotify, ConsumeResponse, ConsumePrefix,
     ConsumeDuplicate, ConsumeEnd, ConsumeReset, ConsumeError, Receive, TypeOK
<1>14. CASE Poll \/ Expire \/ Disconnect \/ Restart
  BY <1>14, <1>1 DEF Poll, Expire, TimerFires, Disconnect, Restart, TypeOK
<1>15. CASE UNCHANGED sysVars
  BY <1>15, <1>1 DEF sysVars, TypeOK
<1> QED
  BY <1>2, <1>3, <1>4, <1>5, <1>6, <1>7, <1>8, <1>9, <1>10, <1>11, <1>12, <1>13, <1>14,
     <1>15
  DEF Step, JobStep

LEMMA StepOrNot == [Next]_vars => [Step]_sysVars
BY DEF Next, vars

LEMMA JobInit == Init => TypeOK /\ QueryWaits /\ JobInv /\ Servable
BY TypeInit DEF Init, QueryWaits, JobInv, Servable, Writing, NoJob, NoServer

\* The types, and what the cron job keeps true, hold in every reachable state.
THEOREM JobInvariant == Spec => [](TypeOK /\ QueryWaits /\ JobInv /\ Servable)
<1>1. Init => TypeOK /\ QueryWaits /\ JobInv /\ Servable
  BY JobInit
<1>2. TypeOK /\ QueryWaits /\ JobInv /\ Servable /\ [Next]_vars
      => (TypeOK /\ QueryWaits /\ JobInv /\ Servable)'
  BY StepOrNot, TypeNext, QueryWaitsNext, JobNext
<1> QED BY <1>1, <1>2, PTL DEF Spec

LEMMA HistoryInit == Init => HistoryTypeOK
<1> SUFFICES ASSUME Init PROVE HistoryTypeOK
  OBVIOUS
<1>1. early = 0 /\ crossed = FALSE /\ reused = FALSE
  BY DEF Init
<1> QED BY <1>1 DEF HistoryTypeOK

LEMMA HistoryNext ==
    ASSUME HistoryTypeOK, [Next]_vars
    PROVE  HistoryTypeOK'
<1>1. early' \in Nat
  <2>1. early' = early \/ early' = early + 1
    BY DEF Next, vars
  <2> QED BY <2>1 DEF HistoryTypeOK
<1>2. crossed' \in BOOLEAN
  <2>1. crossed' = crossed \/ crossed' = (~Afresh' /\ (crossed \/ Crosses))
    BY DEF Next, vars
  <2> QED BY <2>1, Zenon DEF HistoryTypeOK
<1>3. reused' \in BOOLEAN
  <2>1. reused' = reused \/ reused' = (reused \/ ~OnceOnly)
    BY DEF Next, vars
  <2> QED BY <2>1, Zenon DEF HistoryTypeOK
<1> QED BY <1>1, <1>2, <1>3 DEF HistoryTypeOK

LEMMA HistoryTypes == Spec => []HistoryTypeOK
BY HistoryInit, HistoryNext, PTL DEF Spec

\* The full set that current names is on disk and whole, whatever the cron job
\* does meanwhile, or gone for one of two reasons.
THEOREM SetsAreServable == Spec => []CurrentIsServable
<1>1. TypeOK /\ HistoryTypeOK /\ JobInv /\ Servable => CurrentIsServable
  <2> SUFFICES ASSUME TypeOK, HistoryTypeOK, JobInv, Servable PROVE CurrentIsServable
    OBVIOUS
  <2> QED BY DEF CurrentIsServable, Servable, JobInv
<1> QED BY <1>1, JobInvariant, HistoryTypes, PTL

-----------------------------------------------------------------------------
(***************************************************************************)
(* LabelIsUnique.                                                          *)
(***************************************************************************)

LEMMA MadeTypes ==
    ASSUME TypeOK
    PROVE  \A i \in DOMAIN hist : /\ hist[i] \in Made
                                  /\ hist[i].serial \in Int /\ hist[i].nonce \in Int
<1>1. \A i \in DOMAIN hist : hist[i] \in Made
  BY DEF TypeOK
<1>2. Serial \subseteq Int /\ Nonce \cup {None} \subseteq Int
  BY Constants
<1> QED BY <1>1, <1>2 DEF Made

LEMMA LabelNext ==
    ASSUME TypeOK, JobInv, LabelInv, [Step]_sysVars
    PROVE  LabelInv'
<1>1. ASSUME UNCHANGED <<current, hist, runs>>, UNCHANGED job \/ job'.step \notin Writing
      PROVE  LabelInv'
  BY <1>1 DEF LabelInv, LabelIsUnique, CameRound, NewNonce, Writing
<1>2. ASSUME NEW s \in Serial, NEW pdus \in SUBSET Prefix, StartJob(s, pdus)
      PROVE  LabelInv'
  <2>1. /\ UNCHANGED <<current, hist>> /\ runs' = runs + 1 /\ job.step = "idle"
        /\ job' = job \/ (job'.step = "axfr" /\ job'.nonce = current.nonce)
    BY <1>2 DEF StartJob
  <2>2. \A i \in DOMAIN hist : hist[i].nonce \in Int /\ hist[i].nonce <= runs
    BY MadeTypes DEF LabelInv
  <2>3. runs \in Int
    BY DEF TypeOK
  <2> QED BY <2>1, <2>2, <2>3 DEF LabelInv, LabelIsUnique, CameRound, Writing
<1>3. ASSUME UNCHANGED <<current, hist, runs>>, job'.serial = job.serial,
             job'.nonce = job.nonce, job'.step \in Writing, job.step \in Writing,
             job'.step \in {"axfr", "axfrclose", "ixfr"}
                 => job.step \in {"axfr", "axfrclose", "ixfr"},
             job'.step \in {"destroyix", "destroyax", "write"}
                 => job.step \in {"destroyix", "destroyax"}
      PROVE  LabelInv'
  BY <1>3 DEF LabelInv, LabelIsUnique, CameRound, Writing
<1>4. CASE OpenAxfr \/ SaveAxfr \/ \E old \in Serial : SaveIxfr(old)
  BY <1>4, <1>3 DEF OpenAxfr, SaveAxfr, SaveIxfr, Continue, TypeOK, Job, Writing
<1>5. CASE DestroyIxfrs \/ DestroyAxfrs
  BY <1>5, <1>3 DEF DestroyIxfrs, DestroyAxfrs, Continue, TypeOK, Job, Writing
<1>6. CASE MarkCurrent
  <2>1. /\ job.step = "ixfr" /\ UNCHANGED <<current, hist, runs>>
        /\ job'.serial = job.serial
        /\ \/ NewNonce /\ job'.step = "destroyix" /\ job'.nonce = runs
           \/ ~NewNonce /\ job'.step = "write" /\ job'.nonce = job.nonce
    BY <1>6 DEF MarkCurrent, TypeOK, Job, disk
  <2> QED BY <2>1 DEF LabelInv, LabelIsUnique, CameRound, Writing, NewNonce
<1>7. CASE WriteCurrent
  <2> DEFINE m == [serial |-> job.serial, nonce |-> job.nonce, pdus |-> job.pdus]
  <2> DEFINE n == Len(hist)
  <2>1. /\ job.step = "write" /\ runs' = runs
        /\ current' = LabelOf(job) /\ hist' = Append(hist, m) /\ job'.step = "kick"
    BY <1>7 DEF WriteCurrent, Continue, TypeOK, Job
  <2>2. /\ n \in Nat /\ DOMAIN hist = 1 .. n /\ DOMAIN hist' = 1 .. n + 1
        /\ hist'[n + 1] = m /\ \A i \in 1 .. n : hist'[i] = hist[i]
    BY <2>1 DEF TypeOK
  <2>3. \A i \in 1 .. n : /\ hist[i].nonce \in Int /\ hist[i].serial \in Int
                          /\ hist[i].nonce < runs
                          /\ hist[i].nonce = current.nonce =>
                                 \/ hist[i].serial <= current.serial
                                 \/ \E k \in i .. (n - 1) : CameRound(k)
    BY <2>1, <2>2, MadeTypes DEF LabelInv, Writing
  <2>4. /\ job.serial \in Serial /\ job.serial \in Int /\ runs \in Int
        /\ job.nonce = runs \/ (job.nonce = current.nonce /\ ~NewNonce)
    <3>1. job.serial \in Serial /\ Serial \subseteq Int
      BY <2>1, Constants DEF JobInv, Writing
    <3>2. runs \in Int
      BY DEF TypeOK
    <3>3. job.nonce = runs \/ (job.nonce = current.nonce /\ ~NewNonce)
      BY <2>1 DEF LabelInv
    <3> QED BY <3>1, <3>2, <3>3
  <2>5. ASSUME NEW i \in 1 .. n, NEW k \in i .. (n - 1), CameRound(k)
        PROVE  CameRound(k)'
    <3>1. k \in 1 .. n /\ k + 1 \in 1 .. n
      BY <2>2
    <3>2. hist'[k] = hist[k] /\ hist'[k + 1] = hist[k + 1]
      BY <3>1, <2>2
    <3> QED BY <3>2, <2>5 DEF CameRound, seq_ge
  <2>6. ASSUME NEW i \in 1 .. n
        PROVE  /\ hist[i].nonce <= runs
               /\ hist[i].nonce = job.nonce =>
                      \/ hist[i].serial < job.serial
                      \/ \E k \in i .. n : CameRound(k)'
    <3>1. hist[i].nonce <= runs /\ hist[i].nonce # runs
      BY <2>3, <2>4
    <3> SUFFICES ASSUME hist[i].nonce = job.nonce, ~(hist[i].serial < job.serial)
                 PROVE  \E k \in i .. n : CameRound(k)'
      BY <3>1
    <3>2. hist[i].nonce = current.nonce /\ ~NewNonce
      BY <2>4, <3>1
    <3>3. n \in i .. n /\ n \in 1 .. n /\ hist[n].serial = current.serial
      BY <2>2 DEF JobInv, LabelOf, Last
    <3>4. CASE hist[i].serial <= current.serial
      <4>1. /\ job.serial # current.serial /\ current.serial \in Int
            /\ ~seq_ge(current.serial, job.serial)
        BY <2>1, <2>3, <3>2, <3>3 DEF NewNonce, JobInv, Writing
      <4>2. job.serial < current.serial
        BY <2>3, <2>4, <3>4, <4>1
      <4>3. PICK k : k = n
        OBVIOUS
      <4>4. hist'[k].serial = current.serial /\ hist'[k + 1].serial = job.serial
        BY <2>2, <3>3, <4>3
      <4>5. CameRound(k)'
        BY <4>1, <4>2, <4>4 DEF CameRound, seq_ge
      <4> QED BY <3>3, <4>3, <4>5
    <3>5. CASE \E k \in i .. (n - 1) : CameRound(k)
      <4>1. PICK k \in i .. (n - 1) : CameRound(k)
        BY <3>5
      <4>2. CameRound(k)' /\ k \in i .. n
        BY <2>2, <2>5, <4>1
      <4> QED BY <4>2
    <3> QED BY <2>3, <3>2, <3>4, <3>5
  <2>7. job.nonce <= runs
    <3>1. CASE hist = << >>
      <4>1. current.serial = None
        BY <3>1 DEF JobInv, Unset
      <4> QED BY <4>1, <2>4 DEF NewNonce
    <3>2. CASE hist # << >>
      <4>1. n \in 1 .. n /\ current.nonce = hist[n].nonce
        BY <3>2, <2>2 DEF JobInv, LabelOf, Last
      <4> QED BY <4>1, <2>3, <2>4
    <3> QED BY <3>1, <3>2
  <2>8. LabelOf(m) = LabelOf(job) /\ m.nonce = job.nonce /\ m.serial = job.serial
    BY DEF LabelOf
  <2>9. LabelIsUnique'
    <3> SUFFICES ASSUME NEW i \in 1 .. n + 1, NEW j \in 1 .. n + 1, i < j,
                        LabelOf(hist'[i]) = LabelOf(hist'[j])
                 PROVE  \E k \in i .. (j - 1) : CameRound(k)'
      BY <2>2 DEF LabelIsUnique
    <3>1. i \in 1 .. n /\ hist'[i] = hist[i]
      BY <2>2
    <3>2. CASE j \in 1 .. n
      <4>1. LabelOf(hist[i]) = LabelOf(hist[j])
        BY <2>2, <3>1, <3>2
      <4>2. PICK k \in i .. (j - 1) : CameRound(k)
        BY <2>2, <3>1, <3>2, <4>1 DEF LabelInv, LabelIsUnique
      <4>3. k \in i .. (n - 1)
        BY <2>2, <3>2
      <4>4. CameRound(k)'
        BY <2>5, <3>1, <4>2, <4>3
      <4> QED BY <4>4
    <3>3. CASE j = n + 1
      <4>1. hist[i].nonce = job.nonce /\ hist[i].serial = job.serial
        BY <2>2, <3>1, <3>3, <2>8 DEF LabelOf
      <4>2. ~(hist[i].serial < job.serial)
        BY <2>4, <4>1
      <4>3. \E k \in i .. n : CameRound(k)'
        BY <2>6, <3>1, <4>1, <4>2
      <4>4. j - 1 = n
        BY <2>2, <3>3
      <4> QED BY <4>3, <4>4
    <3> QED BY <3>2, <3>3, <2>2
  <2>10. ASSUME NEW i \in 1 .. n + 1
         PROVE  /\ hist'[i].nonce <= runs
                /\ hist'[i].nonce = job.nonce =>
                       \/ hist'[i].serial <= job.serial
                       \/ \E k \in i .. n : CameRound(k)'
    <3>1. CASE i = n + 1
      BY <3>1, <2>2, <2>4, <2>7, <2>8
    <3>2. CASE i \in 1 .. n
      <4>1. hist'[i] = hist[i]
        BY <2>2, <3>2
      <4> QED BY <2>3, <2>4, <2>6, <3>2, <4>1
    <3> QED BY <3>1, <3>2, <2>2
  <2>12. Len(hist') - 1 = n
    BY <2>1, <2>2 DEF TypeOK
  <2>11. current'.nonce = job.nonce /\ current'.serial = job.serial
    BY <2>1 DEF LabelOf
  <2> QED BY <2>1, <2>2, <2>9, <2>10, <2>11, <2>12 DEF LabelInv, Writing
<1>8. CASE LoadFails \/ CrashJob \/ KickAll \/ DeleteOldIxfrs
  BY <1>8, <1>1 DEF LoadFails, CrashJob, KickAll, DeleteOldIxfrs, Continue, NoJob, disk,
     TypeOK, Job, Writing
<1>9. CASE ServerStep
  BY <1>9, <1>1 DEF ServerStep, ReadCurrent, Reply, Notify, disk, genVars
<1>10. CASE ClientStep
  BY <1>10, <1>1 DEF ClientStep, ConsumeNotify, ConsumeResponse, ConsumePrefix,
     ConsumeDuplicate, ConsumeEnd, ConsumeReset, ConsumeError, Receive, disk, genVars
<1>11. CASE Poll \/ Expire \/ Disconnect \/ Restart \/ UNCHANGED sysVars
  BY <1>11, <1>1 DEF Poll, Expire, TimerFires, Disconnect, Restart, disk, genVars, sysVars
<1> QED
  BY <1>2, <1>4, <1>5, <1>6, <1>7, <1>8, <1>9, <1>10, <1>11 DEF Step, JobStep

\* A serial number and a nonce together never name two sets, however often the
\* clock goes back, unless it has come round in between (mark_current).
THEOREM LabelsAreUnique == Spec => []LabelIsUnique
<1>1. Init => LabelInv
  BY DEF Init, LabelInv, LabelIsUnique, NoJob
<1>2. TypeOK /\ JobInv /\ LabelInv /\ [Next]_vars => LabelInv'
  BY StepOrNot, LabelNext
<1>3. LabelInv => LabelIsUnique
  BY DEF LabelInv
<1> QED BY <1>1, <1>2, <1>3, JobInvariant, PTL DEF Spec

-----------------------------------------------------------------------------
(***************************************************************************)
(* RouterInSync.  First, what the files hold, as long as the cron job has  *)
(* used no second that named something already.                            *)
(***************************************************************************)
AxRight(r) == r.serial \in DOMAIN ax => ax[r.serial] = [pdus |-> r.pdus, torn |-> FALSE]

IxRight(r, o) ==
    <<r.serial, o.serial>> \in DOMAIN ix =>
        ix[<<r.serial, o.serial>>] = Difference(r.pdus, o.pdus)

\* Whatever was current has a serial number of its own, nonces never go down, and
\* the files between sets that were current, or are about to be, hold what they
\* should.
DiskInv ==
    /\ \A i, j \in DOMAIN hist :
           /\ hist[i].serial = hist[j].serial => i = j
           /\ IxRight(hist[i], hist[j])
    /\ \A i \in DOMAIN hist :
           AxRight(hist[i]) /\ hist[i].nonce # None /\ hist[i].nonce <= current.nonce
    /\ job.step \in Writing =>
           /\ \A t \in DOMAIN ix : t[2] # job.serial
           /\ \A j \in DOMAIN hist : hist[j].serial # job.serial /\ IxRight(job, hist[j])
    /\ job.step = "ixfr" => job.serial \notin job.others
    /\ job.step \in {"axfr", "axfrclose", "ixfr"} => job.nonce = current.nonce
    /\ job.step \in {"destroyix", "destroyax", "write"} =>
           job.nonce # None /\ job.nonce >= current.nonce /\ job.nonce <= runs
    /\ current.nonce <= runs

LEMMA Numbers ==
    ASSUME TypeOK
    PROVE  /\ current.nonce \in Int /\ job.nonce \in Int /\ runs \in Nat /\ runs # None
           /\ client.nonce \in Int /\ saved.nonce \in Int
<1>1. NonceOrNone \subseteq Int
  BY Constants DEF NonceOrNone
<1>2. runs \in Nat /\ runs # None
  BY Constants DEF TypeOK
<1>3. current.nonce \in NonceOrNone /\ job.nonce \in NonceOrNone
  BY DEF TypeOK, Label, Job, NonceOrNone
<1>4. client.nonce \in NonceOrNone /\ saved.nonce \in NonceOrNone
  BY DEF TypeOK, Table, NonceOrNone
<1> QED BY <1>1, <1>2, <1>3, <1>4

LEMMA DiskNext ==
    ASSUME TypeOK, JobInv, DiskInv, [Step /\ OnceOnly]_sysVars
    PROVE  DiskInv'
<1> USE DEF IxRight, AxRight
<1>1. ASSUME UNCHANGED <<ax, ix, current, hist, runs>>,
             UNCHANGED job \/ job'.step \notin Writing
      PROVE  DiskInv'
  BY <1>1 DEF DiskInv, Writing
<1>2. ASSUME NEW s \in Serial, NEW pdus \in SUBSET Prefix, StartJob(s, pdus), OnceOnly
      PROVE  DiskInv'
  <2>1. /\ UNCHANGED <<ix, current, hist>> /\ runs' = runs + 1 /\ job.step = "idle"
        /\ \/ job' = job
           \/ job'.step = "axfr" /\ job'.serial = s /\ job'.nonce = current.nonce
    BY <1>2 DEF StartJob
  <2>2. \A t \in DOMAIN ax' : t \in DOMAIN ax /\ ax'[t] = ax[t]
    BY <1>2 DEF StartJob, Without
  <2>3. job'.step = "axfr" => Unused(s)
    BY <1>2, <2>1 DEF OnceOnly
  <2>4. current.nonce <= runs'
    BY <2>1, Numbers DEF DiskInv
  <2>5. job'.step = "axfr" => /\ \A t \in DOMAIN ix' : t[2] # job'.serial
                              /\ \A j \in DOMAIN hist' : /\ hist'[j].serial # job'.serial
                                                         /\ IxRight(job, hist[j])'
    BY <2>1, <2>3 DEF Unused
  <2> QED BY <2>1, <2>2, <2>4, <2>5 DEF DiskInv, Writing
<1>3. ASSUME NEW v, ax' = With(ax, job.serial, v), job.step \in Writing,
             UNCHANGED <<ix, current, hist, runs>>
      PROVE  \A i \in DOMAIN hist : AxRight(hist[i])'
  BY <1>3 DEF DiskInv, With
<1>4. CASE OpenAxfr
  <2>1. PICK part : ax' = With(ax, job.serial, [pdus |-> part, torn |-> TRUE])
    BY <1>4 DEF OpenAxfr
  <2>2. /\ job.step = "axfr" /\ UNCHANGED <<ix, current, hist, runs>>
        /\ job'.step = "axfrclose" /\ job'.serial = job.serial /\ job'.pdus = job.pdus
        /\ job'.nonce = job.nonce
    BY <1>4 DEF OpenAxfr, Continue, TypeOK, Job
  <2>3. \A i \in DOMAIN hist : AxRight(hist[i])'
    BY <2>1, <2>2, <1>3 DEF Writing
  <2> QED BY <2>2, <2>3 DEF DiskInv, Writing
<1>5. CASE SaveAxfr
  <2>1. /\ job.step = "axfrclose" /\ UNCHANGED <<ix, current, hist, runs>>
        /\ job'.step = "ixfr" /\ job'.serial = job.serial /\ job'.pdus = job.pdus
        /\ job'.nonce = job.nonce /\ job.serial \notin job'.others
    BY <1>5 DEF SaveAxfr, TypeOK, Job
  <2>2. \A i \in DOMAIN hist : AxRight(hist[i])'
    BY <1>5, <2>1, <1>3 DEF SaveAxfr, Writing
  <2> QED BY <2>1, <2>2 DEF DiskInv, Writing
<1>6. ASSUME NEW old \in Serial, SaveIxfr(old) PROVE DiskInv'
  <2>1. /\ job.step = "ixfr" /\ UNCHANGED <<ax, current, hist, runs>>
        /\ job'.step = "ixfr" /\ job'.serial = job.serial /\ job'.pdus = job.pdus
        /\ job'.nonce = job.nonce /\ job'.others \subseteq job.others
        /\ old \in job.others
    BY <1>6 DEF SaveIxfr, TypeOK, Job
  <2> DEFINE d == Difference(job.pdus, ax[old].pdus)
  <2>2. /\ old \in DOMAIN ax /\ old # job.serial
        /\ \A j \in DOMAIN hist : hist[j].serial # job.serial
    BY <2>1 DEF JobInv, DiskInv, Writing
  <2>3. ASSUME NEW j \in DOMAIN hist, hist[j].serial = old
        PROVE  d = Difference(job.pdus, hist[j].pdus)
    <3>1. ax[old] = [pdus |-> hist[j].pdus, torn |-> FALSE]
      BY <2>2, <2>3 DEF DiskInv
    <3> QED BY <3>1
  <2>4. ix' = With(ix, <<job.serial, old>>, d)
    BY <1>6 DEF SaveIxfr
  <2> HIDE DEF d
  <2>5. /\ DOMAIN ix' = DOMAIN ix \cup {<<job.serial, old>>}
        /\ ix'[<<job.serial, old>>] = d
        /\ \A t \in DOMAIN ix : t # <<job.serial, old>> => ix'[t] = ix[t]
    BY <2>4 DEF With
  <2>6. \A j \in DOMAIN hist : IxRight(job, hist[j])'
    BY <2>1, <2>3, <2>5 DEF DiskInv, Writing
  <2>7. \A i, j \in DOMAIN hist : IxRight(hist[i], hist[j])'
    BY <2>1, <2>2, <2>5 DEF DiskInv
  <2>8. \A t \in DOMAIN ix' : t[2] # job.serial
    BY <2>1, <2>2, <2>5 DEF DiskInv, Writing
  <2> QED BY <2>1, <2>2, <2>6, <2>7, <2>8 DEF DiskInv, Writing
<1>7. CASE MarkCurrent
  <2>1. /\ job.step = "ixfr" /\ UNCHANGED <<ax, ix, current, hist, runs>>
        /\ job'.serial = job.serial /\ job'.pdus = job.pdus
        /\ \/ job'.step = "destroyix" /\ job'.nonce = runs
           \/ job'.step = "write" /\ job'.nonce = job.nonce /\ ~NewNonce
    BY <1>7 DEF MarkCurrent, TypeOK, Job, disk
  <2>2. runs \in Int /\ runs # None /\ current.nonce \in Int /\ current.nonce <= runs
    BY Numbers DEF DiskInv
  <2>3. job'.step = "write" => job'.nonce = current.nonce /\ current.nonce # None
    <3> SUFFICES ASSUME job'.step = "write"
                 PROVE  job'.nonce = current.nonce /\ current.nonce # None
      OBVIOUS
    <3>1. job'.nonce = current.nonce /\ current.serial # None
      BY <2>1 DEF DiskInv, NewNonce
    <3>2. hist # << >> /\ current = LabelOf(Last(hist))
      BY <3>1 DEF JobInv, Unset
    <3>3. Len(hist) \in DOMAIN hist /\ current.nonce = hist[Len(hist)].nonce
      BY <3>2 DEF TypeOK, Last, LabelOf
    <3> QED BY <3>1, <3>3 DEF DiskInv
  <2> QED BY <2>1, <2>2, <2>3 DEF DiskInv, Writing
<1>8. ASSUME DOMAIN ax' \subseteq DOMAIN ax, \A t \in DOMAIN ax' : ax'[t] = ax[t],
             DOMAIN ix' \subseteq DOMAIN ix, \A t \in DOMAIN ix' : ix'[t] = ix[t],
             job.step \in {"destroyix", "destroyax", "kick", "cleanup"},
             job'.step \in {"destroyax", "write"} =>
                 /\ job.step \in {"destroyix", "destroyax"}
                 /\ job'.serial = job.serial /\ job'.nonce = job.nonce /\ job'.pdus = job.pdus,
             job'.step \notin Writing \ {"destroyax", "write"},
             UNCHANGED <<current, hist, runs>>
      PROVE  DiskInv'
  BY <1>8 DEF DiskInv, Writing
<1>9. CASE DestroyIxfrs
  <2>1. ix' = << >> /\ ax' = ax
    BY <1>9 DEF DestroyIxfrs
  <2>2. DOMAIN ix' = {}
    BY <2>1
  <2>3. /\ job.step = "destroyix" /\ UNCHANGED <<current, hist, runs>>
        /\ job'.serial = job.serial /\ job'.pdus = job.pdus
        /\ job'.nonce = job.nonce /\ job'.step = "destroyax"
    BY <1>9 DEF DestroyIxfrs, Continue, TypeOK, Job
  <2> QED BY <2>1, <2>2, <2>3, <1>8 DEF Writing
<1>10. CASE DestroyAxfrs
  <2>1. /\ job.step = "destroyax" /\ UNCHANGED <<ix, current, hist, runs>>
        /\ job'.serial = job.serial /\ job'.pdus = job.pdus
        /\ job'.nonce = job.nonce /\ job'.step = "write"
    BY <1>10 DEF DestroyAxfrs, Continue, TypeOK, Job
  <2>2. DOMAIN ax' \subseteq DOMAIN ax /\ \A t \in DOMAIN ax' : ax'[t] = ax[t]
    BY <1>10 DEF DestroyAxfrs, Without
  <2> QED BY <2>1, <2>2, <1>8 DEF Writing
<1>11. CASE KickAll \/ DeleteOldIxfrs
  <2>1. /\ job.step \in {"kick", "cleanup"} /\ UNCHANGED <<ax, current, hist, runs>>
        /\ job'.step \in {"cleanup", "idle"}
    BY <1>11 DEF KickAll, DeleteOldIxfrs, Continue, TypeOK, Job, disk, NoJob
  <2>2. DOMAIN ix' \subseteq DOMAIN ix /\ \A t \in DOMAIN ix' : ix'[t] = ix[t]
    BY <1>11 DEF KickAll, DeleteOldIxfrs, Without, disk
  <2> QED BY <2>1, <2>2, <1>8 DEF Writing
<1>12. CASE WriteCurrent
  <2> DEFINE m == [serial |-> job.serial, nonce |-> job.nonce, pdus |-> job.pdus]
             n == Len(hist)
  <2>1. /\ job.step = "write" /\ UNCHANGED <<ax, ix, runs>>
        /\ current' = LabelOf(job) /\ hist' = Append(hist, m) /\ job'.step = "kick"
    BY <1>12 DEF WriteCurrent, Continue, TypeOK, Job
  <2>2. /\ n \in Nat /\ DOMAIN hist = 1 .. n /\ DOMAIN hist' = 1 .. n + 1
        /\ hist'[n + 1] = m /\ \A i \in 1 .. n : hist'[i] = hist[i]
    BY <2>1 DEF TypeOK
  <2>3. current'.nonce = job.nonce
    BY <2>1 DEF LabelOf
  <2>4. ax[job.serial] = [pdus |-> job.pdus, torn |-> FALSE]
    BY <2>1 DEF JobInv
  <2>5. /\ \A t \in DOMAIN ix : t[2] # job.serial
        /\ \A j \in 1 .. n : hist[j].serial # job.serial /\ IxRight(job, hist[j])
    BY <2>1, <2>2 DEF DiskInv, Writing
  <2>6. ASSUME NEW i \in 1 .. n + 1, NEW j \in 1 .. n + 1
        PROVE  /\ hist'[i].serial = hist'[j].serial => i = j
               /\ IxRight(hist[i], hist[j])'
    <3>1. CASE i \in 1 .. n /\ j \in 1 .. n
      BY <3>1, <2>1, <2>2 DEF DiskInv
    <3>2. CASE i = n + 1 /\ j \in 1 .. n
      <4>1. hist'[i] = m /\ hist'[j] = hist[j]
        BY <3>2, <2>2
      <4>2. m.serial = job.serial /\ m.pdus = job.pdus
        OBVIOUS
      <4> HIDE DEF m
      <4>3. hist[j].serial # job.serial /\ IxRight(job, hist[j])
        BY <3>2, <2>5
      <4> QED BY <4>1, <4>2, <4>3, <2>1
    <3>3. CASE j = n + 1
      <4>1. <<hist'[i].serial, job.serial>> \notin DOMAIN ix
        BY <2>5
      <4>2. hist'[j].serial = job.serial
        BY <3>3, <2>2
      <4>3. ASSUME i \in 1 .. n PROVE hist'[i].serial # job.serial
        BY <4>3, <2>2, <2>5
      <4>4. hist'[i].serial = hist'[j].serial => i = j
        BY <4>2, <4>3, <3>3
      <4>5. IxRight(hist[i], hist[j])'
        <5>1. <<hist'[i].serial, hist'[j].serial>> \notin DOMAIN ix'
          BY <4>1, <4>2, <2>1
        <5> HIDE DEF m
        <5> QED BY <5>1
      <4> QED BY <4>4, <4>5
    <3> QED BY <3>1, <3>2, <3>3
  <2>7. job.nonce \in Int /\ current.nonce \in Int /\ runs \in Int
    BY Numbers
  <2>8. job.nonce # None /\ job.nonce >= current.nonce /\ job.nonce <= runs
    BY <2>1 DEF DiskInv
  <2>9. ASSUME NEW i \in 1 .. n + 1
        PROVE  AxRight(hist[i])' /\ hist'[i].nonce # None /\ hist'[i].nonce <= job.nonce
    <3>1. CASE i \in 1 .. n
      <4>1. hist[i].nonce \in Int /\ hist[i].nonce # None /\ hist[i].nonce <= current.nonce
        BY <3>1, <2>2, MadeTypes DEF DiskInv
      <4>2. AxRight(hist[i])
        BY <3>1, <2>2 DEF DiskInv
      <4>3. hist'[i] = hist[i]
        BY <3>1, <2>2
      <4>4. hist[i].nonce <= job.nonce
        BY <4>1, <2>7, <2>8
      <4>5. AxRight(hist[i])'
        BY <4>2, <4>3, <2>1
      <4> QED BY <4>1, <4>3, <4>4, <4>5
    <3>2. CASE i = n + 1
      <4>1. hist'[i] = m
        BY <3>2, <2>2
      <4>2. m.serial = job.serial /\ m.pdus = job.pdus /\ m.nonce = job.nonce
        OBVIOUS
      <4> HIDE DEF m
      <4>3. AxRight(hist[i])'
        BY <4>1, <4>2, <2>1, <2>4
      <4>4. job.nonce <= job.nonce
        BY <2>7
      <4>5. hist'[i].nonce = job.nonce
        BY <4>1, <4>2
      <4>6. hist'[i].nonce # None /\ hist'[i].nonce <= job.nonce
        BY <4>4, <4>5, <2>8
      <4> QED BY <4>3, <4>6
    <3> QED BY <3>1, <3>2
  <2> HIDE DEF IxRight, AxRight, m
  <2>10. (\A i, j \in DOMAIN hist : /\ hist[i].serial = hist[j].serial => i = j
                                   /\ IxRight(hist[i], hist[j]))'
    BY <2>2, <2>6
  <2>11. (\A i \in DOMAIN hist :
              AxRight(hist[i]) /\ hist[i].nonce # None /\ hist[i].nonce <= current.nonce)'
    BY <2>2, <2>3, <2>9
  <2>12. job'.step = "kick" /\ current'.nonce <= runs'
    BY <2>1, <2>3, <2>8
  <2> QED BY <2>10, <2>11, <2>12 DEF DiskInv, Writing
<1>13. CASE LoadFails \/ CrashJob
  BY <1>13, <1>1 DEF LoadFails, CrashJob, NoJob, disk, Writing
<1>14. CASE ServerStep
  BY <1>14, <1>1 DEF ServerStep, ReadCurrent, Reply, Notify, disk, genVars
<1>15. CASE ClientStep
  BY <1>15, <1>1 DEF ClientStep, ConsumeNotify, ConsumeResponse, ConsumePrefix,
     ConsumeDuplicate, ConsumeEnd, ConsumeReset, ConsumeError, Receive, disk, genVars
<1>16. CASE Poll \/ Expire \/ Disconnect \/ Restart \/ UNCHANGED sysVars
  BY <1>16, <1>1 DEF Poll, Expire, TimerFires, Disconnect, Restart, disk, genVars, sysVars
<1> QED
  BY <1>2, <1>4, <1>5, <1>6, <1>7, <1>9, <1>10, <1>11, <1>12, <1>13, <1>14, <1>15, <1>16
  DEF Step, JobStep

-----------------------------------------------------------------------------
(***************************************************************************)
(* What the client's table and label become as it handles the PDUs that    *)
(* are on their way, one after the other.                                  *)
(***************************************************************************)
View == [serial : SerialOrNone, nonce : NonceOrNone, table : SUBSET Prefix]

Base == [serial |-> client.serial, nonce |-> client.nonce, table |-> client.table]

\* What one PDU makes of them ...
Sim(z, p) ==
    IF p.kind = "response" THEN IF p.nonce # z.nonce THEN Emptied(z) ELSE z
    ELSE IF p.kind = "prefix"
         THEN [z EXCEPT !.table = IF p.announce THEN @ \cup {p.pdu} ELSE @ \ {p.pdu}]
    ELSE IF p.kind = "end" THEN [z EXCEPT !.serial = p.serial, !.nonce = p.nonce]
    ELSE IF p.kind = "reset" THEN Emptied(z)
    ELSE z

\* ... and what it makes the client ask.
QueryOf(z) == [kind |-> "serial", serial |-> z.serial, nonce |-> z.nonce]

Asks(z, p) ==
    IF p.kind = "reset" THEN {ResetQuery}
    ELSE IF p.kind = "notify"
         THEN IF z.serial = None \/ z.nonce # p.nonce THEN {ResetQuery}
              ELSE IF z.serial # p.serial THEN {QueryOf(z)} ELSE {}
    ELSE {}

\* What is there before the first PDU of s, after the first, and so on.
Follows(path, z, s) ==
    /\ path \in [0 .. Len(s) -> View]
    /\ path[0] = z
    /\ \A i \in 1 .. Len(s) : path[i] = Sim(path[i - 1], s[i])

LEMMA SimType ==
    ASSUME NEW z \in View, NEW p \in Answer
    PROVE  Sim(z, p) \in View
<1>1. Emptied(z) \in View
  BY DEF Emptied, View, SerialOrNone
<1>2. /\ p.kind = "prefix" => p.pdu \in Prefix
      /\ p.kind = "end" => p.serial \in SerialOrNone /\ p.nonce \in NonceOrNone
  BY AnswerFields
<1>3. CASE p.kind = "prefix"
  BY <1>2, <1>3 DEF Sim, View
<1>4. CASE p.kind = "end"
  BY <1>2, <1>4 DEF Sim, View
<1> QED BY <1>1, <1>3, <1>4 DEF Sim

LEMMA FollowNothing ==
    ASSUME NEW z \in View
    PROVE  \E path : Follows(path, z, << >>)
<1> DEFINE path == [i \in 0 .. 0 |-> z]
<1>1. Follows(path, z, << >>)
  BY DEF Follows
<1> QED BY <1>1

\* The way g is path without its first step.
Shifts(g, path, n) == \A i \in 0 .. n - 1 : g[i] = path[i + 1]

LEMMA FollowTail ==
    ASSUME NEW z, NEW s \in Seq(Answer), s # << >>, NEW path, Follows(path, z, s)
    PROVE  \E g : Follows(g, Sim(z, Head(s)), Tail(s)) /\ Shifts(g, path, Len(s))
<1> DEFINE n == Len(s)
           g == [i \in 0 .. n - 1 |-> path[i + 1]]
<1>1. /\ n \in Nat \ {0} /\ Len(Tail(s)) = n - 1 /\ Head(s) = s[1]
      /\ \A i \in 1 .. n - 1 : Tail(s)[i] = s[i + 1]
  BY HeadTailProperties
<1>2. /\ path \in [0 .. n -> View] /\ path[0] = z
      /\ \A i \in 1 .. n : path[i] = Sim(path[i - 1], s[i])
  BY DEF Follows
<1> HIDE DEF n
<1>3. g \in [0 .. n - 1 -> View]
  BY <1>1, <1>2
<1>4. g[0] = Sim(z, Head(s))
  BY <1>1, <1>2
<1>5. ASSUME NEW i \in 1 .. n - 1 PROVE g[i] = Sim(g[i - 1], Tail(s)[i])
  <2>1. /\ g[i] = path[i + 1] /\ g[i - 1] = path[i] /\ i + 1 \in 1 .. n
        /\ (i + 1) - 1 = i
    BY <1>1
  <2>2. path[i + 1] = Sim(path[(i + 1) - 1], s[i + 1])
    BY <2>1, <1>2
  <2> QED BY <1>1, <2>1, <2>2
<1>6. Follows(g, Sim(z, Head(s)), Tail(s))
  BY <1>1, <1>3, <1>4, <1>5 DEF Follows
<1>7. Shifts(g, path, Len(s))
  BY DEF Shifts, n
<1> QED BY <1>6, <1>7

\* The way g goes along path first and then along f.
Joins(g, path, s, f, t) ==
    /\ \A i \in 0 .. Len(s) : g[i] = path[i]
    /\ \A i \in 0 .. Len(t) : g[Len(s) + i] = f[i]

LEMMA FollowMore ==
    ASSUME NEW z, NEW s \in Seq(Answer), NEW t \in Seq(Answer), NEW path, NEW f,
           Follows(path, z, s), Follows(f, path[Len(s)], t)
    PROVE  \E g : Follows(g, z, s \o t) /\ Joins(g, path, s, f, t)
<1> DEFINE n == Len(s)
           m == Len(t)
           u == s \o t
           g == [i \in 0 .. n + m |-> IF i <= n THEN path[i] ELSE f[i - n]]
<1>1. /\ n \in Nat /\ m \in Nat /\ Len(u) = n + m
      /\ \A i \in 1 .. n + m : u[i] = IF i <= n THEN s[i] ELSE t[i - n]
  BY ConcatProperties
<1>2. /\ path \in [0 .. n -> View] /\ path[0] = z
      /\ \A i \in 1 .. n : path[i] = Sim(path[i - 1], s[i])
      /\ f \in [0 .. m -> View] /\ f[0] = path[n]
      /\ \A i \in 1 .. m : f[i] = Sim(f[i - 1], t[i])
  BY DEF Follows
<1> HIDE DEF n, m, u
<1>3. /\ \A i \in 0 .. n : g[i] = path[i]
      /\ \A i \in 0 .. m : g[n + i] = f[i]
  <2>1. \A i \in 0 .. n : g[i] = path[i]
    BY <1>1
  <2>2. ASSUME NEW i \in 0 .. m PROVE g[n + i] = f[i]
    <3>1. CASE i = 0
      BY <3>1, <1>1, <1>2
    <3>2. CASE i # 0
      <4>1. n + i \in 0 .. n + m /\ ~(n + i <= n) /\ (n + i) - n = i
        BY <3>2, <1>1
      <4> QED BY <4>1
    <3> QED BY <3>1, <3>2
  <2> QED BY <2>1, <2>2
<1>4. g \in [0 .. n + m -> View]
  BY <1>1, <1>2
<1>5. g[0] = z
  BY <1>1, <1>2
<1>6. ASSUME NEW i \in 1 .. n + m PROVE g[i] = Sim(g[i - 1], u[i])
  <2>1. CASE i <= n
    <3>1. /\ i \in 1 .. n /\ i \in 0 .. n /\ i - 1 \in 0 .. n
          /\ u[i] = s[i]
      BY <2>1, <1>1
    <3>2. g[i] = path[i] /\ g[i - 1] = path[i - 1]
      BY <3>1, <1>3
    <3> QED BY <3>1, <3>2, <1>2
  <2>2. CASE ~(i <= n)
    <3> DEFINE k == i - n
    <3>1. k \in 1 .. m /\ k - 1 \in 0 .. m /\ k \in 0 .. m /\ n + k = i /\ n + (k - 1) = i - 1
      BY <2>2, <1>1
    <3>2. u[i] = t[k]
      BY <2>2, <1>1
    <3> HIDE DEF k, g
    <3>3. g[i] = f[k] /\ g[i - 1] = f[k - 1]
      BY <3>1, <1>3
    <3>4. f[k] = Sim(f[k - 1], t[k])
      BY <3>1, <1>2
    <3> QED BY <3>2, <3>3, <3>4
  <2> QED BY <2>1, <2>2
<1> HIDE DEF g
<1>7. Follows(g, z, u)
  BY <1>1, <1>4, <1>5, <1>6 DEF Follows
<1>8. Joins(g, path, s, f, t)
  BY <1>3 DEF n, m, Joins
<1> QED BY <1>7, <1>8 DEF u

\* A set of PDUs of one kind, in some order.
LEMMA PrefixSequence ==
    ASSUME NEW S \in SUBSET Prefix, NEW b \in BOOLEAN, NEW s,
           s = SetToSeq({[kind |-> "prefix", pdu |-> p, announce |-> b] : p \in S})
    PROVE  /\ s \in Seq(Answer)
           /\ \A i \in 1 .. Len(s) : s[i].kind = "prefix"
           /\ b => \A i \in 1 .. Len(s) : s[i].announce
           /\ ~b => \A i \in 1 .. Len(s) : ~s[i].announce
           /\ {s[i].pdu : i \in 1 .. Len(s)} = S
<1> DEFINE R(p) == [kind |-> "prefix", pdu |-> p, announce |-> b]
           T == {R(p) : p \in S}
           f == [p \in S |-> R(p)]
<1>1. IsFiniteSet(S)
  BY RtrAssumption, FS_Subset
<1>2. f \in Surjection(S, T)
  BY DEF Surjection
<1>3. IsFiniteSet(T)
  BY <1>1, <1>2, FS_Surjection
<1> HIDE DEF T
<1>4. s \in Seq(T) /\ Range(s) = T
  BY <1>3, SetToSeqType DEF T
<1>5. \A i \in 1 .. Len(s) : s[i] \in T
  BY <1>4
<1>0. \A p \in S : R(p).kind = "prefix" /\ (R(p).announce <=> b) /\ R(p).pdu = p
  OBVIOUS
<1> HIDE DEF R
<1>6. /\ \A i \in 1 .. Len(s) : s[i].kind = "prefix" /\ s[i].pdu \in S
      /\ b => \A i \in 1 .. Len(s) : s[i].announce
      /\ ~b => \A i \in 1 .. Len(s) : ~s[i].announce
  BY <1>0, <1>5 DEF T
<1>7. ASSUME NEW p \in S PROVE \E i \in 1 .. Len(s) : s[i].pdu = p
  <2>1. R(p) \in Range(s)
    BY <1>4 DEF T
  <2>2. PICK i \in DOMAIN s : s[i] = R(p)
    BY <2>1 DEF Range
  <2>3. DOMAIN s = 1 .. Len(s)
    BY <1>4
  <2> QED BY <1>0, <2>2, <2>3
<1>8. s \in Seq(Answer)
  BY PrefixPDUs DEF R
<1>9. {s[i].pdu : i \in 1 .. Len(s)} = S
  <2>1. {s[i].pdu : i \in 1 .. Len(s)} \subseteq S
    BY <1>6
  <2>2. S \subseteq {s[i].pdu : i \in 1 .. Len(s)}
    BY <1>7
  <2> QED BY <2>1, <2>2
<1> QED BY <1>6, <1>8, <1>9

\* A transfer leads to the set it is about, labelled as the server labels it.
LEMMA FollowTransfer ==
    ASSUME TypeOK, NEW add \in SUBSET Prefix, NEW del \in SUBSET Prefix, NEW z \in View
    PROVE  LET T == Transfer(add, del)
               t0 == IF server.nonce # z.nonce THEN {} ELSE z.table
           IN  /\ T \in Seq(Answer) /\ Len(T) \in Nat \ {0}
               /\ \A i \in 1 .. Len(T) : /\ T[i].kind = "end" <=> i = Len(T)
                                         /\ T[i].kind \notin {"reset", "notify"}
               /\ T[Len(T)] = EndOfData
               /\ \E f : /\ Follows(f, z, T)
                         /\ f[Len(T)] = [serial |-> server.serial, nonce |-> server.nonce,
                                         table |-> (t0 \ del) \cup add]
<1>c. ASSUME NEW p \in Seq(Answer), NEW q \in Seq(Answer)
      PROVE  /\ p \o q \in Seq(Answer) /\ Len(p) \in Nat /\ Len(q) \in Nat
             /\ Len(p \o q) = Len(p) + Len(q)
             /\ \A i \in 1 .. Len(p) : (p \o q)[i] = p[i]
             /\ \A i \in Len(p) + 1 .. Len(p) + Len(q) : (p \o q)[i] = q[i - Len(p)]
  <2>1. p \o q \in Seq(Answer) /\ Len(p) \in Nat /\ Len(q) \in Nat
    OBVIOUS
  <2>2. Len(p \o q) = Len(p) + Len(q)
    OBVIOUS
  <2>3. \A i \in 1 .. Len(p) + Len(q) :
            (p \o q)[i] = IF i <= Len(p) THEN p[i] ELSE q[i - Len(p)]
    OBVIOUS
  <2> QED BY <2>1, <2>2, <2>3
<1> DEFINE s1 == SetToSeq({[kind |-> "prefix", pdu |-> p, announce |-> FALSE] : p \in del})
           s2 == SetToSeq({[kind |-> "prefix", pdu |-> p, announce |-> TRUE] : p \in add})
           a == Len(s1)
           b == Len(s2)
           T == Transfer(add, del)
           t0 == IF server.nonce # z.nonce THEN {} ELSE z.table
           z0 == Sim(z, CacheResponse)
           m == a + b + 2
<1>1. /\ s1 \in Seq(Answer)
      /\ \A i \in 1 .. a : s1[i].kind = "prefix" /\ ~s1[i].announce
      /\ {s1[i].pdu : i \in 1 .. a} = del
  <2>1. s1 \in Seq(Answer)
    BY PrefixSequence
  <2>2. \A i \in 1 .. a : s1[i].kind = "prefix"
    BY PrefixSequence
  <2>3. ~FALSE => \A i \in 1 .. a : ~s1[i].announce
    BY PrefixSequence
  <2>4. {s1[i].pdu : i \in 1 .. a} = del
    BY PrefixSequence
  <2> QED BY <2>1, <2>2, <2>3, <2>4
<1>2. /\ s2 \in Seq(Answer)
      /\ \A i \in 1 .. b : s2[i].kind = "prefix" /\ s2[i].announce
      /\ {s2[i].pdu : i \in 1 .. b} = add
  <2>1. s2 \in Seq(Answer)
    BY PrefixSequence
  <2>2. \A i \in 1 .. b : s2[i].kind = "prefix"
    BY PrefixSequence
  <2>3. TRUE => \A i \in 1 .. b : s2[i].announce
    BY PrefixSequence
  <2>4. {s2[i].pdu : i \in 1 .. b} = add
    BY PrefixSequence
  <2> QED BY <2>1, <2>2, <2>3, <2>4
<1>3. /\ CacheResponse \in Answer /\ EndOfData \in Answer
      /\ CacheResponse.kind = "response" /\ CacheResponse.nonce = server.nonce
      /\ EndOfData.kind = "end" /\ EndOfData.serial = server.serial
      /\ EndOfData.nonce = server.nonce
  BY DEF TypeOK, CacheResponse, EndOfData, Answer
<1>4. T = ((<<CacheResponse>> \o s1) \o s2) \o <<EndOfData>>
  BY <1>1, <1>2 DEF Transfer
<1> HIDE DEF s1, s2, T
<1>5. /\ T \in Seq(Answer) /\ Len(T) = m /\ a \in Nat /\ b \in Nat
      /\ T[1] = CacheResponse /\ T[m] = EndOfData
      /\ \A i \in 2 .. a + 1 : T[i] = s1[i - 1]
      /\ \A i \in a + 2 .. a + b + 1 : T[i] = s2[i - a - 1]
  <2> DEFINE r == <<CacheResponse>>
             e == <<EndOfData>>
             u == r \o s1
             v == u \o s2
  <2>1. r \in Seq(Answer) /\ Len(r) = 1 /\ e \in Seq(Answer) /\ Len(e) = 1
        /\ r[1] = CacheResponse /\ e[1] = EndOfData
    BY <1>3
  <2>2. a \in Nat /\ b \in Nat
    BY <1>1, <1>2
  <2> HIDE DEF r, e, a, b
  <2>3. /\ u \in Seq(Answer) /\ Len(u) = 1 + a /\ u[1] = CacheResponse
        /\ \A i \in 2 .. a + 1 : u[i] = s1[i - 1]
    <3>1. /\ u \in Seq(Answer) /\ Len(u) = Len(r) + Len(s1)
          /\ \A i \in 1 .. Len(r) : u[i] = r[i]
          /\ \A i \in Len(r) + 1 .. Len(r) + Len(s1) : u[i] = s1[i - Len(r)]
      BY <1>c, <1>1, <2>1
    <3> HIDE DEF u
    <3> QED BY <3>1, <2>1, <2>2 DEF a
  <2> HIDE DEF u
  <2>4. /\ v \in Seq(Answer) /\ Len(v) = 1 + a + b
        /\ \A i \in 1 .. a + 1 : v[i] = u[i]
        /\ \A i \in a + 2 .. a + b + 1 : v[i] = s2[i - a - 1]
    <3>1. /\ v \in Seq(Answer) /\ Len(v) = Len(u) + Len(s2)
          /\ \A i \in 1 .. Len(u) : v[i] = u[i]
          /\ \A i \in Len(u) + 1 .. Len(u) + Len(s2) : v[i] = s2[i - Len(u)]
      BY <1>c, <1>2, <2>3
    <3>2. Len(u) = 1 + a /\ Len(s2) = b /\ b \in Nat /\ a \in Nat
      BY <2>2, <2>3 DEF b
    <3>3. \A i \in a + 2 .. a + b + 1 : i - Len(u) = i - a - 1
      BY <3>2
    <3> QED BY <3>1, <3>2, <3>3
  <2> HIDE DEF v
  <2>5. T = v \o e
    BY <1>4 DEF v, u, r, e
  <2>6. /\ T \in Seq(Answer) /\ Len(T) = m /\ T[m] = EndOfData
        /\ \A i \in 1 .. a + b + 1 : T[i] = v[i]
    <3>1. e \in Seq(Answer) /\ Len(e) = 1 /\ e[1] = EndOfData
      BY <2>1 DEF e
    <3>2. /\ T \in Seq(Answer) /\ Len(T) = Len(v) + 1
          /\ \A i \in 1 .. Len(v) : T[i] = v[i]
          /\ \A i \in Len(v) + 1 .. Len(v) + 1 : T[i] = e[i - Len(v)]
      BY <1>c, <2>4, <2>5, <3>1
    <3>3. Len(v) = a + b + 1 /\ m = Len(v) + 1 /\ m - Len(v) = 1 /\ Len(v) \in Nat
      BY <2>2, <2>4, <1>2 DEF b
    <3> QED BY <3>1, <3>2, <3>3
  <2>7. \A i \in 2 .. a + 1 : T[i] = s1[i - 1]
    BY <2>2, <2>3, <2>4, <2>6
  <2>8. \A i \in a + 2 .. a + b + 1 : T[i] = s2[i - a - 1]
    BY <2>2, <2>4, <2>6
  <2>9. T[1] = CacheResponse
    BY <2>2, <2>3, <2>4, <2>6
  <2> QED BY <2>2, <2>6, <2>7, <2>8, <2>9 DEF a, b
<1> HIDE DEF a, b
<1>6. ASSUME NEW i \in 1 .. m
      PROVE  /\ T[i].kind = "end" <=> i = m
             /\ T[i].kind \notin {"reset", "notify"}
  <2>1. i = 1 \/ i \in 2 .. a + 1 \/ i \in a + 2 .. a + b + 1 \/ i = m
    BY <1>5
  <2>2. CASE i = 1
    BY <2>2, <1>3, <1>5
  <2>3. CASE i \in 2 .. a + 1
    <3>1. i - 1 \in 1 .. a /\ i # m
      BY <2>3, <1>5
    <3> QED BY <3>1, <2>3, <1>1, <1>5
  <2>4. CASE i \in a + 2 .. a + b + 1
    <3>1. i - a - 1 \in 1 .. b /\ i # m
      BY <2>4, <1>5
    <3> QED BY <3>1, <2>4, <1>2, <1>5
  <2>5. CASE i = m
    BY <2>5, <1>3, <1>5
  <2> QED BY <2>1, <2>2, <2>3, <2>4, <2>5
<1> DEFINE W(i) == {s1[j].pdu : j \in {k \in 1 .. a : k + 1 <= i}}
           A(i) == {s2[j].pdu : j \in {k \in 1 .. b : k + a + 1 <= i}}
           table(i) == (t0 \ W(i)) \cup A(i)
           last == [serial |-> server.serial, nonce |-> server.nonce,
                    table |-> (t0 \ del) \cup add]
           f == [i \in 0 .. m |-> IF i = 0 THEN z
                                  ELSE IF i = m THEN last
                                  ELSE [z0 EXCEPT !.table = table(i)]]
<1>7. z0 \in View /\ z0.table = t0
  <2>1. z0 \in View
    BY <1>3, SimType
  <2>2. z0.table = t0
    BY <1>3 DEF Sim, Emptied, View
  <2> QED BY <2>1, <2>2
<1> HIDE DEF t0, z0
<1>8. \A i \in 1 .. m : W(i) \subseteq Prefix /\ A(i) \subseteq Prefix
  BY <1>1, <1>2
<1>9. W(1) = {} /\ A(1) = {} /\ W(m - 1) = del /\ A(m - 1) = add
  <2>1. {k \in 1 .. a : k + 1 <= 1} = {} /\ {k \in 1 .. b : k + a + 1 <= 1} = {}
    BY <1>5
  <2>2. {k \in 1 .. a : k + 1 <= m - 1} = 1 .. a /\ {k \in 1 .. b : k + a + 1 <= m - 1} = 1 .. b
    BY <1>5
  <2> QED BY <2>1, <2>2, <1>1, <1>2
<1>10. last \in View
  <2>1. server.serial \in SerialOrNone /\ server.nonce \in NonceOrNone
    BY DEF TypeOK, SerialOrNone, NonceOrNone
  <2>2. t0 \subseteq Prefix
    BY <1>7 DEF View
  <2> QED BY <2>1, <2>2 DEF View
<1>11. f \in [0 .. m -> View]
  <2>1. ASSUME NEW i \in 1 .. m PROVE [z0 EXCEPT !.table = table(i)] \in View
    BY <1>7, <1>8 DEF View
  <2> QED BY <2>1, <1>10
<1>12. ASSUME NEW i \in 1 .. m PROVE f[i] = Sim(f[i - 1], T[i])
  <2>0. /\ i - 1 \in 0 .. m /\ m \in Nat
        /\ i = 1 \/ i \in 2 .. a + 1 \/ i \in a + 2 .. a + b + 1 \/ i = m
    BY <1>5
  <2>1. CASE i = 1
    <3>1. f[0] = z /\ f[1] = [z0 EXCEPT !.table = table(1)]
      BY <1>5
    <3>2. table(1) = z0.table
      BY <1>7, <1>9
    <3>3. f[1] = z0
      BY <3>1, <3>2, <1>7 DEF View
    <3> QED BY <2>1, <3>1, <3>3, <1>5 DEF z0
  <2>2. CASE i \in 2 .. a + 1
    <3>1. /\ f[i] = [z0 EXCEPT !.table = table(i)]
          /\ f[i - 1] = [z0 EXCEPT !.table = table(i - 1)]
      BY <2>2, <1>5
    <3>2. i - 1 \in 1 .. a /\ T[i] = s1[i - 1]
      BY <2>2, <1>5
    <3>3. Sim(f[i - 1], T[i]) = [f[i - 1] EXCEPT !.table = @ \ {s1[i - 1].pdu}]
      BY <3>2, <1>1 DEF Sim
    <3>4. {k \in 1 .. a : k + 1 <= i} = {k \in 1 .. a : k + 1 <= i - 1} \cup {i - 1}
      BY <3>2, <1>5
    <3>5. W(i) = W(i - 1) \cup {s1[i - 1].pdu}
      BY <3>4
    <3>6. {k \in 1 .. b : k + a + 1 <= i} = {} /\ {k \in 1 .. b : k + a + 1 <= i - 1} = {}
      BY <2>2, <1>5
    <3>7. A(i) = {} /\ A(i - 1) = {}
      BY <3>6
    <3> HIDE DEF W, A, f
    <3>8. table(i) = table(i - 1) \ {s1[i - 1].pdu}
      BY <3>5, <3>7
    <3> HIDE DEF table
    <3> QED BY <3>1, <3>3, <3>8, <1>7 DEF View
  <2>3. CASE i \in a + 2 .. a + b + 1
    <3>1. /\ f[i] = [z0 EXCEPT !.table = table(i)]
          /\ f[i - 1] = [z0 EXCEPT !.table = table(i - 1)]
      BY <2>3, <1>5
    <3>2. i - a - 1 \in 1 .. b /\ T[i] = s2[i - a - 1]
      BY <2>3, <1>5
    <3>3. Sim(f[i - 1], T[i]) = [f[i - 1] EXCEPT !.table = @ \cup {s2[i - a - 1].pdu}]
      BY <3>2, <1>2 DEF Sim
    <3>4. {k \in 1 .. b : k + a + 1 <= i}
              = {k \in 1 .. b : k + a + 1 <= i - 1} \cup {i - a - 1}
      BY <3>2, <1>5
    <3>5. A(i) = A(i - 1) \cup {s2[i - a - 1].pdu}
      BY <3>4
    <3>6. {k \in 1 .. a : k + 1 <= i} = {k \in 1 .. a : k + 1 <= i - 1}
      BY <2>3, <1>5
    <3>7. W(i) = W(i - 1)
      BY <3>6
    <3> HIDE DEF W, A, f
    <3>8. table(i) = table(i - 1) \cup {s2[i - a - 1].pdu}
      BY <3>5, <3>7
    <3> HIDE DEF table
    <3> QED BY <3>1, <3>3, <3>8, <1>7 DEF View
  <2>4. CASE i = m
    <3>1. f[m] = last /\ f[m - 1] = [z0 EXCEPT !.table = table(m - 1)]
      BY <1>5
    <3>2. Sim(f[m - 1], T[m]) = [f[m - 1] EXCEPT !.serial = server.serial, !.nonce = server.nonce]
      BY <1>3, <1>5 DEF Sim
    <3>3. table(m - 1) = (t0 \ del) \cup add
      BY <1>9
    <3> HIDE DEF f, table
    <3> QED BY <2>4, <3>1, <3>2, <3>3, <1>7 DEF View
  <2> QED BY <2>0, <2>1, <2>2, <2>3, <2>4
<1>13. f[0] = z /\ f[m] = last /\ m \in Nat \ {0}
  BY <1>5
<1> HIDE DEF f, last, m
<1>14. Follows(f, z, T)
  BY <1>5, <1>11, <1>12, <1>13 DEF Follows
<1>15. f[Len(T)] = [serial |-> server.serial, nonce |-> server.nonce,
                    table |-> (t0 \ del) \cup add]
  BY <1>5, <1>13 DEF last
<1> QED BY <1>5, <1>6, <1>13, <1>14, <1>15 DEF T, t0

-----------------------------------------------------------------------------
(***************************************************************************)
(* Server and client.                                                      *)
(***************************************************************************)
MadeUnder(serial, nonce, t) ==
    \E i \in DOMAIN hist : hist[i] = [serial |-> serial, nonce |-> nonce, pdus |-> t]

Known(l) == \E i \in DOMAIN hist : LabelOf(hist[i]) = LabelOf(l)

\* A table that is not in the middle of a transfer.
Ended(z) ==
    /\ z.nonce <= current.nonce
    /\ IF z.serial = None THEN z.table = {} ELSE MadeUnder(z.serial, z.nonce, z.table)

\* The answer that a server with label l gives to the query q leads a client that
\* then has z to the set under l, or to another query.
Fits(q, z, l) ==
    IF q.kind = "reset" THEN z.serial = None \/ LabelOf(z) = l \/ z.nonce < l.nonce
    ELSE \/ LabelOf(q) = LabelOf(z) \/ LabelOf(z) = l \/ q.nonce # l.nonce
         \/ q.serial # l.serial /\ <<l.serial, q.serial>> \notin DOMAIN ix

\* The queries that the server has still to answer: those that have been asked, and
\* those that what is on its way will make the client ask.
Asked(path, u) ==
    {u[i] : i \in DOMAIN u} \cup UNION {Asks(path[i - 1], down[i]) : i \in DOMAIN down}

\* On the way along the PDUs of s every transfer ends with the set it is labelled
\* with, and nonces do not go down.
Sound(path, s) ==
    /\ Ended(path[Len(s)])
    /\ \A i \in DOMAIN s :
           /\ s[i].kind = "end" => MadeUnder(s[i].serial, s[i].nonce, path[i].table)
           /\ s[i].kind = "notify" =>
                  path[i].nonce <= s[i].nonce /\ s[i].nonce <= current.nonce
    /\ \A i \in 0 .. Len(s) :
           (\A j \in DOMAIN s : j > i => s[j].kind \notin {"reset", "end"})
               => path[i] = path[Len(s)]

\* Whatever is asked fits what the client then has, and a difference is asked for
\* from one set only.
AllFit(Q, z) ==
    /\ \A q \in Q : Fits(q, z, current) /\ (q.kind = "reset" \/ Known(q))
    /\ \A q, r \in Q : q.kind # "reset" /\ r.kind # "reset" => q = r

PathInv(path) == Sound(path, down) /\ AllFit(Asked(path, up), path[Len(down)])

\* At most one query is open, or one answer, or one notification.
Lone ==
    /\ up \in {<< >>, <<ResetQuery>>, <<SerialQuery>>}
    /\ \A i, j \in DOMAIN down : Awaited(down[i]) /\ Awaited(down[j]) => i = j /\ up = << >>

\* Only then does a server not know what is current.
ServerInv ==
    /\ server.serial # None => Known(server)
    /\ ~client.up => up = << >> /\ down = << >> /\ server = NoServer
    /\ LabelOf(server) # current =>
           /\ server.known => Lone
           /\ server.step = "reply" =>
                  up = <<DueQuery>> /\ \A i \in DOMAIN down : ~Awaited(down[i])

LinkInv == client.up => \E path : Follows(path, Base, down) /\ PathInv(path)

SyncInv == Ended(saved) /\ ServerInv /\ LinkInv

LEMMA BaseType == TypeOK => Base \in View
BY DEF TypeOK, Base, View, SerialOrNone, NonceOrNone

LEMMA ViewNumbers ==
    ASSUME NEW z \in View
    PROVE  z.nonce \in Int
<1>1. NonceOrNone \subseteq Int
  BY Constants DEF NonceOrNone
<1> QED BY <1>1 DEF View

LEMMA NotifyFields ==
    ASSUME NEW p \in Answer, p.kind = "notify"
    PROVE  p.nonce \in Int
<1>1. p.nonce \in NonceOrNone
  BY DEF Answer, NonceOrNone
<1>2. NonceOrNone \subseteq Int
  BY Constants DEF NonceOrNone
<1> QED BY <1>1, <1>2

\* What was made current stays made.
LEMMA Remembered ==
    ASSUME TypeOK, hist' = hist \/ \E m \in Made : hist' = Append(hist, m)
    PROVE  /\ \A s, n, t : MadeUnder(s, n, t) => MadeUnder(s, n, t)'
           /\ \A i \in DOMAIN hist : i \in DOMAIN hist' /\ hist'[i] = hist[i]
<1>1. \A i \in DOMAIN hist : i \in DOMAIN hist' /\ hist'[i] = hist[i]
  <2>1. ASSUME NEW m \in Made, hist' = Append(hist, m), NEW i \in DOMAIN hist
        PROVE  i \in DOMAIN hist' /\ hist'[i] = hist[i]
    <3>1. hist \in Seq(Made)
      BY DEF TypeOK
    <3>2. /\ DOMAIN hist = 1 .. Len(hist) /\ DOMAIN hist' = 1 .. Len(hist) + 1
          /\ \A k \in 1 .. Len(hist) : hist'[k] = hist[k]
      BY <2>1, <3>1
    <3> QED BY <3>1, <3>2
  <2> QED BY <2>1
<1> QED BY <1>1 DEF MadeUnder

\* A set is known by its label.
LEMMA MadeOnce ==
    ASSUME TypeOK, DiskInv, NEW i \in DOMAIN hist, NEW s, NEW n, NEW t, MadeUnder(s, n, t)
    PROVE  /\ s # None /\ n # None
           /\ hist[i].serial = s => hist[i].nonce = n /\ hist[i].pdus = t
<1>1. PICK k \in DOMAIN hist : hist[k] = [serial |-> s, nonce |-> n, pdus |-> t]
  BY DEF MadeUnder
<1>2. hist[k].serial = s /\ hist[k].nonce = n /\ hist[k].pdus = t
  BY <1>1
<1>3. hist[k].serial # None
  BY MadeTypes, Constants DEF Made
<1>4. hist[k].nonce # None /\ (hist[i].serial = hist[k].serial => i = k)
  BY DEF DiskInv
<1> QED BY <1>2, <1>3, <1>4

\* What is asked while at most one thing is open.
LEMMA LoneAsked ==
    ASSUME TypeOK, Lone, NEW path, Follows(path, Base, down), PathInv(path),
           NEW q \in Asked(path, up)
    PROVE  LET z == path[Len(down)]
           IN  \/ q = QueryOf(z)
               \/ /\ q = ResetQuery
                  /\ \/ up = <<ResetQuery>> /\ z = Base
                     \/ z.serial = None \/ z.nonce < current.nonce
<1> DEFINE n == Len(down)
           z == path[n]
<1>1. /\ n \in Nat /\ DOMAIN down = 1 .. n
      /\ path \in [0 .. n -> View] /\ path[0] = Base
      /\ \A i \in 1 .. n : path[i] = Sim(path[i - 1], down[i])
  BY DEF TypeOK, Follows
<1>2. ASSUME NEW i \in 0 .. n, \A j \in 1 .. n : j > i => down[j].kind \notin {"reset", "end"}
      PROVE  path[i] = z
  BY <1>1, <1>2 DEF PathInv, Sound, AllFit
<1>3. CASE \E i \in DOMAIN up : q = up[i]
  <2>1. PICK i \in DOMAIN up : q = up[i]
    BY <1>3
  <2>2. up # << >>
    BY <2>1
  <2>3. up = <<ResetQuery>> \/ up = <<SerialQuery>>
    BY <2>2 DEF Lone
  <2>4. q = up[1]
    BY <2>1, <2>3
  <2>5. \A j \in 1 .. n : ~Awaited(down[j])
    BY <2>2, <1>1 DEF Lone
  <2>6. path[0] = z
    BY <2>5, <1>1, <1>2 DEF Awaited
  <2>7. SerialQuery = QueryOf(Base)
    BY DEF SerialQuery, QueryOf, Base
  <2> QED BY <2>3, <2>4, <2>6, <2>7, <1>1
<1>4. CASE \E i \in DOMAIN down : q \in Asks(path[i - 1], down[i])
  <2>1. PICK i \in 1 .. n : q \in Asks(path[i - 1], down[i])
    BY <1>1, <1>4
  <2>2. down[i].kind \in {"reset", "notify"}
    BY <2>1 DEF Asks
  <2>3. \A j \in 1 .. n : j > i => ~Awaited(down[j])
    BY <2>2, <1>1 DEF Lone, Awaited
  <2>4. path[i] = z
    BY <2>3, <1>2 DEF Awaited
  <2>5. path[i] = Sim(path[i - 1], down[i])
    BY <1>1
  <2>6. CASE down[i].kind = "reset"
    BY <2>1, <2>4, <2>5, <2>6 DEF Asks, Sim, Emptied
  <2>7. CASE down[i].kind = "notify"
    <3>1. path[i - 1] = z
      BY <2>4, <2>5, <2>7 DEF Sim
    <3>2. z.nonce <= down[i].nonce /\ down[i].nonce <= current.nonce
      BY <2>4, <2>7, <1>1 DEF PathInv, Sound, AllFit
    <3>3. down[i] \in Answer
      BY <1>1 DEF TypeOK
    <3>4. down[i].nonce \in Int
      BY <3>3, <2>7, NotifyFields
    <3>5. z.nonce \in Int /\ current.nonce \in Int
      BY <1>1, Numbers, ViewNumbers
    <3>6. z.nonce # down[i].nonce => z.nonce < current.nonce
      BY <3>2, <3>4, <3>5
    <3> HIDE DEF z
    <3>7. \/ q = ResetQuery /\ (z.serial = None \/ z.nonce # down[i].nonce)
          \/ q = QueryOf(z)
      BY <2>1, <2>7, <3>1 DEF Asks
    <3> QED BY <3>6, <3>7 DEF z
  <2> QED BY <2>2, <2>6, <2>7
<1> QED BY <1>3, <1>4 DEF Asked

LEMMA FitsStays ==
    ASSUME UNCHANGED <<current, hist>>,
           \A t \in DOMAIN ix' : t \in DOMAIN ix \/ t[1] # current.serial
    PROVE  /\ \A z : Ended(z) => Ended(z)'
           /\ \A q, z : Fits(q, z, current) => Fits(q, z, current)'
           /\ \A s, n, t : MadeUnder(s, n, t) => MadeUnder(s, n, t)'
           /\ \A l : Known(l) => Known(l)'
<1>1. \A z : Ended(z) => Ended(z)'
  BY DEF Ended, MadeUnder
<1>2. ASSUME NEW q, NEW z, Fits(q, z, current) PROVE Fits(q, z, current)'
  <2>1. <<current.serial, q.serial>> \notin DOMAIN ix => <<current.serial, q.serial>> \notin DOMAIN ix'
    OBVIOUS
  <2> QED BY <1>2, <2>1 DEF Fits
<1> QED BY <1>1, <1>2 DEF MadeUnder, Known

LEMMA PathStays ==
    ASSUME NEW path, PathInv(path), UNCHANGED <<up, down, current, hist>>,
           \A t \in DOMAIN ix' : t \in DOMAIN ix \/ t[1] # current.serial
    PROVE  PathInv(path)'
<1>1. Asked(path, up)' = Asked(path, up)
  BY DEF Asked
<1>2. \A q \in Asked(path, up) :
          Fits(q, path[Len(down)], current)' /\ (q.kind = "reset" \/ Known(q)')
  BY FitsStays DEF PathInv, Sound, AllFit
<1>3. Ended(path[Len(down)])'
  BY FitsStays DEF PathInv, Sound, AllFit
<1>4. \A i \in DOMAIN down : down[i].kind = "end" =>
          MadeUnder(down[i].serial, down[i].nonce, path[i].table)'
  BY FitsStays DEF PathInv, Sound, AllFit
<1> QED BY <1>1, <1>2, <1>3, <1>4 DEF PathInv, Sound, AllFit

\* The cron job's steps but WriteCurrent.
LEMMA SyncFrame ==
    ASSUME SyncInv, UNCHANGED <<current, hist, server, up, down, client, saved>>,
           \A t \in DOMAIN ix' : t \in DOMAIN ix \/ t[1] # current.serial
    PROVE  SyncInv'
<1>1. Ended(saved)'
  BY FitsStays DEF SyncInv
<1>2. ServerInv'
  BY DEF SyncInv, ServerInv, Known, Lone, SerialQuery, DueQuery
<1>3. Base' = Base /\ down' = down /\ client' = client
  BY DEF Base
<1>4. LinkInv'
  BY <1>3, PathStays DEF SyncInv, LinkInv
<1> QED BY <1>1, <1>2, <1>4 DEF SyncInv

LEMMA SyncWrite ==
    ASSUME TypeOK, QueryWaits, JobInv, DiskInv, SyncInv, NoOverlap, WriteCurrent
    PROVE  SyncInv'
<1> DEFINE m == [serial |-> job.serial, nonce |-> job.nonce, pdus |-> job.pdus]
<1>1. /\ job.step = "write" /\ UNCHANGED <<ax, ix, server, up, down, client, saved>>
      /\ current' = LabelOf(job) /\ hist' = Append(hist, m)
  BY DEF WriteCurrent, conn, clientVars
<1>2. m \in Made
  BY <1>1 DEF JobInv, Writing, TypeOK, Job, Made
<1>3. /\ \A s, n, t : MadeUnder(s, n, t) => MadeUnder(s, n, t)'
      /\ \A i \in DOMAIN hist : i \in DOMAIN hist' /\ hist'[i] = hist[i]
  BY <1>1, <1>2, Remembered
<1>4. \A l : Known(l) => \E i \in DOMAIN hist' : LabelOf(hist'[i]) = LabelOf(l)
  BY <1>3 DEF Known
<1>5. current'.nonce = job.nonce /\ current'.nonce >= current.nonce
  BY <1>1 DEF DiskInv, LabelOf
<1>6. current.nonce \in Int /\ current'.nonce \in Int
  BY <1>5, Numbers
<1>7. ASSUME NEW z, z.nonce \in Int, Ended(z) PROVE Ended(z)'
  BY <1>3, <1>5, <1>6, <1>7 DEF Ended
<1>8. Ended(saved)'
  BY <1>1, <1>7, Numbers DEF SyncInv
<1>9. DueQuery \in {ResetQuery, SerialQuery}
  BY DEF DueQuery
<1>10. Lone
  BY <1>9 DEF NoOverlap, Lone
<1>11. server.step = "reply" => up = <<DueQuery>> /\ \A i \in DOMAIN down : ~Awaited(down[i])
  BY DEF QueryWaits, NoOverlap
<1>12. SerialQuery' = SerialQuery /\ DueQuery' = DueQuery /\ Base' = Base
  BY <1>1 DEF SerialQuery, DueQuery, Base
<1>13. ServerInv'
  <2>1. (server.serial # None => Known(server))'
    BY <1>1, <1>4 DEF SyncInv, ServerInv, Known
  <2>2. (~client.up => up = << >> /\ down = << >> /\ server = NoServer)'
    BY <1>1 DEF SyncInv, ServerInv
  <2>3. Lone'
    BY <1>1, <1>10, <1>12 DEF Lone
  <2>4. (server.step = "reply" =>
             up = <<DueQuery>> /\ \A i \in DOMAIN down : ~Awaited(down[i]))'
    BY <1>1, <1>11, <1>12
  <2> QED BY <2>1, <2>2, <2>3, <2>4 DEF ServerInv
<1>14. ASSUME client.up, NEW path, Follows(path, Base, down), PathInv(path)
       PROVE  PathInv(path)'
  <2> DEFINE z == path[Len(down)]
  <2>1. z \in View /\ z.nonce \in Int
    <3>1. Len(down) \in Nat /\ path \in [0 .. Len(down) -> View]
      BY <1>14 DEF TypeOK, Follows
    <3>2. z \in View
      BY <3>1
    <3> QED BY <3>2, ViewNumbers
  <2>2. Ended(z)
    BY <1>14 DEF PathInv, Sound, AllFit
  <2>3. Ended(z)'
    BY <2>1, <2>2, <1>7, <1>1
  <2>4. ASSUME NEW q \in Asked(path, up)
        PROVE  Fits(q, z, current)' /\ (q.kind = "reset" \/ Known(q)')
    <3>1. \/ q = QueryOf(z)
          \/ /\ q = ResetQuery
             /\ \/ up = <<ResetQuery>> /\ z = Base
                \/ z.serial = None \/ z.nonce < current.nonce
      BY <1>10, <1>14, LoneAsked
    <3>2. CASE q = QueryOf(z)
      <4>1. LabelOf(q) = LabelOf(z) /\ q.kind = "serial"
        BY <3>2 DEF QueryOf, LabelOf
      <4>2. Known(q)
        BY <4>1, <1>14 DEF PathInv, Sound, AllFit
      <4> QED BY <4>1, <4>2, <1>4, <1>1 DEF Fits, Known
    <3>3. ASSUME q = ResetQuery, up = <<ResetQuery>>, z = Base PROVE z.serial = None
      <4>1. DueQuery = ResetQuery
        BY <3>3 DEF NoOverlap
      <4>2. client.serial = None \/ client.nonce = None
        BY <4>1 DEF DueQuery, SerialQuery, ResetQuery
      <4>3. z.serial # None => MadeUnder(z.serial, z.nonce, z.table)
        BY <2>2 DEF Ended
      <4>4. z.serial # None => z.nonce # None
        <5>1. ASSUME z.serial # None PROVE z.nonce # None
          <6>1. PICK i \in DOMAIN hist : TRUE
            BY <4>3, <5>1 DEF MadeUnder
          <6> QED BY <6>1, <4>3, <5>1, MadeOnce
        <5> QED BY <5>1
      <4> QED BY <3>3, <4>2, <4>4 DEF Base
    <3>4. CASE q = ResetQuery
      <4>1. z.serial = None \/ z.nonce < current.nonce
        BY <3>1, <3>3, <3>4 DEF QueryOf, ResetQuery
      <4>2. z.serial = None \/ z.nonce < current'.nonce
        BY <4>1, <2>1, <1>5, <1>6
      <4>3. q.kind = "reset"
        BY <3>4 DEF ResetQuery
      <4> QED BY <4>2, <4>3, <1>1 DEF Fits
    <3> QED BY <3>1, <3>2, <3>4
  <2>5. Asked(path, up)' = Asked(path, up)
    BY <1>1 DEF Asked
  <2>6. \A i \in DOMAIN down :
          /\ down[i].kind = "end" => MadeUnder(down[i].serial, down[i].nonce, path[i].table)'
          /\ down[i].kind = "notify" =>
                 path[i].nonce <= down[i].nonce /\ down[i].nonce <= current'.nonce
    <3>1. ASSUME NEW i \in DOMAIN down, down[i].kind = "notify"
          PROVE  down[i].nonce <= current'.nonce
      <4>1. down[i].nonce <= current.nonce
        BY <3>1, <1>14 DEF PathInv, Sound, AllFit
      <4>2. down[i] \in Answer
        BY DEF TypeOK
      <4>3. down[i].nonce \in Int
        BY <3>1, <4>2, NotifyFields
      <4> QED BY <4>1, <4>3, <1>5, <1>6
    <3>2. \A i \in DOMAIN down : down[i].kind = "end" =>
              MadeUnder(down[i].serial, down[i].nonce, path[i].table)'
      BY <1>1, <1>3, <1>14 DEF PathInv, Sound, AllFit
    <3>3. \A i \in DOMAIN down : down[i].kind = "notify" => path[i].nonce <= down[i].nonce
      BY <1>14 DEF PathInv, Sound, AllFit
    <3> QED BY <3>1, <3>2, <3>3
  <2> HIDE DEF z
  <2>7. \A q, r \in Asked(path, up) : q.kind # "reset" /\ r.kind # "reset" => q = r
    BY <1>14 DEF PathInv, Sound, AllFit
  <2>8. \A i \in 0 .. Len(down) :
           (\A j \in DOMAIN down : j > i => down[j].kind \notin {"reset", "end"})
               => path[i] = path[Len(down)]
    BY <1>14 DEF PathInv, Sound, AllFit
  <2> QED BY <1>1, <2>3, <2>4, <2>5, <2>6, <2>7, <2>8 DEF PathInv, Sound, AllFit, z
<1>15. LinkInv'
  <2>1. SUFFICES ASSUME client.up PROVE LinkInv'
    BY <1>1 DEF LinkInv
  <2>2. PICK path : Follows(path, Base, down) /\ PathInv(path)
    BY <2>1 DEF SyncInv, LinkInv
  <2>3. PathInv(path)' /\ Follows(path, Base', down')
    BY <2>1, <2>2, <1>1, <1>12, <1>14
  <2> QED BY <2>3 DEF LinkInv
<1> QED BY <1>8, <1>13, <1>15 DEF SyncInv

\* The server's steps but Reply.
LEMMA SyncRead ==
    ASSUME TypeOK, JobInv, SyncInv, ReadCurrent
    PROVE  SyncInv'
<1>1. /\ UNCHANGED <<ax, ix, current, hist, up, down, client, saved>> /\ up # << >>
      /\ server'.serial = current.serial /\ server'.nonce = current.nonce
  BY DEF ReadCurrent, disk, genVars, clientVars
<1>2. LabelOf(server') = current
  BY <1>1 DEF LabelOf, TypeOK, Label
<1>3. (server.serial # None => Known(server))'
  <2> SUFFICES ASSUME current.serial # None PROVE Known(server)'
    BY <1>1
  <2>1. hist # << >> /\ current = LabelOf(Last(hist))
    BY DEF JobInv, Unset
  <2>2. Len(hist) \in DOMAIN hist /\ current = LabelOf(hist[Len(hist)])
    BY <2>1 DEF TypeOK, Last
  <2> QED BY <2>2, <1>1, <1>2 DEF Known
<1>4. client.up
  BY <1>1 DEF SyncInv, ServerInv
<1>5. ServerInv'
  BY <1>1, <1>2, <1>3, <1>4 DEF ServerInv
<1>6. Ended(saved)'
  BY <1>1, FitsStays DEF SyncInv
<1>7. LinkInv'
  BY <1>1, PathStays DEF SyncInv, LinkInv, Base
<1> QED BY <1>5, <1>6, <1>7 DEF SyncInv

\* What Reply and Notify add to the PDUs on their way.
LEMMA Answered ==
    ASSUME TypeOK, NEW path, Follows(path, Base, down), PathInv(path),
           NEW more \in Seq(Answer), NEW f, Follows(f, path[Len(down)], more),
           UNCHANGED <<disk, hist, client>>, down' = down \o more,
           Sound(f, more),
           NEW Q, AllFit(Q, f[Len(more)]),
           Asked(path, up') \cup UNION {Asks(f[i - 1], more[i]) : i \in DOMAIN more} = Q
    PROVE  \E g : Follows(g, Base, down)' /\ PathInv(g)'
<1>0. Len(down) \in Nat /\ Len(more) \in Nat
  BY DEF TypeOK
<1>a. PICK n \in Nat : n = Len(down)
  BY <1>0
<1>b. PICK m \in Nat : m = Len(more)
  BY <1>0
<1>1. /\ down \in Seq(Answer) /\ n \in Nat /\ m \in Nat
      /\ DOMAIN down = 1 .. n /\ DOMAIN more = 1 .. m
      /\ Len(down') = n + m /\ DOMAIN down' = 1 .. n + m
      /\ \A i \in 1 .. n : down'[i] = down[i]
      /\ \A i \in 1 .. m : down'[n + i] = more[i]
  <2>1. down \in Seq(Answer)
    BY DEF TypeOK
  <2> QED BY <2>1, <1>a, <1>b
<1>2. PICK g : /\ Follows(g, Base, down \o more)
               /\ \A i \in 0 .. n : g[i] = path[i]
               /\ \A i \in 0 .. m : g[n + i] = f[i]
  <2>1. down \in Seq(Answer)
    BY <1>1
  <2>2. PICK g : Follows(g, Base, down \o more) /\ Joins(g, path, down, f, more)
    BY <2>1, FollowMore
  <2>3. /\ \A i \in 0 .. n : g[i] = path[i]
        /\ \A i \in 0 .. m : g[n + i] = f[i]
    BY <2>2, <1>a, <1>b DEF Joins
  <2> QED BY <2>2, <2>3
<1>3. Follows(g, Base, down)'
  BY <1>2 DEF Base
<1>4. f[0] = path[n]
  BY <1>a DEF Follows
<1>5. g[n + m] = f[m]
  BY <1>1, <1>2
<1>6. ASSUME NEW i \in 1 .. n + m
      PROVE  i \in 1 .. n \/ \E k \in 1 .. m : i = n + k /\ i - 1 = n + (k - 1) /\ k - 1 \in 0 .. m
  <2>1. CASE i <= n
    BY <2>1, <1>1
  <2>2. CASE ~(i <= n)
    <3>1. i - n \in 1 .. m /\ i = n + (i - n) /\ i - 1 = n + ((i - n) - 1) /\ (i - n) - 1 \in 0 .. m
      BY <2>2, <1>1
    <3> QED BY <3>1
  <2> QED BY <2>1, <2>2
<1>7. Ended(g[n + m])'
  BY <1>5, <1>b, FitsStays DEF disk, Sound
<1>8. ASSUME NEW i \in 1 .. n + m
      PROVE  /\ down'[i].kind = "end" =>
                    MadeUnder(down[i].serial, down[i].nonce, g[i].table)'
             /\ down'[i].kind = "notify" =>
                    g[i].nonce <= down'[i].nonce /\ down'[i].nonce <= current.nonce
  <2>1. CASE i \in 1 .. n
    <3>1. down'[i] = down[i] /\ g[i] = path[i]
      BY <2>1, <1>1, <1>2
    <3>2. down[i].kind = "end" => MadeUnder(down[i].serial, down[i].nonce, path[i].table)
      BY <2>1, <1>1 DEF PathInv, Sound, AllFit
    <3>3. down[i].kind = "notify" =>
              path[i].nonce <= down[i].nonce /\ down[i].nonce <= current.nonce
      BY <2>1, <1>1 DEF PathInv, Sound, AllFit
    <3> QED BY <3>1, <3>2, <3>3 DEF MadeUnder
  <2>2. ASSUME NEW k \in 1 .. m, i = n + k
        PROVE  /\ down'[i].kind = "end" =>
                      MadeUnder(down[i].serial, down[i].nonce, g[i].table)'
               /\ down'[i].kind = "notify" =>
                      g[i].nonce <= down'[i].nonce /\ down'[i].nonce <= current.nonce
    <3>1. down'[i] = more[k] /\ g[i] = f[k]
      BY <2>2, <1>1, <1>2
    <3>2. more[k].kind = "end" => MadeUnder(more[k].serial, more[k].nonce, f[k].table)
      BY <1>b DEF Sound
    <3>3. more[k].kind = "notify" =>
              f[k].nonce <= more[k].nonce /\ more[k].nonce <= current.nonce
      BY <1>b DEF Sound
    <3> QED BY <3>1, <3>2, <3>3 DEF MadeUnder
  <2> QED BY <2>1, <2>2, <1>6
<1>9. ASSUME NEW i \in 0 .. n + m,
             \A j \in 1 .. n + m : j > i => down'[j].kind \notin {"reset", "end"}
      PROVE  g[i] = g[n + m]
  <2>1. ASSUME NEW k \in 0 .. m, i <= n + k PROVE f[k] = f[m]
    <3>1. ASSUME NEW j \in 1 .. m, j > k PROVE more[j].kind \notin {"reset", "end"}
      <4>1. n + j \in 1 .. n + m /\ n + j > i /\ down'[n + j] = more[j]
        BY <2>1, <3>1, <1>1
      <4> QED BY <4>1, <1>9
    <3> QED BY <3>1, <1>b DEF Sound
  <2>2. CASE i <= n
    <3>1. i \in 0 .. n /\ 0 \in 0 .. m /\ i <= n + 0
      BY <2>2, <1>1
    <3>2. f[0] = f[m]
      BY <3>1, <2>1
    <3>3. ASSUME NEW j \in 1 .. n, j > i PROVE down[j].kind \notin {"reset", "end"}
      BY <3>3, <1>1, <1>9
    <3>4. path[i] = path[n]
      BY <3>1, <3>3, <1>a, <1>1 DEF PathInv, Sound, AllFit
    <3> QED BY <3>1, <3>2, <3>4, <1>2, <1>4, <1>5
  <2>3. CASE ~(i <= n)
    <3>1. i - n \in 0 .. m /\ i <= n + (i - n) /\ i = n + (i - n)
      BY <2>3, <1>1
    <3> QED BY <3>1, <2>1, <1>2, <1>5
  <2> QED BY <2>2, <2>3
<1>10. ASSUME NEW q \in Asked(g, up)' PROVE q \in Q
  <2>1. CASE \E i \in DOMAIN up' : q = up'[i]
    BY <2>1 DEF Asked
  <2>2. CASE \E i \in 1 .. n + m : q \in Asks(g[i - 1], down'[i])
    <3>1. PICK i \in 1 .. n + m : q \in Asks(g[i - 1], down'[i])
      BY <2>2
    <3>2. CASE i \in 1 .. n
      <4>1. down'[i] = down[i] /\ i - 1 \in 0 .. n
        BY <3>2, <1>1
      <4>2. q \in Asks(path[i - 1], down[i])
        BY <3>1, <4>1, <1>2
      <4>3. i \in DOMAIN down
        BY <3>2, <1>1
      <4>4. q \in Asked(path, up')
        BY <4>2, <4>3 DEF Asked
      <4> QED BY <4>4
    <3>3. ASSUME NEW k \in 1 .. m, i = n + k, i - 1 = n + (k - 1), k - 1 \in 0 .. m
          PROVE  q \in Q
      <4>1. down'[i] = more[k] /\ g[i - 1] = f[k - 1]
        BY <3>3, <1>1, <1>2
      <4>2. q \in Asks(f[k - 1], more[k])
        BY <3>1, <4>1
      <4> QED BY <4>2, <1>b
    <3> QED BY <3>2, <3>3, <1>6
  <2> QED BY <2>1, <2>2, <1>1 DEF Asked
<1>11. \A q \in Asked(g, up)' :
           Fits(q, g[n + m], current)' /\ (q.kind = "reset" \/ Known(q)')
  <2>1. \A q \in Q : Fits(q, f[m], current)' /\ (q.kind = "reset" \/ Known(q)')
    BY <1>b, FitsStays DEF disk, AllFit
  <2> QED BY <2>1, <1>5, <1>10
<1>12. PathInv(g)'
  <2>1. current' = current
    BY DEF disk
  <2>2. Len(down') = n + m /\ DOMAIN down' = 1 .. n + m
    BY <1>1
  <2>3. \A q, r \in Asked(g, up)' : q.kind # "reset" /\ r.kind # "reset" => q = r
    BY <1>10 DEF AllFit
  <2>4. \A i \in DOMAIN down' :
           /\ down'[i].kind = "end" =>
                  MadeUnder(down[i].serial, down[i].nonce, g[i].table)'
           /\ down'[i].kind = "notify" =>
                  g[i].nonce <= down'[i].nonce /\ down'[i].nonce <= current'.nonce
    BY <2>1, <2>2, <1>8
  <2>5. \A i \in 0 .. Len(down') :
           (\A j \in DOMAIN down' : j > i => down'[j].kind \notin {"reset", "end"})
               => g[i] = g[Len(down')]
    BY <2>2, <1>9
  <2> QED BY <2>2, <1>7, <2>3, <2>4, <2>5, <1>11 DEF PathInv, Sound, AllFit
<1> QED BY <1>3, <1>12

LEMMA FollowOne ==
    ASSUME NEW z \in View, NEW p \in Answer
    PROVE  /\ <<p>> \in Seq(Answer) /\ Len(<<p>>) = 1 /\ DOMAIN <<p>> = {1} /\ <<p>>[1] = p
           /\ \E f : /\ Follows(f, z, <<p>>)
                     /\ f[0] = z /\ f[1] = Sim(z, p)
                     /\ UNION {Asks(f[i - 1], <<p>>[i]) : i \in DOMAIN <<p>>} = Asks(z, p)
<1> DEFINE f == [i \in 0 .. 1 |-> IF i = 0 THEN z ELSE Sim(z, p)]
           s == <<p>>
<1>1. s \in Seq(Answer) /\ Len(s) = 1 /\ DOMAIN s = {1} /\ s[1] = p
  OBVIOUS
<1>2. f[0] = z /\ f[1] = Sim(z, p) /\ f \in [0 .. 1 -> View]
  BY SimType
<1> HIDE DEF f, s
<1>3. \A i \in 1 .. 1 : f[i] = Sim(f[i - 1], s[i])
  BY <1>1, <1>2
<1>4. Follows(f, z, s)
  BY <1>1, <1>2, <1>3 DEF Follows
<1>5. UNION {Asks(f[i - 1], s[i]) : i \in DOMAIN s} = Asks(z, p)
  <2>1. \A i \in DOMAIN s : f[i - 1] = z /\ s[i] = p
    BY <1>1, <1>2
  <2> QED BY <1>1, <2>1
<1> QED BY <1>1, <1>2, <1>4, <1>5 DEF s

LEMMA EndOfPath ==
    ASSUME TypeOK, NEW path, Follows(path, Base, down), PathInv(path)
    PROVE  /\ path[Len(down)] \in View /\ Ended(path[Len(down)])
           /\ (\A i \in DOMAIN down : ~Awaited(down[i])) =>
                  path[Len(down)] = Base /\ \A i \in DOMAIN down : path[i] = Base
<1>1. /\ Len(down) \in Nat /\ path \in [0 .. Len(down) -> View] /\ path[0] = Base
      /\ DOMAIN down = 1 .. Len(down)
  BY DEF TypeOK, Follows
<1>2. ASSUME \A i \in DOMAIN down : ~Awaited(down[i]), NEW i \in 0 .. Len(down)
      PROVE  path[i] = path[Len(down)]
  BY <1>2 DEF PathInv, Sound, Awaited
<1>3. path[Len(down)] \in View
  BY <1>1
<1>4. ASSUME \A i \in DOMAIN down : ~Awaited(down[i])
      PROVE  path[Len(down)] = Base /\ \A i \in DOMAIN down : path[i] = Base
  <2>1. 0 \in 0 .. Len(down) /\ \A i \in DOMAIN down : i \in 0 .. Len(down)
    BY <1>1
  <2> QED BY <1>1, <1>2, <1>4, <2>1
<1> QED BY <1>3, <1>4 DEF PathInv, Sound

LEMMA SyncNotify ==
    ASSUME TypeOK, JobInv, DiskInv, SyncInv, Notify
    PROVE  SyncInv'
<1>1. UNCHANGED <<disk, hist, up, client, saved>> /\ client.up = client.up
  BY DEF Notify, genVars, clientVars
<1>2. CASE UNCHANGED <<server, down>>
  BY <1>1, <1>2, SyncFrame DEF disk
<1>3. CASE server.known /\ server.serial # current.serial /\ ~UNCHANGED <<server, down>>
  <2> DEFINE p == [kind |-> "notify", serial |-> current.serial, nonce |-> current.nonce]
  <2>1. /\ server' = [server EXCEPT !.serial = current.serial, !.nonce = current.nonce]
        /\ down' = Append(down, p)
    BY <1>3 DEF Notify
  <2>2. p \in Answer
    BY DEF TypeOK, Label, Answer
  <2>3. p.kind = "notify" /\ p.serial = current.serial /\ p.nonce = current.nonce
    OBVIOUS
  <2> HIDE DEF p
  <2>4. down' = down \o <<p>>
    BY <2>1, <2>2 DEF TypeOK
  <2>5. client.up
    BY <1>3 DEF SyncInv, ServerInv, NoServer
  <2>6. PICK path : Follows(path, Base, down) /\ PathInv(path)
    BY <2>5 DEF SyncInv, LinkInv
  <2>7. Lone
    <3>1. LabelOf(server) # current
      BY <1>3 DEF LabelOf
    <3> QED BY <1>3, <3>1 DEF SyncInv, ServerInv
  <2>8. PICK z : z = path[Len(down)]
    OBVIOUS
  <2>9. z \in View /\ Ended(z) /\ z.nonce \in Int
    BY <2>6, <2>8, EndOfPath, ViewNumbers
  <2>10. PICK f : /\ Follows(f, z, <<p>>)
                  /\ f[0] = z /\ f[1] = Sim(z, p)
                  /\ UNION {Asks(f[i - 1], <<p>>[i]) : i \in DOMAIN <<p>>} = Asks(z, p)
    BY <2>2, <2>9, FollowOne
  <2>11. <<p>> \in Seq(Answer) /\ Len(<<p>>) = 1 /\ DOMAIN <<p>> = {1} /\ <<p>>[1] = p
    BY <2>2
  <2>12. f[1] = z
    BY <2>3, <2>10 DEF Sim
  <2>13. Sound(f, <<p>>)
    <3>1. z.nonce <= current.nonce
      BY <2>9 DEF Ended
    <3>2. current.nonce \in Int
      BY Numbers
    <3>3. \A i \in 0 .. 1 : f[i] = z
      BY <2>10, <2>12
    <3> QED BY <2>3, <2>9, <2>11, <2>12, <3>1, <3>2, <3>3 DEF Sound
  <2>14. \A q \in Asked(path, up) : q.kind = "reset" \/ q = QueryOf(z)
    BY <2>6, <2>7, <2>8, LoneAsked DEF ResetQuery
  <2>15. ASSUME NEW q \in Asks(z, p)
         PROVE  /\ Fits(q, z, current) /\ (q.kind = "reset" \/ Known(q))
                /\ q.kind = "reset" \/ q = QueryOf(z)
    <3>1. \/ q = ResetQuery /\ (z.serial = None \/ z.nonce # current.nonce)
          \/ q = QueryOf(z) /\ z.serial # None
      BY <2>3 DEF Asks
    <3>2. CASE q = ResetQuery /\ (z.serial = None \/ z.nonce # current.nonce)
      <4>1. z.serial = None \/ z.nonce < current.nonce
        BY <3>2, <2>9, Numbers DEF Ended
      <4>2. q.kind = "reset"
        BY <3>2 DEF ResetQuery
      <4> QED BY <4>1, <4>2 DEF Fits
    <3>3. CASE q = QueryOf(z) /\ z.serial # None
      <4>1. q.kind = "serial" /\ LabelOf(q) = LabelOf(z)
        BY <3>3 DEF QueryOf, LabelOf
      <4>2. MadeUnder(z.serial, z.nonce, z.table)
        BY <3>3, <2>9 DEF Ended
      <4>3. Known(z)
        BY <4>2 DEF MadeUnder, Known, LabelOf
      <4>4. Known(q)
        BY <4>1, <4>3 DEF Known
      <4> QED BY <3>3, <4>1, <4>4 DEF Fits
    <3> QED BY <3>1, <3>2, <3>3
  <2>16. PICK Q : Q = Asked(path, up) \cup Asks(z, p)
    OBVIOUS
  <2>17. AllFit(Q, z)
    <3>1. \A q \in Asked(path, up) : Fits(q, z, current) /\ (q.kind = "reset" \/ Known(q))
      BY <2>6, <2>8 DEF PathInv, AllFit
    <3> QED BY <2>14, <2>15, <2>16, <3>1 DEF AllFit
  <2>18. \E g : Follows(g, Base, down)' /\ PathInv(g)'
    <3>1. Asked(path, up') \cup UNION {Asks(f[i - 1], <<p>>[i]) : i \in DOMAIN <<p>>} = Q
      BY <1>1, <2>10, <2>16
    <3>2. AllFit(Q, f[Len(<<p>>)]) /\ Follows(f, path[Len(down)], <<p>>)
      BY <2>8, <2>10, <2>11, <2>12, <2>17
    <3> QED BY <1>1, <2>4, <2>6, <2>11, <2>13, <3>1, <3>2, Answered
  <2>19. LinkInv'
    BY <2>18 DEF LinkInv
  <2>20. LabelOf(server') = current /\ server'.serial = current.serial
    BY <2>1 DEF LabelOf, TypeOK, Label
  <2>21. (server.serial # None => Known(server))'
    <3> SUFFICES ASSUME current.serial # None PROVE Known(server)'
      BY <2>20
    <3>1. hist # << >> /\ current = LabelOf(Last(hist))
      BY DEF JobInv, Unset
    <3>2. Len(hist) \in DOMAIN hist /\ current = LabelOf(hist[Len(hist)])
      BY <3>1 DEF TypeOK, Last
    <3> QED BY <3>2, <1>1, <2>20 DEF Known
  <2>22. ServerInv'
    BY <1>1, <2>5, <2>20, <2>21 DEF ServerInv, disk
  <2>23. Ended(saved)'
    BY <1>1, FitsStays DEF SyncInv, disk
  <2> QED BY <2>19, <2>22, <2>23 DEF SyncInv
<1> QED BY <1>2, <1>3 DEF Notify

\* The set that a transfer leads to is the one it is labelled with.
LEMMA TransferIsRight ==
    ASSUME TypeOK, DiskInv, NEW z \in View, Ended(z), Known(server), server.serial \in Serial,
           NEW q, Fits(q, z, LabelOf(server)), NEW add, NEW del,
           \/ /\ q.kind = "reset" /\ server.serial \in DOMAIN ax
              /\ add = ax[server.serial].pdus /\ del = {}
           \/ /\ q.kind # "reset" /\ server.nonce = q.nonce /\ server.serial = q.serial
              /\ add = {} /\ del = {}
           \/ /\ q.kind # "reset" /\ server.nonce = q.nonce /\ Known(q)
              /\ server.serial # q.serial
              /\ <<server.serial, q.serial>> \in DOMAIN ix
              /\ add = ix[<<server.serial, q.serial>>].add
              /\ del = ix[<<server.serial, q.serial>>].del
    PROVE  MadeUnder(server.serial, server.nonce,
                     ((IF server.nonce # z.nonce THEN {} ELSE z.table) \ del) \cup add)
<1> DEFINE t0 == IF server.nonce # z.nonce THEN {} ELSE z.table
<1>1. PICK i \in DOMAIN hist : LabelOf(hist[i]) = LabelOf(server)
  BY DEF Known
<1>2. hist[i].serial = server.serial /\ hist[i].nonce = server.nonce
  BY <1>1 DEF LabelOf
<1>3. hist[i] \in Made
  BY MadeTypes
<1>4. z.serial = None => z.table = {}
  BY DEF Ended
<1>5. z.serial # None => /\ z.nonce # None
                         /\ hist[i].serial = z.serial =>
                                hist[i].nonce = z.nonce /\ hist[i].pdus = z.table
  <2> SUFFICES ASSUME z.serial # None
               PROVE  /\ z.nonce # None
                      /\ hist[i].serial = z.serial =>
                             hist[i].nonce = z.nonce /\ hist[i].pdus = z.table
    OBVIOUS
  <2>1. MadeUnder(z.serial, z.nonce, z.table)
    BY DEF Ended
  <2> QED BY <2>1, MadeOnce
<1>6. server.serial # None /\ server.nonce \in Int /\ z.nonce \in Int
  <2>1. hist[i].nonce \in Int
    BY MadeTypes
  <2>2. server.serial # None
    BY Constants
  <2> QED BY <1>2, <2>1, <2>2, ViewNumbers
<1>7. LabelOf(z) = LabelOf(server) =>
          z.serial = server.serial /\ z.nonce = server.nonce /\ z.table = hist[i].pdus
  <2> SUFFICES ASSUME LabelOf(z) = LabelOf(server)
               PROVE  z.serial = server.serial /\ z.nonce = server.nonce
                      /\ z.table = hist[i].pdus
    OBVIOUS
  <2>1. z.serial = server.serial /\ z.nonce = server.nonce
    BY DEF LabelOf
  <2> QED BY <2>1, <1>2, <1>5, <1>6
<1>8. SUFFICES (t0 \ del) \cup add = hist[i].pdus
  <2>1. hist[i] = [serial |-> server.serial, nonce |-> server.nonce, pdus |-> hist[i].pdus]
    BY <1>2, <1>3 DEF Made
  <2> QED BY <1>8, <2>1 DEF MadeUnder
<1>9. CASE /\ q.kind = "reset" /\ server.serial \in DOMAIN ax
           /\ add = ax[server.serial].pdus /\ del = {}
  <2>1. add = hist[i].pdus
    <3>1. ax[hist[i].serial] = [pdus |-> hist[i].pdus, torn |-> FALSE]
      BY <1>2, <1>9 DEF DiskInv, AxRight
    <3> QED BY <3>1, <1>2, <1>9
  <2>2. LabelOf(server).nonce = server.nonce
    BY DEF LabelOf
  <2>3. z.serial = None \/ LabelOf(z) = LabelOf(server) \/ z.nonce < server.nonce
    BY <1>9, <2>2 DEF Fits
  <2>4. t0 = {} \/ t0 = hist[i].pdus
    BY <2>3, <1>4, <1>6, <1>7
  <2> HIDE DEF t0
  <2> QED BY <2>1, <2>4, <1>9
<1>10. LabelOf(server).nonce = server.nonce /\ LabelOf(server).serial = server.serial
  BY DEF LabelOf
<1>11. CASE /\ q.kind # "reset" /\ server.nonce = q.nonce /\ server.serial = q.serial
            /\ add = {} /\ del = {}
  <2>1. LabelOf(q) = LabelOf(server)
    BY <1>11 DEF LabelOf
  <2>2. LabelOf(z) = LabelOf(server)
    BY <1>10, <1>11, <2>1 DEF Fits
  <2> QED BY <2>2, <1>7, <1>11
<1>12. CASE /\ q.kind # "reset" /\ server.nonce = q.nonce /\ Known(q)
            /\ server.serial # q.serial
            /\ <<server.serial, q.serial>> \in DOMAIN ix
            /\ add = ix[<<server.serial, q.serial>>].add
            /\ del = ix[<<server.serial, q.serial>>].del
  <2>1. PICK k \in DOMAIN hist : LabelOf(hist[k]) = LabelOf(q)
    BY <1>12 DEF Known
  <2>2. hist[k].serial = q.serial /\ hist[k].nonce = q.nonce
    BY <2>1 DEF LabelOf
  <2>3. ix[<<server.serial, q.serial>>] = Difference(hist[i].pdus, hist[k].pdus)
    BY <1>2, <1>12, <2>2 DEF DiskInv, IxRight
  <2>4. add = hist[i].pdus \ hist[k].pdus /\ del = hist[k].pdus \ hist[i].pdus
    BY <1>12, <2>3 DEF Difference
  <2>5. LabelOf(q) = LabelOf(z) \/ LabelOf(z) = LabelOf(server)
    BY <1>10, <1>12 DEF Fits
  <2>6. CASE LabelOf(z) = LabelOf(server)
    BY <2>4, <2>6, <1>7
  <2>7. CASE LabelOf(q) = LabelOf(z)
    <3>1. z.serial = q.serial /\ z.nonce = q.nonce
      BY <2>7 DEF LabelOf
    <3>2. hist[k].serial # None
      BY MadeTypes, Constants DEF Made
    <3>3. MadeUnder(z.serial, z.nonce, z.table)
      BY <2>2, <3>1, <3>2 DEF Ended
    <3>4. z.table = hist[k].pdus
      BY <2>2, <3>1, <3>3, MadeOnce
    <3> QED BY <1>12, <2>4, <3>1, <3>4
  <2> QED BY <2>5, <2>6, <2>7
<1> QED BY <1>9, <1>11, <1>12

\* What every answer to a query has in common.
LEMMA ReplyWith ==
    ASSUME TypeOK, QueryWaits, SyncInv, Reply,
           NEW path, Follows(path, Base, down), PathInv(path),
           NEW more \in Seq(Answer), down' = down \o more,
           NEW f, Follows(f, path[Len(down)], more), Sound(f, more),
           \A i \in DOMAIN more : Awaited(more[i]) => i = Len(more),
           \A i \in DOMAIN more : /\ more[i].kind # "notify"
                                  /\ more[i].kind = "reset" => f[Len(more)].serial = None,
           AllFit(Asked(path, up'), f[Len(more)])
    PROVE  SyncInv'
<1>1. /\ server.step = "reply" /\ up' = Tail(up) /\ server' = [server EXCEPT !.step = "idle"]
      /\ UNCHANGED <<disk, hist, client, saved>>
  BY DEF Reply, genVars, clientVars
<1>2. /\ server'.step = "idle" /\ server'.serial = server.serial
      /\ server'.nonce = server.nonce /\ server'.known = server.known
      /\ LabelOf(server') = LabelOf(server)
  BY <1>1 DEF TypeOK, LabelOf
<1>3. client.up
  BY <1>1 DEF SyncInv, ServerInv, NoServer
<1> DEFINE New == UNION {Asks(f[i - 1], more[i]) : i \in DOMAIN more}
<1>4. ASSUME NEW q \in New
      PROVE  q.kind = "reset" /\ f[Len(more)].serial = None
  <2>1. PICK i \in DOMAIN more : q \in Asks(f[i - 1], more[i])
    OBVIOUS
  <2>2. more[i].kind = "reset" /\ q = ResetQuery
    BY <2>1 DEF Asks
  <2> QED BY <2>2 DEF ResetQuery
<1>5. PICK Q : Q = Asked(path, up') \cup New
  OBVIOUS
<1>6. AllFit(Q, f[Len(more)])
  <2>1. ASSUME NEW q \in Q
        PROVE  Fits(q, f[Len(more)], current) /\ (q.kind = "reset" \/ Known(q))
    <3>1. CASE q \in Asked(path, up')
      BY <3>1 DEF AllFit
    <3>2. CASE q \in New
      BY <1>4, <3>2 DEF Fits
    <3> HIDE DEF New
    <3> QED BY <1>5, <3>1, <3>2
  <2> HIDE DEF New
  <2>2. ASSUME NEW q \in Q, NEW r \in Q, q.kind # "reset", r.kind # "reset" PROVE q = r
    BY <1>4, <1>5, <2>2 DEF AllFit
  <2> QED BY <2>1, <2>2 DEF AllFit
<1>7. \E g : Follows(g, Base, down)' /\ PathInv(g)'
  BY <1>1, <1>5, <1>6, Answered
<1>8. LinkInv'
  BY <1>7 DEF LinkInv
<1>9. Ended(saved)'
  BY <1>1, FitsStays DEF SyncInv, disk
<1>10. (server.serial # None => Known(server))'
  BY <1>1, <1>2 DEF SyncInv, ServerInv, Known
<1>11. ASSUME LabelOf(server) # current PROVE Lone'
  <2>1. up = <<DueQuery>> /\ \A i \in DOMAIN down : ~Awaited(down[i])
    BY <1>1, <1>11 DEF SyncInv, ServerInv
  <2>2. up' = << >>
    BY <1>1, <2>1
  <2>3. /\ Len(down) \in Nat /\ Len(more) \in Nat
        /\ DOMAIN down = 1 .. Len(down) /\ DOMAIN more = 1 .. Len(more)
        /\ DOMAIN down' = 1 .. Len(down) + Len(more)
        /\ \A i \in 1 .. Len(down) : down'[i] = down[i]
        /\ \A i \in Len(down) + 1 .. Len(down) + Len(more) : down'[i] = more[i - Len(down)]
    <3>1. down \in Seq(Answer)
      BY DEF TypeOK
    <3> QED BY <3>1
  <2>4. ASSUME NEW i \in DOMAIN down', Awaited(down'[i])
        PROVE  i = Len(down) + Len(more)
    <3>1. i \in Len(down) + 1 .. Len(down) + Len(more)
      BY <2>1, <2>3, <2>4
    <3>2. down'[i] = more[i - Len(down)] /\ i - Len(down) \in 1 .. Len(more)
      BY <2>3, <3>1
    <3>3. i - Len(down) = Len(more)
      BY <2>3, <2>4, <3>2
    <3> QED BY <2>3, <3>1, <3>3
  <2>5. \A i, j \in DOMAIN down' : Awaited(down'[i]) /\ Awaited(down'[j]) => i = j
    BY <2>4
  <2> QED BY <2>2, <2>5 DEF Lone
<1>12. ServerInv'
  BY <1>1, <1>2, <1>3, <1>10, <1>11 DEF ServerInv, disk
<1> QED BY <1>8, <1>9, <1>12 DEF SyncInv

LEMMA SyncReply ==
    ASSUME TypeOK, QueryWaits, JobInv, DiskInv, SyncInv, Reply
    PROVE  SyncInv'
<1>1. /\ server.step = "reply" /\ up' = Tail(up)
      /\ down' = down \o (IF Head(up).kind = "serial" THEN SerialAnswer(Head(up))
                                                      ELSE ResetAnswer)
  BY DEF Reply
<1>2. client.up
  BY <1>1 DEF SyncInv, ServerInv, NoServer
<1>3. PICK path : Follows(path, Base, down) /\ PathInv(path)
  BY <1>2 DEF SyncInv, LinkInv
<1>4. PICK z : z = path[Len(down)]
  OBVIOUS
<1>5. PICK q : q = Head(up)
  OBVIOUS
<1>6. z \in View /\ Ended(z)
  BY <1>3, <1>4, EndOfPath
<1>7. /\ up # << >> /\ up \in Seq(Query) /\ q \in Query /\ q.kind \in {"reset", "serial"}
      /\ \E i \in DOMAIN up : q = up[i]
      /\ \A i \in DOMAIN up' : \E k \in DOMAIN up : up'[i] = up[k]
  <2>1. up # << >> /\ up \in Seq(Query)
    BY <1>1 DEF QueryWaits, TypeOK
  <2>2. /\ Len(up) \in Nat \ {0} /\ DOMAIN up = 1 .. Len(up) /\ q = up[1] /\ q \in Query
        /\ DOMAIN up' = 1 .. Len(up) - 1
        /\ \A i \in 1 .. Len(up) - 1 : up'[i] = up[i + 1]
    BY <1>1, <1>5, <2>1
  <2>3. q.kind \in {"reset", "serial"}
    BY <2>2 DEF Query
  <2>4. \A i \in DOMAIN up' : i + 1 \in DOMAIN up /\ up'[i] = up[i + 1]
    BY <2>2
  <2>5. 1 \in DOMAIN up
    BY <2>2
  <2> QED BY <2>1, <2>2, <2>3, <2>4, <2>5
<1>8. q \in Asked(path, up) /\ Asked(path, up') \subseteq Asked(path, up)
  <2>1. q \in Asked(path, up)
    BY <1>7 DEF Asked
  <2>2. \A i \in DOMAIN up' : up'[i] \in {up[k] : k \in DOMAIN up}
    BY <1>7
  <2>3. Asked(path, up') \subseteq Asked(path, up)
    BY <2>2 DEF Asked
  <2> QED BY <2>1, <2>3
<1>9. AllFit(Asked(path, up), z)
  BY <1>3, <1>4 DEF PathInv
<1>10. ASSUME LabelOf(server) # current
       PROVE  Asked(path, up') = {} /\ Fits(q, z, LabelOf(server))
  <2>1. up = <<DueQuery>> /\ \A i \in DOMAIN down : ~Awaited(down[i])
    BY <1>1, <1>10 DEF SyncInv, ServerInv
  <2>2. up' = << >> /\ q = DueQuery
    BY <1>1, <1>5, <2>1
  <2>3. \A i \in DOMAIN down : Asks(path[i - 1], down[i]) = {}
    BY <2>1 DEF Asks, Awaited
  <2>4. DOMAIN up' = {}
    BY <2>2
  <2>5. Asked(path, up') = {}
    BY <2>3, <2>4 DEF Asked
  <2>6. z = Base
    BY <1>3, <1>4, <2>1, EndOfPath
  <2>7. z.serial = client.serial /\ z.nonce = client.nonce
    BY <2>6 DEF Base
  <2>8. z.serial # None => z.nonce # None
    <3>1. ASSUME z.serial # None PROVE z.nonce # None
      <4>1. MadeUnder(z.serial, z.nonce, z.table)
        BY <1>6, <3>1 DEF Ended
      <4>2. PICK i \in DOMAIN hist : TRUE
        BY <4>1 DEF MadeUnder
      <4> QED BY <4>1, <4>2, MadeOnce
    <3> QED BY <3>1
  <2>9. (q = ResetQuery /\ z.serial = None) \/ q = SerialQuery
    BY <2>2, <2>7, <2>8 DEF DueQuery
  <2>10. Fits(q, z, LabelOf(server))
    BY <2>7, <2>9 DEF Fits, ResetQuery, SerialQuery, LabelOf
  <2> QED BY <2>5, <2>10
<1>11. Fits(q, z, LabelOf(server)) /\ (q.kind = "reset" \/ Known(q))
  BY <1>8, <1>9, <1>10 DEF AllFit
<1>12. ASSUME down' = down \o ErrorReport PROVE SyncInv'
  <2> DEFINE p == [kind |-> "error"]
  <2>1. p \in Answer /\ p.kind = "error"
    BY DEF Answer
  <2> HIDE DEF p
  <2>2. PICK f : /\ Follows(f, z, <<p>>)
                 /\ f[0] = z /\ f[1] = Sim(z, p)
                 /\ UNION {Asks(f[i - 1], <<p>>[i]) : i \in DOMAIN <<p>>} = Asks(z, p)
    BY <1>6, <2>1, FollowOne
  <2>3. <<p>> \in Seq(Answer) /\ Len(<<p>>) = 1 /\ DOMAIN <<p>> = {1} /\ <<p>>[1] = p
    BY <2>1
  <2>4. f[1] = z
    BY <2>1, <2>2 DEF Sim
  <2>5. Sound(f, <<p>>)
    <3>1. \A i \in 0 .. 1 : f[i] = z
      BY <2>2, <2>4
    <3> QED BY <1>6, <2>1, <2>3, <3>1 DEF Sound
  <2>6. AllFit(Asked(path, up'), z)
    BY <1>8, <1>9 DEF AllFit
  <2>7. down' = down \o <<p>>
    BY <1>12 DEF ErrorReport, p
  <2>8. \A i \in DOMAIN <<p>> : /\ ~Awaited(<<p>>[i])
                                /\ <<p>>[i].kind # "notify" /\ <<p>>[i].kind # "reset"
    BY <2>1, <2>3 DEF Awaited
  <2>9. Follows(f, path[Len(down)], <<p>>) /\ AllFit(Asked(path, up'), f[Len(<<p>>)])
    BY <1>4, <2>2, <2>3, <2>4, <2>6
  <2> QED BY <1>3, <2>3, <2>5, <2>7, <2>8, <2>9, ReplyWith
<1>13. ASSUME down' = down \o CacheReset, q.kind # "reset",
              q.nonce # server.nonce \/ (server.serial # q.serial
                                         /\ <<server.serial, q.serial>> \notin DOMAIN ix)
       PROVE  SyncInv'
  <2> DEFINE p == [kind |-> "reset"]
  <2>1. p \in Answer /\ p.kind = "reset"
    BY DEF Answer
  <2> HIDE DEF p
  <2>2. PICK f : /\ Follows(f, z, <<p>>)
                 /\ f[0] = z /\ f[1] = Sim(z, p)
                 /\ UNION {Asks(f[i - 1], <<p>>[i]) : i \in DOMAIN <<p>>} = Asks(z, p)
    BY <1>6, <2>1, FollowOne
  <2>3. <<p>> \in Seq(Answer) /\ Len(<<p>>) = 1 /\ DOMAIN <<p>> = {1} /\ <<p>>[1] = p
    BY <2>1
  <2>4. f[1] = Emptied(z)
    BY <2>1, <2>2 DEF Sim
  <2>5. f[1].serial = None /\ f[1].table = {} /\ f[1].nonce = z.nonce
    BY <1>6, <2>4 DEF Emptied, View
  <2>6. Sound(f, <<p>>)
    <3>1. Ended(f[1])
      BY <1>6, <2>5 DEF Ended
    <3>2. \A i \in 0 .. 1 : i = 0 \/ i = 1
      OBVIOUS
    <3>3. \A i \in 0 .. 1 : (\A j \in {1} : j > i => p.kind \notin {"reset", "end"}) => f[i] = f[1]
      BY <2>1, <3>2
    <3> QED BY <2>1, <2>3, <3>1, <3>3 DEF Sound
  <2>7. AllFit(Asked(path, up'), f[1])
    <3>1. ASSUME NEW r \in Asked(path, up')
          PROVE  Fits(r, f[1], current) /\ (r.kind = "reset" \/ Known(r))
      <4>1. CASE r.kind = "reset"
        BY <2>5, <4>1 DEF Fits
      <4>2. CASE r.kind # "reset"
        <5>1. r = q /\ Known(r)
          BY <1>8, <1>9, <1>13, <4>2 DEF AllFit
        <5>2. LabelOf(server) = current
          BY <1>10, <3>1
        <5>3. current.serial = server.serial /\ current.nonce = server.nonce
          BY <5>2 DEF LabelOf
        <5> QED BY <1>13, <4>2, <5>1, <5>3 DEF Fits
      <4> QED BY <4>1, <4>2
    <3> QED BY <1>8, <1>9, <3>1 DEF AllFit
  <2>8. down' = down \o <<p>>
    BY <1>13 DEF CacheReset, p
  <2>9. \A i \in DOMAIN <<p>> : /\ i = 1 /\ <<p>>[i].kind # "notify"
                                /\ f[1].serial = None
    BY <2>1, <2>3, <2>5
  <2>10. Follows(f, path[Len(down)], <<p>>) /\ AllFit(Asked(path, up'), f[Len(<<p>>)])
    BY <1>4, <2>2, <2>3, <2>7
  <2> QED BY <1>3, <2>3, <2>6, <2>8, <2>9, <2>10, ReplyWith
<1>14. ASSUME NEW add \in SUBSET Prefix, NEW del \in SUBSET Prefix,
              down' = down \o Transfer(add, del), server.serial \in Serial,
              \/ /\ q.kind = "reset" /\ server.serial \in DOMAIN ax
                 /\ add = ax[server.serial].pdus /\ del = {}
              \/ /\ q.kind # "reset" /\ server.nonce = q.nonce /\ server.serial = q.serial
                 /\ add = {} /\ del = {}
              \/ /\ q.kind # "reset" /\ server.nonce = q.nonce
                 /\ server.serial # q.serial
                 /\ <<server.serial, q.serial>> \in DOMAIN ix
                 /\ add = ix[<<server.serial, q.serial>>].add
                 /\ del = ix[<<server.serial, q.serial>>].del
       PROVE  SyncInv'
  <2> DEFINE t == ((IF server.nonce # z.nonce THEN {} ELSE z.table) \ del) \cup add
             last == [serial |-> server.serial, nonce |-> server.nonce, table |-> t]
  <2>0. /\ Transfer(add, del) \in Seq(Answer) /\ Len(Transfer(add, del)) \in Nat \ {0}
        /\ \A i \in 1 .. Len(Transfer(add, del)) :
               /\ Transfer(add, del)[i].kind = "end" <=> i = Len(Transfer(add, del))
               /\ Transfer(add, del)[i].kind \notin {"reset", "notify"}
        /\ Transfer(add, del)[Len(Transfer(add, del))] = EndOfData
        /\ \E f : Follows(f, z, Transfer(add, del)) /\ f[Len(Transfer(add, del))] = last
    BY <1>6, FollowTransfer, ZenonT(60)
  <2>1. PICK T : T = Transfer(add, del)
    OBVIOUS
  <2> HIDE DEF last, t
  <2>2. /\ T \in Seq(Answer) /\ Len(T) \in Nat \ {0}
        /\ \A i \in 1 .. Len(T) : /\ T[i].kind = "end" <=> i = Len(T)
                                  /\ T[i].kind \notin {"reset", "notify"}
        /\ T[Len(T)] = EndOfData
        /\ \E f : Follows(f, z, T) /\ f[Len(T)] = last
    BY <2>0, <2>1
  <2>3. PICK f : Follows(f, z, T) /\ f[Len(T)] = last
    BY <2>2
  <2>4. Known(server)
    BY <1>14, Constants DEF SyncInv, ServerInv
  <2>5. MadeUnder(server.serial, server.nonce, t)
    BY <1>6, <1>11, <1>14, <2>4, TransferIsRight DEF t
  <2>6. last.serial = server.serial /\ last.nonce = server.nonce /\ last.table = t
        /\ LabelOf(last) = LabelOf(server)
    BY DEF LabelOf, last
  <2>7. Ended(last)
    <3>1. server.serial # None
      BY <1>14, Constants
    <3>2. PICK i \in DOMAIN hist : LabelOf(hist[i]) = LabelOf(server)
      BY <2>4 DEF Known
    <3>3. hist[i].nonce = server.nonce /\ hist[i].nonce <= current.nonce
      BY <3>2 DEF LabelOf, DiskInv
    <3> QED BY <2>5, <2>6, <3>1, <3>3 DEF Ended
  <2>8. T[Len(T)].kind = "end" /\ T[Len(T)].serial = server.serial
        /\ T[Len(T)].nonce = server.nonce /\ DOMAIN T = 1 .. Len(T)
    BY <2>2 DEF EndOfData
  <2>9. Sound(f, T)
    <3>1. ASSUME NEW i \in DOMAIN T
          PROVE  /\ T[i].kind = "end" => MadeUnder(T[i].serial, T[i].nonce, f[i].table)
                 /\ T[i].kind # "notify"
      <4>1. i \in 1 .. Len(T)
        BY <2>8
      <4>2. (T[i].kind = "end" => i = Len(T)) /\ T[i].kind # "notify"
        BY <2>2, <4>1
      <4>3. MadeUnder(T[Len(T)].serial, T[Len(T)].nonce, f[Len(T)].table)
        BY <2>3, <2>5, <2>6, <2>8
      <4> QED BY <4>2, <4>3
    <3>2. ASSUME NEW i \in 0 .. Len(T),
                 \A j \in DOMAIN T : j > i => T[j].kind \notin {"reset", "end"}
          PROVE  f[i] = f[Len(T)]
      <4>0. Len(T) \in Nat /\ Len(T) # 0
        BY <2>2
      <4>1. Len(T) \in DOMAIN T
        BY <2>8, <4>0
      <4>2. ~(Len(T) > i)
        BY <2>8, <3>2, <4>1
      <4>3. i = Len(T)
        BY <2>2, <4>2
      <4> QED BY <4>3
    <3> QED BY <2>3, <2>7, <3>1, <3>2 DEF Sound
  <2>10. AllFit(Asked(path, up'), last)
    <3>1. CASE LabelOf(server) = current
      BY <3>1, <1>8, <1>9, <2>6 DEF AllFit, Fits
    <3>2. CASE LabelOf(server) # current
      BY <3>2, <1>10 DEF AllFit
    <3> QED BY <3>1, <3>2
  <2>11. \A i \in DOMAIN T : /\ Awaited(T[i]) => i = Len(T)
                             /\ T[i].kind # "notify" /\ T[i].kind # "reset"
    BY <2>2, <2>8 DEF Awaited
  <2>12. Follows(f, path[Len(down)], T) /\ AllFit(Asked(path, up'), f[Len(T)])
         /\ down' = down \o T
    BY <1>4, <1>14, <2>1, <2>3, <2>10
  <2> QED BY <1>3, <2>2, <2>9, <2>11, <2>12, ReplyWith
<1>15. {} \in SUBSET Prefix
  OBVIOUS
<1>16. CASE q.kind = "reset"
  <2>1. down' = down \o ResetAnswer
    BY <1>1, <1>5, <1>16
  <2>2. CASE server.serial \in DOMAIN ax
    <3>1. ax[server.serial].pdus \in SUBSET Prefix /\ server.serial \in Serial
      BY <2>2 DEF TypeOK, File
    <3>2. down' = down \o Transfer(ax[server.serial].pdus, {})
      BY <2>1, <2>2 DEF ResetAnswer
    <3> QED BY <1>14, <1>15, <1>16, <2>2, <3>1, <3>2
  <2>3. CASE server.serial \notin DOMAIN ax
    BY <1>12, <2>1, <2>3 DEF ResetAnswer
  <2> QED BY <2>2, <2>3
<1>17. CASE q.kind = "serial"
  <2>1. down' = down \o SerialAnswer(q) /\ q.kind # "reset"
    BY <1>1, <1>5, <1>17
  <2>2. CASE server.serial = None
    BY <1>12, <2>1, <2>2 DEF SerialAnswer
  <2>3. CASE server.serial # None /\ server.nonce # q.nonce
    BY <1>13, <2>1, <2>3 DEF SerialAnswer
  <2>4. CASE server.serial # None /\ server.nonce = q.nonce
    <3>1. server.serial \in Serial
      BY <2>4 DEF TypeOK
    <3>2. CASE server.serial = q.serial
      <4>1. down' = down \o Transfer({}, {})
        BY <2>1, <2>4, <3>2 DEF SerialAnswer
      <4> QED BY <1>14, <1>15, <2>1, <2>4, <3>1, <3>2, <4>1
    <3>3. CASE server.serial # q.serial /\ <<server.serial, q.serial>> \in DOMAIN ix
      <4> DEFINE d == ix[<<server.serial, q.serial>>]
      <4>1. d \in Diff
        BY <3>3 DEF TypeOK
      <4>2. d.add \in SUBSET Prefix /\ d.del \in SUBSET Prefix
        BY <4>1 DEF Diff
      <4>3. down' = down \o Transfer(d.add, d.del)
        BY <2>1, <2>4, <3>3 DEF SerialAnswer
      <4> QED BY <1>14, <2>1, <2>4, <3>1, <3>3, <4>2, <4>3
    <3>4. CASE server.serial # q.serial /\ <<server.serial, q.serial>> \notin DOMAIN ix
      BY <1>13, <2>1, <2>4, <3>4 DEF SerialAnswer
    <3> QED BY <3>2, <3>3, <3>4
  <2> QED BY <2>2, <2>3, <2>4
<1> QED BY <1>7, <1>16, <1>17

\* The client has handled the first PDU that waits.
LEMMA ConsumeNext ==
    ASSUME TypeOK, QueryWaits, SyncInv, client.up, client'.up, down # << >>,
           down' = Tail(down), UNCHANGED <<disk, hist, server>>,
           Base' = Sim(Base, Head(down)), Ended(saved)',
           \/ up' = up /\ Asks(Base, Head(down)) = {}
           \/ \E q \in Asks(Base, Head(down)) : up' = Append(up, q)
    PROVE  SyncInv'
<1>1. PICK path : Follows(path, Base, down) /\ PathInv(path)
  BY DEF SyncInv, LinkInv
<1>2. down \in Seq(Answer) /\ up \in Seq(Query)
  BY DEF TypeOK
<1>3. PICK n \in Nat : n = Len(down)
  BY <1>2
<1>4. /\ n # 0 /\ DOMAIN down = 1 .. n /\ Head(down) = down[1]
      /\ Len(down') = n - 1 /\ DOMAIN down' = 1 .. n - 1
      /\ \A i \in 1 .. n - 1 : down'[i] = down[i + 1]
  BY <1>2, <1>3
<1>0. PICK g : Follows(g, Base', down') /\ Shifts(g, path, n)
  <2>1. \E g : Follows(g, Sim(Base, Head(down)), Tail(down)) /\ Shifts(g, path, Len(down))
    BY <1>1, <1>2, FollowTail
  <2> QED BY <2>1, <1>3
<1>5. Follows(g, Base', down') /\ \A i \in 0 .. n - 1 : g[i] = path[i + 1]
  BY <1>0 DEF Shifts
<1>6. /\ path[0] = Base /\ path[1] = Base'
      /\ \A i \in 0 .. n : path[i] \in View
  BY <1>1, <1>3, <1>4 DEF Follows
<1>7. g[n - 1] = path[n]
  BY <1>4, <1>5
<1>8. Ended(g[n - 1])'
  BY <1>1, <1>3, <1>7, FitsStays DEF disk, PathInv, Sound
<1>9. ASSUME NEW i \in 1 .. n - 1
      PROVE  /\ down'[i].kind = "end" =>
                    MadeUnder(down[i].serial, down[i].nonce, g[i].table)'
             /\ down'[i].kind = "notify" =>
                    g[i].nonce <= down'[i].nonce /\ down'[i].nonce <= current.nonce
  <2>1. down'[i] = down[i + 1] /\ g[i] = path[i + 1] /\ i + 1 \in 1 .. n
    BY <1>4, <1>5
  <2>2. /\ down[i + 1].kind = "end" =>
               MadeUnder(down[i + 1].serial, down[i + 1].nonce, path[i + 1].table)
        /\ down[i + 1].kind = "notify" =>
               path[i + 1].nonce <= down[i + 1].nonce /\ down[i + 1].nonce <= current.nonce
    BY <2>1, <1>1, <1>4 DEF PathInv, Sound
  <2> QED BY <2>1, <2>2 DEF MadeUnder
<1>10. ASSUME NEW i \in 0 .. n - 1,
              \A j \in 1 .. n - 1 : j > i => down'[j].kind \notin {"reset", "end"}
       PROVE  g[i] = g[n - 1]
  <2>1. ASSUME NEW j \in 1 .. n, j > i + 1 PROVE down[j].kind \notin {"reset", "end"}
    <3>1. j - 1 \in 1 .. n - 1 /\ j - 1 > i /\ (j - 1) + 1 = j
      BY <2>1
    <3>2. down'[j - 1] = down[(j - 1) + 1]
      BY <1>4, <3>1
    <3> QED BY <1>10, <3>1, <3>2
  <2>2. i + 1 \in 0 .. n
    OBVIOUS
  <2>3. path[i + 1] = path[n]
    BY <1>1, <1>3, <1>4, <2>1, <2>2 DEF PathInv, Sound
  <2> QED BY <1>5, <1>7, <2>3
<1>11. ASSUME NEW q \in Asked(g, up)' PROVE q \in Asked(path, up)
  <2>1. 1 \in DOMAIN down /\ down[1] = Head(down) /\ path[1 - 1] = Base
    BY <1>4, <1>6
  <2>2. \A r \in Asks(Base, Head(down)) : r \in Asked(path, up)
    BY <2>1 DEF Asked
  <2>3. CASE \E i \in DOMAIN up' : q = up'[i]
    <3>1. CASE up' = up
      BY <2>3, <3>1 DEF Asked
    <3>2. ASSUME NEW r \in Asks(Base, Head(down)), up' = Append(up, r)
          PROVE  q \in Asked(path, up)
      <4>1. q = r \/ \E i \in DOMAIN up : q = up[i]
        BY <1>2, <2>3, <3>2
      <4> QED BY <2>2, <4>1 DEF Asked
    <3> QED BY <3>1, <3>2
  <2>4. CASE \E i \in 1 .. n - 1 : q \in Asks(g[i - 1], down'[i])
    <3>1. PICK i \in 1 .. n - 1 : q \in Asks(g[i - 1], down'[i])
      BY <2>4
    <3>2. down'[i] = down[i + 1] /\ g[i - 1] = path[(i + 1) - 1] /\ i + 1 \in DOMAIN down
      <4>1. i - 1 \in 0 .. n - 1 /\ (i - 1) + 1 = (i + 1) - 1 /\ i + 1 \in 1 .. n
        BY <1>4
      <4> QED BY <1>4, <1>5, <4>1
    <3>3. q \in Asks(path[(i + 1) - 1], down[i + 1])
      BY <3>1, <3>2
    <3> QED BY <3>2, <3>3 DEF Asked
  <2> QED BY <2>3, <2>4, <1>4 DEF Asked
<1>12. PathInv(g)'
  <2>1. current' = current /\ Len(down') = n - 1 /\ DOMAIN down' = 1 .. n - 1
    BY <1>4 DEF disk
  <2>2. Sound(g, down)'
    <3>1. \A i \in DOMAIN down' :
             /\ down'[i].kind = "end" =>
                    MadeUnder(down[i].serial, down[i].nonce, g[i].table)'
             /\ down'[i].kind = "notify" =>
                    g[i].nonce <= down'[i].nonce /\ down'[i].nonce <= current'.nonce
      BY <2>1, <1>9
    <3>2. \A i \in 0 .. Len(down') :
             (\A j \in DOMAIN down' : j > i => down'[j].kind \notin {"reset", "end"})
                 => g[i] = g[Len(down')]
      BY <2>1, <1>10
    <3> QED BY <2>1, <1>8, <3>1, <3>2 DEF Sound
  <2>3. AllFit(Asked(g, up), g[Len(down)])'
    <3>1. \A q \in Asked(g, up)' :
              Fits(q, path[n], current)' /\ (q.kind = "reset" \/ Known(q)')
      BY <1>1, <1>3, <1>11, FitsStays DEF disk, PathInv, AllFit
    <3>2. \A q, r \in Asked(g, up)' : q.kind # "reset" /\ r.kind # "reset" => q = r
      BY <1>1, <1>11 DEF PathInv, AllFit
    <3> QED BY <2>1, <1>7, <3>1, <3>2 DEF AllFit
  <2> QED BY <2>2, <2>3 DEF PathInv
<1>13. LinkInv'
  BY <1>5, <1>12 DEF LinkInv
<1>14. /\ SerialQuery = QueryOf(Base) /\ SerialQuery' = QueryOf(Base')
       /\ Base' = Base => DueQuery' = DueQuery
  BY DEF SerialQuery, DueQuery, QueryOf, Base
<1>15. ASSUME \A i \in DOMAIN down : ~Awaited(down[i])
       PROVE  up' = up /\ Base' = Base /\ \A i \in DOMAIN down' : ~Awaited(down'[i])
  <2>1. 1 \in DOMAIN down
    BY <1>4
  <2>2. ~Awaited(down[1])
    BY <1>15, <2>1
  <2>3. Asks(Base, Head(down)) = {}
    BY <1>4, <2>2 DEF Asks, Awaited
  <2>4. path[1] = Base
    BY <1>1, <1>15, <2>1, EndOfPath
  <2>5. \A i \in DOMAIN down' : i + 1 \in DOMAIN down /\ down'[i] = down[i + 1]
    BY <1>4
  <2> QED BY <1>6, <1>15, <2>3, <2>4, <2>5
<1>16. ASSUME Lone PROVE Lone'
  <2>1. \A i \in DOMAIN down' : i + 1 \in DOMAIN down /\ down'[i] = down[i + 1]
    BY <1>4
  <2>2. ASSUME NEW i \in DOMAIN down', NEW j \in DOMAIN down',
               Awaited(down'[i]), Awaited(down'[j])
        PROVE  i = j /\ up = << >> /\ ~Awaited(Head(down))
    <3>1. i \in Nat /\ j \in Nat /\ i >= 1 /\ 1 \in DOMAIN down
      BY <1>4
    <3>2. i + 1 = j + 1 /\ up = << >>
      BY <1>16, <2>1, <2>2 DEF Lone
    <3>3. ASSUME Awaited(Head(down)) PROVE FALSE
      <4>1. 1 = i + 1
        BY <1>4, <1>16, <2>1, <2>2, <3>1, <3>3 DEF Lone
      <4> QED BY <3>1, <4>1
    <3> QED BY <3>1, <3>2, <3>3
  <2>3. ASSUME ~Awaited(Head(down)) PROVE Asks(Base, Head(down)) = {} /\ up' = up
    BY <2>3 DEF Awaited, Asks
  <2>4. up' \in {<< >>, <<ResetQuery>>, <<SerialQuery'>>}
    <3>1. CASE up' = up
      <4>1. CASE up \in {<< >>, <<ResetQuery>>}
        BY <3>1, <4>1
      <4>2. CASE up = <<SerialQuery>>
        <5>1. up # << >>
          BY <4>2
        <5>2. \A i \in DOMAIN down : ~Awaited(down[i])
          BY <1>16, <5>1 DEF Lone
        <5> QED BY <1>14, <1>15, <3>1, <4>2, <5>2
      <4> QED BY <1>16, <4>1, <4>2 DEF Lone
    <3>2. ASSUME NEW q \in Asks(Base, Head(down)), up' = Append(up, q)
          PROVE  up' \in {<< >>, <<ResetQuery>>, <<SerialQuery'>>}
      <4>1. Awaited(down[1]) /\ 1 \in DOMAIN down
        BY <1>4, <2>3, <3>2
      <4>2. up = << >>
        BY <1>16, <4>1 DEF Lone
      <4>3. up' = <<q>>
        BY <3>2, <4>2
      <4>4. q = ResetQuery \/ q = SerialQuery'
        <5>1. Head(down).kind = "reset" => q = ResetQuery
          BY <3>2 DEF Asks
        <5>2. Head(down).kind = "notify" => q = ResetQuery \/ q = QueryOf(Base)
          BY <3>2 DEF Asks
        <5>3. Head(down).kind = "notify" => Base' = Base
          BY DEF Sim
        <5>4. Head(down).kind \in {"reset", "notify"}
          BY <3>2 DEF Asks
        <5> QED BY <1>14, <5>1, <5>2, <5>3, <5>4
      <4> QED BY <4>3, <4>4
    <3> QED BY <3>1, <3>2
  <2>5. ASSUME NEW i \in DOMAIN down', NEW j \in DOMAIN down',
               Awaited(down'[i]), Awaited(down'[j])
        PROVE  i = j /\ up' = << >>
    BY <2>2, <2>3, <2>5
  <2> QED BY <2>4, <2>5 DEF Lone
<1>17. ServerInv'
  <2>1. (server.serial # None => Known(server))'
    BY DEF SyncInv, ServerInv, Known
  <2>2. ASSUME LabelOf(server) # current
        PROVE  /\ server.known => Lone'
               /\ server.step = "reply" =>
                      up' = <<DueQuery'>> /\ \A i \in DOMAIN down' : ~Awaited(down'[i])
    <3>1. server.known => Lone'
      BY <1>16, <2>2 DEF SyncInv, ServerInv
    <3>2. ASSUME server.step = "reply"
          PROVE  up' = <<DueQuery'>> /\ \A i \in DOMAIN down' : ~Awaited(down'[i])
      <4>1. up = <<DueQuery>> /\ \A i \in DOMAIN down : ~Awaited(down[i])
        BY <2>2, <3>2 DEF SyncInv, ServerInv
      <4> QED BY <1>14, <1>15, <4>1
    <3> QED BY <3>1, <3>2
  <2> QED BY <2>1, <2>2 DEF ServerInv, disk
<1> QED BY <1>13, <1>17 DEF SyncInv

\* Nothing is on its way from a client that holds what it has committed, or nothing.
LEMMA SyncFresh ==
    ASSUME TypeOK', QueryWaits, UNCHANGED <<disk, hist, server>>, SyncInv,
           client'.up, down' = << >>, Ended(Base)', Ended(saved)',
           \/ up' = << >>
           \/ /\ up = << >> /\ up' = <<ResetQuery>> /\ Base'.serial = None
           \/ /\ up = << >> /\ up' = <<SerialQuery'>> /\ Base'.serial # None
              /\ DueQuery' = SerialQuery',
           LabelOf(server) # current => server.step # "reply"
    PROVE  SyncInv'
<1>1. Base' \in View
  BY DEF TypeOK, Base, View, SerialOrNone, NonceOrNone
<1>2. PICK path : Follows(path, Base', << >>)
  BY <1>1, FollowNothing
<1>3. path[0] = Base' /\ Len(<< >>) = 0 /\ DOMAIN << >> = {}
  BY <1>2 DEF Follows
<1>4. Sound(path, down)'
  BY <1>3 DEF Sound
<1>5. AllFit(Asked(path, up), path[Len(down)])'
  <2>1. Asked(path, up)' = {up'[i] : i \in DOMAIN up'}
    BY <1>3 DEF Asked
  <2>2. CASE up' = << >>
    <3>1. Asked(path, up)' = {}
      BY <2>1, <2>2
    <3> QED BY <3>1 DEF AllFit
  <2>3. CASE up' = <<ResetQuery>> /\ Base'.serial = None
    <3>1. Asked(path, up)' = {ResetQuery}
      BY <2>1, <2>3
    <3> QED BY <3>1, <2>3, <1>3 DEF AllFit, Fits, ResetQuery
  <2>4. CASE up' = <<SerialQuery'>> /\ Base'.serial # None
    <3>1. Asked(path, up)' = {SerialQuery'}
      BY <2>1, <2>4
    <3>2. MadeUnder(Base.serial, Base.nonce, Base.table)'
      BY <2>4 DEF Ended
    <3>3. Known(Base)'
      BY <3>2 DEF MadeUnder, Known, LabelOf
    <3>4. LabelOf(SerialQuery') = LabelOf(Base') /\ SerialQuery'.kind = "serial"
      BY DEF LabelOf, SerialQuery, Base
    <3>5. Known(SerialQuery)'
      BY <3>3, <3>4 DEF Known
    <3> QED BY <3>1, <3>4, <3>5, <1>3 DEF AllFit, Fits
  <2> QED BY <2>2, <2>3, <2>4
<1>6. LinkInv'
  BY <1>2, <1>4, <1>5 DEF LinkInv, PathInv
<1>7. Lone'
  BY <1>3 DEF Lone
<1>8. ServerInv'
  BY <1>7 DEF SyncInv, ServerInv, Known, disk
<1> QED BY <1>6, <1>8 DEF SyncInv

LEMMA SyncGone ==
    ASSUME SyncInv, Gone, UNCHANGED <<disk, hist>>
    PROVE  SyncInv'
<1>1. /\ client' = [client EXCEPT !.up = FALSE] /\ server' = NoServer
      /\ up' = << >> /\ down' = << >> /\ saved' = saved
  BY DEF Gone
<1>2. Ended(saved)'
  BY <1>1, FitsStays DEF SyncInv, disk
<1>3. ServerInv'
  BY <1>1 DEF ServerInv, NoServer
<1> QED BY <1>1, <1>2, <1>3 DEF SyncInv, LinkInv

\* The client's steps but Gone and the timers.
LEMMA SyncConsume ==
    ASSUME TypeOK, QueryWaits, DiskInv, SyncInv, ClientStep, ~ConsumeDuplicate
    PROVE  SyncInv'
<1> DEFINE p == Head(down)
<1>1. /\ client.up /\ down # << >> /\ down' = Tail(down)
      /\ UNCHANGED <<disk, hist, server>>
  BY DEF ClientStep, ConsumeNotify, ConsumeResponse, ConsumePrefix, ConsumeEnd, ConsumeReset,
         ConsumeError, Receive, Consumed, genVars
<1>2. /\ client \in [up : BOOLEAN, table : SUBSET Prefix, serial : SerialOrNone,
                     nonce : NonceOrNone]
      /\ saved \in Table /\ down \in Seq(Answer) /\ p = down[1] /\ 1 \in DOMAIN down
  BY <1>1 DEF TypeOK, SerialOrNone, NonceOrNone
<1>3. PICK path : Follows(path, Base, down) /\ PathInv(path)
  BY <1>1 DEF SyncInv, LinkInv
<1>4. path[1] = Sim(Base, p)
  BY <1>2, <1>3 DEF Follows
<1>6. ASSUME UNCHANGED saved \/ saved' = Emptied(saved)
      PROVE  Ended(saved)'
  <2>1. Ended(saved)
    BY DEF SyncInv
  <2>2. saved' = Emptied(saved) =>
            saved'.nonce = saved.nonce /\ saved'.serial = None /\ saved'.table = {}
    BY <1>2 DEF Emptied, Table
  <2> QED BY <1>1, <1>6, <2>1, <2>2 DEF Ended, MadeUnder, disk
<1> HIDE DEF p
<1>7. CASE ConsumeNotify
  <2>1. p.kind = "notify" /\ UNCHANGED <<client, saved>>
    BY <1>7 DEF ConsumeNotify, Receive, p, clientVars
  <2>2. Base' = Sim(Base, p)
    BY <2>1 DEF Base, Sim
  <2>3. SerialQuery = QueryOf(Base) /\ Base.serial = client.serial /\ Base.nonce = client.nonce
    BY DEF SerialQuery, QueryOf, Base
  <2>4. up' = IF client.serial = None \/ client.nonce # p.nonce THEN Append(up, ResetQuery)
              ELSE IF client.serial # p.serial THEN Append(up, SerialQuery) ELSE up
    BY <1>7 DEF ConsumeNotify, p
  <2>5. \/ up' = up /\ Asks(Base, p) = {}
        \/ \E q \in Asks(Base, p) : up' = Append(up, q)
    BY <2>1, <2>3, <2>4 DEF Asks
  <2> QED BY <1>1, <1>6, <2>1, <2>2, <2>5, ConsumeNext DEF p
<1>8. ASSUME p.kind \in {"response", "prefix", "end", "error"}, UNCHANGED up, client'.up,
             Base' = Sim(Base, p), Ended(saved)'
      PROVE  SyncInv'
  <2>1. Asks(Base, p) = {}
    BY <1>8 DEF Asks
  <2> QED BY <1>1, <1>8, <2>1, ConsumeNext DEF p
<1>9. CASE ConsumeResponse
  <2>1. p.kind = "response" /\ UNCHANGED up
    BY <1>9 DEF ConsumeResponse, Receive, p
  <2>2. IF p.nonce # client.nonce THEN client' = Emptied(client) /\ saved' = Emptied(saved)
                                  ELSE UNCHANGED <<client, saved>>
    BY <1>9 DEF ConsumeResponse, p, clientVars
  <2>3. Base' = Sim(Base, p) /\ client'.up
    BY <1>1, <1>2, <2>1, <2>2 DEF Base, Sim, Emptied
  <2> QED BY <1>6, <1>8, <2>1, <2>2, <2>3
<1>10. CASE ConsumePrefix
  <2>1. p.kind = "prefix" /\ UNCHANGED <<up, saved>>
    BY <1>10 DEF ConsumePrefix, Receive, p
  <2>2. client' = [client EXCEPT !.table =
                IF p.announce THEN @ \cup {p.pdu} ELSE @ \ {p.pdu}]
    BY <1>10 DEF ConsumePrefix, p
  <2>3. Base' = Sim(Base, p) /\ client'.up
    BY <1>1, <1>2, <2>1, <2>2 DEF Base, Sim
  <2> QED BY <1>6, <1>8, <2>1, <2>3
<1>11. CASE ConsumeEnd
  <2>1. p.kind = "end" /\ UNCHANGED up
    BY <1>11 DEF ConsumeEnd, Receive, p
  <2>2. /\ client' = [client EXCEPT !.serial = p.serial, !.nonce = p.nonce]
        /\ saved' = [table |-> client.table, serial |-> p.serial, nonce |-> p.nonce]
    BY <1>11 DEF ConsumeEnd, p
  <2>3. Base' = Sim(Base, p) /\ client'.up
    BY <1>1, <1>2, <2>1, <2>2 DEF Base, Sim
  <2>4. Sim(Base, p).table = client.table
    BY <2>1 DEF Base, Sim
  <2>5. MadeUnder(p.serial, p.nonce, client.table)
    BY <1>2, <1>3, <1>4, <2>1, <2>4 DEF PathInv, Sound
  <2>6. p.serial # None /\ p.nonce <= current.nonce
    <3>1. PICK i \in DOMAIN hist :
              hist[i] = [serial |-> p.serial, nonce |-> p.nonce, pdus |-> client.table]
      BY <2>5 DEF MadeUnder
    <3>2. p.nonce = hist[i].nonce
      BY <3>1
    <3>3. hist[i].nonce <= current.nonce
      BY DEF DiskInv
    <3> QED BY <2>5, <3>2, <3>3, MadeOnce
  <2>7. Ended(saved)'
    BY <1>1, <2>2, <2>5, <2>6 DEF Ended, MadeUnder, disk
  <2> QED BY <1>8, <2>1, <2>3, <2>7
<1>12. CASE ConsumeReset
  <2>1. /\ p.kind = "reset" /\ client' = Emptied(client) /\ saved' = Emptied(saved)
        /\ up' = Append(up, ResetQuery)
    BY <1>12 DEF ConsumeReset, Receive, p
  <2>2. Base' = Sim(Base, p) /\ client'.up
    BY <1>1, <1>2, <2>1 DEF Base, Sim, Emptied
  <2>3. ResetQuery \in Asks(Base, p)
    BY <2>1 DEF Asks
  <2>4. Ended(saved)'
    BY <1>6, <2>1
  <2> QED BY <1>1, <2>1, <2>2, <2>3, <2>4, ConsumeNext DEF p
<1>13. CASE ConsumeError
  <2>1. p.kind = "error" /\ UNCHANGED <<up, client, saved>>
    BY <1>13 DEF ConsumeError, Receive, p, clientVars
  <2>2. Base' = Sim(Base, p)
    BY <2>1 DEF Base, Sim
  <2> QED BY <1>1, <1>6, <1>8, <2>1, <2>2
<1> QED BY <1>7, <1>9, <1>10, <1>11, <1>12, <1>13 DEF ClientStep

LEMMA SyncQuiet ==
    ASSUME TypeOK, TypeOK', QueryWaits, DiskInv, SyncInv, Poll \/ Expire \/ Restart,
           Poll \/ Expire => Quiet
    PROVE  SyncInv'
<1>1. UNCHANGED <<disk, hist, server>>
  BY DEF Poll, Expire, TimerFires, Restart, genVars, conn
<1>2. /\ client \in [up : BOOLEAN, table : SUBSET Prefix, serial : SerialOrNone,
                     nonce : NonceOrNone]
      /\ saved \in Table
  BY DEF TypeOK, SerialOrNone, NonceOrNone
<1>3. \A z : Ended(z) => Ended(z)'
  BY <1>1, FitsStays DEF disk
<1>4. ASSUME client.up, Quiet
      PROVE  Ended(Base) /\ (LabelOf(server) # current => server.step # "reply")
  <2>1. PICK path : Follows(path, Base, down) /\ PathInv(path)
    BY <1>4 DEF SyncInv, LinkInv
  <2>2. DOMAIN down = {}
    BY <1>4 DEF Quiet
  <2>3. Ended(Base)
    BY <2>1, <2>2, EndOfPath
  <2> QED BY <1>4, <2>3 DEF Quiet, QueryWaits
<1>5. CASE Poll
  <2>1. /\ client.up /\ Quiet /\ up = << >> /\ down = << >> /\ up' = <<DueQuery>>
        /\ down' = down /\ client' = client /\ saved' = saved
    <3>1. /\ client.up /\ Quiet /\ up = << >> /\ down = << >> /\ up' = Append(up, DueQuery)
          /\ down' = down /\ client' = client /\ saved' = saved
      BY <1>5 DEF Poll, TimerFires, Quiet, clientVars
    <3>2. Append(<< >>, DueQuery) = <<DueQuery>>
      OBVIOUS
    <3> QED BY <3>1, <3>2
  <2>2. Base' = Base /\ DueQuery' = DueQuery /\ SerialQuery' = SerialQuery
    BY <2>1 DEF Base, DueQuery, SerialQuery
  <2>3. Base.serial # None => client.nonce # None
    <3>1. ASSUME Base.serial # None PROVE client.nonce # None
      <4>1. MadeUnder(Base.serial, Base.nonce, Base.table)
        BY <1>4, <2>1, <3>1 DEF Ended
      <4>2. PICK i \in DOMAIN hist : hist[i].serial = Base.serial
        BY <4>1 DEF MadeUnder
      <4> QED BY <4>1, MadeOnce DEF Base
    <3> QED BY <3>1
  <2>4. Base.serial = client.serial
    BY DEF Base
  <2>5. IF Base.serial = None THEN DueQuery = ResetQuery ELSE DueQuery = SerialQuery
    BY <2>3, <2>4 DEF DueQuery
  <2>6. Ended(Base)' /\ Ended(saved)'
    BY <1>3, <1>4, <2>1, <2>2 DEF SyncInv
  <2> QED BY <1>1, <1>4, <2>1, <2>2, <2>5, <2>6, SyncFresh
<1>6. CASE Expire
  <2>1. /\ client.up /\ Quiet /\ up = << >> /\ down = << >> /\ up' = <<ResetQuery>>
        /\ down' = down /\ client' = Emptied(client) /\ saved' = Emptied(saved)
    <3>1. /\ client.up /\ Quiet /\ up = << >> /\ down = << >> /\ up' = Append(up, ResetQuery)
          /\ down' = down /\ client' = Emptied(client) /\ saved' = Emptied(saved)
      BY <1>6 DEF Expire, TimerFires, Quiet
    <3>2. Append(<< >>, ResetQuery) = <<ResetQuery>>
      OBVIOUS
    <3> QED BY <3>1, <3>2
  <2>2. /\ Base'.serial = None /\ Base'.table = {} /\ Base'.nonce = Base.nonce /\ client'.up
        /\ saved'.serial = None /\ saved'.table = {} /\ saved'.nonce = saved.nonce
    BY <1>2, <2>1 DEF Base, Emptied, Table
  <2>3. Base.nonce <= current.nonce /\ saved.nonce <= current.nonce
    BY <1>4, <2>1 DEF SyncInv, Ended
  <2>4. Ended(Base)' /\ Ended(saved)'
    BY <1>1, <2>2, <2>3 DEF Ended, disk
  <2> QED BY <1>1, <1>4, <2>1, <2>2, <2>4, SyncFresh
<1>7. CASE Restart
  <2>1. /\ ~client.up /\ UNCHANGED <<up, down, saved>>
        /\ client' = [up |-> TRUE, table |-> saved.table, serial |-> saved.serial,
                      nonce |-> saved.nonce]
    BY <1>7 DEF Restart, conn
  <2>2. up' = << >> /\ down' = << >> /\ server.step # "reply"
    BY <2>1 DEF SyncInv, ServerInv, NoServer
  <2>3. /\ client'.up /\ Base'.serial = saved.serial /\ Base'.nonce = saved.nonce
        /\ Base'.table = saved.table
    BY <2>1 DEF Base
  <2>4. Ended(saved)'
    BY <1>3, <2>1 DEF SyncInv
  <2>5. Ended(Base)'
    BY <2>1, <2>3, <2>4 DEF Ended, MadeUnder
  <2> QED BY <1>1, <2>2, <2>3, <2>4, <2>5, SyncFresh
<1> QED BY <1>5, <1>6, <1>7

\* What the cron job does to the files that a query may be answered from.
LEMMA SyncJob ==
    ASSUME TypeOK, QueryWaits, JobInv, DiskInv, SyncInv,
           \/ \E s \in Serial, pdus \in SUBSET Prefix : StartJob(s, pdus)
           \/ JobStep \/ CrashJob,
           WriteCurrent => NoOverlap
    PROVE  SyncInv'
<1>1. ASSUME UNCHANGED <<current, hist, server, up, down, client, saved>>,
             DOMAIN ix' \subseteq DOMAIN ix
      PROVE  SyncInv'
  BY <1>1, SyncFrame
<1>2. CASE \E s \in Serial, pdus \in SUBSET Prefix : StartJob(s, pdus)
  BY <1>1, <1>2 DEF StartJob, conn, clientVars
<1>3. CASE OpenAxfr \/ SaveAxfr \/ MarkCurrent \/ LoadFails \/ CrashJob
  BY <1>1, <1>3 DEF OpenAxfr, SaveAxfr, MarkCurrent, LoadFails, CrashJob, disk, conn, clientVars
<1>4. ASSUME NEW old \in Serial, SaveIxfr(old) PROVE SyncInv'
  <2>1. /\ UNCHANGED <<current, hist, server, up, down, client, saved>>
        /\ DOMAIN ix' = DOMAIN ix \cup {<<job.serial, old>>}
    BY <1>4 DEF SaveIxfr, With, conn, clientVars
  <2>2. job.serial # current.serial
    BY <1>4 DEF SaveIxfr, JobInv, Writing
  <2> QED BY <2>1, <2>2, SyncFrame
<1>5. CASE DestroyIxfrs \/ DestroyAxfrs
  <2>1. DOMAIN ix' \subseteq DOMAIN ix
    BY <1>5 DEF DestroyIxfrs, DestroyAxfrs
  <2> QED BY <1>1, <1>5, <2>1 DEF DestroyIxfrs, DestroyAxfrs, conn, clientVars
<1>6. CASE WriteCurrent
  BY <1>6, SyncWrite
<1>7. CASE KickAll
  BY <1>1, <1>7 DEF KickAll, disk, clientVars
<1>8. CASE DeleteOldIxfrs
  <2>1. DOMAIN ix' \subseteq DOMAIN ix
    BY <1>8 DEF DeleteOldIxfrs, Without
  <2> QED BY <1>1, <1>8, <2>1 DEF DeleteOldIxfrs, conn, clientVars
<1> QED BY <1>2, <1>3, <1>4, <1>5, <1>6, <1>7, <1>8 DEF JobStep

LEMMA SyncNext ==
    ASSUME TypeOK, TypeOK', QueryWaits, JobInv, DiskInv, SyncInv, [Step]_sysVars, ~Crosses
    PROVE  SyncInv'
<1>0. (Poll \/ Expire => Quiet) /\ (WriteCurrent => NoOverlap)
  <2>1. WriteCurrent => hist' # hist
    <3>1. ASSUME WriteCurrent PROVE Len(hist') = Len(hist) + 1 /\ Len(hist) \in Nat
      BY <3>1 DEF WriteCurrent, TypeOK
    <3> QED BY <3>1
  <2> QED BY <2>1 DEF Crosses, FiresEarly
<1>1. CASE (\E s \in Serial, pdus \in SUBSET Prefix : StartJob(s, pdus)) \/ JobStep \/ CrashJob
  BY <1>0, <1>1, SyncJob
<1>2. CASE ServerStep
  BY <1>2, SyncRead, SyncReply, SyncNotify DEF ServerStep
<1>3. CASE ClientStep /\ ~ConsumeDuplicate
  BY <1>3, SyncConsume
<1>4. CASE ConsumeDuplicate \/ Disconnect
  <2>1. Gone /\ UNCHANGED <<disk, hist>>
    BY <1>4 DEF ConsumeDuplicate, Disconnect, Receive, genVars
  <2> QED BY <2>1, SyncGone
<1>5. CASE Poll \/ Expire \/ Restart
  BY <1>0, <1>5, SyncQuiet
<1>6. CASE UNCHANGED sysVars
  BY <1>6, SyncFrame DEF sysVars, disk, genVars, conn, clientVars
<1> QED BY <1>1, <1>2, <1>3, <1>4, <1>5, <1>6 DEF Step

LEMMA SyncInit == Init => DiskInv /\ SyncInv
<1> SUFFICES ASSUME Init PROVE DiskInv /\ SyncInv
  OBVIOUS
<1>1. /\ ax = << >> /\ ix = << >> /\ current = Unset /\ job = NoJob /\ hist = << >> /\ runs = 0
      /\ server = NoServer /\ up = << >> /\ down = << >>
      /\ client = [up |-> TRUE, table |-> {}, serial |-> None, nonce |-> None]
      /\ saved = [table |-> {}, serial |-> None, nonce |-> None]
  BY DEF Init
<1>2. current.nonce = None /\ current.serial = None /\ None = -1
  BY <1>1 DEF Unset, None
<1>3. DiskInv
  BY <1>1, <1>2 DEF DiskInv, NoJob, Writing
<1>4. Ended(saved) /\ Ended(Base)
  BY <1>1, <1>2 DEF Ended, Base
<1>5. LabelOf(server) = current
  BY <1>1 DEF LabelOf, NoServer, Unset
<1>6. ServerInv
  BY <1>1, <1>5 DEF ServerInv, NoServer
<1>7. TypeOK
  BY TypeInit
<1>8. PICK path : Follows(path, Base, << >>)
  BY <1>7, BaseType, FollowNothing
<1>9. path[0] = Base /\ Len(<< >>) = 0 /\ DOMAIN << >> = {}
  BY <1>8 DEF Follows
<1>10. Sound(path, down)
  BY <1>1, <1>4, <1>9 DEF Sound
<1>11. Asked(path, up) = {}
  BY <1>1, <1>9 DEF Asked
<1>12. PathInv(path)
  BY <1>10, <1>11 DEF PathInv, AllFit
<1> QED BY <1>1, <1>3, <1>4, <1>6, <1>8, <1>12 DEF SyncInv, LinkInv

\* What holds while answers cross: whatever server and client have was current, or
\* is older.
Old == {p \in Answer : p.kind = "end" => p.nonce <= current.nonce}

LooseInv ==
    /\ server.serial # None => Known(server)
    /\ server.nonce <= current.nonce /\ client.nonce <= current.nonce
    /\ saved.nonce <= current.nonce
    /\ down \in Seq(Old)

LEMMA OldTransfer ==
    ASSUME TypeOK, server.nonce <= current.nonce, NEW add \in SUBSET Prefix,
           NEW del \in SUBSET Prefix
    PROVE  Transfer(add, del) \in Seq(Old)
<1>1. CacheResponse \in Old /\ EndOfData \in Old
  BY DEF TypeOK, CacheResponse, EndOfData, Answer, Old
<1>2. <<CacheResponse>> \in Seq(Old) /\ <<EndOfData>> \in Seq(Old)
  BY <1>1
<1>3. ASSUME NEW S \in SUBSET Prefix, NEW b \in BOOLEAN
      PROVE  SetToSeq({[kind |-> "prefix", pdu |-> p, announce |-> b] : p \in S}) \in Seq(Old)
  <2> DEFINE T == {[kind |-> "prefix", pdu |-> p, announce |-> b] : p \in S}
  <2>1. T \subseteq Answer /\ SetToSeq(T) \in Seq(T)
    BY PrefixPDUs
  <2>2. T \subseteq Old
    BY <2>1 DEF Old
  <2> HIDE DEF T
  <2>3. SetToSeq(T) \in Seq(Old)
    BY <2>1, <2>2
  <2> QED BY <2>3 DEF T
<1>4. /\ SetToSeq({[kind |-> "prefix", pdu |-> p, announce |-> FALSE] : p \in del}) \in Seq(Old)
      /\ SetToSeq({[kind |-> "prefix", pdu |-> p, announce |-> TRUE] : p \in add}) \in Seq(Old)
  BY <1>3
<1> HIDE DEF Old
<1> QED BY <1>2, <1>4 DEF Transfer

LEMMA OldAnswers ==
    ASSUME TypeOK, LooseInv, Reply
    PROVE  down' \in Seq(Old)
<1>1. CacheReset \in Seq(Old) /\ ErrorReport \in Seq(Old)
  <2>1. [kind |-> "reset"] \in Old /\ [kind |-> "error"] \in Old
    BY DEF Answer, Old
  <2> QED BY <2>1 DEF CacheReset, ErrorReport
<1>2. Transfer({}, {}) \in Seq(Old)
  BY OldTransfer DEF LooseInv
<1>3. SerialAnswer(Head(up)) \in Seq(Old)
  <2>1. CASE <<server.serial, Head(up).serial>> \in DOMAIN ix
    <3> DEFINE d == ix[<<server.serial, Head(up).serial>>]
    <3>1. d \in Diff
      BY <2>1 DEF TypeOK
    <3>2. d.add \in SUBSET Prefix /\ d.del \in SUBSET Prefix
      BY <3>1 DEF Diff
    <3> HIDE DEF d
    <3>3. Transfer(d.add, d.del) \in Seq(Old)
      BY <3>2, OldTransfer DEF LooseInv
    <3> QED BY <1>1, <1>2, <3>3 DEF SerialAnswer, d
  <2>2. CASE <<server.serial, Head(up).serial>> \notin DOMAIN ix
    BY <2>2, <1>1, <1>2 DEF SerialAnswer
  <2> QED BY <2>1, <2>2
<1>4. ResetAnswer \in Seq(Old)
  <2>1. CASE server.serial \in DOMAIN ax
    <3>1. ax[server.serial].pdus \in SUBSET Prefix
      BY <2>1 DEF TypeOK, File
    <3>2. Transfer(ax[server.serial].pdus, {}) \in Seq(Old)
      BY <3>1, OldTransfer DEF LooseInv
    <3> QED BY <2>1, <3>2 DEF ResetAnswer
  <2>2. CASE server.serial \notin DOMAIN ax
    BY <2>2, <1>1 DEF ResetAnswer
  <2> QED BY <2>1, <2>2
<1>5. PICK more \in Seq(Old) : down' = down \o more
  BY <1>3, <1>4 DEF Reply
<1> QED BY <1>5 DEF LooseInv

LEMMA NonceNumbers == NonceOrNone \subseteq Int /\ \A n \in NonceOrNone : None <= n
<1>1. NonceOrNone = Nonce \cup {None}
  BY DEF NonceOrNone
<1> QED BY <1>1, Constants

\* What is current has been made so, and its nonce does not go down.
LEMMA CurrentNext ==
    ASSUME TypeOK, TypeOK', JobInv, DiskInv, [Step]_sysVars
    PROVE  /\ current.nonce <= current'.nonce /\ Old \subseteq Old'
           /\ \A l : Known(l) => Known(l)'
<1>1. ASSUME WriteCurrent
      PROVE  /\ current.nonce <= current'.nonce
             /\ hist' = hist \/ \E m \in Made : hist' = Append(hist, m)
  <2>1. /\ job.step = "write" /\ current' = LabelOf(job)
        /\ hist' = Append(hist, [serial |-> job.serial, nonce |-> job.nonce,
                                 pdus |-> job.pdus])
    BY <1>1 DEF WriteCurrent
  <2>2. current.nonce <= current'.nonce
    BY <2>1 DEF DiskInv, LabelOf
  <2>3. [serial |-> job.serial, nonce |-> job.nonce, pdus |-> job.pdus] \in Made
    BY <2>1 DEF TypeOK, Job, Made, JobInv, Writing
  <2> QED BY <2>1, <2>2, <2>3
<1>2. ASSUME ~WriteCurrent
      PROVE  current.nonce <= current'.nonce /\ hist' = hist
  <2>1. ASSUME NEW s \in Serial, NEW pdus \in SUBSET Prefix, StartJob(s, pdus)
        PROVE  UNCHANGED <<current, hist>>
    BY <2>1 DEF StartJob
  <2>2. ASSUME JobStep \/ CrashJob
        PROVE  UNCHANGED <<current, hist>>
    BY <1>2, <2>2 DEF JobStep, CrashJob, OpenAxfr, SaveAxfr, SaveIxfr, LoadFails, MarkCurrent,
       DestroyIxfrs, DestroyAxfrs, KickAll, DeleteOldIxfrs, disk
  <2>3. ASSUME ServerStep
        PROVE  UNCHANGED <<current, hist>>
    BY <2>3 DEF ServerStep, ReadCurrent, Reply, Notify, disk, genVars
  <2>4. ASSUME ClientStep
        PROVE  UNCHANGED <<current, hist>>
    BY <2>4 DEF ClientStep, ConsumeNotify, ConsumeResponse, ConsumePrefix, ConsumeDuplicate,
       ConsumeEnd, ConsumeReset, ConsumeError, Receive, disk, genVars
  <2>5. ASSUME Poll \/ Expire \/ Disconnect \/ Restart \/ UNCHANGED sysVars
        PROVE  UNCHANGED <<current, hist>>
    BY <2>5 DEF Poll, Expire, TimerFires, Disconnect, Restart, sysVars, disk, genVars
  <2>6. UNCHANGED <<current, hist>>
    BY <2>1, <2>2, <2>3, <2>4, <2>5 DEF Step
  <2>7. current.nonce <= current'.nonce
    BY <2>6, Numbers
  <2> QED BY <2>6, <2>7
<1>3. /\ current.nonce <= current'.nonce
      /\ hist' = hist \/ \E m \in Made : hist' = Append(hist, m)
  BY <1>1, <1>2
<1>4. current.nonce \in Int /\ current'.nonce \in Int
  <2>1. current.nonce \in NonceOrNone /\ current'.nonce \in NonceOrNone
    BY DEF TypeOK, Label, NonceOrNone
  <2> QED BY <2>1, NonceNumbers
<1>5. Old \subseteq Old'
  <2> SUFFICES ASSUME NEW p \in Answer, p.kind = "end", p.nonce <= current.nonce
               PROVE  p.nonce <= current'.nonce
    BY DEF Old
  <2>1. p.nonce \in Int
    BY AnswerFields, NonceNumbers
  <2> QED BY <1>3, <1>4, <2>1
<1>6. \A i \in DOMAIN hist : i \in DOMAIN hist' /\ hist'[i] = hist[i]
  BY <1>3, Remembered
<1> QED BY <1>3, <1>5, <1>6 DEF Known

LEMMA LooseNext ==
    ASSUME TypeOK, TypeOK', QueryWaits, JobInv, DiskInv, LooseInv, [Step]_sysVars
    PROVE  LooseInv'
<1>1. /\ current.nonce <= current'.nonce /\ Old \subseteq Old'
      /\ \A l : Known(l) => Known(l)'
  BY CurrentNext
<1>2. /\ current.nonce \in Int /\ current'.nonce \in Int /\ client.nonce \in Int
      /\ saved.nonce \in Int /\ server.nonce \in Int /\ None <= current'.nonce
  <2>1. /\ current.nonce \in NonceOrNone /\ current'.nonce \in NonceOrNone
        /\ server.nonce \in NonceOrNone
    BY DEF TypeOK, Label, NonceOrNone
  <2> QED BY <2>1, Numbers, NonceNumbers
<1>3. /\ server.nonce <= current'.nonce /\ client.nonce <= current'.nonce
      /\ saved.nonce <= current'.nonce
  BY <1>1, <1>2 DEF LooseInv
<1>4. \A l : server.serial # None /\ LabelOf(l) = LabelOf(server) => Known(l)'
  BY <1>1 DEF LooseInv, Known
<1>5. ASSUME NEW s \in Seq(Old) PROVE s \in Seq(Old')
  BY <1>1, <1>5
<1>6. down \in Seq(Old) /\ down \in Seq(Old')
  BY <1>5 DEF LooseInv
<1>7. current.serial # None => \E i \in DOMAIN hist : LabelOf(hist[i]) = current
  <2> SUFFICES ASSUME current.serial # None
               PROVE  \E i \in DOMAIN hist : LabelOf(hist[i]) = current
    OBVIOUS
  <2>1. hist # << >> /\ current = LabelOf(Last(hist))
    BY DEF JobInv, Unset
  <2>2. Len(hist) \in DOMAIN hist /\ current = LabelOf(hist[Len(hist)])
    BY <2>1 DEF TypeOK, Last
  <2> QED BY <2>2
<1>8. ASSUME UNCHANGED <<current, hist>>, server'.serial = current.serial,
             server'.nonce = current.nonce
      PROVE  (server.serial # None => Known(server))' /\ server'.nonce <= current'.nonce
  <2>1. LabelOf(server)' = current
    BY <1>8 DEF LabelOf, TypeOK, Label
  <2>2. (server.serial # None => Known(server))'
    BY <1>7, <1>8, <2>1 DEF Known
  <2> QED BY <1>2, <1>8, <2>2
<1>18. ASSUME LabelOf(server)' = LabelOf(server)
       PROVE  (server.serial # None => Known(server))' /\ server'.nonce = server.nonce
  BY <1>4, <1>18 DEF LabelOf, Known
<1>9. ASSUME UNCHANGED <<server, client, saved>>, down' \in Seq(Old')
      PROVE  LooseInv'
  BY <1>3, <1>9, <1>18 DEF LooseInv
<1>10. ASSUME Gone PROVE LooseInv'
  <2>1. /\ server' = NoServer /\ down' = << >> /\ saved' = saved
        /\ client'.nonce = client.nonce
    BY <1>10 DEF Gone, TypeOK
  <2>2. << >> \in Seq(Old')
    OBVIOUS
  <2>3. server'.serial = None /\ server'.nonce = None
    BY <2>1 DEF NoServer
  <2> QED BY <1>2, <1>3, <2>1, <2>2, <2>3 DEF LooseInv
<1>11. CASE \/ \E s \in Serial, pdus \in SUBSET Prefix : StartJob(s, pdus)
            \/ JobStep \/ CrashJob \/ UNCHANGED sysVars
  <2>1. UNCHANGED <<server, client, saved, down>>
    BY <1>11 DEF StartJob, JobStep, CrashJob, OpenAxfr, SaveAxfr, SaveIxfr, LoadFails,
       MarkCurrent, DestroyIxfrs, DestroyAxfrs, WriteCurrent, KickAll, DeleteOldIxfrs,
       sysVars, conn, clientVars
  <2> QED BY <1>6, <1>9, <2>1
<1>12. CASE ReadCurrent
  <2>1. /\ UNCHANGED <<current, hist, down, client, saved>>
        /\ server'.serial = current.serial /\ server'.nonce = current.nonce
    BY <1>12 DEF ReadCurrent, disk, genVars, clientVars
  <2> QED BY <1>3, <1>6, <1>8, <2>1 DEF LooseInv
<1>13. CASE Notify
  <2>1. UNCHANGED <<current, hist, client, saved>>
    BY <1>13 DEF Notify, disk, genVars, clientVars
  <2>2. CASE UNCHANGED <<server, down>>
    BY <1>6, <1>9, <2>1, <2>2
  <2> DEFINE n == [kind |-> "notify", serial |-> current.serial, nonce |-> current.nonce]
  <2>3. CASE /\ server' = [server EXCEPT !.serial = current.serial, !.nonce = current.nonce]
             /\ down' = Append(down, n)
    <3>1. server'.serial = current.serial /\ server'.nonce = current.nonce
      BY <2>3 DEF TypeOK
    <3>2. n \in Old
      BY DEF TypeOK, Label, Answer, Old
    <3> HIDE DEF n
    <3>3. down' \in Seq(Old)
      BY <1>6, <2>3, <3>2
    <3> QED BY <1>3, <1>5, <1>8, <2>1, <3>1, <3>3 DEF LooseInv
  <2> QED BY <1>13, <2>2, <2>3 DEF Notify
<1>14. CASE Reply
  <2>1. /\ UNCHANGED <<current, hist, client, saved>>
        /\ server'.serial = server.serial /\ server'.nonce = server.nonce
    BY <1>14 DEF Reply, disk, genVars, clientVars, TypeOK
  <2>2. down' \in Seq(Old)
    BY <1>14, OldAnswers
  <2>3. LabelOf(server)' = LabelOf(server)
    BY <2>1 DEF LabelOf
  <2>4. (server.serial # None => Known(server))'
    BY <1>18, <2>3
  <2> QED BY <1>3, <1>5, <2>1, <2>2, <2>4 DEF LooseInv
<1>15. CASE ClientStep /\ ~ConsumeDuplicate
  <2>1. down # << >> /\ down' = Tail(down) /\ server' = server
    BY <1>15 DEF ClientStep, ConsumeNotify, ConsumeResponse, ConsumePrefix, ConsumeEnd,
       ConsumeReset, ConsumeError, Receive, Consumed
  <2>2. Head(down) \in Old /\ down' \in Seq(Old')
    BY <1>5, <1>6, <2>1
  <2>3. /\ client'.nonce = client.nonce \/ client'.nonce <= current.nonce
        /\ saved'.nonce = saved.nonce \/ saved'.nonce <= current.nonce
    <3>1. CASE ConsumeEnd
      <4>1. Head(down).nonce <= current.nonce
        BY <2>2, <3>1 DEF ConsumeEnd, Receive, Old
      <4>2. client'.nonce = Head(down).nonce /\ saved'.nonce = Head(down).nonce
        BY <3>1 DEF ConsumeEnd, TypeOK
      <4> QED BY <4>1, <4>2
    <3>2. CASE ConsumePrefix
      BY <3>2 DEF ConsumePrefix, TypeOK
    <3>3. CASE ConsumeNotify \/ ConsumeResponse \/ ConsumeReset \/ ConsumeError
      BY <3>3 DEF ConsumeNotify, ConsumeResponse, ConsumeReset, ConsumeError, Emptied,
         clientVars, TypeOK, Table
    <3> QED BY <1>15, <3>1, <3>2, <3>3 DEF ClientStep
  <2>4. client'.nonce \in Int /\ saved'.nonce \in Int
    <3>1. client'.nonce \in NonceOrNone /\ saved'.nonce \in NonceOrNone
      BY DEF TypeOK, Table, NonceOrNone
    <3> QED BY <3>1, NonceNumbers
  <2>5. client'.nonce <= current'.nonce /\ saved'.nonce <= current'.nonce
    BY <1>1, <1>2, <1>3, <2>3, <2>4
  <2> QED BY <1>3, <1>18, <2>1, <2>2, <2>5 DEF LooseInv
<1>16. CASE ConsumeDuplicate \/ Disconnect
  BY <1>10, <1>16 DEF ConsumeDuplicate, Disconnect
<1>17. CASE Poll \/ Expire \/ Restart
  <2>1. down' = down /\ server' = server
    BY <1>17 DEF Poll, Expire, TimerFires, Restart, conn
  <2>2. client'.nonce \in {client.nonce, saved.nonce} /\ saved'.nonce = saved.nonce
    <3>1. CASE Poll
      BY <3>1 DEF Poll, clientVars
    <3>2. CASE Expire
      BY <3>2 DEF Expire, Emptied, TypeOK, Table
    <3>3. CASE Restart
      BY <3>3 DEF Restart
    <3> QED BY <1>17, <3>1, <3>2, <3>3
  <2> QED BY <1>3, <1>6, <1>18, <2>1, <2>2 DEF LooseInv
<1> QED
  BY <1>11, <1>12, <1>13, <1>14, <1>15, <1>16, <1>17 DEF Step, ServerStep, ClientStep

\* A client that starts from nothing is in step again.
LEMMA SyncAfresh ==
    ASSUME TypeOK', LooseInv', Afresh'
    PROVE  SyncInv'
<1>1. PICK path : Follows(path, Base', << >>)
  <2>1. Base' \in View
    BY DEF TypeOK, Base, View, SerialOrNone, NonceOrNone
  <2> QED BY <2>1, FollowNothing
<1>2. path[0] = Base' /\ Len(<< >>) = 0 /\ DOMAIN << >> = {}
  BY <1>1 DEF Follows
<1>3. /\ Base'.serial = None /\ Base'.table = {} /\ Base'.nonce = client'.nonce
      /\ saved'.serial = None /\ saved'.table = {} /\ client'.up /\ server'.step = "idle"
      /\ down' = << >> /\ up' \in {<< >>, <<ResetQuery>>}
  BY DEF Afresh, Base, ResetQuery
<1>4. Ended(saved)' /\ Ended(Base)'
  BY <1>3 DEF LooseInv, Ended
<1>5. Sound(path, down)'
  BY <1>2, <1>3, <1>4 DEF Sound
<1>6. AllFit(Asked(path, up), path[Len(down)])'
  <2>1. Asked(path, up)' = {up'[i] : i \in DOMAIN up'}
    BY <1>2, <1>3 DEF Asked
  <2>2. Asked(path, up)' \subseteq {ResetQuery}
    BY <1>3, <2>1
  <2> QED BY <1>2, <1>3, <2>2 DEF AllFit, Fits, ResetQuery
<1>7. LinkInv'
  BY <1>1, <1>3, <1>5, <1>6 DEF LinkInv, PathInv
<1>8. Lone'
  BY <1>2, <1>3 DEF Lone, ResetQuery
<1>9. ServerInv'
  BY <1>3, <1>8 DEF LooseInv, ServerInv
<1> QED BY <1>4, <1>7, <1>9 DEF SyncInv

\* The inductive invariant: what the files hold, as long as no second has been used
\* twice; and where the PDUs on their way lead the client, as long as no answers
\* cross.
RouterInv ==
    /\ HistoryTypeOK /\ TypeOK /\ QueryWaits /\ JobInv /\ Servable
    /\ ~reused => DiskInv /\ LooseInv /\ (~crossed => SyncInv)

LEMMA RouterNext ==
    ASSUME RouterInv, [Next]_vars
    PROVE  RouterInv'
<1>1. [Step]_sysVars
  BY StepOrNot
<1>2. TypeOK' /\ QueryWaits' /\ JobInv' /\ Servable'
  BY <1>1, TypeNext, QueryWaitsNext, JobNext DEF RouterInv
<1>3. HistoryTypeOK'
  BY HistoryNext DEF RouterInv
<1>4. ASSUME ~reused'
      PROVE  DiskInv' /\ LooseInv' /\ (~crossed' => SyncInv')
  <2>1. ~reused /\ [Step /\ OnceOnly]_sysVars
    BY <1>4 DEF Next, vars, RouterInv, HistoryTypeOK
  <2>2. DiskInv /\ LooseInv
    BY <2>1 DEF RouterInv
  <2>3. DiskInv' /\ LooseInv'
    BY <1>1, <1>2, <2>1, <2>2, DiskNext, LooseNext DEF RouterInv
  <2>4. ASSUME ~crossed' PROVE SyncInv'
    <3>1. Afresh' \/ (~crossed /\ ~Crosses) \/ (~crossed /\ UNCHANGED sysVars)
      BY <2>4 DEF Next, vars, RouterInv, HistoryTypeOK
    <3>2. CASE Afresh'
      BY <1>2, <2>3, <3>2, SyncAfresh
    <3>3. CASE ~crossed /\ ~Crosses
      BY <1>1, <1>2, <2>1, <2>2, <3>3, SyncNext DEF RouterInv
    <3>4. CASE ~crossed /\ UNCHANGED sysVars
      BY <2>1, <3>4, SyncFrame DEF RouterInv, sysVars, disk, genVars, conn, clientVars
    <3> QED BY <3>1, <3>2, <3>3, <3>4
  <2> QED BY <2>3, <2>4
<1> QED BY <1>2, <1>3, <1>4 DEF RouterInv

\* What the files hold, and where the PDUs on their way lead the client, whatever
\* server, client and cron job do in between: every table that the client commits
\* on its way is the set that was made current under the label it commits with.
THEOREM RouterInvariant == Spec => []RouterInv
<1>1. Init => RouterInv
  <2> SUFFICES ASSUME Init PROVE RouterInv
    OBVIOUS
  <2>1. /\ server.serial = None /\ server.nonce = None /\ client.nonce = None
        /\ saved.nonce = None /\ current.nonce = None /\ down = << >> /\ None = -1
    BY Constants DEF Init, NoServer, Unset
  <2>2. LooseInv
    BY <2>1 DEF LooseInv
  <2> QED BY <2>2, SyncInit, JobInit, HistoryInit DEF RouterInv
<1> QED BY <1>1, RouterNext, PTL DEF Spec

\* What a router has committed under a serial number and a nonce is the set that
\* was made current under them, for any number of payloads, runs, crashes and
\* timers (generator.py, server.py, client.py), unless its answers have crossed
\* since it last started from nothing, or a second has been used twice.
THEOREM RoutersAreInSync == Spec => []RouterInSync
<1>1. RouterInv /\ LabelIsUnique => RouterInSync
  <2> SUFFICES ASSUME RouterInv, ~reused, ~crossed, saved.serial # None
               PROVE  [serial |-> saved.serial, nonce |-> saved.nonce,
                       pdus |-> saved.table] \in Range(hist)
    BY DEF RouterInSync
  <2>1. MadeUnder(saved.serial, saved.nonce, saved.table)
    BY DEF RouterInv, SyncInv, Ended
  <2> QED BY <2>1 DEF MadeUnder, Range
<1> QED BY <1>1, RouterInvariant, LabelsAreUnique, PTL

=============================================================================
