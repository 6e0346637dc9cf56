-------------------------------- MODULE Rtr --------------------------------
(***************************************************************************)
(* rpki-rtr: src/rpki/rtr/generator.py (the cron job), server.py and       *)
(* client.py, joined by the files in the rpki-rtr directory, the "kickme"  *)
(* datagram and the connection between server and client.                  *)
(*                                                                         *)
(* The cron job writes the full set of a serial number to <serial>.ax and  *)
(* the differences from every older set to <serial>.ix.<older>, then names *)
(* the serial number and a nonce in the file current.  A server answers    *)
(* queries from these files.  A client keeps the set in an SQL table that  *)
(* it commits with the serial number of the End of Data PDU.               *)
(*                                                                         *)
(* Simplifications.                                                        *)
(*  - One protocol version, one server process, one client.  Prefix and    *)
(*    router key PDUs are the same thing.                                  *)
(*  - A new nonce differs from the earlier ones (the code draws 16 random  *)
(*    bits).                                                               *)
(*  - The client's timers may fire at any time, also during an answer;     *)
(*    the model bounds how often that is (MaxCrashes).                     *)
(*  - A file that a server has opened is read as it was then.              *)
(***************************************************************************)
EXTENDS Integers, Sequences, FiniteSets, SequencesExt

CONSTANTS
    Prefix,     \* what rcynic may validate: the payload of one PDU
    Serial,     \* the values of the clock at which the cron job may run
    Modulus,    \* 2^32
    Day,        \* the age at which a full set is deleted
    MaxRuns,    \* bound: runs of the cron job
    MaxCrashes  \* bound: crashes of the cron job and of client or server, together
                \* with the timers that fire during an answer

ASSUME RtrAssumption ==
    /\ IsFiniteSet(Prefix)
    /\ Modulus \in Nat \ {0} /\ Serial \subseteq 0..(Modulus - 1)
    /\ Day \in Nat /\ MaxRuns \in Nat /\ MaxCrashes \in Nat

None == -1
Nonce == 1..MaxRuns
Unset == [serial |-> None, nonce |-> None]

VARIABLES
    ax,       \* full sets on disk: serial -> [pdus, torn]
    ix,       \* differences on disk: <<new, old>> -> [add, del]
    current,  \* the file current.v<version>
    job,      \* the cron job: its step, its set and what it has still to do
    hist,     \* what was made current, in order, under which serial number and nonce
    runs,     \* number of runs, and so of nonces drawn at most
    crashes,  \* number of crashes
    early,    \* number of timers that have fired during an answer
    server,   \* current_serial and current_nonce, and the step of the reply
    kicked,   \* a datagram is waiting in the server's socket
    up, down, \* the connection, a sequence of PDUs each way
    client,   \* the client's memory: the table in its open transaction, serial, nonce
    saved,    \* what the client's database has committed
    crossed,  \* history: answers may be applied to another set than asked for
    reused    \* history: the cron job has used a second that names something

disk == <<ax, ix, current>>
genVars == <<job, hist, runs>>
conn == <<server, kicked, up, down>>
clientVars == <<client, saved>>
sysVars == <<disk, genVars, crashes, conn, clientVars>>
vars == <<sysVars, early, crossed, reused>>

File == [pdus : SUBSET Prefix, torn : BOOLEAN]
Diff == [add : SUBSET Prefix, del : SUBSET Prefix]
Label == [serial : Serial \cup {None}, nonce : Nonce \cup {None}]
Steps == {"idle", "axfr", "axfrclose", "ixfr", "destroyix", "destroyax", "write",
          "kick", "cleanup"}
Job == [step : Steps, serial : Serial \cup {None}, nonce : Nonce \cup {None},
        pdus : SUBSET Prefix, others : SUBSET Serial, oldix : SUBSET (Serial \X Serial)]
Made == [serial : Serial, nonce : Nonce \cup {None}, pdus : SUBSET Prefix]
Table == [table : SUBSET Prefix, serial : Serial \cup {None}, nonce : Nonce \cup {None}]
Query == [kind : {"reset", "serial"}, serial : Serial \cup {None},
          nonce : Nonce \cup {None}]
Answer == [kind : {"response"}, nonce : Nonce \cup {None}]
          \cup [kind : {"end", "notify"}, serial : Serial \cup {None},
                nonce : Nonce \cup {None}]
          \cup [kind : {"prefix"}, pdu : Prefix, announce : BOOLEAN]
          \cup [kind : {"reset", "error"}]
NoJob == [step |-> "idle", serial |-> None, nonce |-> None, pdus |-> {},
          others |-> {}, oldix |-> {}]
NoServer == [known |-> FALSE, step |-> "idle", serial |-> None, nonce |-> None]
LabelOf(r) == [serial |-> r.serial, nonce |-> r.nonce]

TypeOK ==
    /\ DOMAIN ax \subseteq Serial /\ \A t \in DOMAIN ax : ax[t] \in File
    /\ DOMAIN ix \subseteq Serial \X Serial /\ \A t \in DOMAIN ix : ix[t] \in Diff
    /\ current \in Label
    /\ job \in Job /\ hist \in Seq(Made) /\ runs \in 0..MaxRuns /\ crashes \in Nat
    /\ server \in [known : BOOLEAN, step : {"idle", "reply"},
                   serial : Serial \cup {None}, nonce : Nonce \cup {None}]
    /\ kicked \in BOOLEAN /\ up \in Seq(Query) /\ down \in Seq(Answer)
    /\ client \in [up : BOOLEAN, table : SUBSET Prefix, serial : Serial \cup {None},
                   nonce : Nonce \cup {None}]
    /\ saved \in Table

HistoryTypeOK == early \in Nat /\ crossed \in BOOLEAN /\ reused \in BOOLEAN

Init ==
    /\ ax = << >> /\ ix = << >> /\ current = Unset
    /\ job = NoJob /\ hist = << >> /\ runs = 0 /\ crashes = 0
    /\ server = NoServer /\ kicked = FALSE /\ up = << >> /\ down = << >>
    /\ client = [up |-> TRUE, table |-> {}, serial |-> None, nonce |-> None]
    /\ saved = [table |-> {}, serial |-> None, nonce |-> None]
    /\ early = 0 /\ crossed = FALSE /\ reused = FALSE

Without(f, S) == [x \in DOMAIN f \ S |-> f[x]]
With(f, x, v) == [y \in DOMAIN f \cup {x} |-> IF y = x THEN v ELSE f[y]]

-----------------------------------------------------------------------------
(***************************************************************************)
(* The cron job: generator.cronjob_main.                                   *)
(***************************************************************************)
seq_ge(a, b) == (a - b) % Modulus < Modulus \div 2

\* AXFRSet.load_current.
NoChange(pdus) ==
    /\ current.serial \in DOMAIN ax
    /\ ax[current.serial].pdus = pdus

\* At time s the job deletes what is older than a day, reads rcynic's output,
\* and goes on if it is not what is current.
StartJob(s, pdus) ==
    LET kept == {t \in DOMAIN ax : ~(t < s - Day) \/ t = current.serial}
    IN  /\ job.step = "idle" /\ runs < MaxRuns
        /\ runs' = runs + 1
        /\ ax' = Without(ax, DOMAIN ax \ kept)
        /\ IF NoChange(pdus) THEN job' = job
           ELSE job' = [step |-> "axfr", serial |-> s, nonce |-> current.nonce,
                        pdus |-> pdus, others |-> {}, oldix |-> DOMAIN ix]
        /\ UNCHANGED <<ix, current, hist, crashes, conn, clientVars>>

Continue(step) == job' = [job EXCEPT !.step = step]

\* AXFRSet.save_axfr opens the file under its final name ...
OpenAxfr ==
    /\ job.step = "axfr"
    /\ \E part \in SUBSET job.pdus :
            ax' = With(ax, job.serial, [pdus |-> part, torn |-> TRUE])
    /\ Continue("axfrclose")
    /\ UNCHANGED <<ix, current, hist, runs, crashes, conn, clientVars>>

\* ... and writes the whole set.
SaveAxfr ==
    /\ job.step = "axfrclose"
    /\ ax' = With(ax, job.serial, [pdus |-> job.pdus, torn |-> FALSE])
    /\ job' = [job EXCEPT !.step = "ixfr", !.others = DOMAIN ax \ {job.serial}]
    /\ UNCHANGED <<ix, current, hist, runs, crashes, conn, clientVars>>

\* Mutant: announcements and withdrawals are mixed up.
Difference_Swapped(new, old) == [add |-> old \ new, del |-> new \ old]

\* The linear comparison of the two sorted sets in AXFRSet.save_ixfr.
Difference(new, old) == [add |-> new \ old, del |-> old \ new]

\* The differences from one older set.  A torn file may end between two PDUs, and
\* then it is a set like any other ...
SaveIxfr(old) ==
    /\ job.step = "ixfr" /\ old \in job.others
    /\ job' = [job EXCEPT !.others = @ \ {old}]
    /\ ix' = With(ix, <<job.serial, old>>, Difference(job.pdus, ax[old].pdus))
    /\ UNCHANGED <<ax, current, hist, runs, crashes, conn, clientVars>>

\* ... or fail the assertion in PDUSet._load_file, and the job dies.
LoadFails ==
    /\ job.step = "ixfr" /\ \E old \in job.others : ax[old].torn
    /\ job' = NoJob
    /\ UNCHANGED <<disk, hist, runs, crashes, conn, clientVars>>

\* The clock went back, or there is nothing yet.
NewNonce == current.serial = None \/ seq_ge(current.serial, job.serial)

\* AXFRSet.mark_current: a new nonce makes all older serial numbers invalid.
MarkCurrent ==
    /\ job.step = "ixfr" /\ job.others = {}
    /\ job' = IF NewNonce
              THEN [job EXCEPT !.step = "destroyix", !.nonce = runs]
              ELSE [job EXCEPT !.step = "write"]
    /\ UNCHANGED <<disk, hist, runs, crashes, conn, clientVars>>

\* AXFRSet.destroy_old_data.
DestroyIxfrs ==
    /\ job.step = "destroyix"
    /\ ix' = << >>
    /\ Continue("destroyax")
    /\ UNCHANGED <<ax, current, hist, runs, crashes, conn, clientVars>>

\* Mutant: the set just written goes, too.
DestroyAxfrs_All ==
    /\ job.step = "destroyax"
    /\ ax' = << >>
    /\ Continue("write")
    /\ UNCHANGED <<ix, current, hist, runs, crashes, conn, clientVars>>

DestroyAxfrs ==
    /\ job.step = "destroyax"
    /\ ax' = Without(ax, DOMAIN ax \ {job.serial})
    /\ Continue("write")
    /\ UNCHANGED <<ix, current, hist, runs, crashes, conn, clientVars>>

\* server.write_current renames the new file into place.
WriteCurrent ==
    /\ job.step = "write"
    /\ current' = LabelOf(job)
    /\ hist' = Append(hist, [serial |-> job.serial, nonce |-> job.nonce, pdus |-> job.pdus])
    /\ Continue("kick")
    /\ UNCHANGED <<ax, ix, runs, crashes, conn, clientVars>>

\* kick_all: a datagram to every server that has its socket bound.
KickAll ==
    /\ job.step = "kick"
    /\ kicked' = client.up
    /\ Continue("cleanup")
    /\ UNCHANGED <<disk, hist, runs, crashes, server, up, down, clientVars>>

\* The differences that were there when the job started go away.
DeleteOldIxfrs ==
    /\ job.step = "cleanup"
    /\ ix' = Without(ix, job.oldix)
    /\ job' = NoJob
    /\ UNCHANGED <<ax, current, hist, runs, crashes, conn, clientVars>>

CrashJob ==
    /\ job.step # "idle" /\ crashes + early < MaxCrashes
    /\ crashes' = crashes + 1
    /\ job' = NoJob
    /\ UNCHANGED <<disk, hist, runs, conn, clientVars>>

-----------------------------------------------------------------------------
(***************************************************************************)
(* The server.                                                             *)
(***************************************************************************)
CacheResponse == [kind |-> "response", nonce |-> server.nonce]
EndOfData == [kind |-> "end", serial |-> server.serial, nonce |-> server.nonce]
Transfer(add, del) ==
    <<CacheResponse>>
    \o SetToSeq({[kind |-> "prefix", pdu |-> p, announce |-> FALSE] : p \in del})
    \o SetToSeq({[kind |-> "prefix", pdu |-> p, announce |-> TRUE] : p \in add})
    \o <<EndOfData>>
CacheReset == <<[kind |-> "reset"]>>
ErrorReport == <<[kind |-> "error"]>>

\* A query has arrived: get_serial reads the file current.
ReadCurrent ==
    /\ server.step = "idle" /\ up # << >>
    /\ server' = [known |-> TRUE, step |-> "reply",
                  serial |-> current.serial, nonce |-> current.nonce]
    /\ UNCHANGED <<disk, genVars, crashes, kicked, up, down, clientVars>>

\* SerialQueryPDU.serve.
SerialAnswer(q) ==
    IF server.serial = None THEN ErrorReport
    ELSE IF server.nonce # q.nonce THEN CacheReset
    ELSE IF server.serial = q.serial THEN Transfer({}, {})
    ELSE IF <<server.serial, q.serial>> \in DOMAIN ix
         THEN LET d == ix[<<server.serial, q.serial>>] IN Transfer(d.add, d.del)
         ELSE CacheReset

\* ResetQueryPDU.serve.
ResetAnswer ==
    IF server.serial \in DOMAIN ax THEN Transfer(ax[server.serial].pdus, {})
    ELSE ErrorReport

\* By the time the server opens the file, the cron job may have moved on.
Reply ==
    /\ server.step = "reply"
    /\ down' = down \o (IF Head(up).kind = "serial" THEN SerialAnswer(Head(up))
                                                   ELSE ResetAnswer)
    /\ up' = Tail(up)
    /\ server' = [server EXCEPT !.step = "idle"]
    /\ UNCHANGED <<disk, genVars, crashes, kicked, clientVars>>

\* ServerChannel.notify.  Until a query has told it the protocol version, the
\* server sees no current file.
Notify ==
    /\ kicked /\ server.step = "idle"
    /\ kicked' = FALSE
    /\ IF server.known /\ server.serial # current.serial
       THEN /\ server' = [server EXCEPT !.serial = current.serial, !.nonce = current.nonce]
            /\ down' = Append(down, [kind |-> "notify", serial |-> current.serial,
                                     nonce |-> current.nonce])
       ELSE UNCHANGED <<server, down>>
    /\ UNCHANGED <<disk, genVars, crashes, up, clientVars>>

-----------------------------------------------------------------------------
(***************************************************************************)
(* The client.                                                             *)
(***************************************************************************)
ResetQuery == [kind |-> "reset", serial |-> None, nonce |-> None]
SerialQuery == [kind |-> "serial", serial |-> client.serial, nonce |-> client.nonce]

DueQuery == IF client.serial = None \/ client.nonce = None THEN ResetQuery ELSE SerialQuery

Quiet == up = << >> /\ down = << >>

\* A timer fires, whatever is under way.
TimerFires ==
    /\ client.up /\ (Quiet \/ crashes + early < MaxCrashes)
    /\ UNCHANGED <<disk, genVars, crashes, server, kicked, down>>

\* client_main: what it asks when its timer wakes it up.
Poll ==
    /\ TimerFires
    /\ up' = Append(up, DueQuery)
    /\ UNCHANGED clientVars

\* Mutant: the rows stay.
Emptied_KeepsRows(c) == [c EXCEPT !.serial = None]

\* ClientChannel.cache_reset.
Emptied(c) == [c EXCEPT !.table = {}, !.serial = None]

\* The data is older than the server allows, and the loop goes on to ask.
Expire ==
    /\ TimerFires
    /\ client.serial # None
    /\ client' = Emptied(client)
    /\ saved' = Emptied(saved)
    /\ up' = Append(up, ResetQuery)

Receive(kind) ==
    /\ client.up /\ down # << >> /\ Head(down).kind = kind
    /\ UNCHANGED <<disk, genVars, crashes>>

Consumed == down' = Tail(down) /\ UNCHANGED <<server, kicked>>

\* SerialNotifyPDU.consume.
ConsumeNotify ==
    /\ Receive("notify") /\ Consumed
    /\ up' = IF client.serial = None \/ client.nonce # Head(down).nonce
             THEN Append(up, ResetQuery)
             ELSE IF client.serial # Head(down).serial THEN Append(up, SerialQuery)
             ELSE up
    /\ UNCHANGED clientVars

\* CacheResponsePDU.consume.
ConsumeResponse ==
    /\ Receive("response") /\ Consumed
    /\ IF Head(down).nonce # client.nonce
       THEN client' = Emptied(client) /\ saved' = Emptied(saved)
       ELSE UNCHANGED clientVars
    /\ UNCHANGED up

\* The client process has exited; the server's end is closed with it, and what
\* was not committed is rolled back.
Gone ==
    /\ client' = [client EXCEPT !.up = FALSE]
    /\ server' = NoServer /\ kicked' = FALSE
    /\ up' = << >> /\ down' = << >>
    /\ UNCHANGED saved

Duplicate == Head(down).announce /\ Head(down).pdu \in client.table

\* ClientChannel.consume_prefix, in the transaction that is open.
ConsumePrefix ==
    LET p == Head(down).pdu
    IN  /\ Receive("prefix") /\ Consumed /\ ~Duplicate
        /\ client' = [client EXCEPT !.table =
                IF Head(down).announce THEN @ \cup {p} ELSE @ \ {p}]
        /\ UNCHANGED <<up, saved>>

\* The UNIQUE constraint refuses the row; the exception ends the client.
ConsumeDuplicate == Receive("prefix") /\ Duplicate /\ Gone

\* ClientChannel.end_of_data commits the table with its label.
ConsumeEnd ==
    /\ Receive("end") /\ Consumed
    /\ client' = [client EXCEPT !.serial = Head(down).serial, !.nonce = Head(down).nonce]
    /\ saved' = [table |-> client.table, serial |-> Head(down).serial,
                 nonce |-> Head(down).nonce]
    /\ UNCHANGED up

\* CacheResetPDU.consume.
ConsumeReset ==
    /\ Receive("reset") /\ Consumed
    /\ client' = Emptied(client)
    /\ saved' = Emptied(saved)
    /\ up' = Append(up, ResetQuery)

\* ErrorReportPDU.consume only logs it.
ConsumeError == Receive("error") /\ Consumed /\ UNCHANGED <<up, clientVars>>

\* The connection, the server or the client breaks down.
Disconnect ==
    /\ client.up /\ crashes + early < MaxCrashes
    /\ crashes' = crashes + 1
    /\ Gone
    /\ UNCHANGED <<disk, genVars>>

\* A new client reads its database (setup_sql) and connects to a new server.
Restart ==
    /\ ~client.up
    /\ client' = [up |-> TRUE, table |-> saved.table, serial |-> saved.serial,
                  nonce |-> saved.nonce]
    /\ UNCHANGED <<disk, genVars, crashes, conn, saved>>

-----------------------------------------------------------------------------
(***************************************************************************)
(* What is assumed of the surroundings.                                    *)
(***************************************************************************)
\* The clock does not show a second again while there is a file named after it
\* or a server that is about to open one.
Fresh(s) ==
    /\ s \notin DOMAIN ax \cup {current.serial}
    /\ server.step = "reply" => s # server.serial

JobStep ==
    \/ OpenAxfr \/ SaveAxfr \/ \E old \in Serial : SaveIxfr(old)
    \/ LoadFails \/ MarkCurrent \/ DestroyIxfrs \/ DestroyAxfrs \/ WriteCurrent
    \/ KickAll \/ DeleteOldIxfrs

ServerStep == ReadCurrent \/ Reply \/ Notify

ClientStep ==
    \/ ConsumeNotify \/ ConsumeResponse \/ ConsumePrefix \/ ConsumeDuplicate
    \/ ConsumeEnd \/ ConsumeReset \/ ConsumeError

Step ==
    \/ \E s \in Serial, pdus \in SUBSET Prefix : Fresh(s) /\ StartJob(s, pdus)
    \/ JobStep \/ CrashJob
    \/ ServerStep
    \/ ClientStep \/ Poll \/ Expire \/ Disconnect \/ Restart

-----------------------------------------------------------------------------
(***************************************************************************)
(* History: when the answers a client gets need not lead to the set they   *)
(* are labelled with.                                                      *)
(***************************************************************************)
\* What ends an answer, or makes the client ask.
Awaited(p) == p.kind \in {"notify", "reset", "end"}

\* At most one query is open, or one answer, or one notification.  A notification
\* that crosses a query makes a second one.
NoOverlap ==
    /\ up \in {<< >>, <<DueQuery>>}
    /\ \A i, j \in DOMAIN down : Awaited(down[i]) /\ Awaited(down[j]) => i = j /\ up = << >>

\* The client has nothing, and at most asks for everything.
Afresh ==
    /\ client.up /\ client.table = {} /\ client.serial = None
    /\ saved.table = {} /\ saved.serial = None
    /\ down = << >> /\ up \in {<< >>, <<ResetQuery>>} /\ server.step = "idle"

\* A timer adds a query, or empties the table, during an answer.
FiresEarly == (Poll \/ Expire) /\ ~Quiet

\* Either that, or two queries are open while the cron job makes another set
\* current: the answers may lead to different sets, the second one from a set that
\* the client no longer has.  It lasts until the client starts from nothing.
Crosses == FiresEarly \/ (hist' # hist /\ ~NoOverlap)

\* Nothing was current under this serial number, and no difference leads from it
\* or to it.
Unused(s) ==
    /\ \A i \in DOMAIN hist : hist[i].serial # s
    /\ \A t \in DOMAIN ix : t[1] # s /\ t[2] # s

OnceOnly == job.step = "idle" /\ job'.step = "axfr" => Unused(job'.serial)

Next ==
    /\ Step
    /\ early' = IF FiresEarly THEN early + 1 ELSE early
    /\ crossed' = (~Afresh' /\ (crossed \/ Crosses))
    /\ reused' = (reused \/ ~OnceOnly)

\* A job that has started goes on, the server and the client handle what has
\* arrived, the client's timer fires again and again, and it is restarted.  Data
\* that is not renewed expires, also if the client dies of every answer.
Fairness ==
    /\ WF_sysVars(JobStep) /\ WF_sysVars(ServerStep) /\ WF_sysVars(ClientStep)
    /\ WF_sysVars(Poll) /\ WF_sysVars(Restart)
    /\ SF_sysVars(Expire \/ ConsumeEnd)

Spec == Init /\ [][Next]_vars
LiveSpec == Spec /\ Fairness

-----------------------------------------------------------------------------
\* The full set that current names is on disk and whole, whatever the cron job
\* does meanwhile.  Only a job that takes the serial number back deletes it
\* before it renames current, and for good if it dies in between
\* (save_axfr, destroy_old_data, mark_current).
CurrentIsServable ==
    TypeOK /\ HistoryTypeOK /\ (current # Unset =>
        IF current.serial \in DOMAIN ax
        THEN /\ ~ax[current.serial].torn
             /\ ax[current.serial].pdus = Last(hist).pdus
             /\ current = LabelOf(Last(hist))
        ELSE crashes > 0 \/ (job.step = "write" /\ seq_ge(current.serial, job.serial)))

\* A server that is about to reply has the query it read.
QueryWaits == server.step = "reply" => up # << >>

\* What makes it inductive: a job never takes the serial number of current, has
\* its own set on disk before it renames current, and deletes the others only when
\* the serial number goes back.
Writing == {"axfr", "axfrclose", "ixfr", "destroyix", "destroyax", "write"}

JobInv ==
    /\ job.step \in Writing =>
           job.serial \in Serial /\ job.serial # current.serial /\ runs >= 1
    /\ job.step \in {"ixfr", "destroyix", "destroyax", "write"} =>
           /\ job.serial \in DOMAIN ax
           /\ ax[job.serial] = [pdus |-> job.pdus, torn |-> FALSE]
    /\ job.step = "ixfr" => job.others \subseteq DOMAIN ax
    /\ job.step \in {"destroyix", "destroyax"} => NewNonce
    /\ IF hist = << >> THEN current = Unset
                       ELSE current # Unset /\ current = LabelOf(Last(hist))

\* The clock went forward, as far as the cron job can tell, to a smaller number.
CameRound(k) ==
    /\ hist[k + 1].serial < hist[k].serial
    /\ ~seq_ge(hist[k].serial, hist[k + 1].serial)

\* A serial number and a nonce together never name two sets, although the clock
\* goes back (mark_current), unless it has come round in between.
LabelIsUnique ==
    \A i, j \in DOMAIN hist :
        i < j /\ LabelOf(hist[i]) = LabelOf(hist[j]) => \E k \in i .. (j - 1) : CameRound(k)

\* What makes it inductive: the serial numbers under one nonce go up, and no nonce
\* is drawn twice.
LabelInv ==
    /\ \A i \in DOMAIN hist :
           /\ hist[i].nonce <= runs /\ (job.step \in Writing => hist[i].nonce < runs)
           /\ hist[i].nonce = current.nonce =>
                  \/ hist[i].serial <= current.serial
                  \/ \E k \in i .. (Len(hist) - 1) : CameRound(k)
    /\ job.step \in {"axfr", "axfrclose", "ixfr"} => job.nonce = current.nonce
    /\ job.step \in {"destroyix", "destroyax", "write"} =>
           job.nonce = runs \/ (job.step = "write" /\ job.nonce = current.nonce /\ ~NewNonce)
    /\ LabelIsUnique

\* What a client has committed under a serial number and a nonce is the set that
\* was current under them, and labels are unique: full and incremental transfers
\* lead to the same table, across a job that runs, crashes or deletes files
\* meanwhile, lost connections, notifications that cross a query, and a clock
\* that goes back.  Two things are excused for the table: answers that cross a
\* change of the set or a timer, until the client starts from nothing again, and a
\* run of the cron job at a second that already named a set or a difference.
RouterInSync ==
    /\ LabelIsUnique
    /\ ~reused /\ ~crossed /\ saved.serial # None =>
           [serial |-> saved.serial, nonce |-> saved.nonce, pdus |-> saved.table]
               \in Range(hist)

\* Once the cron job is done for good, the client holds what is current (and
\* gets it again if it expires), as long as its full set is there (notify,
\* polls, cache resets, restarts).
RouterCatchesUp ==
    []<>(current.serial \in DOMAIN ax => LabelOf(saved) = current)
=============================================================================
