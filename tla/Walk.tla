-------------------------------- MODULE Walk --------------------------------
(***************************************************************************)
(* rcynicng's validation walk (src/rp/rcynic/rcynicng): workers take tasks *)
(* from a queue; a task is a stack of frames, one per CA certificate, and  *)
(* fetches the CA's publication point, picks its CRL and manifest and      *)
(* judges what the manifest lists.  A task that has to fetch leaves a copy *)
(* of itself in the queue and goes on with its parent's frame, which from  *)
(* then on both of them share.                                             *)
(*                                                                         *)
(* An object stands for its DER, its hash and its digital signature; what  *)
(* the checks of one object by itself find is `bad'.  A step is what       *)
(* happens between two `yield's.  Simplifications: one URI per publication *)
(* point; --fetch is on; nobody adds a host to the sets of dead hosts      *)
(* (nothing in the code does); the order of retrieval is the order of      *)
(* numbers.  Warnings (stale, tainted) are left out.  A task that dies has *)
(* stored nothing of the step it died in.  What the repositories of the    *)
(* world hold is subject to the named assumptions below.                   *)
(***************************************************************************)
EXTENDS Naturals, FiniteSets, SequencesExt

CONSTANTS
  Workers,     \* the coroutines of launcher()
  TAs,         \* trust anchor certificates, one for each TAL
  CAs,         \* CA certificates, trust anchors included
  Point,       \* [CAs -> publication points]
  Https,       \* the points that are RRDP notifications; others are rsync
  Above,       \* <<q, p>>: q is p or an rsync directory above it
  Files,       \* [manifests -> the objects they list]
  Revoked,     \* [CRLs -> the objects they revoke]
  Issuer,      \* [objects -> CAs]: whose key the `aki' of an object names
  Number,      \* [manifests and CRLs -> Nat]
  Uri,         \* [objects -> URIs]
  Versions,    \* [points -> sequence of contents]
  MaybeBad,    \* objects that may be invalid
  OldData,     \* what may be left from earlier runs: a set of sets
  Chunks,      \* what a transfer may have stored when it has not ended
  MaxTroubles  \* bound: failed transfers and tasks that die

Manifests == DOMAIN Files
Crls      == DOMAIN Revoked
Objects   == DOMAIN Uri
Points    == DOMAIN Versions
Nothing   == "nothing"

\* What a manifest lists, apart from CRLs and manifests.
Content(m) == Files[m] \ (Manifests \cup Crls)

\* What a CA has signed.  A manifest may also list what it has not.
Signed(c) == {o \in DOMAIN Issuer : Issuer[o] = c}

ASSUME WorldAssumption ==
  /\ TAs \subseteq CAs /\ CAs \subseteq Objects /\ IsFiniteSet(TAs)
  /\ Manifests \cup Crls \subseteq Objects /\ IsFiniteSet(Manifests \cup Crls)
  /\ Manifests \cap Crls = {} /\ CAs \cap (Manifests \cup Crls) = {}
  /\ Nothing \notin Objects \cup Points
  /\ Point \in [CAs -> Points]
  /\ Https \subseteq Points
  /\ Issuer \in [Objects \ TAs -> CAs]
  /\ Number \in [Manifests \cup Crls -> Nat]
  /\ \A m \in Manifests : Files[m] \subseteq Objects
  /\ \A p \in Points : Versions[p] \in Seq(SUBSET Objects) \ {<< >>}
  /\ \A S \in OldData : S \subseteq Objects
  /\ MaxTroubles \in Nat

\* Of the directories above a directory that have an entry, one is above all.
ASSUME DirectoriesAssumption ==
  /\ \A p \in Points : <<p, p>> \in Above
  /\ \A p, q \in Points : <<q, p>> \in Above /\ q # p => {p, q} \cap Https = {}
  /\ \A p \in Points : \A S \in SUBSET {q \in Points : <<q, p>> \in Above} :
       S # {} => \E q \in S : \A r \in S : <<q, r>> \in Above

\* The URI of a CA's manifest or CRL names nothing else.
ASSUME NamesAssumption ==
  \A o \in Manifests \cup Crls : \A q \in Objects :
    Uri[q] = Uri[o] => q \in Manifests \cup Crls /\ Issuer[q] = Issuer[o]

\* A repository does not go back to older objects, a fetch of a directory
\* brings what is below it, and a manifest comes with a CRL that it lists.
ASSUME VersionsAssumption ==
  \A c \in CAs : \A q \in Points : <<q, Point[c]>> \in Above =>
    \A m \in Versions[Point[c]][1] \cap Manifests : Issuer[m] = c =>
      \A i \in DOMAIN Versions[q] :
        \E n \in Versions[q][i] \cap Manifests : \E r \in Versions[q][i] \cap Crls :
          /\ Issuer[n] = c /\ Number[n] >= Number[m]
          /\ Issuer[r] = c /\ r \in Files[n]

VARIABLES
  bad,       \* objects that fail their own checks
  spawn,     \* --spawn-on-fetch
  version,   \* [Points -> index]: what a point offers now
  db,        \* rows of RPKIObject
  history,   \* [Points -> {"none", "pending", "done"}]: Fetcher's history
  frames,    \* [CAs -> WalkFrame]
  queue,     \* task_queue
  work,      \* [Workers -> what the worker does]
  rejected,  \* URIs whose Status has a code that is bad
  accepted,  \* rows that are authenticated in this run
  over,      \* launcher() has returned
  troubles,  \* failed transfers and dead tasks so far
  failed,    \* (history) points and frames with a failed transfer or a dead task
  overtaken  \* (history) objects that arrived after their manifest was read

walkVars == <<bad, spawn, version, db, history, frames, queue, work, rejected,
              accepted, over, troubles, failed, overtaken>>

Free    == [do |-> "idle", stack |-> << >>, file |-> Nothing, at |-> Nothing]
NoFrame == [state |-> "none", files |-> {}, mft |-> Nothing, crl |-> Nothing]

Offered(p) == Versions[p][version[p]]

WalkInit ==
  /\ bad \in SUBSET MaybeBad
  /\ spawn \in BOOLEAN
  /\ version = [p \in Points |-> 1]
  /\ db \in OldData
  /\ history = [p \in Points |-> "none"]
  /\ frames = [c \in CAs |-> NoFrame]
  /\ queue = SetToSeq({<<t>> : t \in TAs})
  /\ work = [w \in Workers |-> Free]
  /\ rejected = {} /\ accepted = {} /\ over = FALSE
  /\ troubles = 0 /\ failed = {} /\ overtaken = {}

(***************************************************************************)
(* Checks.  Status.update() returns one set per URI, to which every object *)
(* with that URI adds and which nothing clears: an object passes only if   *)
(* nothing that was checked before it under its URI was bad.  The rows of  *)
(* one query come newest first.                                            *)
(***************************************************************************)
Sound(o, crl) == o \notin bad /\ (crl # Nothing => o \notin Revoked[crl])

Passes(o, candidates) ==
  /\ Uri[o] \notin rejected
  /\ \A q \in candidates :
       Uri[q] = Uri[o] /\ Number[q] >= Number[o] => Sound(q, Nothing)

Rejects(candidates) == {Uri[q] : q \in {r \in candidates : r \in bad}}

Newest(S) == CHOOSE o \in S : \A q \in S : Number[q] <= Number[o]

(***************************************************************************)
(* Fetcher.  An rsync fetch of a directory stands for all below it; the    *)
(* directory closest to the root is found first.                           *)
(***************************************************************************)
_rsync_find(p) ==
  LET found == {q \in Points : <<q, p>> \in Above /\ history[q] # "none"}
  IN IF found = {} THEN Nothing
     ELSE CHOOSE q \in found : \A r \in found : <<q, r>> \in Above

\* What is known of a fetch of p, and under which entry.
entry(p) == IF p \in Https THEN p ELSE _rsync_find(p)
known(p) == IF entry(p) = Nothing THEN "none" ELSE history[entry(p)]

\* Mutant: a fetch that is under way counts as done.
needed_NotPending(p) == known(p) = "none"

needed(p) == known(p) # "done"

\* Mutant: an RRDP fetch looks for no entry at all.
MustFetch_NoWait(p) == known(p) = "none" \/ p \in Https

\* An rsync fetch looks for any entry, an RRDP fetch only for one that is
\* pending: it repeats one that is done.
MustFetch(p) == known(p) = "none" \/ (p \in Https /\ known(p) = "done")

-----------------------------------------------------------------------------
(***************************************************************************)
(* Workers and their stacks                                                *)
(***************************************************************************)
top(w) == Last(work[w].stack)

\* What the worker does after its task has left `stack'.
Going(stack) == IF stack = << >> THEN Free
                ELSE [Free EXCEPT !.do = "walk", !.stack = stack]

popped(w) == [work EXCEPT ![w] = Going(Front(@.stack))]

InState(w, state) == work[w].do = "walk" /\ frames[top(w)].state = state

\* A task from the queue: a TAL, or a walk.
GetTask(w) ==
  /\ work[w].do = "idle" /\ queue # << >>
  /\ LET task == Head(queue)
         new  == frames[Last(task)].state = "none"
     IN work' = [work EXCEPT ![w] =
          [Free EXCEPT !.do = IF new THEN "tal" ELSE "walk", !.stack = task]]
  /\ queue' = Tail(queue)
  /\ UNCHANGED <<bad, spawn, version, db, history, frames, rejected, accepted,
                 over, troubles, failed, overtaken>>

\* CheckTALTask: the trust anchor is fetched, or the fetch fails; a row with
\* its URI that has the key of the TAL and passes is where a walk begins.
\* (The fetch of a trust anchor waits for one under way of a directory above
\* it, or trusts one that is done; its own entry in the history concerns no
\* publication point.)
CheckTAL(w) ==
  /\ work[w].do = "tal"
  /\ LET t == top(w)
     IN \/ /\ db' = db \cup {t}
           /\ UNCHANGED troubles
        \/ /\ troubles < MaxTroubles
           /\ troubles' = troubles + 1
           /\ UNCHANGED db
  /\ LET t  == top(w)
         ok == t \in db' /\ Uri[t] \notin rejected /\ Sound(t, Nothing)
     IN /\ accepted' = IF ok THEN accepted \cup {t} ELSE accepted
        /\ rejected' = IF ok \/ t \notin db' THEN rejected
                       ELSE rejected \cup {Uri[t]}
        /\ queue' = IF ok THEN Append(queue, <<t>>) ELSE queue
        /\ frames' = IF ok THEN [frames EXCEPT ![t].state = "initial"]
                     ELSE frames
  /\ work' = [work EXCEPT ![w] = Free]
  /\ UNCHANGED <<bad, spawn, version, history, over, failed, overtaken>>

(***************************************************************************)
(* WalkFrame.initial: go on if nothing has to be fetched.  Otherwise fetch *)
(* here, or leave that to a clone of the task and go back to the parent.   *)
(***************************************************************************)
initial(w) ==
  /\ InState(w, "initial")
  /\ LET c == top(w)
     IN \/ /\ ~needed(Point[c])
           /\ frames' = [frames EXCEPT ![c].state = "ready"]
           /\ UNCHANGED <<queue, work>>
        \/ /\ needed(Point[c]) /\ ~spawn
           /\ frames' = [frames EXCEPT ![c].state = "fetch"]
           /\ UNCHANGED <<queue, work>>
        \/ /\ needed(Point[c]) /\ spawn
           /\ frames' = [frames EXCEPT ![c].state = "fetch"]
           /\ queue' = Append(queue, work[w].stack)
           /\ work' = popped(w)
  /\ UNCHANGED <<bad, spawn, version, db, history, rejected, accepted, over,
                 troubles, failed, overtaken>>

\* WalkFrame.fetch: wait for another task's fetch, begin one, or find that
\* it has been done.
fetch(w) ==
  /\ InState(w, "fetch")
  /\ LET c == top(w)
         p == Point[c]
     IN \/ /\ known(p) = "pending"
           /\ work' = [work EXCEPT ![w].do = "wait", ![w].at = entry(p)]
           /\ UNCHANGED <<history, frames>>
        \/ /\ MustFetch(p)
           /\ history' = [history EXCEPT ![p] = "pending"]
           /\ work' = [work EXCEPT ![w].do = "transfer", ![w].at = p]
           /\ UNCHANGED frames
        \/ /\ known(p) = "done" /\ ~MustFetch(p)
           /\ frames' = [frames EXCEPT ![c].state = "ready"]
           /\ UNCHANGED <<history, work>>
  /\ UNCHANGED <<bad, spawn, version, db, queue, rejected, accepted, over,
                 troubles, failed, overtaken>>

\* Objects of S that some frame has looked for, or is about to, in vain.
Overtaken(S) == {o \in S \ db : \E c \in CAs :
                      /\ frames[c].mft # Nothing
                      /\ o \in Files[frames[c].mft] \cap Signed(c)}

\* rsync's files are read one at a time, a snapshot's objects in chunks:
\* some of a point's objects become visible before the others.
StoreSome(w) ==
  /\ work[w].do = "transfer" /\ work[w].file = Nothing
  /\ \E K \in Chunks :
       LET S == (Offered(work[w].at) \cap K) \ db
       IN /\ S # {}
          /\ db' = db \cup S
          /\ overtaken' = overtaken \cup Overtaken(S)
  /\ work' = [work EXCEPT ![w].file = "some"]
  /\ UNCHANGED <<bad, spawn, version, history, frames, queue, rejected,
                 accepted, over, troubles, failed>>

\* Mutant: an error is raised past notify_all.
Woken_NotWaiters(p) == {w \in Workers : work[w].at = p /\ work[w].do # "wait"}

\* notify_all(): who goes on when the fetch of a point has ended.
Woken(p) == {w \in Workers : work[w].at = p}

Ready(ws) == LET tops == {top(w) : w \in ws}
             IN [c \in CAs |-> IF c \in tops
                   THEN [frames[c] EXCEPT !.state = "ready"] ELSE frames[c]]

\* The end of a fetch, as it should be or with an error that is logged: the
\* `finally' clause clears `pending' and wakes the waiters.
EndTransfer(w) ==
  /\ work[w].do = "transfer"
  /\ LET p == work[w].at
     IN /\ \/ /\ db' = db \cup Offered(p)
              /\ overtaken' = overtaken \cup Overtaken(Offered(p))
              /\ UNCHANGED <<troubles, failed>>
           \/ /\ troubles < MaxTroubles
              /\ troubles' = troubles + 1
              /\ failed' = failed \cup {p}
              /\ UNCHANGED <<db, overtaken>>
        /\ history' = [history EXCEPT ![p] = "done"]
        /\ frames' = Ready(Woken(p))
        /\ work' = [x \in Workers |-> IF x \in Woken(p)
                      THEN Going(work[x].stack) ELSE work[x]]
  /\ UNCHANGED <<bad, spawn, version, queue, rejected, accepted, over>>

(***************************************************************************)
(* WalkFrame.ready: of the manifests that pass, and the CRLs that pass and *)
(* are listed by one of those, the newest CRL and the newest manifest that *)
(* it does not revoke.  Nothing in it yields.  CRLs and manifests that the *)
(* manifest lists are skipped by the loop.                                 *)
(***************************************************************************)
ready(w) ==
  /\ InState(w, "ready")
  /\ LET c     == top(w)
         mine  == db \cap Signed(c)
         mfts  == {m \in mine \cap Manifests : Passes(m, mine \cap Manifests)}
         heard == mine \cap Crls \cap UNION {Files[m] : m \in mfts}
         crls  == {r \in heard : Passes(r, heard)}
         crl   == IF crls = {} THEN Nothing ELSE Newest(crls)
         left  == {m \in mfts : crl # Nothing /\ m \notin Revoked[crl]}
         newer == {m \in mfts : crl # Nothing /\ m \in Revoked[crl]
                     /\ \A n \in left : Number[n] < Number[m]}
         mft   == IF left = {} THEN Nothing ELSE Newest(left)
     IN /\ rejected' = rejected \cup Rejects(mine \cap Manifests)
                         \cup Rejects(heard) \cup {Uri[m] : m \in newer}
        /\ accepted' = accepted \cup ({crl, mft} \ {Nothing})
        /\ IF mft = Nothing
           THEN /\ frames' = [frames EXCEPT ![c].state = "empty"]
                /\ work' = popped(w)
           ELSE /\ frames' = [frames EXCEPT ![c] =
                     [state |-> "loop", files |-> Content(mft), mft |-> mft, crl |-> crl]]
                /\ UNCHANGED work
  /\ UNCHANGED <<bad, spawn, version, db, history, queue, over, troubles,
                 failed, overtaken>>

\* WalkFrame.loop takes the next file from the frame's iterator, which every
\* task that has the frame in its stack shares, and yields ...
NextFile(w) ==
  /\ InState(w, "loop")
  /\ \E f \in frames[top(w)].files :
       /\ frames' = [frames EXCEPT ![top(w)].files = @ \ {f}]
       /\ work' = [work EXCEPT ![w].do = "file", ![w].file = f]
  /\ UNCHANGED <<bad, spawn, version, db, history, queue, rejected, accepted,
                 over, troubles, failed, overtaken>>

\* ... and then judges it: wherever it is listed, it has to be signed by the
\* frame's CA (AKI_EXTENSION_ISSUER_MISMATCH), and is never a trust anchor
\* (AIA_EXTENSION_MISSING).  A CA certificate becomes the top of the stack.
JudgeFile(w) ==
  /\ work[w].do = "file"
  /\ LET f    == work[w].file
         seen == f \in db
         ok   == /\ seen /\ f \in Signed(top(w)) /\ Uri[f] \notin rejected
                 /\ Sound(f, frames[top(w)].crl)
     IN /\ accepted' = IF ok THEN accepted \cup {f} ELSE accepted
        /\ rejected' = IF seen /\ ~ok THEN rejected \cup {Uri[f]} ELSE rejected
        /\ IF ok /\ f \in CAs
           THEN /\ work' = [work EXCEPT ![w] = Going(Append(@.stack, f))]
                /\ frames' = [frames EXCEPT ![f].state = "initial"]
           ELSE /\ work' = [work EXCEPT ![w] = Going(@.stack)]
                /\ UNCHANGED frames
  /\ UNCHANGED <<bad, spawn, version, db, history, queue, over, troubles,
                 failed, overtaken>>

EndLoop(w) ==
  /\ InState(w, "loop") /\ frames[top(w)].files = {}
  /\ work' = popped(w)
  /\ UNCHANGED <<bad, spawn, version, db, history, frames, queue, rejected,
                 accepted, over, troubles, failed, overtaken>>

\* An exception that no frame catches: rsync cannot be started, or the
\* database fails.  worker() logs it and takes the next task; `finally' in
\* _rsync_fetch wakes those who wait.  An RRDP fetch catches everything.
TaskDies(w) ==
  /\ troubles < MaxTroubles
  /\ \/ /\ work[w].do \in {"tal", "walk", "file"}
        /\ work' = [work EXCEPT ![w] = Free]
        /\ UNCHANGED <<history, frames>>
     \/ /\ work[w].do = "transfer" /\ work[w].at \notin Https
        /\ LET others == Woken(work[w].at) \ {w}
           IN /\ frames' = Ready(others)
              /\ work' = [x \in Workers |-> CASE x = w -> Free
                            [] x \in others -> Going(work[x].stack)
                            [] OTHER -> work[x]]
        /\ history' = [history EXCEPT ![work[w].at] = "done"]
  /\ troubles' = troubles + 1
  /\ failed' = failed \cup {top(w)}
  /\ UNCHANGED <<bad, spawn, version, db, queue, rejected, accepted, over,
                 overtaken>>

\* Mutant: a task counts as done when a worker takes it.
AllDone_Taken == queue = << >>

\* task_queue.join(): every task that was put has been done.
AllDone == queue = << >> /\ \A w \in Workers : work[w].do = "idle"

Join ==
  /\ ~over /\ AllDone
  /\ over' = TRUE
  /\ UNCHANGED <<bad, spawn, version, db, history, frames, queue, work,
                 rejected, accepted, troubles, failed, overtaken>>

\* The outside world: a repository changes while the walk is under way.
Publish(p) ==
  /\ ~over /\ version[p] < Len(Versions[p])
  /\ version' = [version EXCEPT ![p] = @ + 1]
  /\ UNCHANGED <<bad, spawn, db, history, frames, queue, work, rejected,
                 accepted, over, troubles, failed, overtaken>>

WorkerStep(w) ==
  \/ GetTask(w) \/ CheckTAL(w) \/ initial(w) \/ fetch(w) \/ StoreSome(w)
  \/ EndTransfer(w) \/ ready(w) \/ NextFile(w) \/ JudgeFile(w) \/ EndLoop(w)

WalkNext ==
  \/ \E w \in Workers : WorkerStep(w) \/ TaskDies(w)
  \/ Join
  \/ \E p \in Points : Publish(p)

WalkSpec == WalkInit /\ [][WalkNext]_walkVars

\* The I/O loop always resumes some coroutine whose future is done; rsync and
\* the HTTP client, with its timeouts, end.
FairWalk == WalkSpec /\ WF_walkVars(Join \/ \E w \in Workers : WorkerStep(w))

-----------------------------------------------------------------------------
(***************************************************************************)
(* Properties                                                              *)
(***************************************************************************)
Frame == [state : {"none", "initial", "fetch", "ready", "loop", "empty"},
          files : SUBSET Objects, mft : Manifests \cup {Nothing},
          crl : Crls \cup {Nothing}]

WalkTypeOK ==
  /\ bad \subseteq MaybeBad /\ db \subseteq Objects /\ accepted \subseteq db
  /\ history \in [Points -> {"none", "pending", "done"}]
  /\ frames \in [CAs -> Frame]
  /\ \A w \in Workers : work[w].do = "idle" <=> work[w].stack = << >>

\* A frame that more than one task has in its stack is in its loop: the code
\* forks only from the top of a stack, and only before that frame has run.
SharedFramesLoop ==
  LET OnlyLoops(s, r) == \A c \in ToSet(s) \cap ToSet(r) : frames[c].state = "loop"
  IN /\ \A i, j \in DOMAIN queue : i # j => OnlyLoops(queue[i], queue[j])
     /\ \A i \in DOMAIN queue : \A w \in Workers : OnlyLoops(queue[i], work[w].stack)
     /\ \A v, w \in Workers : v # w => OnlyLoops(work[v].stack, work[w].stack)

\* A CA that has been scanned lists the object and has not signed it.
Misplaced(o) == \E c \in CAs : /\ frames[c].state = "loop"
                              /\ o \in Content(frames[c].mft) \ Signed(c)

\* A file whose URI is rejected because of another object, or because of the
\* manifest of another CA.
Shadowed(f) ==
  /\ Uri[f] \in rejected
  /\ \E o \in db : /\ Uri[o] = Uri[f]
                   /\ \/ Misplaced(o)
                      \/ /\ o # f
                         /\ o \in bad \/ \E r \in Crls \cap db : o \in Revoked[r]

\* What is accepted below the trust anchors is listed by the manifest of a CA
\* that is accepted, has been scanned and has signed it.  When launcher()
\* returns and no task has died, the walk has seen all there is: each accepted
\* CA has been scanned, and of its own files that its manifest lists exactly
\* the sound ones have been accepted (WalkFrame, WalkTask, worker).  Excused
\* are a file that arrived after its manifest had been read, and one that is
\* shadowed.
WalkComplete ==
  /\ WalkTypeOK /\ SharedFramesLoop
  /\ \A f \in accepted \ (Manifests \cup Crls \cup TAs) :
       LET c == Issuer[f] IN
       c \in accepted /\ frames[c].state = "loop" /\ f \in Content(frames[c].mft)
  /\ over /\ failed \cap CAs = {} =>
       \A c \in accepted \cap CAs :
         LET fr == frames[c] IN
         /\ fr.state \in {"loop", "empty"} /\ fr.files = {}
         /\ fr.mft # Nothing =>
              \A f \in (Content(fr.mft) \cap Signed(c) \cap db) \ overtaken :
                /\ f \in accepted => Sound(f, fr.crl)
                /\ Sound(f, fr.crl) => f \in accepted \/ Shadowed(f)

\* A CA is scanned only when its publication point has been fetched as far as
\* it can be: the manifest that is used is at least as new as the one that was
\* offered when the run began (Fetcher.needed, fetch and `pending').
FreshScan ==
  \A c \in CAs :
    frames[c].state \in {"loop", "empty"} /\ failed = {} =>
      LET mine == Signed(c) \cap (Manifests \cup Crls)
          then == Versions[Point[c]][1] \cap mine \cap Manifests
      IN mine \cap bad = {} /\ (\A r \in mine \cap Crls : Revoked[r] \cap mine = {}) =>
           \A m \in then : /\ frames[c].mft # Nothing
                           /\ Number[frames[c].mft] >= Number[m]

\* Who needs what another task is fetching waits for it and never fetches it a
\* second time: each fetch that is pending is made by one worker, and whoever
\* waits, waits for a fetch that is being made, even after failed transfers and
\* dead tasks (Fetcher: `history' and `pending').
FetchesAreShared ==
  /\ \A p \in Points : history[p] = "pending" <=>
       \E w \in Workers : work[w].do = "transfer" /\ work[w].at = p
  /\ \A v, w \in Workers : work[v].do = "transfer" /\ work[w].do = "transfer" =>
       v = w \/ work[v].at # work[w].at
  /\ \A w \in Workers : work[w].do = "wait" => history[work[w].at] = "pending"

\* The walk ends: nobody waits for a fetch that nobody makes, and no task is
\* left in the queue, even if fetches fail and tasks die.
WalkEnds == <>over

-----------------------------------------------------------------------------
(***************************************************************************)
(* What makes WalkComplete and FreshScan inductive                         *)
(***************************************************************************)
\* A frame holds what it has chosen as long as it is in its loop.
FramesInv ==
  \A c \in CAs :
    LET fr == frames[c] IN
    IF fr.state = "loop"
    THEN /\ fr.mft \in Manifests \cap db /\ Issuer[fr.mft] = c
         /\ fr.crl \in Crls \cap db
         /\ fr.files \subseteq Content(fr.mft)
    ELSE fr = [NoFrame EXCEPT !.state = fr.state]

\* Below its top, all frames of a stack are in their loops.  A walk that has
\* not begun is that of a trust anchor.
StackOK(fr, s, states) ==
  /\ s # << >> /\ fr[Last(s)].state \in states
  /\ \A c \in ToSet(Front(s)) : fr[c].state = "loop"
  /\ fr[Last(s)].state = "none" => Len(s) = 1 /\ Last(s) \in TAs

TopStates(do) == CASE do = "tal"  -> {"none"}
                   [] do = "walk" -> {"initial", "fetch", "ready", "loop"}
                   [] do = "file" -> {"loop"}
                   [] OTHER       -> {"fetch"}

StacksInv ==
  /\ \A i \in DOMAIN queue : StackOK(frames, queue[i], {"none", "initial", "fetch"})
  /\ \A w \in Workers : work[w].do # "idle" =>
       StackOK(frames, work[w].stack, TopStates(work[w].do))

\* Who waits for a transfer, or makes one, has use for it.
WaitsInv ==
  \A w \in Workers :
    IF work[w].do \in {"wait", "transfer"}
    THEN work[w].at \in Points /\ <<work[w].at, Point[top(w)]>> \in Above
    ELSE work[w].at = Nothing

\* The database has all that p has offered at some time in this run.
Complete(p) == \E i \in DOMAIN Versions[p] : Versions[p][i] \subseteq db

FetchedInv ==
  failed = {} =>
    /\ \A p \in Points : history[p] = "done" => Complete(p)
    /\ \A c \in CAs : frames[c].state \in {"ready", "loop", "empty"} =>
         \E q \in Points : <<q, Point[c]>> \in Above /\ Complete(q)

\* An object on account of which its URI may be rejected.
Culpable(o) ==
  \/ o \in bad \/ Misplaced(o)
  \/ o \in Manifests /\ \E r \in Crls \cap db : Issuer[r] = Issuer[o] /\ o \in Revoked[r]
  \/ \E c \in CAs : /\ frames[c].state = "loop" /\ o \in Content(frames[c].mft) \cap Signed(c)
                    /\ o \in Revoked[frames[c].crl]

RejectedInv == \A u \in rejected : \E o \in db : Uri[o] = u /\ Culpable(o)

\* What has been accepted: the CAs that have a frame, and files that a manifest
\* that is being read lists and its CA has signed; but none of those that are
\* still to be judged.
AcceptedInv ==
  /\ \A c \in CAs : frames[c].state # "none" <=> c \in accepted
  /\ \A f \in accepted \ (Manifests \cup Crls \cup TAs) :
       frames[Issuer[f]].state = "loop" /\ f \in Content(frames[Issuer[f]].mft)
  /\ \A c \in CAs : frames[c].files \cap Signed(c) \cap accepted = {}

\* A file on a manifest is judged by one worker, once.
JudgedInv ==
  \A w \in Workers : work[w].do = "file" =>
    LET f == work[w].file
        c == top(w)
    IN /\ f \in Content(frames[c].mft) \ frames[c].files
       /\ f \in Signed(c) => f \notin accepted
       /\ \A v \in Workers \ {w} : work[v].do = "file" /\ top(v) = c => work[v].file # f

InStack(c) == \/ \E i \in DOMAIN queue : c \in ToSet(queue[i])
              \/ \E w \in Workers : c \in ToSet(work[w].stack)

\* Unless a task has died, somebody goes on with what is not done, and what is
\* done is right.
ScannedInv ==
  /\ over => AllDone
  /\ failed \cap CAs = {} =>
       \A c \in CAs :
         /\ frames[c].state \in {"initial", "fetch", "ready"} \/ frames[c].files # {}
              => InStack(c)
         /\ frames[c].state = "loop" =>
              \A f \in (Content(frames[c].mft) \cap Signed(c) \cap db)
                         \ (overtaken \cup frames[c].files) :
                \/ \E w \in Workers : /\ work[w].do = "file" /\ work[w].file = f
                                       /\ top(w) = c
                \/ /\ f \in accepted => Sound(f, frames[c].crl)
                   /\ Sound(f, frames[c].crl) => f \in accepted \/ Shadowed(f)

TreeInv ==
  /\ FramesInv /\ StacksInv /\ SharedFramesLoop /\ WaitsInv /\ FetchedInv
  /\ RejectedInv /\ AcceptedInv /\ JudgedInv /\ ScannedInv
=============================================================================
