---------------------------- MODULE TaskProofs -----------------------------
(***************************************************************************)
(* Proofs about the two programs that work off a queue of tasks.           *)
(*                                                                         *)
(* Scheduler (rpkid), for every set of Tenant objects, every list of task  *)
(* classes, every number of items and of changes: run_now is told that a   *)
(* task is done only when all that called for work has been attended to,   *)
(* and tasks do not put each other off.                                    *)
(*                                                                         *)
(* Walk (rcynicng), for every number of workers and every tree of CAs and  *)
(* publication points: a walk that ends has seen everything, scans a CA    *)
(* only when its point has been fetched, and fetches nothing twice.        *)
(***************************************************************************)
EXTENDS Scheduler, Walk, FiniteSetTheorems, TLAPS

-----------------------------------------------------------------------------
(***************************************************************************)
(* rpkid's scheduler.                                                      *)
(***************************************************************************)

LEMMA Constants ==
    /\ Items \in Nat \ {0} /\ MaxChanges \in Nat
    /\ Class \subseteq {"UpdateChildren", "UpdateROAs", "Other"}
    /\ Nobody \notin Task
    /\ \A t \in Task : t = <<t[1], t[2]>> /\ t[1] \in Instance /\ t[2] \in Class
    /\ \A item \in Item : item[1] \in Long /\ item[2] \in 1 .. Items
    /\ Long = Class \ {"Other"}
BY ClassAssumption, NumberAssumption DEF Class, ToSet, Task, Item, Long, Nobody

-----------------------------------------------------------------------------
(***************************************************************************)
(* task_add: the queue and task_ready stay in step.                        *)
(***************************************************************************)

Puts == INSTANCE FoldLemmas WITH op <- Put

LEMMA TaskAddFolds ==
    \A q, ts : FoldLeft(Put, q, ts) = Puts!Fold(q, ts)
BY DEF Puts!Fold, FoldLeft, Puts!FoldLeft, MapThenFoldSet, Puts!MapThenFoldSet, Max, Puts!Max

\* A queue without duplicates whose tasks are those of `set', and which has only
\* got some of `more' added to `old'.
GoodQueues(old, more) ==
    {q \in [queue : Seq(Task), ready : SUBSET Task] :
        /\ q.ready = ToSet(q.queue)
        /\ \A j, k \in DOMAIN q.queue : q.queue[j] = q.queue[k] => j = k
        /\ old \subseteq q.ready /\ q.ready \subseteq old \cup more}

LEMMA PutGood ==
    ASSUME NEW old, NEW more, NEW q \in GoodQueues(old, more), NEW t \in Task \cap more
    PROVE  Put(q, t) \in GoodQueues(old, more)
<1>1. CASE t \in q.ready
  BY <1>1 DEF Put
<1>2. CASE t \notin q.ready
  <2> DEFINE s == q.queue
             new == Append(s, t)
  <2>1. s \in Seq(Task) /\ q.ready = ToSet(s)
        /\ \A j, k \in DOMAIN s : s[j] = s[k] => j = k
    BY DEF GoodQueues
  <2>2. Put(q, t) = [queue |-> new, ready |-> q.ready \cup {t}]
    BY <1>2 DEF Put
  <2>3. /\ new \in Seq(Task) /\ DOMAIN new = 1 .. Len(s) + 1 /\ DOMAIN s = 1 .. Len(s)
        /\ Len(s) \in Nat
        /\ \A k \in 1 .. Len(s) : new[k] = s[k]
        /\ new[Len(s) + 1] = t
    BY <2>1
  <2>4. \A k \in 1 .. Len(s) : s[k] # t
    BY <1>2, <2>1, <2>3 DEF ToSet
  <2> HIDE DEF new, s
  <2>5. \A j, k \in DOMAIN new : new[j] = new[k] => j = k
    BY <2>1, <2>3, <2>4
  <2>6. ToSet(new) = ToSet(s) \cup {t}
    BY <2>3 DEF ToSet
  <2>7. q.ready \cup {t} \subseteq old \cup more /\ old \subseteq q.ready \cup {t}
        /\ q.ready \subseteq Task
    BY DEF GoodQueues
  <2>8. [queue |-> new, ready |-> q.ready \cup {t}] \in [queue : Seq(Task), ready : SUBSET Task]
    BY <2>3, <2>7
  <2> DEFINE r == [queue |-> new, ready |-> q.ready \cup {t}]
  <2>9. r.queue = new /\ r.ready = q.ready \cup {t}
    OBVIOUS
  <2>10. /\ r.ready = ToSet(r.queue)
         /\ \A j, k \in DOMAIN r.queue : r.queue[j] = r.queue[k] => j = k
         /\ old \subseteq r.ready /\ r.ready \subseteq old \cup more
    BY <2>1, <2>5, <2>6, <2>7, <2>9
  <2> HIDE DEF r
  <2>11. r \in GoodQueues(old, more)
    BY <2>8, <2>10 DEF GoodQueues, r
  <2> QED BY <2>2, <2>11 DEF r
<1> QED BY <1>1, <1>2

LEMMA TaskAddGood ==
    ASSUME TypeOK, QueueInv, NEW more \in SUBSET Task, NEW ts \in Seq(more), TaskAdd(ts)
    PROVE  /\ task_queue' \in Seq(Task) /\ task_ready' \subseteq Task /\ QueueInv'
           /\ task_ready \subseteq task_ready' /\ task_ready' \subseteq task_ready \cup more
<1> DEFINE q == [queue |-> task_queue, ready |-> task_ready]
           Good == GoodQueues(task_ready, more)
<1>1. q \in Good
  BY DEF GoodQueues, TypeOK, QueueInv
<1>2. \A x \in Good, i \in DOMAIN ts : Put(x, ts[i]) \in Good
  <2> TAKE x \in Good, i \in DOMAIN ts
  <2>1. ts[i] \in Task \cap more
    OBVIOUS
  <2> QED BY <2>1, PutGood
<1> HIDE DEF Good
<1>3. Puts!Fold(q, ts) \in Good
  BY <1>1, <1>2, Puts!FoldInvariant
<1>4. task_queue' = Puts!Fold(q, ts).queue /\ task_ready' = Puts!Fold(q, ts).ready
  BY TaskAddFolds DEF TaskAdd
<1> HIDE DEF q
<1> QED BY <1>3, <1>4 DEF Good, GoodQueues, QueueInv

-----------------------------------------------------------------------------
(***************************************************************************)
(* rpkid's scheduler: the steps.                                           *)
(***************************************************************************)

LEMMA SchedInit == Init => SchedInv
<1> SUFFICES ASSUME Init PROVE SchedInv
  OBVIOUS
<1> USE DEF Init
<1>1. run \in RunType
  BY Constants DEF Idle, RunType
<1>2. TypeOK
  <2>1. /\ awaiting \in [Instance -> SUBSET Class] /\ owed \in [Instance -> SUBSET Item]
        /\ owner \in [Instance -> {"free", "cron", "run_now"}]
        /\ postponed \in [Task -> BOOLEAN]
    OBVIOUS
  <2>2. task_queue \in Seq(Task)
    OBVIOUS
  <2>5. hurried \in BOOLEAN
    BY Zenon
  <2>3. task_ready \subseteq Task /\ doneThis \subseteq Task /\ doneNext \subseteq Task
        /\ stale \subseteq Item
    OBVIOUS
  <2>4. changes \in 0 .. MaxChanges
    <3>1. MaxChanges \in Nat
      BY NumberAssumption
    <3> QED BY <3>1
  <2> HIDE DEF Init
  <2> QED BY <1>1, <2>1, <2>2, <2>3, <2>4, <2>5 DEF TypeOK
<1>3. QueueInv /\ TasksInv
  BY DEF QueueInv, TasksInv, ToSet
<1>4. WalkInv
  BY DEF WalkInv, Idle
<1> QED BY <1>2, <1>3, <1>4 DEF SchedInv, RunNowMeansDone

\* Loading a Tenant object with its tasks.
LEMMA LoadStep ==
    ASSUME SchedInv, NEW i \in Instance, NEW by \in {"cron", "run_now"}, Load(i, by),
           UNCHANGED <<run, stale, hurried, changes>>,
           doneThis' \subseteq Task, doneNext' \subseteq Task,
           \/ UNCHANGED <<awaiting, owed>>
           \/ awaiting' = [awaiting EXCEPT ![i] = Class] /\ owed' = [owed EXCEPT ![i] = stale]
    PROVE  /\ SchedInv'
           /\ \A t \in Task : postponed'[t] => postponed[t]
<1> USE DEF SchedInv, RunNowMeansDone
<1>1. /\ owner[i] = "free" /\ owner' = [owner EXCEPT ![i] = by]
      /\ postponed' = [t \in Task |-> IF t[1] = i THEN FALSE ELSE postponed[t]]
      /\ TaskAdd(CronTasks(i))
  BY DEF Load
<1> DEFINE more == {i} \X Class
<1>2. more \subseteq Task
  BY DEF Task
<1>3. CronTasks(i) \in Seq(more)
  BY ClassAssumption DEF CronTasks, Class, ToSet
<1>4. /\ task_queue' \in Seq(Task) /\ task_ready' \subseteq Task /\ QueueInv'
      /\ task_ready \subseteq task_ready' /\ task_ready' \subseteq task_ready \cup more
  BY <1>1, <1>2, <1>3, TaskAddGood
<1>5. TypeOK'
  <2>1. awaiting' \in [Instance -> SUBSET Class] /\ owed' \in [Instance -> SUBSET Item]
    BY DEF TypeOK
  <2>2. owner' \in [Instance -> {"free", "cron", "run_now"}]
    BY <1>1 DEF TypeOK
  <2>3. postponed' \in [Task -> BOOLEAN]
    BY <1>1 DEF TypeOK
  <2> QED BY <1>4, <2>1, <2>2, <2>3 DEF TypeOK
<1>6. RunNowMeansDone'
  <2>1. CASE UNCHANGED <<awaiting, owed>>
    BY <1>5, <2>1
  <2>2. CASE /\ awaiting' = [awaiting EXCEPT ![i] = Class]
             /\ owed' = [owed EXCEPT ![i] = stale]
    <3>1. \A item \in stale : item[1] \in Class
      BY Constants DEF TypeOK
    <3>2. \A j \in Instance : IF j = i THEN owed'[j] = stale /\ awaiting'[j] = Class
                              ELSE owed'[j] = owed[j] /\ awaiting'[j] = awaiting[j]
      BY <2>2 DEF TypeOK
    <3> QED BY <1>5, <3>1, <3>2
  <2> QED BY <2>1, <2>2
<1>7. \A t \in task_ready : t \in Task /\ t[1] # i
  BY <1>1 DEF TasksInv, TypeOK
<1>8. run # Idle => run.task \in Task /\ run.task[1] # i /\ run.task \notin more
  BY <1>1 DEF TasksInv
<1>9. TasksInv'
  <2>1. \A t \in task_ready' : owner'[t[1]] # "free"
    BY <1>1, <1>4, <1>7, Constants DEF TypeOK, TasksInv
  <2>2. run # Idle => run.task \notin task_ready' /\ owner'[run.task[1]] # "free"
    BY <1>1, <1>4, <1>8, Constants DEF TypeOK, TasksInv
  <2> QED BY <2>1, <2>2 DEF TasksInv
<1>10. WalkInv'
  <2>1. run # Idle => owed'[run.task[1]] = owed[run.task[1]]
    BY <1>8, Constants DEF TypeOK
  <2>2. \A t \in task_ready : ~postponed[t] => t \in task_ready' /\ ~postponed'[t]
    BY <1>1, <1>4 DEF TypeOK
  <2> QED BY <2>1, <2>2 DEF WalkInv, TaskClass
<1>11. \A t \in Task : postponed'[t] => postponed[t]
  BY <1>1
<1> QED BY <1>4, <1>6, <1>9, <1>10, <1>11

LEMMA ForgetStep ==
    ASSUME SchedInv, NEW i \in Instance, Forget(i)
    PROVE  SchedInv'
<1> USE DEF SchedInv, RunNowMeansDone
<1>1. /\ awaiting[i] = {} /\ \A c \in Class : <<i, c>> \notin task_ready \cup {run.task}
      /\ owner' = [owner EXCEPT ![i] = "free"] /\ owed' = [owed EXCEPT ![i] = {}]
      /\ UNCHANGED <<task_queue, task_ready, postponed, doneThis, doneNext, run, stale,
                     awaiting, hurried, changes>>
  BY DEF Forget, taskVars
<1>2. RunNowMeansDone'
  BY <1>1 DEF TypeOK
<1>3. \A t \in task_ready : t \in Task /\ t[1] # i
  BY <1>1, Constants DEF TypeOK
<1>4. run # Idle => run.task \in Task /\ run.task[1] # i
  BY <1>1, Constants DEF TasksInv
<1>5. TasksInv'
  BY <1>1, <1>3, <1>4, Constants DEF TasksInv, TypeOK
<1>6. run # Idle => owed'[run.task[1]] = owed[run.task[1]]
  BY <1>1, <1>4, Constants DEF TypeOK
<1>7. WalkInv'
  BY <1>1, <1>6 DEF WalkInv, TaskClass
<1> QED BY <1>1, <1>2, <1>5, <1>7 DEF QueueInv

LEMMA StartStep ==
    ASSUME SchedInv, Start
    PROVE  SchedInv' /\ \A t \in Task : postponed'[t] => postponed[t]
<1> USE DEF SchedInv, RunNowMeansDone
<1> DEFINE t == Head(task_queue)
<1>1. /\ run = Idle /\ task_queue # <<>>
      /\ task_queue' = Tail(task_queue) /\ task_ready' = task_ready \ {t}
      /\ postponed' = [postponed EXCEPT ![t] = FALSE]
      /\ run' = [Idle EXCEPT !.task = t, !.at = "query"]
      /\ UNCHANGED <<doneThis, doneNext, stale, owner, awaiting, owed, hurried, changes>>
  BY DEF Start, historyVars
<1>2. /\ task_queue \in Seq(Task) /\ Len(task_queue) \in Nat \ {0}
      /\ DOMAIN task_queue = 1 .. Len(task_queue)
      /\ t = task_queue[1]
      /\ DOMAIN task_queue' = 1 .. Len(task_queue) - 1
      /\ \A k \in 1 .. Len(task_queue) - 1 : task_queue'[k] = task_queue[k + 1]
      /\ task_queue' \in Seq(Task)
  BY <1>1 DEF TypeOK
<1>3. t \in Task /\ t \in task_ready
  BY <1>2 DEF QueueInv, ToSet
<1>4. \A k \in 2 .. Len(task_queue) : task_queue[k] # t
  BY <1>2 DEF QueueInv
<1>5. QueueInv'
  <2>1. \A j, k \in DOMAIN task_queue' : task_queue'[j] = task_queue'[k] => j = k
    <3> SUFFICES ASSUME NEW j \in 1 .. Len(task_queue) - 1, NEW k \in 1 .. Len(task_queue) - 1,
                        task_queue[j + 1] = task_queue[k + 1]
                 PROVE  j = k
      BY <1>2
    <3>1. j + 1 \in DOMAIN task_queue /\ k + 1 \in DOMAIN task_queue
      BY <1>2
    <3>2. j + 1 = k + 1
      BY <3>1 DEF QueueInv
    <3> QED BY <3>2
  <2>2. ASSUME NEW u \in ToSet(task_queue') PROVE u \in task_ready \ {t}
    <3>1. PICK k \in 1 .. Len(task_queue) - 1 : u = task_queue[k + 1]
      BY <1>2, <2>2 DEF ToSet
    <3> QED BY <1>2, <1>4, <3>1 DEF QueueInv, ToSet
  <2>3. ASSUME NEW u \in task_ready \ {t} PROVE u \in ToSet(task_queue')
    <3>1. PICK k \in 1 .. Len(task_queue) : u = task_queue[k]
      BY <1>2 DEF QueueInv, ToSet
    <3>2. k - 1 \in 1 .. Len(task_queue) - 1 /\ task_queue'[k - 1] = u
      BY <1>2, <3>1
    <3> QED BY <1>2, <3>2 DEF ToSet
  <2> QED BY <1>1, <2>1, <2>2, <2>3 DEF QueueInv
<1>6. run' \in RunType /\ run'.task = t /\ run'.at = "query" /\ run'.pos = 0
      /\ ~run'.postponing /\ run' # Idle
  <2>1. run' = [task |-> t, at |-> "query", pos |-> 0, late |-> FALSE,
                progress |-> FALSE, postponing |-> FALSE, missed |-> {}]
    BY <1>1 DEF Idle
  <2>2. run' \in RunType
    BY <1>3, <2>1, Constants DEF RunType
  <2> QED BY <2>1, <2>2 DEF Idle
<1>7. TypeOK'
  BY <1>1, <1>2, <1>3, <1>6 DEF TypeOK
<1>8. TasksInv'
  BY <1>1, <1>3, <1>6 DEF TasksInv
<1>9. \A item \in owed[t[1]] : item[2] > 0
  <2>1. owed[t[1]] \subseteq Item
    BY <1>3, Constants DEF TypeOK
  <2> QED BY <2>1, Constants
<1>10. WalkInv'
  BY <1>1, <1>6, <1>9 DEF WalkInv
<1>11. RunNowMeansDone'
  BY <1>1, <1>7
<1> QED BY <1>1, <1>5, <1>8, <1>10, <1>11 DEF TypeOK

LEMMA LateStep ==
    ASSUME SchedInv, Late
    PROVE  SchedInv' /\ postponed' = postponed
<1> USE DEF SchedInv, RunNowMeansDone
<1>1. /\ run # Idle /\ run' = [run EXCEPT !.late = TRUE]
      /\ hurried' \in BOOLEAN
      /\ UNCHANGED <<task_queue, task_ready, postponed, doneThis, doneNext, stale, owner,
                     awaiting, owed, changes>>
  BY DEF Late, taskVars, TypeOK, RunType
<1>2. run \in RunType
  BY DEF TypeOK
<1>3. /\ run' \in RunType /\ run'.task = run.task /\ run'.at = run.at /\ run'.pos = run.pos
      /\ run'.postponing = run.postponing /\ run' # Idle
  BY <1>1, <1>2 DEF RunType, Idle
<1>4. TypeOK'
  BY <1>1, <1>3 DEF TypeOK
<1>5. QueueInv' /\ TasksInv'
  BY <1>1, <1>3 DEF QueueInv, TasksInv
<1>6. WalkInv'
  BY <1>1, <1>3 DEF WalkInv, TaskClass
<1> QED BY <1>1, <1>4, <1>5, <1>6

LEMMA ChangeStep ==
    ASSUME SchedInv, NEW item \in Item, Change(item)
    PROVE  SchedInv' /\ postponed' = postponed
<1> USE DEF SchedInv, RunNowMeansDone
<1> DEFINE missed == IF run.at \in {"check", "publish"}
                     THEN run.missed \cup {item} ELSE run.missed
<1>1. /\ changes < MaxChanges /\ changes' = changes + 1 /\ stale' = stale \cup {item}
      /\ run' = [run EXCEPT !.missed = missed]
      /\ UNCHANGED <<task_queue, task_ready, postponed, doneThis, doneNext, owner,
                     awaiting, owed, hurried>>
  BY DEF Change, taskVars
<1>2. changes' \in 0 .. MaxChanges
  BY <1>1, NumberAssumption DEF TypeOK
<1>3. run \in RunType
  BY DEF TypeOK
<1>4. missed \in SUBSET Item
  BY <1>3 DEF RunType
<1>5. run = Idle => missed = run.missed
  BY DEF Idle
<1> HIDE DEF missed
<1>6. /\ run' \in RunType /\ run'.task = run.task /\ run'.at = run.at /\ run'.pos = run.pos
      /\ run'.postponing = run.postponing
  BY <1>1, <1>3, <1>4 DEF RunType
<1>7. run' = Idle <=> run = Idle
  <2>1. run = Idle => run' = run
    BY <1>1, <1>3, <1>5 DEF RunType
  <2>2. run' = Idle => run.at = "idle"
    BY <1>6 DEF Idle
  <2> QED BY <2>1, <2>2 DEF WalkInv
<1>8. TypeOK'
  BY <1>1, <1>2, <1>6 DEF TypeOK
<1>9. QueueInv' /\ TasksInv'
  BY <1>1, <1>6, <1>7 DEF QueueInv, TasksInv
<1>10. WalkInv'
  BY <1>1, <1>6, <1>7 DEF WalkInv, TaskClass
<1> QED BY <1>1, <1>8, <1>9, <1>10

\* A step of the walk: the run goes on, the queue is left alone.
LEMMA HandleStep ==
    ASSUME SchedInv, NEW ok \in BOOLEAN, run # Idle, ~run.postponing, run.pos < Items,
           Handle(ok)
    PROVE  SchedInv' /\ postponed' = postponed
<1> USE DEF SchedInv, RunNowMeansDone
<1> DEFINE k == run.pos + 1
           item == <<TaskClass, k>>
           at == After(k)
           more == run.progress \/ (ok /\ item \in stale)
<1>1. /\ run' = [run EXCEPT !.pos = k, !.at = at, !.progress = more]
      /\ stale' \subseteq stale
      /\ owed' = [owed EXCEPT ![run.task[1]] = @ \ {item}]
      /\ UNCHANGED <<task_queue, task_ready, postponed, doneThis, doneNext, owner, awaiting,
                     hurried, changes>>
  BY DEF Handle, taskVars
<1>2. run \in RunType /\ at \in {"publish", "check"}
      /\ (at = "publish" => k = Items)
  BY DEF TypeOK, After, RunType
<1>12. more \in BOOLEAN
  BY Zenon
<1> HIDE DEF at, more
<1>3. k \in 0 .. Items /\ run.pos \in 0 .. Items
  <2>1. run.pos \in 0 .. Items
    BY <1>2 DEF RunType
  <2> QED BY <2>1, NumberAssumption
<1>4. /\ run' \in RunType /\ run'.task = run.task /\ run'.at = at /\ run'.pos = k
      /\ ~run'.postponing /\ run' # Idle
  <2>1. run' \in RunType
    BY <1>1, <1>2, <1>3, <1>12 DEF RunType
  <2>2. /\ run'.task = run.task /\ run'.at = at /\ run'.pos = k
        /\ run'.postponing = run.postponing
    BY <1>1, <1>2 DEF RunType
  <2> QED BY <1>2, <2>1, <2>2 DEF Idle
<1>9. run.task[1] \in Instance
  BY Constants DEF TasksInv
<1>5. /\ \A i \in Instance : owed'[i] \subseteq owed[i]
      /\ item \notin owed'[run.task[1]]
      /\ owed' \in [Instance -> SUBSET Item]
  BY <1>1, <1>9 DEF TypeOK
<1>6. TypeOK'
  BY <1>1, <1>4, <1>5 DEF TypeOK
<1>7. RunNowMeansDone'
  BY <1>1, <1>5, <1>6
<1>8. QueueInv' /\ TasksInv'
  BY <1>1, <1>4 DEF QueueInv, TasksInv
<1>10. ASSUME NEW x \in owed'[run.task[1]], x[1] = TaskClass PROVE x[2] > k
  <2>1. x \in owed[run.task[1]] /\ x # item
    BY <1>5, <1>9, <1>10
  <2>2. x = <<x[1], x[2]>> /\ x[2] \in 1 .. Items
    BY <2>1, <1>9 DEF TypeOK, Item
  <2>3. x[2] > run.pos
    BY <2>1, <1>10 DEF WalkInv
  <2>4. x[2] # k
    BY <2>1, <2>2, <1>10
  <2> QED BY <2>2, <2>3, <2>4, <1>3
<1>11. WalkInv'
  <2>1. run' # Idle /\ run'.at # "idle" /\ run'.at # "query"
    BY <1>2, <1>4
  <2>2. TaskClass' = TaskClass
    BY <1>4 DEF TaskClass
  <2>3. run'.at = "publish" => run'.pos = Items
    BY <1>2, <1>4
  <2>4. \A x \in owed'[run'.task[1]] : x[1] = TaskClass' => x[2] > run'.pos
    BY <1>4, <1>10, <2>2
  <2> QED BY <1>4, <2>1, <2>3, <2>4 DEF WalkInv
<1> QED BY <1>1, <1>7, <1>8, <1>11

\* The run goes on without an item.
LEMMA GoOnStep ==
    ASSUME SchedInv, run # Idle,
           UNCHANGED <<taskVars, stale, owner, awaiting, historyVars>>,
           \/ run' = [run EXCEPT !.at = "check"] /\ ~run.postponing
           \/ run' = [run EXCEPT !.at = "publish"] /\ run.pos = Items /\ ~run.postponing
           \/ run' = [run EXCEPT !.at = "publish", !.postponing = TRUE] /\ Overdue
    PROVE  SchedInv' /\ postponed' = postponed
<1> USE DEF SchedInv, RunNowMeansDone
<1>1. UNCHANGED <<task_queue, task_ready, postponed, doneThis, doneNext, stale, owner,
                  awaiting, owed, hurried, changes>>
  BY DEF taskVars, historyVars
<1>2. run \in RunType
  BY DEF TypeOK
<1>3. /\ run' \in RunType /\ run'.task = run.task /\ run'.pos = run.pos
      /\ run'.at \in {"check", "publish"}
      /\ run'.at = "publish" /\ ~run'.postponing => run.pos = Items
      /\ run'.postponing => run'.at = "publish" /\ \E t \in task_ready : ~postponed[t]
      /\ run' # Idle
  <2>1. run' \in RunType
    BY <1>2 DEF RunType
  <2>2. run'.task = run.task /\ run'.pos = run.pos /\ run'.at \in {"check", "publish"}
    BY <1>2 DEF RunType
  <2>3. /\ run'.at = "publish" /\ ~run'.postponing => run.pos = Items
        /\ run'.postponing => run'.at = "publish" /\ Overdue
    BY <1>2 DEF RunType
  <2> QED BY <2>1, <2>2, <2>3 DEF Idle, Overdue
<1>4. TypeOK'
  BY <1>1, <1>3 DEF TypeOK
<1>5. QueueInv' /\ TasksInv'
  BY <1>1, <1>3 DEF QueueInv, TasksInv
<1>6. WalkInv'
  BY <1>1, <1>3 DEF WalkInv, TaskClass, Idle
<1> QED BY <1>1, <1>4, <1>5, <1>6

\* The end of a run, when nothing is owed in its class any more.
LEMMA EndStep ==
    ASSUME SchedInv, run # Idle, End(FALSE),
           owed' \in [Instance -> SUBSET Item],
           \A i \in Instance : owed'[i] \subseteq owed[i],
           \A item \in owed'[run.task[1]] : item[1] # TaskClass
    PROVE  SchedInv' /\ postponed' = postponed
<1> USE DEF SchedInv, RunNowMeansDone
<1> DEFINE t == run.task
           rest == IF t \in doneThis THEN awaiting[t[1]] \ {t[2]} ELSE awaiting[t[1]]
<1>1. /\ run' = Idle /\ awaiting' = [awaiting EXCEPT ![t[1]] = rest]
      /\ doneThis' = (doneThis \ {t}) \cup (doneNext \cap {t})
      /\ doneNext' = doneNext \ {t}
      /\ UNCHANGED <<task_queue, task_ready, postponed, stale, owner, hurried, changes>>
  BY DEF End
<1>2. t \in Task /\ t[1] \in Instance /\ t[2] = TaskClass
  BY Constants DEF TasksInv, TaskClass
<1> HIDE DEF rest
<1>3. \A i \in Instance : awaiting'[i] = IF i = t[1] THEN rest ELSE awaiting[i]
  BY <1>1 DEF TypeOK
<1>4. awaiting[t[1]] \ {t[2]} \subseteq rest /\ rest \subseteq awaiting[t[1]]
  BY DEF rest
<1>5. awaiting' \in [Instance -> SUBSET Class]
  BY <1>1, <1>2, <1>4 DEF TypeOK
<1>6. Idle \in RunType
  BY Constants DEF Idle, RunType
<1>7. TypeOK'
  BY <1>1, <1>5, <1>6 DEF TypeOK
<1>8. ASSUME NEW i \in Instance, NEW item \in owed'[i] PROVE item[1] \in awaiting'[i]
  <2>1. item[1] \in awaiting[i]
    BY <1>8
  <2>2. CASE i = t[1]
    BY <1>2, <1>3, <1>4, <1>8, <2>1, <2>2
  <2> QED BY <1>3, <2>1, <2>2
<1>9. QueueInv' /\ TasksInv'
  BY <1>1 DEF QueueInv, TasksInv
<1>10. WalkInv'
  BY <1>1 DEF WalkInv, Idle
<1> QED BY <1>1, <1>7, <1>8, <1>9, <1>10

\* The end of a run that is put off.
LEMMA PostponeStep ==
    ASSUME SchedInv, run # Idle, run.postponing, End(TRUE), owed' = owed
    PROVE  /\ SchedInv'
           /\ \E u \in task_ready' : ~postponed'[u]
<1> USE DEF SchedInv, RunNowMeansDone
<1> DEFINE t == run.task
<1>1. /\ run' = Idle /\ postponed' = [postponed EXCEPT ![t] = TRUE]
      /\ TaskAdd(<<t>>)
      /\ UNCHANGED <<doneThis, doneNext, awaiting, stale, owner, hurried, changes>>
  BY DEF End
<1>2. t \in Task \ task_ready /\ owner[t[1]] # "free"
  BY DEF TasksInv
<1>3. {t} \in SUBSET Task /\ <<t>> \in Seq({t})
  BY <1>2
<1>4. /\ task_queue' \in Seq(Task) /\ task_ready' \subseteq Task /\ QueueInv'
      /\ task_ready \subseteq task_ready' /\ task_ready' \subseteq task_ready \cup {t}
  BY <1>1, <1>3, TaskAddGood
<1>5. Idle \in RunType
  BY Constants DEF Idle, RunType
<1>6. TypeOK'
  BY <1>1, <1>4, <1>5 DEF TypeOK
<1>7. TasksInv'
  BY <1>1, <1>2, <1>4 DEF TasksInv
<1>8. WalkInv'
  BY <1>1 DEF WalkInv, Idle
<1>9. PICK u \in task_ready : ~postponed[u]
  BY DEF WalkInv
<1>10. u \in task_ready' /\ ~postponed'[u]
  BY <1>1, <1>2, <1>4, <1>9 DEF TypeOK
<1> QED BY <1>1, <1>4, <1>6, <1>7, <1>8, <1>10

-----------------------------------------------------------------------------
(***************************************************************************)
(* rpkid's scheduler: the theorems.                                        *)
(***************************************************************************)

\* A step keeps the invariant, and puts a task off only in favour of another.
GivesWayStep ==
    \A t \in Task : ~postponed[t] /\ postponed'[t] => \E u \in task_ready' : ~postponed'[u]

LEMMA SchedNext ==
    ASSUME SchedInv, [Next]_vars
    PROVE  SchedInv' /\ GivesWayStep
<1> USE DEF GivesWayStep
<1>1. TypeOK /\ run \in RunType
  BY DEF SchedInv, RunNowMeansDone, TypeOK
<1>2. ASSUME NEW i \in Instance, CronRun(i) PROVE SchedInv' /\ GivesWayStep
  <2>1. /\ Load(i, "cron") /\ UNCHANGED <<run, stale, hurried, changes, awaiting, owed>>
        /\ doneThis' \subseteq Task /\ doneNext' \subseteq Task
    BY <1>1, <1>2 DEF CronRun, historyVars, TypeOK
  <2> QED BY <2>1, LoadStep
<1>3. ASSUME NEW i \in Instance, RunNow(i) PROVE SchedInv' /\ GivesWayStep
  <2>1. {i} \X Class \subseteq Task
    BY DEF Task
  <2>2. /\ Load(i, "run_now") /\ UNCHANGED <<run, stale, hurried, changes>>
        /\ awaiting' = [awaiting EXCEPT ![i] = Class] /\ owed' = [owed EXCEPT ![i] = stale]
        /\ doneThis' \subseteq Task /\ doneNext' \subseteq Task
    BY <1>1, <1>3, <2>1 DEF RunNow, Wait, TypeOK
  <2> QED BY <2>2, LoadStep
<1>4. ASSUME NEW i \in Instance, Forget(i) PROVE SchedInv' /\ GivesWayStep
  <2>1. postponed' = postponed
    BY <1>4 DEF Forget, taskVars
  <2> QED BY <1>4, <2>1, ForgetStep
<1>5. ASSUME NEW item \in Item, Change(item) PROVE SchedInv' /\ GivesWayStep
  BY <1>5, ChangeStep
<1>6. CASE Late
  BY <1>6, LateStep
<1>7. CASE Start
  BY <1>7, StartStep
<1>8. ASSUME run.at # "idle" PROVE run # Idle
  BY <1>8 DEF Idle
<1>9. run # Idle => /\ run.task \in Task /\ run.task[1] \in Instance
                    /\ owed \in [Instance -> SUBSET Item]
  BY <1>1, Constants DEF SchedInv, TasksInv, TypeOK
<1>10. ASSUME run.at = "query" PROVE run # Idle /\ ~run.postponing /\ run.pos < Items
  BY <1>1, <1>8, <1>10, NumberAssumption DEF SchedInv, WalkInv
<1>11. ASSUME run # Idle, End(FALSE),
              owed' = [owed EXCEPT ![run.task[1]] = {item \in @ : item[1] # TaskClass}]
       PROVE  SchedInv' /\ GivesWayStep
  <2>1. /\ owed' \in [Instance -> SUBSET Item]
        /\ \A i \in Instance : owed'[i] \subseteq owed[i]
        /\ \A item \in owed'[run.task[1]] : item[1] # TaskClass
    BY <1>9, <1>11
  <2> QED BY <2>1, <1>11, EndStep
<1>12. CASE Queried
  <2>1. run.at = "query"
    BY <1>12 DEF Queried
  <2>2. ASSUME NEW ok \in BOOLEAN, Handle(ok) PROVE SchedInv' /\ GivesWayStep
    BY <2>1, <2>2, <1>10, HandleStep
  <2>3. ASSUME TaskClass = "Other", End(FALSE), owed' = owed PROVE SchedInv' /\ GivesWayStep
    <3>1. \A item \in owed[run.task[1]] : item[1] # TaskClass
      BY <2>1, <2>3, <1>9, <1>10, Constants
    <3> QED BY <2>1, <2>3, <3>1, <1>9, <1>10, EndStep
  <2>4. ASSUME run' = [run EXCEPT !.at = "check"],
               UNCHANGED <<taskVars, stale, owner, awaiting, historyVars>>
        PROVE  SchedInv' /\ GivesWayStep
    BY <2>1, <2>4, <1>10, GoOnStep
  <2> QED BY <1>12, <2>2, <2>3, <2>4 DEF Queried
<1>13. CASE QueryFails
  BY <1>13, <1>10, <1>11 DEF QueryFails
<1>14. CASE Check
  <2>1. run.at = "check"
    BY <1>14 DEF Check
  <2>2. run # Idle /\ ~run.postponing
    BY <1>1, <2>1, <1>8 DEF SchedInv, WalkInv, RunType
  <2>3. ASSUME NEW ok \in BOOLEAN, run.pos < Items, Handle(ok)
        PROVE  SchedInv' /\ GivesWayStep
    BY <2>2, <2>3, HandleStep
  <2>4. ASSUME UNCHANGED <<taskVars, stale, owner, awaiting, historyVars>>,
               \/ run' = [run EXCEPT !.at = "publish"] /\ run.pos = Items
               \/ run' = [run EXCEPT !.at = "publish", !.postponing = TRUE] /\ Overdue
        PROVE  SchedInv' /\ GivesWayStep
    BY <2>2, <2>4, GoOnStep
  <2> QED BY <1>14, <2>3, <2>4 DEF Check
<1>15. ASSUME run.at = "publish", End(run.postponing), owed' = owed
       PROVE  SchedInv' /\ GivesWayStep
  <2>1. run # Idle /\ run.postponing \in BOOLEAN
    BY <1>1, <1>8, <1>15 DEF RunType
  <2>2. CASE run.postponing
    BY <1>15, <2>1, <2>2, PostponeStep
  <2>3. CASE ~run.postponing
    <3>1. \A item \in owed[run.task[1]] : item[1] # TaskClass
      <4>1. run.pos = Items
        BY <1>15, <2>3 DEF SchedInv, WalkInv
      <4>2. \A item \in owed[run.task[1]] : item[2] \in 1 .. Items
        BY <1>9, <2>1, Constants
      <4> QED BY <4>1, <4>2, <2>1, NumberAssumption DEF SchedInv, WalkInv
    <3>2. End(FALSE)
      BY <1>15, <2>1, <2>3
    <3> QED BY <1>15, <2>1, <3>1, <3>2, <1>9, EndStep
  <2> QED BY <2>1, <2>2, <2>3
<1>16. CASE Published
  BY <1>15, <1>16 DEF Published
<1>17. CASE PublishFails
  <2>1. run # Idle
    BY <1>8, <1>17 DEF PublishFails
  <2> QED BY <2>1, <1>11, <1>15, <1>17 DEF PublishFails
<1>18. CASE UNCHANGED vars
  BY <1>18 DEF vars, taskVars, historyVars, SchedInv, RunNowMeansDone, TypeOK, QueueInv,
               TasksInv, WalkInv, TaskClass
<1> QED
  BY <1>2, <1>3, <1>4, <1>5, <1>6, <1>7, <1>12, <1>13, <1>14, <1>16, <1>17, <1>18
  DEF Next, TaskLoop

\* SchedInv holds in every reachable state of the task loop.
THEOREM SchedulerInvariant == Spec => []SchedInv
<1>1. SchedInv /\ [Next]_vars => SchedInv'
  BY SchedNext
<1> QED BY <1>1, SchedInit, PTL DEF Spec

\* When run_now hears that a task is done, that task has attended to all that called
\* for work when run_now was asked for.
THEOREM RunNowIsDone == Spec => []RunNowMeansDone
<1>1. SchedInv => RunNowMeansDone
  BY DEF SchedInv
<1> QED BY <1>1, SchedulerInvariant, PTL

\* A task is put off only in favour of one that has not yet had its turn.
THEOREM TasksGiveWay == Spec => GivesWay
<1>1. SchedInv /\ [Next]_vars
      => [\A t \in Task : ~postponed[t] /\ postponed'[t]
             => \E u \in task_ready' : ~postponed'[u]]_vars
  BY SchedNext DEF GivesWayStep
<1> QED BY <1>1, SchedulerInvariant, PTL DEF Spec, GivesWay

-----------------------------------------------------------------------------
(***************************************************************************)
(* rcynicng's walk: stacks, and the types of the variables.                *)
(***************************************************************************)

Stack == Seq(CAs)

LEMMA StackFacts ==
    ASSUME NEW s \in Stack, s # << >>
    PROVE  /\ Last(s) \in CAs /\ Front(s) \in Stack
           /\ ToSet(s) = ToSet(Front(s)) \cup {Last(s)}
           /\ Front(s) # << >> => Last(Front(s)) \in ToSet(Front(s))
<1>1. /\ Len(s) \in Nat /\ Len(s) >= 1 /\ DOMAIN s = 1 .. Len(s)
      /\ \A i \in 1 .. Len(s) : s[i] \in CAs
  BY DEF Stack
<1>2. /\ Front(s) \in Stack /\ Len(Front(s)) = Len(s) - 1 /\ DOMAIN Front(s) = 1 .. Len(s) - 1
      /\ \A i \in 1 .. Len(s) - 1 : Front(s)[i] = s[i]
  BY <1>1 DEF Front, Stack
<1>3. Last(s) = s[Len(s)] /\ Last(s) \in CAs
  BY <1>1 DEF Last
<1>4. ToSet(s) = ToSet(Front(s)) \cup {Last(s)}
  <2>1. \A c \in ToSet(s) : c \in ToSet(Front(s)) \/ c = Last(s)
    <3> TAKE c \in ToSet(s)
    <3>1. PICK i \in 1 .. Len(s) : c = s[i]
      BY <1>1 DEF ToSet
    <3>2. CASE i = Len(s)
      BY <3>1, <3>2, <1>3
    <3>3. CASE i # Len(s)
      <4>1. i \in 1 .. Len(s) - 1
        <5>1. Len(s) \in Nat /\ i \in 1 .. Len(s)
          BY <1>1
        <5> QED BY <5>1, <3>3
      <4> QED BY <4>1, <3>1, <1>2 DEF ToSet
    <3> QED BY <3>2, <3>3
  <2>2. \A c \in ToSet(Front(s)) : c \in ToSet(s)
    BY <1>1, <1>2 DEF ToSet
  <2>3. Last(s) \in ToSet(s)
    BY <1>1, <1>3 DEF ToSet
  <2> QED BY <2>1, <2>2, <2>3
<1>5. Front(s) # << >> => Last(Front(s)) \in ToSet(Front(s))
  <2> SUFFICES ASSUME Front(s) # << >> PROVE Last(Front(s)) \in ToSet(Front(s))
    OBVIOUS
  <2>1. Len(Front(s)) \in DOMAIN Front(s)
    BY <1>1, <1>2 DEF Stack
  <2> QED BY <2>1 DEF Last, ToSet
<1> QED BY <1>2, <1>3, <1>4, <1>5

LEMMA PushFacts ==
    ASSUME NEW s \in Stack, NEW c \in CAs
    PROVE  /\ Append(s, c) \in Stack /\ Append(s, c) # << >>
           /\ Last(Append(s, c)) = c /\ Front(Append(s, c)) = s
           /\ ToSet(Append(s, c)) = ToSet(s) \cup {c}
           /\ Len(Append(s, c)) = Len(s) + 1 /\ Len(s) \in Nat
<1> DEFINE a == Append(s, c)
<1>1. /\ a \in Stack /\ Len(a) = Len(s) + 1 /\ Len(s) \in Nat
      /\ DOMAIN a = 1 .. Len(s) + 1 /\ a[Len(s) + 1] = c
      /\ \A i \in 1 .. Len(s) : a[i] = s[i]
  BY DEF Stack
<1> HIDE DEF a
<1>2. a # << >>
  BY <1>1
<1>3. Last(a) = c
  BY <1>1 DEF Last
<1>4. Front(a) = s
  <2>1. /\ Front(a) \in Stack /\ Len(Front(a)) = Len(s)
        /\ \A i \in 1 .. Len(s) : Front(a)[i] = s[i]
    BY <1>1 DEF Front, Stack
  <2> QED BY <2>1 DEF Stack
<1>5. ToSet(a) = ToSet(s) \cup {c}
  BY <1>1, <1>2, <1>3, <1>4, StackFacts
<1> QED BY <1>1, <1>2, <1>3, <1>4, <1>5 DEF a

LEMMA ShortStack ==
    ASSUME NEW s \in Stack, Len(s) = 1
    PROVE  Front(s) = << >> /\ s = <<Last(s)>> /\ ToSet(s) = {Last(s)}
<1>1. s = <<s[1]>> /\ DOMAIN s = {1}
  BY DEF Stack
<1>2. Front(s) = << >>
  BY DEF Front, Stack
<1> QED BY <1>1, <1>2 DEF Last, ToSet

Job == [do : {"idle", "tal", "walk", "file", "wait", "transfer"}, stack : Stack,
        file : Objects \cup {Nothing, "some"}, at : Points \cup {Nothing}]

JobsOK(jobs) ==
  /\ jobs \in [Workers -> Job]
  /\ \A w \in Workers : jobs[w].do = "idle" <=> jobs[w].stack = << >>

\* What WalkTypeOK says of them, and the rest of the types.
WalkTypes ==
  /\ db \subseteq Objects /\ accepted \subseteq db
  /\ version \in [Points -> Nat] /\ \A p \in Points : version[p] \in DOMAIN Versions[p]
  /\ history \in [Points -> {"none", "pending", "done"}]
  /\ frames \in [CAs -> Frame]
  /\ queue \in Seq(Stack) /\ \A i \in DOMAIN queue : queue[i] # << >>
  /\ JobsOK(work)

LEMMA FreeFacts ==
    /\ Free \in Job /\ Free.do = "idle" /\ Free.stack = << >> /\ Free.file = Nothing
    /\ Free.at = Nothing
BY DEF Free, Job, Stack

LEMMA GoingFacts ==
    ASSUME NEW s \in Stack
    PROVE  /\ Going(s) \in Job /\ Going(s).stack = s
           /\ Going(s).at = Nothing /\ Going(s).file = Nothing
           /\ Going(s).do = IF s = << >> THEN "idle" ELSE "walk"
<1>1. CASE s = << >>
  BY <1>1, FreeFacts DEF Going
<1>2. CASE s # << >>
  BY <1>2 DEF Going, Free, Job
<1> QED BY <1>1, <1>2

LEMMA ClosestExists ==
    \A p \in Points :
      LET above == {q \in Points : <<q, p>> \in Above /\ history[q] # "none"}
      IN  above # {} => /\ _rsync_find(p) \in above
                        /\ _rsync_find(p) # Nothing
<1> TAKE p \in Points
<1> DEFINE above == {q \in Points : <<q, p>> \in Above /\ history[q] # "none"}
           Best(q) == \A r \in above : <<q, r>> \in Above
<1> SUFFICES ASSUME above # {} PROVE _rsync_find(p) \in above /\ _rsync_find(p) # Nothing
  OBVIOUS
<1>1. above \in SUBSET {q \in Points : <<q, p>> \in Above}
  OBVIOUS
<1>2. _rsync_find(p) = CHOOSE q \in above : Best(q)
  BY DEF _rsync_find
<1> HIDE DEF above
<1>3. \E q \in above : Best(q)
  BY <1>1, DirectoriesAssumption
<1> HIDE DEF Best
<1>4. (CHOOSE q \in above : Best(q)) \in above
  BY <1>3
<1>5. _rsync_find(p) \in above
  BY <1>2, <1>4
<1>6. above \subseteq Points
  BY <1>1
<1> QED BY <1>5, <1>6, WorldAssumption

\* What has begun or ended above p is found, and is above p.
LEMMA EntryFacts ==
    ASSUME NEW p \in Points
    PROVE  /\ entry(p) = Nothing \/ (entry(p) \in Points /\ <<entry(p), p>> \in Above)
           /\ known(p) # "none" => entry(p) # Nothing
           /\ known(p) = "none" => \/ p \in Https
                                   \/ \A q \in Points : <<q, p>> \in Above => history[q] = "none"
<1> DEFINE above == {q \in Points : <<q, p>> \in Above /\ history[q] # "none"}
<1>1. CASE p \in Https
  BY <1>1, WorldAssumption, DirectoriesAssumption DEF entry, known
<1>2. CASE p \notin Https /\ above = {}
  <2>1. entry(p) = Nothing
    BY <1>2 DEF entry, _rsync_find
  <2> QED BY <1>2, <2>1 DEF known
<1>3. CASE p \notin Https /\ above # {}
  <2>1. entry(p) \in above /\ entry(p) # Nothing
    BY <1>3, ClosestExists DEF entry
  <2> QED BY <1>3, <2>1 DEF known
<1> QED BY <1>1, <1>2, <1>3

\* The newest of some manifests or CRLs.
LEMMA NewestFacts ==
    \A S \in SUBSET (Manifests \cup Crls) : S # {} =>
      Newest(S) \in S /\ \A q \in S : Number[q] <= Number[Newest(S)]
<1> DEFINE Best(S, o) == \A q \in S : Number[q] <= Number[o]
           T == {n \in Nat : \A S \in SUBSET (Manifests \cup Crls) :
                   IsFiniteSet(S) /\ Cardinality(S) = n /\ S # {} => \E o \in S : Best(S, o)}
<1>1. 0 \in T
  BY FS_EmptySet
<1>2. ASSUME NEW n \in Nat, n \in T PROVE n + 1 \in T
  <2> SUFFICES ASSUME NEW S \in SUBSET (Manifests \cup Crls), IsFiniteSet(S),
                      Cardinality(S) = n + 1, S # {}
               PROVE  \E o \in S : Best(S, o)
    OBVIOUS
  <2>1. PICK x \in S : TRUE
    OBVIOUS
  <2> DEFINE R == S \ {x}
  <2>2. IsFiniteSet(R) /\ Cardinality(R) = n
    BY <2>1, FS_RemoveElement
  <2>3. \A q \in S : Number[q] \in Nat
    BY WorldAssumption
  <2>4. CASE R = {}
    BY <2>1, <2>3, <2>4
  <2>5. CASE R # {}
    <3>1. PICK o \in R : Best(R, o)
      BY <1>2, <2>2, <2>5
    <3>2. CASE Number[x] <= Number[o]
      BY <3>1, <3>2, <2>1
    <3>3. CASE ~(Number[x] <= Number[o])
      <4>1. \A q \in S : Number[q] <= Number[x]
        BY <3>1, <3>3, <2>1, <2>3
      <4> QED BY <4>1
    <3> QED BY <3>2, <3>3
  <2> QED BY <2>4, <2>5
<1> HIDE DEF T
<1>3. Nat \subseteq T
  BY <1>1, <1>2, Puts!NatSetInduction
<1> TAKE S \in SUBSET (Manifests \cup Crls)
<1> HAVE S # {}
<1>4. IsFiniteSet(S) /\ Cardinality(S) \in Nat
  BY WorldAssumption, FS_Subset, FS_CardinalityType
<1>5. \E o \in S : Best(S, o)
  BY <1>3, <1>4 DEF T
<1>6. Newest(S) = CHOOSE o \in S : Best(S, o)
  BY DEF Newest
<1> HIDE DEF Best
<1>7. Newest(S) \in S /\ Best(S, Newest(S))
  BY <1>5, <1>6
<1> QED BY <1>7 DEF Best

\* The first tasks: one for each trust anchor.
LEMMA FirstTasks ==
    LET q == SetToSeq({<<t>> : t \in TAs})
    IN  /\ q \in Seq(Stack)
        /\ \A i \in DOMAIN q : \E t \in TAs : q[i] = <<t>>
        /\ \A i, j \in DOMAIN q : q[i] = q[j] => i = j
<1> DEFINE S == {<<t>> : t \in TAs}
           n == Cardinality(S)
           P(f) == IsInjective(f)
           q == SetToSeq(S)
<1>1. IsFiniteSet(S)
  <2> DEFINE f == [t \in TAs |-> <<t>>]
  <2>1. f \in Surjection(TAs, S)
    BY DEF Surjection
  <2>2. IsFiniteSet(TAs)
    BY WorldAssumption
  <2> HIDE DEF S, f
  <2> QED BY <2>1, <2>2, FS_Surjection
<1>2. n \in Nat /\ ExistsBijection(1 .. n, S)
  BY <1>1, FS_CardinalityType
<1>3. \E f \in [1 .. n -> S] : P(f)
  <2> HIDE DEF S, n
  <2> QED BY <1>2 DEF ExistsBijection, Bijection, Injection
<1>4. q = CHOOSE f \in [1 .. n -> S] : P(f)
  BY DEF SetToSeq
<1> HIDE DEF P, q, S
<1>5. q \in [1 .. n -> S] /\ P(q)
  BY <1>3, <1>4
<1>6. S \subseteq Stack /\ \A s \in S : \E t \in TAs : s = <<t>>
  <2>1. ASSUME NEW t \in TAs PROVE <<t>> \in Stack
    <3>1. t \in CAs
      BY WorldAssumption
    <3> QED BY <3>1 DEF Stack
  <2> QED BY <2>1 DEF S
<1>7. q \in Seq(Stack)
  BY <1>2, <1>5, <1>6
<1> HIDE DEF n
<1>8. DOMAIN q = 1 .. n /\ \A i \in 1 .. n : q[i] \in S
  BY <1>5
<1>9. \A i \in DOMAIN q : \E t \in TAs : q[i] = <<t>>
  BY <1>6, <1>8
<1>10. \A i, j \in DOMAIN q : q[i] = q[j] => i = j
  BY <1>5 DEF P, IsInjective
<1> QED BY <1>7, <1>9, <1>10 DEF q, S

\* One worker gets another job.
NewJob(new, w, j) ==
  JobsOK(new) /\ new[w] = j /\ \A v \in Workers : v # w => new[v] = work[v]

LEMMA SetJob ==
    \A new, w, j : WalkTypes /\ w \in Workers /\ j \in Job
                     /\ (j.do = "idle" <=> j.stack = << >>)
                     /\ new = [work EXCEPT ![w] = j] => NewJob(new, w, j)
<1> SUFFICES ASSUME NEW new, NEW w \in Workers, NEW j \in Job, WalkTypes,
                    j.do = "idle" <=> j.stack = << >>, new = [work EXCEPT ![w] = j]
             PROVE  NewJob(new, w, j)
  OBVIOUS
<1>1. /\ work \in [Workers -> Job]
      /\ \A v \in Workers : work[v].do = "idle" <=> work[v].stack = << >>
  BY DEF JobsOK, WalkTypes
<1>2. new \in [Workers -> Job] /\ new[w] = j /\ \A v \in Workers : v # w => new[v] = work[v]
  BY <1>1
<1> QED BY <1>1, <1>2 DEF JobsOK, NewJob

\* A worker that has a task.
LEMMA BusyFacts ==
    ASSUME WalkTypes, NEW w \in Workers, work[w].do # "idle"
    PROVE  /\ work[w] \in Job /\ work[w].stack \in Stack /\ work[w].stack # << >>
           /\ top(w) = Last(work[w].stack) /\ top(w) \in CAs /\ frames[top(w)] \in Frame
           /\ Front(work[w].stack) \in Stack
<1>1. work[w] \in Job /\ work[w].stack # << >>
  BY DEF WalkTypes, JobsOK
<1>2. work[w].stack \in Stack
  BY <1>1 DEF Job
<1> QED BY <1>1, <1>2, StackFacts DEF top, WalkTypes

LEMMA PoppedFacts ==
    ASSUME WalkTypes, NEW w \in Workers, work[w].do # "idle"
    PROVE  /\ JobsOK(popped(w)) /\ popped(w)[w] = Going(Front(work[w].stack))
           /\ \A v \in Workers : v # w => popped(w)[v] = work[v]
<1> DEFINE j == Going(Front(work[w].stack))
<1>1. j \in Job /\ (j.do = "idle" <=> j.stack = << >>)
  BY BusyFacts, GoingFacts
<1>2. popped(w) = [work EXCEPT ![w] = j]
  BY DEF popped
<1> HIDE DEF j
<1>3. NewJob(popped(w), w, j)
  BY <1>1, <1>2, SetJob
<1> QED BY <1>3 DEF j, NewJob

LEMMA ReadyFacts ==
    ASSUME WalkTypes, NEW ws \in SUBSET Workers
    PROVE  /\ Ready(ws) \in [CAs -> Frame]
           /\ \A c \in CAs : Ready(ws)[c] = IF \E w \in ws : c = top(w)
                                            THEN [frames[c] EXCEPT !.state = "ready"]
                                            ELSE frames[c]
<1>1. \A c \in CAs : frames[c] \in Frame /\ [frames[c] EXCEPT !.state = "ready"] \in Frame
  BY DEF WalkTypes, Frame
<1>2. Ready(ws) = [c \in CAs |-> IF c \in {top(w) : w \in ws}
                     THEN [frames[c] EXCEPT !.state = "ready"] ELSE frames[c]]
  BY DEF Ready
<1> QED BY <1>1, <1>2

\* A transfer has ended: all who waited for it go on.
LEMMA WakeFacts ==
    ASSUME WalkTypes, NEW ws \in SUBSET Workers
    PROVE  JobsOK([x \in Workers |-> IF x \in ws THEN Going(work[x].stack) ELSE work[x]])
<1> DEFINE new == [x \in Workers |-> IF x \in ws THEN Going(work[x].stack) ELSE work[x]]
<1>1. ASSUME NEW x \in Workers
      PROVE  new[x] \in Job /\ (new[x].do = "idle" <=> new[x].stack = << >>)
  <2>1. work[x] \in Job /\ (work[x].do = "idle" <=> work[x].stack = << >>)
    BY DEF WalkTypes, JobsOK
  <2>2. work[x].stack \in Stack
    BY <2>1 DEF Job
  <2> QED BY <2>1, <2>2, GoingFacts
<1>2. new = [x \in Workers |-> new[x]]
  OBVIOUS
<1> HIDE DEF new
<1> QED BY <1>1, <1>2 DEF JobsOK, new

LEMMA AppendTask ==
    \A s \in Stack : WalkTypes /\ s # << >> =>
      /\ Append(queue, s) \in Seq(Stack)
      /\ DOMAIN Append(queue, s) = DOMAIN queue \cup {Len(queue) + 1}
      /\ Len(queue) + 1 \notin DOMAIN queue
      /\ Append(queue, s)[Len(queue) + 1] = s
      /\ \A i \in DOMAIN queue : Append(queue, s)[i] = queue[i]
      /\ \A i \in DOMAIN Append(queue, s) : Append(queue, s)[i] # << >>
BY DEF WalkTypes

LEMMA TakeTask ==
    ASSUME WalkTypes, queue # << >>
    PROVE  /\ Head(queue) \in Stack /\ Head(queue) # << >>
           /\ 1 \in DOMAIN queue /\ Head(queue) = queue[1]
           /\ Tail(queue) \in Seq(Stack)
           /\ \A i \in DOMAIN Tail(queue) : /\ i + 1 \in DOMAIN queue /\ i + 1 # 1
                                            /\ Tail(queue)[i] = queue[i + 1]
           /\ \A i \in DOMAIN queue : i # 1 =>
                \E j \in DOMAIN Tail(queue) : Tail(queue)[j] = queue[i]
<1>1. /\ queue \in Seq(Stack) /\ Len(queue) \in Nat /\ Len(queue) >= 1
      /\ DOMAIN queue = 1 .. Len(queue) /\ \A i \in 1 .. Len(queue) : queue[i] \in Stack
  BY DEF WalkTypes
<1>2. /\ Tail(queue) \in Seq(Stack) /\ DOMAIN Tail(queue) = 1 .. Len(queue) - 1
      /\ \A i \in 1 .. Len(queue) - 1 : Tail(queue)[i] = queue[i + 1]
  BY <1>1
<1>3. Head(queue) = queue[1] /\ 1 \in DOMAIN queue
  BY <1>1
<1>4. ASSUME NEW i \in DOMAIN queue, i # 1
      PROVE  \E j \in DOMAIN Tail(queue) : Tail(queue)[j] = queue[i]
  <2>1. i - 1 \in 1 .. Len(queue) - 1 /\ (i - 1) + 1 = i
    <3>1. Len(queue) \in Nat /\ i \in 1 .. Len(queue)
      BY <1>1
    <3> QED BY <3>1, <1>4
  <2> QED BY <2>1, <1>2
<1> QED BY <1>1, <1>2, <1>3, <1>4 DEF WalkTypes

-----------------------------------------------------------------------------
(***************************************************************************)
(* What each action does to the jobs and to the frames.                    *)
(***************************************************************************)

NewFrame(new, c, fr) ==
  new \in [CAs -> Frame] /\ new[c] = fr /\ \A d \in CAs : d # c => new[d] = frames[d]

LEMMA SetFrame ==
    \A new, c, fr : WalkTypes /\ c \in CAs /\ fr \in Frame /\ new = [frames EXCEPT ![c] = fr]
                      => NewFrame(new, c, fr)
BY DEF WalkTypes, NewFrame

LEMMA MoveFrame ==
    \A new, c, x : WalkTypes /\ c \in CAs /\ x \in {"none", "initial", "fetch", "ready", "empty"}
                   /\ new = [frames EXCEPT ![c].state = x]
                     => NewFrame(new, c, [frames[c] EXCEPT !.state = x])
<1> SUFFICES ASSUME NEW new, NEW c \in CAs, WalkTypes,
                    NEW x \in {"none", "initial", "fetch", "ready", "empty"},
                    new = [frames EXCEPT ![c].state = x]
             PROVE  NewFrame(new, c, [frames[c] EXCEPT !.state = x])
  OBVIOUS
<1>1. frames \in [CAs -> Frame]
  BY DEF WalkTypes
<1>2. [frames[c] EXCEPT !.state = x] \in Frame
  BY <1>1 DEF Frame
<1>3. new = [frames EXCEPT ![c] = [frames[c] EXCEPT !.state = x]]
  BY <1>1
<1> QED BY <1>2, <1>3, SetFrame

LEMMA GetTaskFacts ==
    ASSUME WalkTypes, NEW w \in Workers, GetTask(w)
    PROVE  /\ work[w].do = "idle" /\ queue # << >> /\ queue' = Tail(queue)
           /\ JobsOK(work') /\ work'[w].stack = Head(queue) /\ work'[w].at = Nothing
           /\ work'[w].do = IF frames[Last(Head(queue))].state = "none" THEN "tal" ELSE "walk"
           /\ \A v \in Workers : v # w => work'[v] = work[v]
<1> DEFINE j == [Free EXCEPT !.do = IF frames[Last(Head(queue))].state = "none"
                                    THEN "tal" ELSE "walk", !.stack = Head(queue)]
<1>1. work[w].do = "idle" /\ queue # << >> /\ queue' = Tail(queue)
      /\ work' = [work EXCEPT ![w] = j]
  BY DEF GetTask
<1>2. /\ j \in Job /\ j.stack = Head(queue) /\ j.at = Nothing /\ j.stack # << >>
      /\ j.do = IF frames[Last(Head(queue))].state = "none" THEN "tal" ELSE "walk"
  BY <1>1, TakeTask DEF Free, Job
<1> HIDE DEF j
<1>3. NewJob(work', w, j)
  BY <1>1, <1>2, SetJob
<1> QED BY <1>1, <1>2, <1>3 DEF NewJob

LEMMA CheckTALFacts ==
    ASSUME WalkTypes, NEW w \in Workers, CheckTAL(w)
    PROVE  /\ work[w].do = "tal" /\ top(w) \in CAs
           /\ db' = db \cup {top(w)} \/ db' = db
           /\ NewJob(work', w, Free)
           /\ \/ /\ top(w) \in db' /\ top(w) \notin bad
                 /\ accepted' = accepted \cup {top(w)} /\ rejected' = rejected
                 /\ queue' = Append(queue, <<top(w)>>)
                 /\ NewFrame(frames', top(w), [frames[top(w)] EXCEPT !.state = "initial"])
              \/ /\ accepted' = accepted /\ queue' = queue /\ frames' = frames
                 /\ \/ rejected' = rejected
                    \/ top(w) \in db' \cap bad /\ rejected' = rejected \cup {Uri[top(w)]}
<1>1. work[w].do = "tal" /\ top(w) \in CAs
  BY BusyFacts DEF CheckTAL
<1>2. db' = db \cup {top(w)} \/ db' = db
  BY DEF CheckTAL
<1>3. NewJob(work', w, Free)
  BY FreeFacts, SetJob DEF CheckTAL
<1>4. CASE top(w) \in db' /\ Uri[top(w)] \notin rejected /\ Sound(top(w), Nothing)
  <2>1. /\ accepted' = accepted \cup {top(w)} /\ rejected' = rejected
        /\ queue' = Append(queue, <<top(w)>>)
        /\ frames' = [frames EXCEPT ![top(w)].state = "initial"]
    BY <1>4 DEF CheckTAL
  <2> QED BY <1>1, <1>2, <1>3, <1>4, <2>1, MoveFrame DEF Sound
<1>5. CASE ~(top(w) \in db' /\ Uri[top(w)] \notin rejected /\ Sound(top(w), Nothing))
  <2>1. /\ accepted' = accepted /\ queue' = queue /\ frames' = frames
        /\ rejected' = IF top(w) \notin db' THEN rejected ELSE rejected \cup {Uri[top(w)]}
    BY <1>5 DEF CheckTAL
  <2> QED BY <1>1, <1>2, <1>3, <1>5, <2>1 DEF Sound
<1> QED BY <1>4, <1>5

LEMMA InitialFacts ==
    ASSUME WalkTypes, NEW w \in Workers, initial(w)
    PROVE  /\ work[w].do = "walk" /\ top(w) \in CAs /\ frames[top(w)].state = "initial"
           /\ \/ /\ ~needed(Point[top(w)]) /\ UNCHANGED <<queue, work>>
                 /\ NewFrame(frames', top(w), [frames[top(w)] EXCEPT !.state = "ready"])
              \/ /\ UNCHANGED <<queue, work>>
                 /\ NewFrame(frames', top(w), [frames[top(w)] EXCEPT !.state = "fetch"])
              \/ /\ queue' = Append(queue, work[w].stack)
                 /\ NewJob(work', w, Going(Front(work[w].stack)))
                 /\ NewFrame(frames', top(w), [frames[top(w)] EXCEPT !.state = "fetch"])
<1>1. work[w].do = "walk" /\ top(w) \in CAs /\ frames[top(w)].state = "initial"
  BY BusyFacts DEF initial, InState
<1>2. NewJob(popped(w), w, Going(Front(work[w].stack)))
  BY <1>1, PoppedFacts DEF NewJob
<1> QED BY <1>1, <1>2, MoveFrame DEF initial

LEMMA FetchFacts ==
    ASSUME WalkTypes, NEW w \in Workers, fetch(w)
    PROVE  LET p == Point[top(w)] IN
           /\ work[w].do = "walk" /\ top(w) \in CAs /\ frames[top(w)].state = "fetch"
           /\ \/ /\ known(p) = "pending" /\ UNCHANGED <<history, frames>>
                 /\ NewJob(work', w, [work[w] EXCEPT !.do = "wait", !.at = entry(p)])
                 /\ entry(p) \in Points /\ <<entry(p), p>> \in Above
              \/ /\ MustFetch(p) /\ history' = [history EXCEPT ![p] = "pending"]
                 /\ NewJob(work', w, [work[w] EXCEPT !.do = "transfer", !.at = p])
                 /\ UNCHANGED frames
              \/ /\ known(p) = "done" /\ UNCHANGED <<history, work>>
                 /\ NewFrame(frames', top(w), [frames[top(w)] EXCEPT !.state = "ready"])
<1> DEFINE p == Point[top(w)]
<1>1. /\ work[w].do = "walk" /\ top(w) \in CAs /\ frames[top(w)].state = "fetch"
      /\ work[w] \in Job /\ work[w].stack # << >>
  BY BusyFacts DEF fetch, InState
<1>2. p \in Points
  BY <1>1, WorldAssumption
<1>3. ASSUME NEW x \in {"wait", "transfer"}, NEW q \in Points,
             work' = [work EXCEPT ![w].do = x, ![w].at = q]
      PROVE  NewJob(work', w, [work[w] EXCEPT !.do = x, !.at = q])
  <2> DEFINE j == [work[w] EXCEPT !.do = x, !.at = q]
  <2>1. work' = [work EXCEPT ![w] = j]
    BY <1>3 DEF WalkTypes, JobsOK
  <2>2. j \in Job /\ j.do # "idle" /\ j.stack # << >>
    BY <1>1 DEF Job
  <2> HIDE DEF j
  <2>3. NewJob(work', w, j)
    BY <2>1, <2>2, SetJob
  <2> QED BY <2>3 DEF j
<1>4. known(p) = "pending" => entry(p) \in Points /\ <<entry(p), p>> \in Above
  BY <1>2, EntryFacts
<1> HIDE DEF p
<1>5. \/ /\ known(p) = "pending" /\ work' = [work EXCEPT ![w].do = "wait", ![w].at = entry(p)]
         /\ UNCHANGED <<history, frames>>
      \/ /\ MustFetch(p) /\ history' = [history EXCEPT ![p] = "pending"]
         /\ work' = [work EXCEPT ![w].do = "transfer", ![w].at = p]
         /\ UNCHANGED frames
      \/ /\ known(p) = "done" /\ frames' = [frames EXCEPT ![top(w)].state = "ready"]
         /\ UNCHANGED <<history, work>>
  BY DEF fetch, p
<1>6. CASE known(p) = "pending" /\ work' = [work EXCEPT ![w].do = "wait", ![w].at = entry(p)]
           /\ UNCHANGED <<history, frames>>
  <2>1. NewJob(work', w, [work[w] EXCEPT !.do = "wait", !.at = entry(p)])
    BY <1>3, <1>4, <1>6
  <2> QED BY <1>1, <1>4, <1>6, <2>1 DEF p
<1>7. CASE MustFetch(p) /\ history' = [history EXCEPT ![p] = "pending"]
           /\ work' = [work EXCEPT ![w].do = "transfer", ![w].at = p] /\ UNCHANGED frames
  <2>1. NewJob(work', w, [work[w] EXCEPT !.do = "transfer", !.at = p])
    BY <1>2, <1>3, <1>7
  <2> QED BY <1>1, <1>7, <2>1 DEF p
<1>8. CASE known(p) = "done" /\ frames' = [frames EXCEPT ![top(w)].state = "ready"]
           /\ UNCHANGED <<history, work>>
  <2>1. NewFrame(frames', top(w), [frames[top(w)] EXCEPT !.state = "ready"])
    BY <1>1, <1>8, MoveFrame
  <2> QED BY <1>1, <1>8, <2>1 DEF p
<1> QED BY <1>5, <1>6, <1>7, <1>8

LEMMA StoreSomeFacts ==
    ASSUME WalkTypes, NEW w \in Workers, StoreSome(w)
    PROVE  /\ work[w].do = "transfer"
           /\ NewJob(work', w, [work[w] EXCEPT !.file = "some"])
           /\ \E S \in SUBSET (Offered(work[w].at) \ db) :
                db' = db \cup S /\ overtaken' = overtaken \cup Overtaken(S)
<1>1. work[w].do = "transfer" /\ work' = [work EXCEPT ![w].file = "some"]
  BY DEF StoreSome
<1> DEFINE j == [work[w] EXCEPT !.file = "some"]
<1>2. work[w] \in Job /\ work[w].stack # << >>
  BY <1>1, BusyFacts
<1>3. j \in Job /\ (j.do = "idle" <=> j.stack = << >>)
  BY <1>1, <1>2 DEF Job
<1>4. work' = [work EXCEPT ![w] = j]
  BY <1>1 DEF WalkTypes, JobsOK
<1> HIDE DEF j
<1>5. NewJob(work', w, j)
  BY <1>3, <1>4, SetJob
<1>6. \E S \in SUBSET (Offered(work[w].at) \ db) :
                db' = db \cup S /\ overtaken' = overtaken \cup Overtaken(S)
  BY DEF StoreSome
<1> QED BY <1>1, <1>5, <1>6 DEF j

\* Those who are woken go on, with their tops ready.
Wakes(ws) ==
  /\ frames' \in [CAs -> Frame] /\ JobsOK(work')
  /\ \A c \in CAs : frames'[c] = IF \E x \in ws : c = top(x)
                                 THEN [frames[c] EXCEPT !.state = "ready"] ELSE frames[c]
  /\ \A x \in ws : work'[x] = Going(work[x].stack)

LEMMA EndTransferFacts ==
    ASSUME WalkTypes, NEW w \in Workers, EndTransfer(w)
    PROVE  LET p == work[w].at IN
           /\ work[w].do = "transfer" /\ Wakes(Woken(p))
           /\ \A x \in Workers \ Woken(p) : work'[x] = work[x]
           /\ history' = [history EXCEPT ![p] = "done"]
           /\ \/ /\ db' = db \cup Offered(p) /\ failed' = failed
                 /\ overtaken' = overtaken \cup Overtaken(Offered(p))
              \/ failed' = failed \cup {p} /\ UNCHANGED <<db, overtaken>>
<1> DEFINE p == work[w].at
           ws == Woken(p)
<1>1. ws \in SUBSET Workers
  BY DEF Woken
<1>2. /\ work[w].do = "transfer" /\ frames' = Ready(ws)
      /\ work' = [x \in Workers |-> IF x \in ws THEN Going(work[x].stack) ELSE work[x]]
      /\ history' = [history EXCEPT ![p] = "done"]
      /\ \/ /\ db' = db \cup Offered(p) /\ failed' = failed
            /\ overtaken' = overtaken \cup Overtaken(Offered(p))
         \/ failed' = failed \cup {p} /\ UNCHANGED <<db, overtaken>>
  BY DEF EndTransfer
<1> HIDE DEF ws
<1>3. JobsOK(work')
  BY <1>1, <1>2, WakeFacts
<1>4. /\ frames' \in [CAs -> Frame]
      /\ \A c \in CAs : frames'[c] = IF \E x \in ws : c = top(x)
                                     THEN [frames[c] EXCEPT !.state = "ready"] ELSE frames[c]
  BY <1>1, <1>2, ReadyFacts
<1>5. \A x \in ws : work'[x] = Going(work[x].stack)
  BY <1>1, <1>2
<1>6. \A x \in Workers \ ws : work'[x] = work[x]
  BY <1>2
<1> QED BY <1>2, <1>3, <1>4, <1>5, <1>6 DEF Wakes, ws

LEMMA TaskDiesFacts ==
    ASSUME WalkTypes, NEW w \in Workers, TaskDies(w)
    PROVE  /\ work[w].do # "idle" /\ top(w) \in CAs /\ failed' = failed \cup {top(w)}
           /\ \/ /\ work[w].do \in {"tal", "walk", "file"} /\ UNCHANGED <<history, frames>>
                 /\ NewJob(work', w, Free)
              \/ LET p == work[w].at IN
                 /\ work[w].do = "transfer" /\ Wakes(Woken(p) \ {w}) /\ work'[w] = Free
                 /\ \A x \in Workers \ (Woken(p) \cup {w}) : work'[x] = work[x]
                 /\ history' = [history EXCEPT ![p] = "done"]
<1>1. work[w].do # "idle" /\ top(w) \in CAs /\ failed' = failed \cup {top(w)}
  <2>1. work[w].do # "idle"
    BY DEF TaskDies
  <2> QED BY <2>1, BusyFacts DEF TaskDies
<1>2. CASE work[w].do \in {"tal", "walk", "file"} /\ work' = [work EXCEPT ![w] = Free]
           /\ UNCHANGED <<history, frames>>
  BY <1>1, <1>2, FreeFacts, SetJob
<1>3. CASE /\ work[w].do = "transfer"
           /\ LET others == Woken(work[w].at) \ {w}
              IN /\ frames' = Ready(others)
                 /\ work' = [x \in Workers |-> CASE x = w -> Free
                               [] x \in others -> Going(work[x].stack)
                               [] OTHER -> work[x]]
           /\ history' = [history EXCEPT ![work[w].at] = "done"]
  <2> DEFINE p == work[w].at
             ws == Woken(p) \ {w}
             new == [x \in Workers |-> IF x \in ws THEN Going(work[x].stack) ELSE work[x]]
  <2>1. ws \in SUBSET Workers /\ w \notin ws
    BY DEF Woken
  <2>2. /\ work'[w] = Free /\ work' \in [Workers -> {work'[x] : x \in Workers}]
        /\ \A x \in ws : work'[x] = Going(work[x].stack)
        /\ \A x \in Workers \ (ws \cup {w}) : work'[x] = work[x]
    BY <1>3, <2>1
  <2>3. frames' = Ready(ws) /\ history' = [history EXCEPT ![p] = "done"]
    BY <1>3
  <2> HIDE DEF ws
  <2>4. JobsOK(new)
    BY <2>1, WakeFacts
  <2>5. \A x \in Workers : x # w => work'[x] = new[x]
    BY <2>2
  <2>6. work' = [x \in Workers |-> work'[x]]
    BY <2>2
  <2> HIDE DEF new
  <2>7. JobsOK(work')
    BY <2>2, <2>4, <2>5, <2>6, FreeFacts DEF JobsOK
  <2>8. /\ frames' \in [CAs -> Frame]
        /\ \A c \in CAs : frames'[c] = IF \E x \in ws : c = top(x)
                                       THEN [frames[c] EXCEPT !.state = "ready"] ELSE frames[c]
    BY <2>1, <2>3, ReadyFacts
  <2> QED BY <1>1, <1>3, <2>2, <2>3, <2>7, <2>8 DEF Wakes, ws
<1> QED BY <1>1, <1>2, <1>3 DEF TaskDies

LEMMA NextFileFacts ==
    ASSUME WalkTypes, NEW w \in Workers, NextFile(w)
    PROVE  /\ work[w].do = "walk" /\ top(w) \in CAs /\ frames[top(w)].state = "loop"
           /\ \E f \in frames[top(w)].files :
                /\ NewFrame(frames', top(w), [frames[top(w)] EXCEPT !.files = @ \ {f}])
                /\ NewJob(work', w, [work[w] EXCEPT !.do = "file", !.file = f])
<1>1. /\ work[w].do = "walk" /\ top(w) \in CAs /\ frames[top(w)].state = "loop"
      /\ work[w] \in Job /\ work[w].stack # << >> /\ frames[top(w)] \in Frame
  BY BusyFacts DEF NextFile, InState
<1>2. PICK f \in frames[top(w)].files :
        /\ frames' = [frames EXCEPT ![top(w)].files = @ \ {f}]
        /\ work' = [work EXCEPT ![w].do = "file", ![w].file = f]
  BY DEF NextFile
<1> DEFINE j == [work[w] EXCEPT !.do = "file", !.file = f]
           fr == [frames[top(w)] EXCEPT !.files = @ \ {f}]
<1>3. f \in Objects
  BY <1>1 DEF Frame
<1>4. j \in Job /\ j.do # "idle" /\ j.stack # << >> /\ work' = [work EXCEPT ![w] = j]
  BY <1>1, <1>2, <1>3 DEF Job, WalkTypes, JobsOK
<1>5. fr \in Frame /\ frames' = [frames EXCEPT ![top(w)] = fr]
  BY <1>1, <1>2 DEF Frame, WalkTypes
<1> HIDE DEF j, fr
<1>6. NewJob(work', w, j) /\ NewFrame(frames', top(w), fr)
  BY <1>1, <1>4, <1>5, SetJob, SetFrame
<1> QED BY <1>1, <1>6 DEF j, fr

LEMMA JudgeFileFacts ==
    ASSUME WalkTypes, NEW w \in Workers, JudgeFile(w)
    PROVE  LET f   == work[w].file
               fit == f \in Signed(top(w)) /\ Uri[f] \notin rejected /\ Sound(f, frames[top(w)].crl)
           IN /\ work[w].do = "file" /\ top(w) \in CAs
              /\ \/ /\ f \in db /\ fit
                    /\ accepted' = accepted \cup {f} /\ rejected' = rejected
                 \/ /\ f \in db /\ ~fit
                    /\ accepted' = accepted /\ rejected' = rejected \cup {Uri[f]}
                 \/ f \notin db /\ accepted' = accepted /\ rejected' = rejected
              /\ \/ /\ f \in CAs /\ f \in db /\ fit
                    /\ NewJob(work', w, Going(Append(work[w].stack, f)))
                    /\ NewFrame(frames', f, [frames[f] EXCEPT !.state = "initial"])
                 \/ /\ ~(f \in CAs /\ f \in db /\ fit)
                    /\ NewJob(work', w, Going(work[w].stack)) /\ frames' = frames
<1> DEFINE f   == work[w].file
           fit == f \in Signed(top(w)) /\ Uri[f] \notin rejected /\ Sound(f, frames[top(w)].crl)
<1>1. work[w].do = "file" /\ top(w) \in CAs /\ work[w].stack \in Stack
  BY BusyFacts DEF JudgeFile
<1>2. /\ accepted' = IF f \in db /\ fit THEN accepted \cup {f} ELSE accepted
      /\ rejected' = IF f \in db /\ ~(f \in db /\ fit) THEN rejected \cup {Uri[f]} ELSE rejected
      /\ IF (f \in db /\ fit) /\ f \in CAs
         THEN /\ work' = [work EXCEPT ![w] = Going(Append(@.stack, f))]
              /\ frames' = [frames EXCEPT ![f].state = "initial"]
         ELSE work' = [work EXCEPT ![w] = Going(@.stack)] /\ frames' = frames
  BY DEF JudgeFile
<1> HIDE DEF f, fit
<1>3. \/ f \in db /\ fit /\ accepted' = accepted \cup {f} /\ rejected' = rejected
      \/ f \in db /\ ~fit /\ accepted' = accepted /\ rejected' = rejected \cup {Uri[f]}
      \/ f \notin db /\ accepted' = accepted /\ rejected' = rejected
  BY <1>2
<1>4. CASE f \in CAs /\ f \in db /\ fit
  <2>1. Append(work[w].stack, f) \in Stack
    BY <1>1, <1>4, PushFacts
  <2> DEFINE j == Going(Append(work[w].stack, f))
  <2>2. j \in Job /\ (j.do = "idle" <=> j.stack = << >>)
    BY <2>1, GoingFacts
  <2>3. work' = [work EXCEPT ![w] = j] /\ frames' = [frames EXCEPT ![f].state = "initial"]
    BY <1>2, <1>4
  <2> HIDE DEF j
  <2>4. NewJob(work', w, j) /\ NewFrame(frames', f, [frames[f] EXCEPT !.state = "initial"])
    BY <1>4, <2>2, <2>3, SetJob, MoveFrame
  <2> QED BY <1>1, <1>3, <1>4, <2>4 DEF f, fit, j
<1>5. CASE ~(f \in CAs /\ f \in db /\ fit)
  <2> DEFINE j == Going(work[w].stack)
  <2>2. j \in Job /\ (j.do = "idle" <=> j.stack = << >>)
    BY <1>1, GoingFacts
  <2>3. work' = [work EXCEPT ![w] = j] /\ frames' = frames
    BY <1>2, <1>5
  <2> HIDE DEF j
  <2>4. NewJob(work', w, j)
    BY <2>2, <2>3, SetJob
  <2> QED BY <1>1, <1>3, <1>5, <2>3, <2>4 DEF f, fit, j
<1> QED BY <1>4, <1>5

LEMMA EndLoopFacts ==
    ASSUME WalkTypes, NEW w \in Workers, EndLoop(w)
    PROVE  /\ work[w].do = "walk" /\ top(w) \in CAs /\ frames[top(w)].state = "loop"
           /\ frames[top(w)].files = {} /\ NewJob(work', w, Going(Front(work[w].stack)))
<1>1. work[w].do = "walk" /\ top(w) \in CAs /\ frames[top(w)].state = "loop"
  BY BusyFacts DEF EndLoop, InState
<1> QED BY <1>1, PoppedFacts DEF EndLoop, NewJob

\* What a CA has signed.
LEMMA SignedFacts ==
    /\ \A c : \A f \in Signed(c) : f \in Objects /\ f \notin TAs /\ Issuer[f] = c
    /\ \A f \in Objects \ TAs : Issuer[f] \in CAs /\ f \in Signed(Issuer[f])
    /\ \A o \in Manifests \cup Crls : o \in Objects \ TAs
BY WorldAssumption DEF Signed

\* What WalkFrame.ready finds for CA c.
Mine(c) == db \cap Signed(c)
GoodManifests(c) == {m \in Mine(c) \cap Manifests : Passes(m, Mine(c) \cap Manifests)}
HeardCrls(c) == Mine(c) \cap Crls \cap UNION {Files[m] : m \in GoodManifests(c)}
GoodCrls(c) == {r \in HeardCrls(c) : Passes(r, HeardCrls(c))}
ChosenCrl(c) == IF GoodCrls(c) = {} THEN Nothing ELSE Newest(GoodCrls(c))
LeftManifests(c) == {m \in GoodManifests(c) : ChosenCrl(c) # Nothing /\ m \notin Revoked[ChosenCrl(c)]}
ChosenManifest(c) == IF LeftManifests(c) = {} THEN Nothing ELSE Newest(LeftManifests(c))

LEMMA ScanFacts ==
    ASSUME WalkTypes, NEW w \in Workers, ready(w)
    PROVE  LET c == top(w) crl == ChosenCrl(c) mft == ChosenManifest(c) IN
           /\ work[w].do = "walk" /\ c \in CAs /\ frames[c].state = "ready"
           /\ \E U \in SUBSET Mine(c) :
                /\ rejected' = rejected \cup {Uri[o] : o \in U}
                /\ \A o \in U : \/ o \in bad
                                \/ o \in Manifests /\ crl # Nothing /\ o \in Revoked[crl]
           /\ accepted' = accepted \cup ({crl, mft} \ {Nothing})
           /\ crl # Nothing => crl \in Crls \cap Mine(c)
           /\ mft # Nothing => mft \in Manifests \cap Mine(c) /\ crl # Nothing
           /\ \/ /\ mft = Nothing
                 /\ NewFrame(frames', c, [frames[c] EXCEPT !.state = "empty"])
                 /\ NewJob(work', w, Going(Front(work[w].stack)))
              \/ /\ mft # Nothing /\ work' = work
                 /\ NewFrame(frames', c, [state |-> "loop", files |-> Content(mft),
                                          mft |-> mft, crl |-> crl])
<1> DEFINE c == top(w)
           crl == ChosenCrl(c)
           mft == ChosenManifest(c)
           new == {m \in GoodManifests(c) : crl # Nothing /\ m \in Revoked[crl]
                     /\ \A n \in LeftManifests(c) : Number[n] < Number[m]}
<1>1. work[w].do = "walk" /\ c \in CAs /\ frames[c].state = "ready"
  BY BusyFacts DEF ready, InState
<1>2. /\ rejected' = rejected \cup Rejects(Mine(c) \cap Manifests)
                       \cup Rejects(HeardCrls(c)) \cup {Uri[m] : m \in new}
      /\ accepted' = accepted \cup ({crl, mft} \ {Nothing})
      /\ IF mft = Nothing
         THEN /\ frames' = [frames EXCEPT ![c].state = "empty"]
              /\ work' = popped(w)
         ELSE /\ frames' = [frames EXCEPT ![c] =
                   [state |-> "loop", files |-> Content(mft), mft |-> mft, crl |-> crl]]
              /\ UNCHANGED work
  BY DEF ready, Mine, GoodManifests, HeardCrls, GoodCrls, ChosenCrl, LeftManifests, ChosenManifest
<1>3. crl # Nothing => crl \in Crls \cap Mine(c)
  <2>1. GoodCrls(c) \subseteq Crls \cap Mine(c)
    BY DEF GoodCrls, HeardCrls
  <2>2. crl # Nothing => GoodCrls(c) # {} /\ crl = Newest(GoodCrls(c))
    BY DEF ChosenCrl
  <2>3. crl # Nothing => crl \in GoodCrls(c)
    BY <2>1, <2>2, NewestFacts
  <2> QED BY <2>1, <2>3
<1>4. mft # Nothing => mft \in Manifests \cap Mine(c) /\ crl # Nothing
  <2>1. LeftManifests(c) \subseteq Manifests \cap Mine(c) /\ (LeftManifests(c) # {} => crl # Nothing)
    BY DEF LeftManifests, GoodManifests
  <2>2. mft # Nothing => LeftManifests(c) # {} /\ mft = Newest(LeftManifests(c))
    BY DEF ChosenManifest
  <2>3. mft # Nothing => mft \in LeftManifests(c)
    BY <2>1, <2>2, NewestFacts
  <2> QED BY <2>1, <2>2, <2>3
<1>5. \E U \in SUBSET Mine(c) :
        /\ rejected' = rejected \cup {Uri[o] : o \in U}
        /\ \A o \in U : \/ o \in bad
                        \/ o \in Manifests /\ crl # Nothing /\ o \in Revoked[crl]
  <2> DEFINE U == (Mine(c) \cap Manifests \cap bad) \cup (HeardCrls(c) \cap bad) \cup new
  <2>1. /\ new \subseteq Mine(c) \cap Manifests
        /\ \A o \in new : crl # Nothing /\ o \in Revoked[crl]
    BY DEF GoodManifests
  <2>2. HeardCrls(c) \subseteq Mine(c)
    BY DEF HeardCrls
  <2>3. /\ U \in SUBSET Mine(c)
        /\ \A o \in U : o \in bad \/ (o \in Manifests /\ crl # Nothing /\ o \in Revoked[crl])
    BY <2>1, <2>2
  <2>4. rejected' = rejected \cup {Uri[o] : o \in U}
    <3> HIDE DEF new
    <3> QED BY <1>2 DEF Rejects
  <2> HIDE DEF U
  <2> QED BY <2>3, <2>4
<1>6. CASE mft = Nothing
  <2>1. NewFrame(frames', c, [frames[c] EXCEPT !.state = "empty"])
    BY <1>1, <1>2, <1>6, MoveFrame
  <2>2. NewJob(work', w, Going(Front(work[w].stack)))
    BY <1>1, <1>2, <1>6, PoppedFacts DEF NewJob
  <2> HIDE DEF c, crl, mft, new
  <2> QED BY <1>1, <1>2, <1>3, <1>4, <1>5, <1>6, <2>1, <2>2 DEF c, crl, mft
<1>7. CASE mft # Nothing
  <2> DEFINE fr == [state |-> "loop", files |-> Content(mft), mft |-> mft, crl |-> crl]
  <2>1. Content(mft) \subseteq Objects
    BY <1>4, <1>7, WorldAssumption DEF Content
  <2>2. fr \in Frame /\ frames' = [frames EXCEPT ![c] = fr]
    BY <1>2, <1>3, <1>4, <1>7, <2>1 DEF Frame
  <2> HIDE DEF fr
  <2>3. NewFrame(frames', c, fr)
    BY <1>1, <2>2, SetFrame
  <2> HIDE DEF c, crl, mft, new
  <2> QED BY <1>1, <1>2, <1>3, <1>4, <1>5, <1>7, <2>3 DEF c, crl, mft, fr
<1> QED BY <1>6, <1>7

-----------------------------------------------------------------------------
(***************************************************************************)
(* The types of the walk are kept.                                         *)
(***************************************************************************)

LEMMA OfferedFacts ==
    ASSUME WalkTypes, NEW p \in Points
    PROVE  /\ Offered(p) \subseteq Objects /\ version[p] \in DOMAIN Versions[p]
           /\ Offered(p) = Versions[p][version[p]]
<1>1. /\ Versions[p] \in Seq(SUBSET Objects) /\ version[p] \in DOMAIN Versions[p]
  BY WorldAssumption DEF WalkTypes
<1> QED BY <1>1 DEF Offered

LEMMA JobFacts ==
    ASSUME WalkTypes, NEW w \in Workers
    PROVE  /\ work[w] \in Job /\ work[w].stack \in Stack
           /\ work[w].do = "idle" <=> work[w].stack = << >>
           /\ work[w].at \in Points \cup {Nothing}
BY DEF WalkTypes, JobsOK, Job

LEMMA WalkInitTypes ==
    ASSUME WalkInit
    PROVE  WalkTypes
<1>1. db \subseteq Objects /\ accepted \subseteq db
  BY WorldAssumption DEF WalkInit
<1>2. version \in [Points -> Nat] /\ \A p \in Points : version[p] \in DOMAIN Versions[p]
  <2>1. \A p \in Points : 1 \in DOMAIN Versions[p]
    BY WorldAssumption
  <2> QED BY <2>1 DEF WalkInit
<1>3. history \in [Points -> {"none", "pending", "done"}]
  BY DEF WalkInit
<1>4. frames \in [CAs -> Frame]
  BY DEF WalkInit, NoFrame, Frame
<1>5. queue \in Seq(Stack) /\ \A i \in DOMAIN queue : queue[i] # << >>
  <2>1. queue = SetToSeq({<<t>> : t \in TAs})
    BY DEF WalkInit
  <2> QED BY <2>1, FirstTasks
<1>6. JobsOK(work)
  BY FreeFacts DEF WalkInit, JobsOK
<1> QED BY <1>1, <1>2, <1>3, <1>4, <1>5, <1>6 DEF WalkTypes

LEMMA WorkerTypes ==
    ASSUME WalkTypes, NEW w \in Workers, WorkerStep(w) \/ TaskDies(w), WaitsInv
    PROVE  WalkTypes'
<1> USE DEF NewJob, NewFrame
<1>1. CASE GetTask(w)
  <2>1. queue # << >> /\ queue' = Tail(queue) /\ JobsOK(work')
    BY <1>1, GetTaskFacts
  <2>2. queue' \in Seq(Stack) /\ \A i \in DOMAIN queue' : queue'[i] # << >>
    BY <2>1, TakeTask DEF WalkTypes
  <2>3. UNCHANGED <<db, accepted, version, history, frames>>
    BY <1>1 DEF GetTask
  <2> QED BY <2>1, <2>2, <2>3 DEF WalkTypes
<1>2. CASE CheckTAL(w)
  <2>1. UNCHANGED <<version, history>>
    BY <1>2 DEF CheckTAL
  <2>2. db' \subseteq Objects /\ accepted' \subseteq db' /\ frames' \in [CAs -> Frame] /\ JobsOK(work')
    <3>1. CAs \subseteq Objects /\ db \subseteq Objects /\ accepted \subseteq db
          /\ frames \in [CAs -> Frame]
      BY WorldAssumption DEF WalkTypes
    <3>2. /\ top(w) \in CAs /\ (db' = db \cup {top(w)} \/ db' = db) /\ JobsOK(work')
          /\ \/ /\ top(w) \in db' /\ accepted' = accepted \cup {top(w)}
                /\ frames' \in [CAs -> Frame]
             \/ accepted' = accepted /\ frames' = frames
      BY <1>2, CheckTALFacts
    <3> QED BY <3>1, <3>2
  <2>3. queue' \in Seq(Stack) /\ \A i \in DOMAIN queue' : queue'[i] # << >>
    <3>1. top(w) \in CAs /\ (queue' = queue \/ queue' = Append(queue, <<top(w)>>))
      BY <1>2, CheckTALFacts
    <3>2. <<top(w)>> \in Stack /\ <<top(w)>> # << >>
      BY <3>1 DEF Stack
    <3> QED BY <3>1, <3>2, AppendTask DEF WalkTypes
  <2> QED BY <2>1, <2>2, <2>3 DEF WalkTypes
<1>3. CASE initial(w)
  <2>1. UNCHANGED <<db, accepted, version, history>>
    BY <1>3 DEF initial
  <2>2. frames' \in [CAs -> Frame] /\ JobsOK(work')
    BY <1>3, InitialFacts DEF WalkTypes
  <2>3. queue' \in Seq(Stack) /\ \A i \in DOMAIN queue' : queue'[i] # << >>
    <3>1. work[w].do # "idle" /\ (queue' = queue \/ queue' = Append(queue, work[w].stack))
      BY <1>3, InitialFacts
    <3>2. work[w].stack \in Stack /\ work[w].stack # << >>
      BY <3>1, BusyFacts
    <3>3. queue \in Seq(Stack) /\ \A i \in DOMAIN queue : queue[i] # << >>
      BY DEF WalkTypes
    <3>4. CASE queue' = queue
      BY <3>3, <3>4
    <3>5. CASE queue' = Append(queue, work[w].stack)
      BY <3>2, <3>5, AppendTask
    <3> QED BY <3>1, <3>4, <3>5
  <2> QED BY <2>1, <2>2, <2>3 DEF WalkTypes
<1>4. CASE fetch(w)
  <2>1. UNCHANGED <<db, accepted, version, queue>>
    BY <1>4 DEF fetch
  <2>2. frames' \in [CAs -> Frame] /\ JobsOK(work')
        /\ history' \in [Points -> {"none", "pending", "done"}]
    BY <1>4, FetchFacts DEF WalkTypes
  <2> QED BY <2>1, <2>2 DEF WalkTypes
<1>5. CASE StoreSome(w)
  <2>1. UNCHANGED <<accepted, version, queue, frames, history>>
    BY <1>5 DEF StoreSome
  <2>2. JobsOK(work') /\ work[w].do = "transfer"
    BY <1>5, StoreSomeFacts
  <2>3. work[w].at \in Points
    BY <2>2 DEF WaitsInv
  <2>4. db' \subseteq Objects /\ db \subseteq db'
    <3>1. PICK S \in SUBSET (Offered(work[w].at) \ db) : db' = db \cup S
      BY <1>5, StoreSomeFacts
    <3>2. Offered(work[w].at) \subseteq Objects
      BY <2>3, OfferedFacts
    <3> QED BY <3>1, <3>2 DEF WalkTypes
  <2> QED BY <2>1, <2>2, <2>4 DEF WalkTypes
<1>6. CASE EndTransfer(w)
  <2>1. UNCHANGED <<accepted, version, queue>>
    BY <1>6 DEF EndTransfer
  <2>2. /\ work[w].do = "transfer" /\ Wakes(Woken(work[w].at))
        /\ history' = [history EXCEPT ![work[w].at] = "done"]
        /\ db' = db \cup Offered(work[w].at) \/ db' = db
    BY <1>6, EndTransferFacts
  <2>3. work[w].at \in Points
    BY <2>2 DEF WaitsInv
  <2>4. db' \subseteq Objects /\ db \subseteq db'
    BY <2>2, <2>3, OfferedFacts DEF WalkTypes
  <2> QED BY <2>1, <2>2, <2>4 DEF WalkTypes, Wakes
<1>7. CASE ready(w)
  <2>1. UNCHANGED <<db, version, queue, history>>
    BY <1>7 DEF ready
  <2>2. frames' \in [CAs -> Frame] /\ JobsOK(work')
    BY <1>7, ScanFacts DEF WalkTypes
  <2>3. accepted' \subseteq db
    <3>1. Mine(top(w)) \subseteq db
      BY DEF Mine
    <3>2. accepted \subseteq db
      BY DEF WalkTypes
    <3> DEFINE c == top(w)
               crl == ChosenCrl(c)
               mft == ChosenManifest(c)
    <3>3. /\ accepted' = accepted \cup ({crl, mft} \ {Nothing})
          /\ crl # Nothing => crl \in Mine(c)
          /\ mft # Nothing => mft \in Mine(c)
      BY <1>7, ScanFacts
    <3> HIDE DEF c, crl, mft
    <3> QED BY <3>1, <3>2, <3>3 DEF c
  <2> QED BY <2>1, <2>2, <2>3 DEF WalkTypes
<1>8. CASE NextFile(w)
  <2>1. UNCHANGED <<db, accepted, version, queue, history>>
    BY <1>8 DEF NextFile
  <2>2. frames' \in [CAs -> Frame] /\ JobsOK(work')
    BY <1>8, NextFileFacts
  <2> QED BY <2>1, <2>2 DEF WalkTypes
<1>9. CASE JudgeFile(w)
  <2>1. UNCHANGED <<db, version, queue, history>>
    BY <1>9 DEF JudgeFile
  <2>2. frames' \in [CAs -> Frame] /\ JobsOK(work') /\ accepted' \subseteq db
    BY <1>9, JudgeFileFacts DEF WalkTypes
  <2> QED BY <2>1, <2>2 DEF WalkTypes
<1>10. CASE EndLoop(w)
  <2>1. UNCHANGED <<db, accepted, version, queue, history, frames>>
    BY <1>10 DEF EndLoop
  <2> QED BY <2>1, <1>10, EndLoopFacts DEF WalkTypes
<1>11. CASE TaskDies(w)
  <2>1. UNCHANGED <<db, accepted, version, queue>>
    BY <1>11 DEF TaskDies
  <2>2. frames' \in [CAs -> Frame] /\ JobsOK(work')
        /\ history' \in [Points -> {"none", "pending", "done"}]
    BY <1>11, TaskDiesFacts DEF WalkTypes, Wakes
  <2> QED BY <2>1, <2>2 DEF WalkTypes
<1> QED BY <1>1, <1>2, <1>3, <1>4, <1>5, <1>6, <1>7, <1>8, <1>9, <1>10, <1>11 DEF WorkerStep

LEMMA WalkTypesStep ==
    ASSUME WalkTypes, WaitsInv, [WalkNext]_walkVars
    PROVE  WalkTypes'
<1>1. ASSUME NEW w \in Workers, WorkerStep(w) \/ TaskDies(w) PROVE WalkTypes'
  BY <1>1, WorkerTypes
<1>2. CASE Join
  BY <1>2 DEF Join, WalkTypes
<1>3. ASSUME NEW p \in Points, Publish(p) PROVE WalkTypes'
  <2>1. /\ version' = [version EXCEPT ![p] = @ + 1] /\ version[p] < Len(Versions[p])
        /\ UNCHANGED <<db, accepted, history, frames, queue, work>>
    BY <1>3 DEF Publish
  <2>2. Versions[p] \in Seq(SUBSET Objects) /\ version[p] \in Nat
    BY WorldAssumption DEF WalkTypes
  <2>3. version[p] + 1 \in DOMAIN Versions[p]
    BY <2>1, <2>2 DEF WalkTypes
  <2>4. version' \in [Points -> Nat] /\ \A q \in Points : version'[q] \in DOMAIN Versions[q]
    BY <2>1, <2>2, <2>3 DEF WalkTypes
  <2> QED BY <2>1, <2>4 DEF WalkTypes
<1>4. CASE UNCHANGED walkVars
  BY <1>4 DEF walkVars, WalkTypes
<1> QED BY <1>1, <1>2, <1>3, <1>4 DEF WalkNext

-----------------------------------------------------------------------------
(***************************************************************************)
(* Stacks: what is below their tops, and what they share.                  *)
(***************************************************************************)

\* What every step may rely on.
Base == WalkTypes /\ TreeInv

LEMMA BaseParts ==
    ASSUME Base
    PROVE  /\ WalkTypes /\ FramesInv /\ StacksInv /\ SharedFramesLoop /\ WaitsInv /\ FetchedInv
           /\ RejectedInv /\ AcceptedInv /\ JudgedInv /\ ScannedInv
BY DEF Base, TreeInv

LEMMA WorkerStack ==
    ASSUME Base, NEW w \in Workers, work[w].do # "idle"
    PROVE  /\ top(w) \in CAs /\ work[w].stack \in Stack /\ work[w].stack # << >>
           /\ top(w) = Last(work[w].stack)
           /\ StackOK(frames, work[w].stack, TopStates(work[w].do))
           /\ frames[top(w)].state \in TopStates(work[w].do)
           /\ \A c \in ToSet(Front(work[w].stack)) : frames[c].state = "loop"
           /\ ToSet(work[w].stack) = ToSet(Front(work[w].stack)) \cup {top(w)}
           /\ Front(work[w].stack) \in Stack
<1>1. StackOK(frames, work[w].stack, TopStates(work[w].do))
  BY BaseParts DEF StacksInv
<1>2. work[w].stack \in Stack /\ work[w].stack # << >> /\ top(w) = Last(work[w].stack)
      /\ top(w) \in CAs
  BY BaseParts, BusyFacts
<1> QED BY <1>1, <1>2, StackFacts DEF StackOK

LEMMA Waiting ==
    ASSUME Base, NEW w \in Workers, work[w].at \in Points
    PROVE  /\ work[w].do \in {"wait", "transfer"} /\ frames[top(w)].state = "fetch"
           /\ top(w) \in CAs /\ work[w].at \in Points /\ <<work[w].at, Point[top(w)]>> \in Above
<1>1. work[w].do \in {"wait", "transfer"}
  BY BaseParts, WorldAssumption DEF WaitsInv
<1> QED BY <1>1, BaseParts, WorkerStack DEF TopStates, WaitsInv

LEMMA WokenFacts ==
    ASSUME Base, NEW p \in Points
    PROVE  \A x \in Woken(p) :
             /\ x \in Workers /\ work[x].do \in {"wait", "transfer"} /\ top(x) \in CAs
             /\ frames[top(x)].state = "fetch" /\ <<p, Point[top(x)]>> \in Above
BY Waiting DEF Woken

\* A frame that is not in its loop is in one stack, at its top.
LEMMA OneStack ==
    ASSUME Base, NEW w \in Workers, NEW c \in ToSet(work[w].stack), frames[c].state # "loop"
    PROVE  /\ c = top(w) /\ c \notin ToSet(Front(work[w].stack))
           /\ \A i \in DOMAIN queue : c \notin ToSet(queue[i])
           /\ \A v \in Workers : v # w => c \notin ToSet(work[v].stack)
<1>1. work[w].do # "idle"
  BY BaseParts, JobFacts DEF ToSet
<1>2. c = top(w) /\ c \notin ToSet(Front(work[w].stack))
  BY <1>1, WorkerStack
<1> QED BY <1>2, BaseParts DEF SharedFramesLoop

LEMMA TopInStack ==
    ASSUME Base, NEW w \in Workers, work[w].do # "idle"
    PROVE  top(w) \in ToSet(work[w].stack)
BY WorkerStack

LEMMA QueuedStack ==
    ASSUME Base, NEW i \in DOMAIN queue
    PROVE  /\ queue[i] \in Stack /\ queue[i] # << >> /\ Last(queue[i]) \in CAs
           /\ StackOK(frames, queue[i], {"none", "initial", "fetch"})
           /\ \A c \in ToSet(Front(queue[i])) : frames[c].state = "loop"
           /\ ToSet(queue[i]) = ToSet(Front(queue[i])) \cup {Last(queue[i])}
<1>1. queue[i] \in Stack /\ queue[i] # << >>
  BY BaseParts DEF WalkTypes
<1>2. StackOK(frames, queue[i], {"none", "initial", "fetch"})
  BY BaseParts DEF StacksInv
<1> QED BY <1>1, <1>2, StackFacts DEF StackOK

LEMMA NotStarted ==
    ASSUME Base, NEW c \in CAs, frames[c].state = "none", c \notin TAs
    PROVE  ~InStack(c)
<1>1. ASSUME NEW i \in DOMAIN queue, c \in ToSet(queue[i]) PROVE FALSE
  BY <1>1, QueuedStack DEF StackOK
<1>2. ASSUME NEW w \in Workers, c \in ToSet(work[w].stack) PROVE FALSE
  <2>1. work[w].do # "idle"
    BY <1>2, BaseParts, JobFacts DEF ToSet
  <2> QED BY <1>2, <2>1, WorkerStack DEF StackOK
<1> QED BY <1>1, <1>2 DEF InStack

\* The file that a worker is about to judge.
LEMMA JudgingFacts ==
    ASSUME Base, NEW w \in Workers, work[w].do = "file"
    PROVE  LET c == top(w) f == work[w].file IN
           /\ c \in CAs /\ frames[c].state = "loop"
           /\ frames[c].mft \in Manifests \cap db /\ Issuer[frames[c].mft] = c
           /\ frames[c].crl \in Crls \cap db
           /\ f \in Content(frames[c].mft) /\ f \in Objects /\ f \notin Manifests \cup Crls
           /\ f \notin frames[c].files
           /\ f \in Signed(c) => f \notin TAs /\ f \notin accepted
           /\ f \in Signed(c) /\ f \in CAs => frames[f].state = "none" /\ ~InStack(f)
<1> DEFINE c == top(w)
           f == work[w].file
<1>1. c \in CAs /\ frames[c].state = "loop"
  BY WorkerStack DEF TopStates
<1>2. /\ frames[c].mft \in Manifests \cap db /\ Issuer[frames[c].mft] = c
      /\ frames[c].crl \in Crls \cap db
  BY <1>1, BaseParts DEF FramesInv
<1>3. /\ f \in Content(frames[c].mft) \ frames[c].files
      /\ f \in Signed(c) => f \notin accepted
  BY BaseParts DEF JudgedInv
<1> HIDE DEF c, f
<1>4. f \in Objects /\ f \notin Manifests \cup Crls
  BY <1>2, <1>3, WorldAssumption DEF Content
<1>5. f \in Signed(c) => f \notin TAs
  BY SignedFacts
<1>6. f \in Signed(c) /\ f \in CAs => frames[f].state = "none"
  BY <1>3, BaseParts DEF AcceptedInv
<1>7. f \in Signed(c) /\ f \in CAs => ~InStack(f)
  BY <1>5, <1>6, NotStarted
<1> QED BY <1>1, <1>2, <1>3, <1>4, <1>5, <1>6, <1>7 DEF c, f

\* A frame in its loop stays there, with what it has chosen.
LoopsStay ==
  \A c \in CAs : frames[c].state = "loop" =>
    /\ frames'[c].state = "loop" /\ frames'[c].mft = frames[c].mft
    /\ frames'[c].crl = frames[c].crl /\ frames'[c].files \subseteq frames[c].files

LEMMA LoopsStayOne ==
    ASSUME NEW c \in CAs, NEW fr, NewFrame(frames', c, fr), frames[c].state # "loop"
    PROVE  LoopsStay
BY DEF LoopsStay, NewFrame

LEMMA LoopsStayWake ==
    ASSUME Base, NEW p \in Points, NEW ws \in SUBSET Woken(p), Wakes(ws)
    PROVE  LoopsStay
<1> SUFFICES ASSUME NEW c \in CAs, frames[c].state = "loop"
             PROVE  frames'[c] = frames[c]
  BY DEF LoopsStay
<1>1. \A x \in ws : c # top(x)
  BY WokenFacts
<1> QED BY <1>1 DEF Wakes

LEMMA LoopsStayStep ==
    ASSUME Base, [WalkNext]_walkVars
    PROVE  LoopsStay
<1>1. CASE frames' = frames
  BY <1>1 DEF LoopsStay
<1>2. ASSUME NEW w \in Workers, CheckTAL(w) PROVE LoopsStay
  <2>1. frames[top(w)].state = "none" /\ top(w) \in CAs
    BY <1>2, BaseParts, CheckTALFacts, WorkerStack DEF TopStates
  <2> QED BY <1>1, <1>2, <2>1, BaseParts, CheckTALFacts, LoopsStayOne
<1>3. ASSUME NEW w \in Workers, initial(w) PROVE LoopsStay
  BY <1>3, BaseParts, InitialFacts, LoopsStayOne
<1>4. ASSUME NEW w \in Workers, fetch(w) PROVE LoopsStay
  BY <1>1, <1>4, BaseParts, FetchFacts, LoopsStayOne
<1>5. ASSUME NEW w \in Workers, EndTransfer(w) PROVE LoopsStay
  <2>1. work[w].do = "transfer" /\ Wakes(Woken(work[w].at))
    BY <1>5, BaseParts, EndTransferFacts
  <2>2. work[w].at \in Points
    BY <2>1, BaseParts DEF WaitsInv
  <2> QED BY <2>1, <2>2, LoopsStayWake
<1>6. ASSUME NEW w \in Workers, ready(w) PROVE LoopsStay
  BY <1>6, BaseParts, ScanFacts, LoopsStayOne
<1>7. ASSUME NEW w \in Workers, NextFile(w) PROVE LoopsStay
  <2>1. PICK f \in frames[top(w)].files :
          NewFrame(frames', top(w), [frames[top(w)] EXCEPT !.files = @ \ {f}])
    BY <1>7, BaseParts, NextFileFacts
  <2>2. top(w) \in CAs /\ frames[top(w)] \in Frame
    BY <1>7, BaseParts, NextFileFacts DEF WalkTypes
  <2> QED BY <2>1, <2>2 DEF NewFrame, LoopsStay, Frame
<1>8. ASSUME NEW w \in Workers, JudgeFile(w) PROVE LoopsStay
  <2>1. work[w].do = "file"
    BY <1>8, BaseParts, JudgeFileFacts
  <2>2. work[w].file \in CAs /\ work[w].file \in Signed(top(w)) => frames[work[w].file].state = "none"
    BY <2>1, JudgingFacts
  <2> QED BY <1>1, <1>8, <2>2, BaseParts, JudgeFileFacts, LoopsStayOne
<1>9. ASSUME NEW w \in Workers, TaskDies(w) PROVE LoopsStay
  <2>1. CASE work[w].do = "transfer" /\ Wakes(Woken(work[w].at) \ {w})
    <3>1. work[w].at \in Points
      BY <2>1, BaseParts DEF WaitsInv
    <3> QED BY <2>1, <3>1, LoopsStayWake
  <2> QED BY <1>1, <1>9, <2>1, BaseParts, TaskDiesFacts
<1> QED BY <1>1, <1>2, <1>3, <1>4, <1>5, <1>6, <1>7, <1>8, <1>9
       DEF WalkNext, WorkerStep, walkVars, GetTask, StoreSome, EndLoop, Join, Publish

LEMMA StackOfCAs ==
    \A s \in Stack : ToSet(s) \subseteq CAs
BY DEF Stack, ToSet

\* A stack whose top is left alone.
LEMMA StackKept ==
    \A s \in Stack : \A states :
      (s # << >> /\ LoopsStay /\ StackOK(frames, s, states)
        /\ frames'[Last(s)].state = frames[Last(s)].state)
        => StackOK(frames', s, states)
<1> SUFFICES ASSUME NEW s \in Stack, NEW states, s # << >>, LoopsStay,
                    StackOK(frames, s, states),
                    frames'[Last(s)].state = frames[Last(s)].state
             PROVE  StackOK(frames', s, states)
  OBVIOUS
<1>1. Front(s) \in Stack
  BY StackFacts
<1>2. ToSet(Front(s)) \subseteq CAs
  BY <1>1, StackOfCAs
<1> QED BY <1>2 DEF StackOK, LoopsStay

\* A stack without its top.
LEMMA StackPopped ==
    ASSUME Base, LoopsStay, NEW w \in Workers, work[w].do # "idle",
           Front(work[w].stack) # << >>
    PROVE  StackOK(frames', Front(work[w].stack), TopStates("walk"))
<1> DEFINE s == work[w].stack
           r == Front(s)
<1>1. s \in Stack /\ s # << >> /\ r \in Stack /\ \A c \in ToSet(r) : frames[c].state = "loop"
  BY WorkerStack
<1> HIDE DEF s
<1>2. Last(r) \in ToSet(r) /\ ToSet(Front(r)) \subseteq ToSet(r) /\ ToSet(r) \subseteq CAs
  <2>1. r # << >>
    BY DEF s
  <2> HIDE DEF r
  <2> QED BY <1>1, <2>1, StackFacts, StackOfCAs
<1>3. \A c \in ToSet(r) : frames'[c].state = "loop"
  BY <1>1, <1>2 DEF LoopsStay
<1> HIDE DEF r
<1> QED BY <1>2, <1>3 DEF StackOK, TopStates, r, s

\* The stacks of the queue and of all workers but w are as they should be.
OthersOK(w) ==
  /\ \A i \in DOMAIN queue : StackOK(frames', queue[i], {"none", "initial", "fetch"})
  /\ \A v \in Workers : v # w /\ work[v].do # "idle" =>
       StackOK(frames', work[v].stack, TopStates(work[v].do))

LEMMA OthersKept ==
    ASSUME Base, LoopsStay, NEW w,
           \A i \in DOMAIN queue : frames'[Last(queue[i])].state = frames[Last(queue[i])].state,
           \A v \in Workers : v # w /\ work[v].do # "idle" =>
              frames'[top(v)].state = frames[top(v)].state
    PROVE  OthersOK(w)
<1>1. ASSUME NEW i \in DOMAIN queue
      PROVE  StackOK(frames', queue[i], {"none", "initial", "fetch"})
  BY QueuedStack, StackKept
<1>2. ASSUME NEW v \in Workers, v # w, work[v].do # "idle"
      PROVE  StackOK(frames', work[v].stack, TopStates(work[v].do))
  BY <1>2, WorkerStack, StackKept
<1> QED BY <1>1, <1>2 DEF OthersOK

LEMMA OthersKeptSame ==
    ASSUME Base, LoopsStay, frames' = frames
    PROVE  \A w : OthersOK(w)
BY OthersKept

LEMMA OthersKeptOne ==
    ASSUME Base, LoopsStay, NEW w \in Workers, NEW c \in CAs, NEW fr, NewFrame(frames', c, fr),
           \/ c \in ToSet(work[w].stack) /\ (frames[c].state # "loop" \/ fr.state = "loop")
           \/ ~InStack(c)
    PROVE  OthersOK(w)
<1>1. CASE frames'[c].state = frames[c].state
  <2>1. \A d \in CAs : frames'[d].state = frames[d].state
    BY <1>1 DEF NewFrame
  <2> QED BY <2>1, OthersKept, QueuedStack, WorkerStack
<1>2. CASE frames'[c].state # frames[c].state
  <2>1. frames[c].state # "loop"
    BY <1>2 DEF LoopsStay
  <2>2. ASSUME NEW i \in DOMAIN queue PROVE Last(queue[i]) # c
    BY <2>1, QueuedStack, OneStack DEF InStack
  <2>3. ASSUME NEW v \in Workers, v # w, work[v].do # "idle" PROVE top(v) # c
    BY <2>1, <2>3, TopInStack, OneStack DEF InStack
  <2>4. \A d \in CAs : d # c => frames'[d] = frames[d]
    BY DEF NewFrame
  <2>5. \A i \in DOMAIN queue : frames'[Last(queue[i])].state = frames[Last(queue[i])].state
    BY <2>2, <2>4, QueuedStack
  <2>6. \A v \in Workers : v # w /\ work[v].do # "idle" =>
              frames'[top(v)].state = frames[top(v)].state
    BY <2>3, <2>4, WorkerStack
  <2> QED BY <2>5, <2>6, OthersKept
<1> QED BY <1>1, <1>2

LEMMA StacksFromOthers ==
    ASSUME NEW w \in Workers, OthersOK(w), queue' = queue,
           \A v \in Workers : v # w => work'[v] = work[v],
           work'[w].do # "idle" => StackOK(frames', work'[w].stack, TopStates(work'[w].do))
    PROVE  StacksInv'
BY DEF StacksInv, OthersOK

\* A step of worker w that leaves it on its stack, or on what is below its top.
LEMMA StacksSameStack ==
    ASSUME Base, LoopsStay, NEW w \in Workers, work[w].do # "idle", OthersOK(w), queue' = queue,
           NEW j, NewJob(work', w, j),
           \/ j.stack = work[w].stack /\ frames'[top(w)].state \in TopStates(j.do)
                /\ frames'[top(w)].state # "none"
           \/ j = Going(Front(work[w].stack))
           \/ j = Free
    PROVE  StacksInv'
<1>1. CASE j.stack = work[w].stack /\ frames'[top(w)].state \in TopStates(j.do)
             /\ frames'[top(w)].state # "none"
  <2>1. ToSet(Front(work[w].stack)) \subseteq CAs
    BY WorkerStack, StackOfCAs
  <2>2. StackOK(frames', work'[w].stack, TopStates(work'[w].do))
    BY <1>1, <2>1, WorkerStack DEF NewJob, StackOK, LoopsStay
  <2> QED BY <2>2, StacksFromOthers DEF NewJob
<1>2. CASE j = Going(Front(work[w].stack))
  <2>1. Front(work[w].stack) \in Stack
    BY WorkerStack
  <2>2. j.do # "idle" => Front(work[w].stack) # << >> /\ j.do = "walk"
                          /\ j.stack = Front(work[w].stack)
    BY <1>2, <2>1, GoingFacts
  <2> QED BY <2>2, StackPopped, StacksFromOthers DEF NewJob
<1>3. CASE j = Free
  BY <1>3, FreeFacts, StacksFromOthers DEF NewJob
<1> QED BY <1>1, <1>2, <1>3

LEMMA StacksWake ==
    ASSUME Base, LoopsStay, NEW p \in Points, NEW ws \in SUBSET Woken(p), Wakes(ws), queue' = queue,
           \A v \in Workers \ ws : work'[v] = work[v] \/ work'[v] = Free
    PROVE  StacksInv'
<1>1. \A x \in ws : /\ x \in Workers /\ work[x].do \in {"wait", "transfer"} /\ top(x) \in CAs
                    /\ frames[top(x)].state = "fetch" /\ top(x) \in ToSet(work[x].stack)
  BY WokenFacts, TopInStack
<1>2. ASSUME NEW i \in DOMAIN queue
      PROVE  StackOK(frames', queue[i], {"none", "initial", "fetch"})
  <2>1. \A x \in ws : Last(queue[i]) # top(x)
    BY <1>1, OneStack, QueuedStack
  <2>2. frames'[Last(queue[i])] = frames[Last(queue[i])]
    BY <2>1, QueuedStack DEF Wakes
  <2> QED BY <2>2, QueuedStack, StackKept
<1>3. ASSUME NEW v \in Workers \ ws, work'[v].do # "idle"
      PROVE  StackOK(frames', work'[v].stack, TopStates(work'[v].do))
  <2>1. work'[v] = work[v] /\ work[v].do # "idle"
    BY <1>3, FreeFacts
  <2>2. \A x \in ws : top(v) # top(x)
    BY <1>1, <2>1, OneStack, TopInStack
  <2>3. frames'[top(v)] = frames[top(v)]
    BY <2>1, <2>2, WorkerStack DEF Wakes
  <2> QED BY <2>1, <2>3, WorkerStack, StackKept
<1>4. ASSUME NEW v \in ws PROVE StackOK(frames', work'[v].stack, TopStates(work'[v].do))
  <2>1. /\ work[v].stack \in Stack /\ work[v].stack # << >> /\ top(v) = Last(work[v].stack)
        /\ top(v) \in CAs /\ \A c \in ToSet(Front(work[v].stack)) : frames[c].state = "loop"
        /\ Front(work[v].stack) \in Stack
    BY <1>1, WorkerStack
  <2>2. work'[v].stack = work[v].stack /\ work'[v].do = "walk"
    BY <2>1, GoingFacts DEF Wakes
  <2>3. frames'[top(v)].state = "ready"
    <3>1. frames'[top(v)] = [frames[top(v)] EXCEPT !.state = "ready"] /\ frames[top(v)] \in Frame
      BY <2>1, BaseParts DEF Wakes, WalkTypes
    <3> QED BY <3>1 DEF Frame
  <2>4. \A c \in ToSet(Front(work[v].stack)) : frames'[c].state = "loop"
    BY <2>1, StackOfCAs DEF LoopsStay
  <2> QED BY <2>1, <2>2, <2>3, <2>4 DEF StackOK, TopStates
<1> QED BY <1>1, <1>2, <1>3, <1>4 DEF StacksInv

LEMMA StacksGetTask ==
    ASSUME Base, LoopsStay, NEW w \in Workers, GetTask(w)
    PROVE  StacksInv'
<1> DEFINE s == Head(queue)
<1>1. /\ work[w].do = "idle" /\ queue # << >> /\ queue' = Tail(queue) /\ frames' = frames
      /\ work'[w].stack = s
      /\ work'[w].do = IF frames[Last(s)].state = "none" THEN "tal" ELSE "walk"
      /\ \A v \in Workers : v # w => work'[v] = work[v]
  BY BaseParts, GetTaskFacts DEF GetTask
<1>2. /\ 1 \in DOMAIN queue /\ s = queue[1]
      /\ \A i \in DOMAIN Tail(queue) : i + 1 \in DOMAIN queue /\ Tail(queue)[i] = queue[i + 1]
  BY <1>1, BaseParts, TakeTask
<1>3. StackOK(frames, s, {"none", "initial", "fetch"})
  BY <1>2, QueuedStack
<1> HIDE DEF s
<1>4. StackOK(frames', s, TopStates(work'[w].do))
  BY <1>1, <1>3 DEF StackOK, TopStates
<1>5. ASSUME NEW i \in DOMAIN queue'
      PROVE  StackOK(frames', queue'[i], {"none", "initial", "fetch"})
  <2>1. i + 1 \in DOMAIN queue /\ queue'[i] = queue[i + 1]
    BY <1>1, <1>2
  <2> QED BY <1>1, <2>1, QueuedStack
<1>6. ASSUME NEW v \in Workers, work'[v].do # "idle"
      PROVE  StackOK(frames', work'[v].stack, TopStates(work'[v].do))
  <2>1. CASE v = w
    BY <1>1, <1>4, <2>1
  <2>2. CASE v # w
    BY <1>1, <1>6, <2>2, WorkerStack
  <2> QED BY <2>1, <2>2
<1> QED BY <1>5, <1>6 DEF StacksInv

\* A task is put in the queue.
LEMMA StacksAppend ==
    ASSUME Base, LoopsStay, NEW w \in Workers, OthersOK(w), NEW s \in Stack, s # << >>,
           queue' = Append(queue, s), StackOK(frames', s, {"none", "initial", "fetch"}),
           \A v \in Workers : v # w => work'[v] = work[v],
           work'[w].do # "idle" => StackOK(frames', work'[w].stack, TopStates(work'[w].do))
    PROVE  StacksInv'
<1>1. /\ DOMAIN queue' = DOMAIN queue \cup {Len(queue) + 1}
      /\ queue'[Len(queue) + 1] = s /\ \A i \in DOMAIN queue : queue'[i] = queue[i]
  BY BaseParts, AppendTask
<1>2. \A i \in DOMAIN queue' : StackOK(frames', queue'[i], {"none", "initial", "fetch"})
  BY <1>1 DEF OthersOK
<1> QED BY <1>2 DEF StacksInv, OthersOK

LEMMA StacksCheckTAL ==
    ASSUME Base, LoopsStay, NEW w \in Workers, CheckTAL(w)
    PROVE  StacksInv'
<1> DEFINE t == top(w)
<1>1. work[w].do = "tal" /\ t \in CAs /\ frames[t].state = "none" /\ NewJob(work', w, Free)
      /\ t \in TAs
  BY BaseParts, CheckTALFacts, WorkerStack DEF TopStates, StackOK
<1>2. CASE queue' = Append(queue, <<t>>)
           /\ NewFrame(frames', t, [frames[t] EXCEPT !.state = "initial"])
  <2>1. OthersOK(w)
    BY <1>1, <1>2, TopInStack, OthersKeptOne
  <2>2. frames[t] \in Frame
    BY <1>1, BaseParts DEF WalkTypes
  <2>3. frames'[t].state = "initial"
    BY <1>2, <2>2 DEF NewFrame, Frame
  <2> HIDE DEF t
  <2>4. <<t>> \in Stack /\ <<t>> # << >> /\ Len(<<t>>) = 1 /\ <<t>>[1] = t
    BY <1>1 DEF Stack
  <2>5. Last(<<t>>) = t /\ Front(<<t>>) = << >>
    BY <2>4, ShortStack DEF Last
  <2>6. StackOK(frames', <<t>>, {"none", "initial", "fetch"})
    BY <2>3, <2>4, <2>5 DEF StackOK, ToSet
  <2>7. work'[w].do = "idle" /\ \A v \in Workers : v # w => work'[v] = work[v]
    BY <1>1, FreeFacts DEF NewJob
  <2> QED BY <1>2, <2>1, <2>4, <2>6, <2>7, StacksAppend
<1>3. CASE queue' = queue /\ frames' = frames
  BY <1>1, <1>3, OthersKeptSame, StacksSameStack
<1> QED BY <1>2, <1>3, BaseParts, CheckTALFacts

LEMMA StacksInitial ==
    ASSUME Base, LoopsStay, NEW w \in Workers, initial(w)
    PROVE  StacksInv'
<1> DEFINE c == top(w)
<1>1. /\ work[w].do = "walk" /\ c \in CAs /\ frames[c].state = "initial" /\ frames[c] \in Frame
      /\ c \in ToSet(work[w].stack) /\ work[w] \in Job
  BY BaseParts, InitialFacts, TopInStack, JobFacts DEF WalkTypes
<1>2. ASSUME NEW x \in {"ready", "fetch"}, NewFrame(frames', c, [frames[c] EXCEPT !.state = x])
      PROVE  OthersOK(w) /\ frames'[c].state = x
  <2>1. OthersOK(w)
    BY <1>1, <1>2, OthersKeptOne
  <2> QED BY <1>1, <1>2, <2>1 DEF NewFrame, Frame
<1>3. CASE UNCHANGED <<queue, work>> /\ NewFrame(frames', c, [frames[c] EXCEPT !.state = "ready"])
  <2>1. NewJob(work', w, work[w])
    BY <1>3, BaseParts DEF NewJob, WalkTypes
  <2> QED BY <1>1, <1>2, <1>3, <2>1, StacksSameStack DEF TopStates
<1>4. CASE UNCHANGED <<queue, work>> /\ NewFrame(frames', c, [frames[c] EXCEPT !.state = "fetch"])
  <2>1. NewJob(work', w, work[w])
    BY <1>4, BaseParts DEF NewJob, WalkTypes
  <2> QED BY <1>1, <1>2, <1>4, <2>1, StacksSameStack DEF TopStates
<1>5. CASE /\ queue' = Append(queue, work[w].stack)
           /\ NewJob(work', w, Going(Front(work[w].stack)))
           /\ NewFrame(frames', c, [frames[c] EXCEPT !.state = "fetch"])
  <2>1. OthersOK(w) /\ frames'[c].state = "fetch"
    BY <1>2, <1>5
  <2>2. ToSet(Front(work[w].stack)) \subseteq CAs
    BY <1>1, WorkerStack, StackOfCAs
  <2>3. StackOK(frames', work[w].stack, {"none", "initial", "fetch"})
    BY <1>1, <2>1, <2>2, WorkerStack DEF StackOK, LoopsStay
  <2>4. work'[w].do # "idle" => /\ Front(work[w].stack) # << >> /\ work'[w].do = "walk"
                                /\ work'[w].stack = Front(work[w].stack)
    BY <1>1, <1>5, WorkerStack, GoingFacts DEF NewJob
  <2>5. work'[w].do # "idle" => StackOK(frames', work'[w].stack, TopStates(work'[w].do))
    BY <1>1, <2>4, StackPopped
  <2>6. work[w].stack \in Stack /\ work[w].stack # << >>
    BY <1>1, WorkerStack
  <2> QED BY <1>5, <2>1, <2>3, <2>5, <2>6, StacksAppend DEF NewJob
<1> QED BY <1>3, <1>4, <1>5, BaseParts, InitialFacts

LEMMA StacksFetch ==
    ASSUME Base, LoopsStay, NEW w \in Workers, fetch(w)
    PROVE  StacksInv'
<1> DEFINE c == top(w)
           p == Point[c]
<1>1. /\ work[w].do = "walk" /\ c \in CAs /\ frames[c].state = "fetch" /\ frames[c] \in Frame
      /\ c \in ToSet(work[w].stack) /\ work[w] \in Job /\ queue' = queue
  BY BaseParts, FetchFacts, TopInStack, JobFacts DEF WalkTypes, fetch
<1>2. ASSUME frames' = frames, NEW x \in {"wait", "transfer"}, NEW q,
             NewJob(work', w, [work[w] EXCEPT !.do = x, !.at = q])
      PROVE  StacksInv'
  <2> DEFINE j == [work[w] EXCEPT !.do = x, !.at = q]
  <2>1. j.stack = work[w].stack /\ j.do = x
    BY <1>1 DEF Job
  <2>2. OthersOK(w)
    BY <1>2, OthersKeptSame
  <2>3. frames'[top(w)].state \in TopStates(j.do) /\ frames'[top(w)].state # "none"
    BY <1>1, <1>2, <2>1 DEF TopStates
  <2> HIDE DEF j
  <2>4. NewJob(work', w, j)
    BY <1>2 DEF j
  <2> QED BY <1>1, <2>1, <2>2, <2>3, <2>4, StacksSameStack
<1>3. CASE work' = work /\ NewFrame(frames', c, [frames[c] EXCEPT !.state = "ready"])
  <2>1. NewJob(work', w, work[w])
    BY <1>3, BaseParts DEF NewJob, WalkTypes
  <2>2. OthersOK(w)
    BY <1>1, <1>3, OthersKeptOne
  <2>3. frames'[c].state = "ready"
    BY <1>1, <1>3 DEF NewFrame, Frame
  <2> QED BY <1>1, <2>1, <2>2, <2>3, StacksSameStack DEF TopStates
<1> QED BY <1>2, <1>3, BaseParts, FetchFacts

LEMMA StacksScan ==
    ASSUME Base, LoopsStay, NEW w \in Workers, ready(w)
    PROVE  StacksInv'
<1> DEFINE c == top(w)
<1>1. /\ work[w].do = "walk" /\ c \in CAs /\ frames[c].state = "ready"
      /\ c \in ToSet(work[w].stack) /\ work[w] \in Job /\ queue' = queue
  BY BaseParts, ScanFacts, TopInStack, JobFacts DEF ready
<1>2. CASE /\ NewFrame(frames', c, [frames[c] EXCEPT !.state = "empty"])
           /\ NewJob(work', w, Going(Front(work[w].stack)))
  <2>1. OthersOK(w)
    BY <1>1, <1>2, OthersKeptOne
  <2> QED BY <1>1, <1>2, <2>1, StacksSameStack
<1>3. ASSUME NEW fr, work' = work, NewFrame(frames', c, fr), fr.state = "loop"
      PROVE  StacksInv'
  <2>1. OthersOK(w)
    BY <1>1, <1>3, OthersKeptOne
  <2>2. NewJob(work', w, work[w])
    BY <1>3, BaseParts DEF NewJob, WalkTypes
  <2> QED BY <1>1, <1>3, <2>1, <2>2, StacksSameStack DEF TopStates, NewFrame
<1> QED BY <1>2, <1>3, BaseParts, ScanFacts

LEMMA StacksFile ==
    ASSUME Base, LoopsStay, NEW w \in Workers, NextFile(w) \/ JudgeFile(w)
    PROVE  StacksInv'
<1>1. CASE NextFile(w)
  <2> DEFINE c == top(w)
  <2>1. /\ work[w].do = "walk" /\ c \in CAs /\ frames[c].state = "loop" /\ frames[c] \in Frame
        /\ c \in ToSet(work[w].stack) /\ work[w] \in Job /\ queue' = queue
    BY <1>1, BaseParts, NextFileFacts, TopInStack, JobFacts DEF NextFile, WalkTypes
  <2>2. PICK f \in frames[c].files :
          /\ NewFrame(frames', c, [frames[c] EXCEPT !.files = @ \ {f}])
          /\ NewJob(work', w, [work[w] EXCEPT !.do = "file", !.file = f])
    BY <1>1, BaseParts, NextFileFacts
  <2> DEFINE fr == [frames[c] EXCEPT !.files = @ \ {f}]
             j == [work[w] EXCEPT !.do = "file", !.file = f]
  <2>3. fr.state = "loop" /\ j.stack = work[w].stack /\ j.do = "file"
    BY <2>1 DEF Frame, Job
  <2> HIDE DEF fr, j, c
  <2>4. NewFrame(frames', c, fr) /\ NewJob(work', w, j)
    BY <2>2 DEF fr, j
  <2>5. OthersOK(w)
    BY <2>1, <2>3, <2>4, OthersKeptOne
  <2>6. frames'[top(w)].state = "loop"
    BY <2>3, <2>4 DEF NewFrame, c
  <2> QED BY <2>1, <2>3, <2>4, <2>5, <2>6, StacksSameStack DEF TopStates
<1>2. CASE JudgeFile(w)
  <2> DEFINE f == work[w].file
  <2>1. /\ work[w].do = "file" /\ frames[top(w)].state = "loop" /\ work[w].stack \in Stack
        /\ work[w].stack # << >> /\ ToSet(work[w].stack) \subseteq CAs /\ queue' = queue
        /\ \A c \in ToSet(work[w].stack) : frames[c].state = "loop"
    <3>1. work[w].do = "file"
      BY <1>2, BaseParts, JudgeFileFacts
    <3>2. frames[top(w)].state = "loop"
      BY <3>1, JudgingFacts
    <3>3. queue' = queue
      BY <1>2 DEF JudgeFile
    <3>4. work[w].stack \in Stack /\ work[w].stack # << >> /\ ToSet(work[w].stack) \subseteq CAs
      BY <3>1, WorkerStack, StackOfCAs
    <3>5. \A c \in ToSet(work[w].stack) : frames[c].state = "loop"
      BY <3>1, <3>2, WorkerStack
    <3> QED BY <3>1, <3>2, <3>3, <3>4, <3>5
  <2>2. CASE frames' = frames /\ NewJob(work', w, Going(work[w].stack))
    <3> DEFINE j == Going(work[w].stack)
    <3>1. j.stack = work[w].stack /\ j.do = "walk"
      BY <2>1, GoingFacts
    <3> HIDE DEF j
    <3>2. frames'[top(w)].state \in TopStates(j.do) /\ frames'[top(w)].state # "none"
      BY <2>1, <2>2, <3>1 DEF TopStates
    <3> QED BY <2>1, <2>2, <3>1, <3>2, OthersKeptSame, StacksSameStack DEF j
  <2>3. CASE /\ f \in CAs /\ f \in Signed(top(w))
             /\ NewJob(work', w, Going(Append(work[w].stack, f)))
             /\ NewFrame(frames', f, [frames[f] EXCEPT !.state = "initial"])
    <3> DEFINE s == Append(work[w].stack, f)
    <3>1. ~InStack(f) /\ frames[f] \in Frame
      BY <2>1, <2>3, JudgingFacts, BaseParts DEF WalkTypes
    <3>2. OthersOK(w)
      BY <2>3, <3>1, OthersKeptOne
    <3>3. frames'[f].state = "initial"
      BY <2>3, <3>1 DEF NewFrame, Frame
    <3>4. s \in Stack /\ s # << >> /\ Last(s) = f /\ Front(s) = work[w].stack
      BY <2>1, <2>3, PushFacts
    <3>5. Going(s).do = "walk" /\ Going(s).stack = s
      BY <3>4, GoingFacts
    <3>6. \A c \in ToSet(work[w].stack) : frames'[c].state = "loop"
      BY <2>1 DEF LoopsStay
    <3>7. work'[w] = Going(s) /\ \A v \in Workers : v # w => work'[v] = work[v]
      BY <2>3 DEF NewJob
    <3> HIDE DEF s, f
    <3>8. StackOK(frames', work'[w].stack, TopStates(work'[w].do))
      BY <3>3, <3>4, <3>5, <3>6, <3>7 DEF StackOK, TopStates
    <3> QED BY <2>1, <3>2, <3>7, <3>8, StacksFromOthers
  <2> QED BY <1>2, <2>2, <2>3, BaseParts, JudgeFileFacts
<1> QED BY <1>1, <1>2

LEMMA StacksStep ==
    ASSUME Base, [WalkNext]_walkVars
    PROVE  StacksInv'
<1>1. LoopsStay
  BY LoopsStayStep
<1>2. CASE UNCHANGED <<frames, queue, work>>
  BY <1>2, BaseParts DEF StacksInv
<1>3. ASSUME NEW w \in Workers, StoreSome(w) PROVE StacksInv'
  <2> DEFINE j == [work[w] EXCEPT !.file = "some"]
  <2>1. work[w].do = "transfer" /\ NewJob(work', w, j) /\ UNCHANGED <<queue, frames>>
    BY <1>3, BaseParts, StoreSomeFacts DEF StoreSome
  <2>2. j.stack = work[w].stack /\ j.do = "transfer"
    BY <2>1, BaseParts, JobFacts DEF Job
  <2> HIDE DEF j
  <2>3. frames'[top(w)].state \in TopStates(j.do) /\ frames'[top(w)].state # "none"
    BY <2>1, <2>2, WorkerStack DEF TopStates
  <2> QED BY <1>1, <2>1, <2>2, <2>3, OthersKeptSame, StacksSameStack
<1>4. ASSUME NEW w \in Workers, EndTransfer(w) PROVE StacksInv'
  <2>1. /\ work[w].do = "transfer" /\ Wakes(Woken(work[w].at)) /\ queue' = queue
        /\ \A x \in Workers \ Woken(work[w].at) : work'[x] = work[x]
    BY <1>4, BaseParts, EndTransferFacts DEF EndTransfer
  <2>2. work[w].at \in Points
    BY <2>1, BaseParts DEF WaitsInv
  <2> QED BY <1>1, <2>1, <2>2, StacksWake
<1>5. ASSUME NEW w \in Workers, EndLoop(w) PROVE StacksInv'
  <2>1. work[w].do # "idle" /\ NewJob(work', w, Going(Front(work[w].stack)))
        /\ UNCHANGED <<queue, frames>>
    BY <1>5, BaseParts, EndLoopFacts DEF EndLoop
  <2> QED BY <1>1, <2>1, OthersKeptSame, StacksSameStack
<1>6. ASSUME NEW w \in Workers, TaskDies(w) PROVE StacksInv'
  <2>1. work[w].do # "idle" /\ queue' = queue
    BY <1>6, BaseParts, TaskDiesFacts DEF TaskDies
  <2>2. CASE frames' = frames /\ NewJob(work', w, Free)
    BY <1>1, <2>1, <2>2, OthersKeptSame, StacksSameStack
  <2>3. CASE /\ work[w].do = "transfer" /\ Wakes(Woken(work[w].at) \ {w}) /\ work'[w] = Free
             /\ \A x \in Workers \ (Woken(work[w].at) \cup {w}) : work'[x] = work[x]
    <3>1. work[w].at \in Points
      BY <2>3, BaseParts DEF WaitsInv
    <3> DEFINE ws == Woken(work[w].at) \ {w}
    <3>2. ws \in SUBSET Woken(work[w].at) /\ \A v \in Workers \ ws : work'[v] = work[v] \/ work'[v] = Free
      BY <2>3
    <3> QED BY <1>1, <2>1, <2>3, <3>1, <3>2, StacksWake
  <2> QED BY <1>6, <2>2, <2>3, BaseParts, TaskDiesFacts
<1>7. ASSUME NEW w \in Workers, WorkerStep(w) \/ TaskDies(w) PROVE StacksInv'
  BY <1>1, <1>3, <1>4, <1>5, <1>6, <1>7, StacksGetTask, StacksCheckTAL, StacksInitial, StacksFetch,
     StacksScan, StacksFile DEF WorkerStep
<1> QED BY <1>2, <1>7 DEF WalkNext, Join, Publish, walkVars

\* No worker gets a frame that it did not have.
NoNewTops == \A v \in Workers : ToSet(work'[v].stack) \subseteq ToSet(work[v].stack)

LEMMA StacksAreCAs ==
    ASSUME Base
    PROVE  /\ \A i \in DOMAIN queue : ToSet(queue[i]) \subseteq CAs
           /\ \A v \in Workers : ToSet(work[v].stack) \subseteq CAs
BY QueuedStack, BaseParts, JobFacts, StackOfCAs

LEMMA SharedNoNewTops ==
    ASSUME Base, LoopsStay, queue' = queue, NoNewTops
    PROVE  SharedFramesLoop'
<1>1. \A c \in CAs : frames[c].state = "loop" => frames'[c].state = "loop"
  BY DEF LoopsStay
<1>2. \A v \in Workers : ToSet(work'[v].stack) \subseteq ToSet(work[v].stack)
  BY DEF NoNewTops
<1>3. \A i, j \in DOMAIN queue : i # j =>
        \A c \in ToSet(queue[i]) \cap ToSet(queue[j]) : frames'[c].state = "loop"
  BY <1>1, BaseParts, StacksAreCAs DEF SharedFramesLoop
<1>4. \A i \in DOMAIN queue : \A v \in Workers :
        \A c \in ToSet(queue[i]) \cap ToSet(work[v].stack) : frames'[c].state = "loop"
  BY <1>1, BaseParts, StacksAreCAs DEF SharedFramesLoop
<1>5. \A u, v \in Workers : u # v =>
        \A c \in ToSet(work[u].stack) \cap ToSet(work[v].stack) : frames'[c].state = "loop"
  BY <1>1, BaseParts, StacksAreCAs DEF SharedFramesLoop
<1>6. \A i \in DOMAIN queue : \A v \in Workers :
        \A c \in ToSet(queue[i]) \cap ToSet(work'[v].stack) : frames'[c].state = "loop"
  BY <1>2, <1>4
<1>7. \A u, v \in Workers : u # v =>
        \A c \in ToSet(work'[u].stack) \cap ToSet(work'[v].stack) : frames'[c].state = "loop"
  BY <1>2, <1>5
<1> QED BY <1>3, <1>6, <1>7 DEF SharedFramesLoop

LEMMA EmptyStack == ToSet(<< >>) = {}
BY DEF ToSet

LEMMA SharedGetTask ==
    ASSUME Base, LoopsStay, NEW w \in Workers, GetTask(w)
    PROVE  SharedFramesLoop'
<1>1. /\ queue # << >> /\ queue' = Tail(queue) /\ frames' = frames
      /\ work'[w].stack = Head(queue) /\ \A v \in Workers : v # w => work'[v] = work[v]
  BY BaseParts, GetTaskFacts DEF GetTask
<1>2. /\ 1 \in DOMAIN queue /\ work'[w].stack = queue[1]
      /\ \A i \in DOMAIN queue' : /\ i + 1 \in DOMAIN queue /\ i + 1 # 1
                                  /\ queue'[i] = queue[i + 1]
      /\ \A i \in DOMAIN queue' : i \in Nat
  <2>1. \A i \in DOMAIN Tail(queue) : i \in Nat
    BY <1>1, BaseParts, TakeTask
  <2> QED BY <1>1, <2>1, BaseParts, TakeTask
<1>3. \A i, j \in DOMAIN queue : i # j =>
        \A c \in ToSet(queue[i]) \cap ToSet(queue[j]) : frames[c].state = "loop"
  BY BaseParts DEF SharedFramesLoop
<1>4. \A i \in DOMAIN queue : \A v \in Workers :
        \A c \in ToSet(queue[i]) \cap ToSet(work[v].stack) : frames[c].state = "loop"
  BY BaseParts DEF SharedFramesLoop
<1>5. \A u, v \in Workers : u # v =>
        \A c \in ToSet(work[u].stack) \cap ToSet(work[v].stack) : frames[c].state = "loop"
  BY BaseParts DEF SharedFramesLoop
<1>6. ASSUME NEW i \in DOMAIN queue', NEW j \in DOMAIN queue', i # j,
             NEW c \in ToSet(queue'[i]) \cap ToSet(queue'[j])
      PROVE  frames[c].state = "loop"
  <2>1. i + 1 # j + 1
    BY <1>2, <1>6
  <2> QED BY <1>2, <1>3, <2>1
<1>7. ASSUME NEW i \in DOMAIN queue', NEW v \in Workers,
             NEW c \in ToSet(queue'[i]) \cap ToSet(work'[v].stack)
      PROVE  frames[c].state = "loop"
  <2>1. CASE v = w
    BY <1>2, <1>3, <2>1
  <2>2. CASE v # w
    BY <1>1, <1>2, <1>4, <2>2
  <2> QED BY <2>1, <2>2
<1>8. ASSUME NEW u \in Workers, NEW v \in Workers, u # v,
             NEW c \in ToSet(work'[u].stack) \cap ToSet(work'[v].stack)
      PROVE  frames[c].state = "loop"
  <2>1. CASE u = w
    BY <1>1, <1>2, <1>4, <1>8, <2>1
  <2>2. CASE v = w
    BY <1>1, <1>2, <1>4, <1>8, <2>2
  <2>3. CASE u # w /\ v # w
    BY <1>1, <1>5, <1>8, <2>3
  <2> QED BY <2>1, <2>2, <2>3
<1> QED BY <1>1, <1>6, <1>7, <1>8 DEF SharedFramesLoop

\* A stack goes from a worker to the queue; what it shares with what the worker
\* keeps is in its loop.
LEMMA SharedAppend ==
    ASSUME Base, LoopsStay, NEW w \in Workers, NEW s \in Stack, s # << >>,
           queue' = Append(queue, s), NoNewTops, ToSet(s) \subseteq ToSet(work[w].stack),
           \A c \in ToSet(s) \cap ToSet(work'[w].stack) : frames[c].state = "loop"
    PROVE  SharedFramesLoop'
<1>1. /\ DOMAIN queue' = DOMAIN queue \cup {Len(queue) + 1}
      /\ queue'[Len(queue) + 1] = s /\ \A i \in DOMAIN queue : queue'[i] = queue[i]
      /\ Len(queue) + 1 \notin DOMAIN queue
  BY BaseParts, AppendTask
<1> DEFINE n == Len(queue) + 1
<1> HIDE DEF n
<1>2. \A v \in Workers : ToSet(work'[v].stack) \subseteq ToSet(work[v].stack)
  BY DEF NoNewTops
<1>3. \A i, j \in DOMAIN queue : i # j =>
        \A c \in ToSet(queue[i]) \cap ToSet(queue[j]) : frames[c].state = "loop"
  BY BaseParts DEF SharedFramesLoop
<1>4. \A i \in DOMAIN queue : \A v \in Workers :
        \A c \in ToSet(queue[i]) \cap ToSet(work[v].stack) : frames[c].state = "loop"
  BY BaseParts DEF SharedFramesLoop
<1>5. \A u, v \in Workers : u # v =>
        \A c \in ToSet(work[u].stack) \cap ToSet(work[v].stack) : frames[c].state = "loop"
  BY BaseParts DEF SharedFramesLoop
<1>6. \A i, j \in DOMAIN queue' : i # j =>
        \A c \in ToSet(queue'[i]) \cap ToSet(queue'[j]) : frames[c].state = "loop"
  BY <1>1, <1>3, <1>4
<1>7. ASSUME NEW i \in DOMAIN queue', NEW v \in Workers,
             NEW c \in ToSet(queue'[i]) \cap ToSet(work'[v].stack)
      PROVE  frames[c].state = "loop"
  <2>1. CASE i \in DOMAIN queue
    BY <1>1, <1>2, <1>4, <2>1
  <2>2. CASE i \notin DOMAIN queue /\ v = w
    BY <1>1, <2>2
  <2>3. CASE i \notin DOMAIN queue /\ v # w
    BY <1>1, <1>2, <1>5, <2>3
  <2> QED BY <2>1, <2>2, <2>3
<1>8. \A u, v \in Workers : u # v =>
        \A c \in ToSet(work'[u].stack) \cap ToSet(work'[v].stack) : frames[c].state = "loop"
  BY <1>2, <1>5
<1>9. \A v \in Workers : ToSet(work'[v].stack) \subseteq CAs
  BY <1>2, StacksAreCAs
<1>10. \A i \in DOMAIN queue' : ToSet(queue'[i]) \subseteq CAs
  BY <1>1, StacksAreCAs
<1>11. \A c \in CAs : frames[c].state = "loop" => frames'[c].state = "loop"
  BY DEF LoopsStay
<1>12. \A i, j \in DOMAIN queue' : i # j =>
        \A c \in ToSet(queue'[i]) \cap ToSet(queue'[j]) : frames'[c].state = "loop"
  BY <1>6, <1>10, <1>11
<1>13. \A i \in DOMAIN queue' : \A v \in Workers :
        \A c \in ToSet(queue'[i]) \cap ToSet(work'[v].stack) : frames'[c].state = "loop"
  BY <1>7, <1>10, <1>11
<1>14. \A u, v \in Workers : u # v =>
        \A c \in ToSet(work'[u].stack) \cap ToSet(work'[v].stack) : frames'[c].state = "loop"
  BY <1>8, <1>9, <1>11
<1> QED BY <1>12, <1>13, <1>14 DEF SharedFramesLoop

\* A CA that is in no stack becomes the top of one.
LEMMA SharedPush ==
    ASSUME Base, LoopsStay, NEW w \in Workers, NEW f, ~InStack(f), queue' = queue,
           ToSet(work'[w].stack) = ToSet(work[w].stack) \cup {f},
           \A v \in Workers : v # w => work'[v] = work[v]
    PROVE  SharedFramesLoop'
<1>1. \A i \in DOMAIN queue : f \notin ToSet(queue[i])
  BY DEF InStack
<1>2. \A v \in Workers : f \notin ToSet(work[v].stack)
  BY DEF InStack
<1>3. \A c \in CAs : frames[c].state = "loop" => frames'[c].state = "loop"
  BY DEF LoopsStay
<1>4. \A i, j \in DOMAIN queue : i # j =>
        \A c \in ToSet(queue[i]) \cap ToSet(queue[j]) : frames'[c].state = "loop"
  BY <1>3, BaseParts, StacksAreCAs DEF SharedFramesLoop
<1>5. \A i \in DOMAIN queue : \A v \in Workers :
        \A c \in ToSet(queue[i]) \cap ToSet(work[v].stack) : frames'[c].state = "loop"
  BY <1>3, BaseParts, StacksAreCAs DEF SharedFramesLoop
<1>6. \A u, v \in Workers : u # v =>
        \A c \in ToSet(work[u].stack) \cap ToSet(work[v].stack) : frames'[c].state = "loop"
  BY <1>3, BaseParts, StacksAreCAs DEF SharedFramesLoop
<1>7. \A i \in DOMAIN queue : \A v \in Workers :
        \A c \in ToSet(queue[i]) \cap ToSet(work'[v].stack) : frames'[c].state = "loop"
  BY <1>1, <1>5
<1>8. \A u, v \in Workers : u # v =>
        \A c \in ToSet(work'[u].stack) \cap ToSet(work'[v].stack) : frames'[c].state = "loop"
  BY <1>2, <1>6
<1> QED BY <1>4, <1>7, <1>8 DEF SharedFramesLoop

\* Stacks that only lose tops do not come to share one.
LEMMA NoNewTopsOne ==
    ASSUME Base, NEW w \in Workers, NEW j, NewJob(work', w, j),
           ToSet(j.stack) \subseteq ToSet(work[w].stack)
    PROVE  NoNewTops
BY DEF NewJob, NoNewTops

LEMMA NoNewTopsGoing ==
    ASSUME Base, NEW w \in Workers, work[w].do # "idle"
    PROVE  /\ ToSet(Going(work[w].stack).stack) \subseteq ToSet(work[w].stack)
           /\ ToSet(Going(Front(work[w].stack)).stack) \subseteq ToSet(work[w].stack)
           /\ ToSet(Free.stack) \subseteq ToSet(work[w].stack)
BY WorkerStack, GoingFacts, FreeFacts, EmptyStack

LEMMA NoNewTopsWake ==
    ASSUME Base, NEW p \in Points, NEW ws \in SUBSET Woken(p), Wakes(ws),
           \A v \in Workers \ ws : work'[v] = work[v] \/ work'[v] = Free
    PROVE  NoNewTops
<1>1. ASSUME NEW v \in ws PROVE ToSet(work'[v].stack) \subseteq ToSet(work[v].stack)
  <2>1. v \in Workers /\ work[v].do # "idle"
    BY WokenFacts
  <2> QED BY <2>1, NoNewTopsGoing DEF Wakes
<1>2. ASSUME NEW v \in Workers \ ws PROVE ToSet(work'[v].stack) \subseteq ToSet(work[v].stack)
  BY FreeFacts, EmptyStack
<1> QED BY <1>1, <1>2 DEF NoNewTops

LEMMA NoNewTopsTransfer ==
    ASSUME Base, NEW w \in Workers, EndTransfer(w) \/ TaskDies(w)
    PROVE  NoNewTops
<1>1. CASE EndTransfer(w)
  <2>1. /\ work[w].do = "transfer" /\ Wakes(Woken(work[w].at))
        /\ \A x \in Workers \ Woken(work[w].at) : work'[x] = work[x]
    BY <1>1, BaseParts, EndTransferFacts
  <2>2. work[w].at \in Points
    BY <2>1, BaseParts DEF WaitsInv
  <2> QED BY <2>1, <2>2, NoNewTopsWake
<1>2. CASE TaskDies(w)
  <2>1. work[w].do # "idle"
    BY <1>2, BaseParts, TaskDiesFacts
  <2>2. CASE NewJob(work', w, Free)
    BY <2>1, <2>2, NoNewTopsOne, NoNewTopsGoing
  <2>3. CASE /\ work[w].do = "transfer" /\ Wakes(Woken(work[w].at) \ {w}) /\ work'[w] = Free
             /\ \A x \in Workers \ (Woken(work[w].at) \cup {w}) : work'[x] = work[x]
    <3>1. work[w].at \in Points
      BY <2>3, BaseParts DEF WaitsInv
    <3> DEFINE ws == Woken(work[w].at) \ {w}
    <3>2. ws \in SUBSET Woken(work[w].at) /\ \A v \in Workers \ ws : work'[v] = work[v] \/ work'[v] = Free
      BY <2>3
    <3> QED BY <2>3, <3>1, <3>2, NoNewTopsWake
  <2> QED BY <1>2, <2>2, <2>3, BaseParts, TaskDiesFacts
<1> QED BY <1>1, <1>2

LEMMA SharedCheckTAL ==
    ASSUME Base, LoopsStay, NEW w \in Workers, CheckTAL(w)
    PROVE  SharedFramesLoop'
<1> DEFINE t == top(w)
<1>1. work[w].do = "tal" /\ t \in CAs /\ NewJob(work', w, Free) /\ t \in ToSet(work[w].stack)
  BY BaseParts, CheckTALFacts, WorkerStack
<1>2. NoNewTops /\ ToSet(work'[w].stack) = {}
  BY <1>1, NoNewTopsOne, NoNewTopsGoing, FreeFacts, EmptyStack DEF NewJob
<1>3. <<t>> \in Stack /\ <<t>> # << >> /\ ToSet(<<t>>) = {t}
  <2> HIDE DEF t
  <2>1. <<t>> \in Stack /\ <<t>> # << >> /\ Len(<<t>>) = 1 /\ <<t>>[1] = t
    BY <1>1 DEF Stack
  <2> QED BY <2>1, ShortStack DEF Last
<1>4. CASE queue' = queue
  BY <1>2, <1>4, SharedNoNewTops
<1>5. CASE queue' = Append(queue, <<t>>)
  <2> DEFINE s == <<t>>
  <2>1. /\ s \in Stack /\ s # << >> /\ queue' = Append(queue, s)
        /\ ToSet(s) \subseteq ToSet(work[w].stack)
    BY <1>1, <1>3, <1>5
  <2> HIDE DEF s
  <2> QED BY <1>2, <2>1, SharedAppend
<1> QED BY <1>4, <1>5, BaseParts, CheckTALFacts

LEMMA SharedInitial ==
    ASSUME Base, LoopsStay, NEW w \in Workers, initial(w)
    PROVE  SharedFramesLoop'
<1>1. work[w].do = "walk"
  BY BaseParts, InitialFacts
<1>2. CASE UNCHANGED <<queue, work>>
  BY <1>2, SharedNoNewTops DEF NoNewTops
<1>3. CASE queue' = Append(queue, work[w].stack) /\ NewJob(work', w, Going(Front(work[w].stack)))
  <2>1. NoNewTops
    BY <1>1, <1>3, NoNewTopsOne, NoNewTopsGoing
  <2>2. work'[w].stack = Front(work[w].stack)
    BY <1>1, <1>3, WorkerStack, GoingFacts DEF NewJob
  <2>3. /\ work[w].stack \in Stack /\ work[w].stack # << >>
        /\ \A c \in ToSet(Front(work[w].stack)) : frames[c].state = "loop"
    BY <1>1, WorkerStack
  <2> QED BY <1>3, <2>1, <2>2, <2>3, SharedAppend
<1> QED BY <1>2, <1>3, BaseParts, InitialFacts

LEMMA SharedFetch ==
    ASSUME Base, LoopsStay, NEW w \in Workers, fetch(w) \/ StoreSome(w) \/ ready(w) \/ EndLoop(w)
    PROVE  SharedFramesLoop'
<1>1. queue' = queue
  BY DEF fetch, StoreSome, ready, EndLoop
<1>2. work[w] \in Job
  BY BaseParts, JobFacts
<1>3. CASE fetch(w)
  <2>1. \A x, q : [work[w] EXCEPT !.do = x, !.at = q].stack = work[w].stack
    BY <1>2 DEF Job
  <2> DEFINE p == Point[top(w)]
  <2>2. \/ work' = work
        \/ NewJob(work', w, [work[w] EXCEPT !.do = "wait", !.at = entry(p)])
        \/ NewJob(work', w, [work[w] EXCEPT !.do = "transfer", !.at = p])
    BY <1>3, BaseParts, FetchFacts
  <2> HIDE DEF p
  <2>3. NoNewTops
    <3>1. \A v \in Workers : work'[v].stack = work[v].stack
      <4>1. \A j : j.stack = work[w].stack /\ NewJob(work', w, j)
              => \A v \in Workers : work'[v].stack = work[v].stack
        BY DEF NewJob
      <4>2. CASE work' = work
        BY <4>2
      <4> QED BY <2>1, <2>2, <4>1, <4>2
    <3> QED BY <3>1 DEF NoNewTops
  <2> QED BY <1>1, <2>3, SharedNoNewTops
<1>4. CASE StoreSome(w)
  <2>1. [work[w] EXCEPT !.file = "some"].stack = work[w].stack
    BY <1>2 DEF Job
  <2> QED BY <1>1, <1>4, <2>1, BaseParts, StoreSomeFacts, NoNewTopsOne, SharedNoNewTops
<1>5. CASE ready(w)
  BY <1>1, <1>5, BaseParts, ScanFacts, NoNewTopsOne, NoNewTopsGoing, SharedNoNewTops DEF NoNewTops
<1>6. CASE EndLoop(w)
  BY <1>1, <1>6, BaseParts, EndLoopFacts, NoNewTopsOne, NoNewTopsGoing, SharedNoNewTops
<1> QED BY <1>3, <1>4, <1>5, <1>6

LEMMA SharedFile ==
    ASSUME Base, LoopsStay, NEW w \in Workers, NextFile(w) \/ JudgeFile(w)
    PROVE  SharedFramesLoop'
<1>1. queue' = queue /\ work[w] \in Job
  BY BaseParts, JobFacts DEF NextFile, JudgeFile
<1>2. CASE NextFile(w)
  <2>1. \A f : [work[w] EXCEPT !.do = "file", !.file = f].stack = work[w].stack
    BY <1>1 DEF Job
  <2> QED BY <1>1, <1>2, <2>1, BaseParts, NextFileFacts, NoNewTopsOne, SharedNoNewTops
<1>3. CASE JudgeFile(w)
  <2> DEFINE f == work[w].file
  <2>1. work[w].do = "file" /\ work[w].stack \in Stack
    BY <1>1, <1>3, BaseParts, JudgeFileFacts DEF Job
  <2>2. CASE NewJob(work', w, Going(work[w].stack))
    BY <1>1, <2>1, <2>2, NoNewTopsOne, NoNewTopsGoing, SharedNoNewTops
  <2>3. CASE f \in CAs /\ f \in Signed(top(w)) /\ NewJob(work', w, Going(Append(work[w].stack, f)))
    <3>1. ~InStack(f)
      BY <2>1, <2>3, JudgingFacts
    <3>2. /\ Append(work[w].stack, f) \in Stack
          /\ ToSet(Append(work[w].stack, f)) = ToSet(work[w].stack) \cup {f}
      BY <2>1, <2>3, PushFacts
    <3>3. work'[w].stack = Append(work[w].stack, f) /\ \A v \in Workers : v # w => work'[v] = work[v]
      BY <2>3, <3>2, GoingFacts DEF NewJob
    <3> HIDE DEF f
    <3> QED BY <1>1, <3>1, <3>2, <3>3, SharedPush
  <2> QED BY <1>3, <2>2, <2>3, BaseParts, JudgeFileFacts
<1> QED BY <1>2, <1>3

LEMMA SharedStep ==
    ASSUME Base, [WalkNext]_walkVars
    PROVE  SharedFramesLoop'
<1>1. LoopsStay
  BY LoopsStayStep
<1>2. CASE UNCHANGED <<queue, work>>
  BY <1>1, <1>2, SharedNoNewTops DEF NoNewTops
<1>3. ASSUME NEW w \in Workers, EndTransfer(w) \/ TaskDies(w) PROVE SharedFramesLoop'
  <2>1. queue' = queue
    BY <1>3 DEF EndTransfer, TaskDies
  <2> QED BY <1>1, <1>3, <2>1, NoNewTopsTransfer, SharedNoNewTops
<1>4. ASSUME NEW w \in Workers, WorkerStep(w) \/ TaskDies(w) PROVE SharedFramesLoop'
  BY <1>1, <1>3, <1>4, SharedGetTask, SharedCheckTAL, SharedInitial, SharedFetch, SharedFile
     DEF WorkerStep
<1> QED BY <1>2, <1>4 DEF WalkNext, Join, Publish, walkVars

-----------------------------------------------------------------------------
(***************************************************************************)
(* The database grows, and what is bad stays bad.                          *)
(***************************************************************************)

LEMMA DbStep ==
    ASSUME [WalkNext]_walkVars
    PROVE  db \subseteq db' /\ bad' = bad
<1>1. ASSUME NEW w \in Workers, WorkerStep(w) \/ TaskDies(w) PROVE db \subseteq db' /\ bad' = bad
  BY <1>1 DEF WorkerStep, TaskDies, GetTask, CheckTAL, initial, fetch, StoreSome, EndTransfer, ready,
              NextFile, JudgeFile, EndLoop
<1> QED BY <1>1 DEF WalkNext, Join, Publish, walkVars

-----------------------------------------------------------------------------
(***************************************************************************)
(* What the frames hold.                                                   *)
(***************************************************************************)

FrameOK(rows, c, fr) ==
  IF fr.state = "loop"
  THEN /\ fr.mft \in Manifests \cap rows /\ Issuer[fr.mft] = c
       /\ fr.crl \in Crls \cap rows
       /\ fr.files \subseteq Content(fr.mft)
  ELSE fr = [NoFrame EXCEPT !.state = fr.state]

LEMMA FramesParts == FramesInv <=> \A c \in CAs : FrameOK(db, c, frames[c])
BY DEF FramesInv, FrameOK

LEMMA FrameGrows ==
    \A rows, more, c, fr : rows \subseteq more /\ FrameOK(rows, c, fr) => FrameOK(more, c, fr)
BY DEF FrameOK

LEMMA FrameMoves ==
    \A rows, c, fr, x : FrameOK(rows, c, fr) /\ fr.state # "loop" /\ x # "loop"
       => FrameOK(rows, c, [fr EXCEPT !.state = x])
BY DEF FrameOK, NoFrame

LEMMA FramesKept ==
    ASSUME Base, db \subseteq db', frames' = frames
    PROVE  FramesInv'
BY BaseParts, FramesParts, FrameGrows DEF FramesInv, FrameOK

LEMMA FramesOne ==
    ASSUME Base, db \subseteq db', NEW c \in CAs, NEW fr, NewFrame(frames', c, fr),
           FrameOK(db, c, fr)
    PROVE  FramesInv'
<1>1. ASSUME NEW d \in CAs PROVE FrameOK(db', d, frames'[d])
  <2>1. FrameOK(db, d, frames'[d])
    BY BaseParts, FramesParts DEF NewFrame
  <2> QED BY <2>1, FrameGrows
<1> QED BY <1>1 DEF FramesInv, FrameOK

LEMMA FramesMove ==
    ASSUME Base, db \subseteq db', NEW c \in CAs, NEW x, x # "loop", frames[c].state # "loop",
           NewFrame(frames', c, [frames[c] EXCEPT !.state = x])
    PROVE  FramesInv'
<1>1. FrameOK(db, c, [frames[c] EXCEPT !.state = x])
  BY BaseParts, FramesParts, FrameMoves
<1> QED BY <1>1, FramesOne

LEMMA FramesWake ==
    ASSUME Base, db \subseteq db', NEW p \in Points, NEW ws \in SUBSET Woken(p), Wakes(ws)
    PROVE  FramesInv'
<1>1. ASSUME NEW c \in CAs PROVE FrameOK(db', c, frames'[c])
  <2>1. FrameOK(db, c, frames[c])
    BY BaseParts, FramesParts
  <2>2. CASE \E x \in ws : c = top(x)
    <3>1. PICK x \in ws : c = top(x)
      BY <2>2
    <3>2. frames[c].state = "fetch"
      BY <3>1, WokenFacts
    <3>3. frames'[c] = [frames[c] EXCEPT !.state = "ready"]
      BY <2>2 DEF Wakes
    <3>4. FrameOK(db, c, frames'[c])
      BY <2>1, <3>2, <3>3, FrameMoves
    <3> QED BY <3>4, FrameGrows
  <2>3. CASE ~ \E x \in ws : c = top(x)
    BY <2>1, <2>3, FrameGrows DEF Wakes
  <2> QED BY <2>2, <2>3
<1> QED BY <1>1 DEF FramesInv, FrameOK

LEMMA FramesStep ==
    ASSUME Base, [WalkNext]_walkVars
    PROVE  FramesInv'
<1>1. db \subseteq db'
  BY DbStep
<1>2. CASE frames' = frames
  BY <1>1, <1>2, FramesKept
<1>3. ASSUME NEW w \in Workers, CheckTAL(w) PROVE FramesInv'
  <2>1. frames[top(w)].state = "none" /\ top(w) \in CAs
    BY <1>3, BaseParts, CheckTALFacts, WorkerStack DEF TopStates
  <2> QED BY <1>1, <1>2, <1>3, <2>1, BaseParts, CheckTALFacts, FramesMove
<1>4. ASSUME NEW w \in Workers, initial(w) PROVE FramesInv'
  BY <1>1, <1>4, BaseParts, InitialFacts, FramesMove
<1>5. ASSUME NEW w \in Workers, fetch(w) PROVE FramesInv'
  BY <1>1, <1>2, <1>5, BaseParts, FetchFacts, FramesMove
<1>6. ASSUME NEW w \in Workers, EndTransfer(w) PROVE FramesInv'
  <2>1. work[w].do = "transfer" /\ Wakes(Woken(work[w].at))
    BY <1>6, BaseParts, EndTransferFacts
  <2>2. work[w].at \in Points
    BY <2>1, BaseParts DEF WaitsInv
  <2> QED BY <1>1, <2>1, <2>2, FramesWake
<1>7. ASSUME NEW w \in Workers, ready(w) PROVE FramesInv'
  <2> DEFINE c == top(w)
             crl == ChosenCrl(c)
             mft == ChosenManifest(c)
             fr == [state |-> "loop", files |-> Content(mft), mft |-> mft, crl |-> crl]
  <2>1. /\ c \in CAs /\ frames[c].state = "ready"
        /\ crl # Nothing => crl \in Crls \cap Mine(c)
        /\ mft # Nothing => mft \in Manifests \cap Mine(c) /\ crl # Nothing
        /\ \/ NewFrame(frames', c, [frames[c] EXCEPT !.state = "empty"])
           \/ mft # Nothing /\ NewFrame(frames', c, fr)
    BY <1>7, BaseParts, ScanFacts
  <2>2. CASE NewFrame(frames', c, [frames[c] EXCEPT !.state = "empty"])
    BY <1>1, <2>1, <2>2, FramesMove
  <2>3. CASE mft # Nothing /\ NewFrame(frames', c, fr)
    <3>1. mft \in Mine(c) /\ crl \in Mine(c) /\ mft \in Manifests /\ crl \in Crls
      BY <2>1, <2>3
    <3>2. mft \in db /\ Issuer[mft] = c /\ crl \in db
      BY <3>1, SignedFacts DEF Mine
    <3> HIDE DEF mft, crl, c
    <3>3. FrameOK(db, c, fr)
      BY <3>1, <3>2 DEF FrameOK
    <3> HIDE DEF fr
    <3> QED BY <1>1, <2>1, <2>3, <3>3, FramesOne
  <2> QED BY <2>1, <2>2, <2>3
<1>8. ASSUME NEW w \in Workers, NextFile(w) PROVE FramesInv'
  <2> DEFINE c == top(w)
  <2>1. c \in CAs /\ frames[c].state = "loop" /\ frames[c] \in Frame
    BY <1>8, BaseParts, NextFileFacts DEF WalkTypes
  <2>2. PICK f \in frames[c].files : NewFrame(frames', c, [frames[c] EXCEPT !.files = @ \ {f}])
    BY <1>8, BaseParts, NextFileFacts
  <2>3. FrameOK(db, c, frames[c])
    BY <2>1, BaseParts, FramesParts
  <2>4. FrameOK(db, c, [frames[c] EXCEPT !.files = @ \ {f}])
    BY <2>1, <2>3 DEF FrameOK, Frame
  <2> QED BY <1>1, <2>1, <2>2, <2>4, FramesOne
<1>9. ASSUME NEW w \in Workers, JudgeFile(w) PROVE FramesInv'
  <2>1. work[w].do = "file"
    BY <1>9, BaseParts, JudgeFileFacts
  <2>2. work[w].file \in Signed(top(w)) /\ work[w].file \in CAs
          => frames[work[w].file].state = "none"
    BY <2>1, JudgingFacts
  <2> QED BY <1>1, <1>2, <1>9, <2>2, BaseParts, JudgeFileFacts, FramesMove
<1>10. ASSUME NEW w \in Workers, TaskDies(w) PROVE FramesInv'
  <2>1. CASE work[w].do = "transfer" /\ Wakes(Woken(work[w].at) \ {w})
    <3>1. work[w].at \in Points
      BY <2>1, BaseParts DEF WaitsInv
    <3> QED BY <1>1, <2>1, <3>1, FramesWake
  <2> QED BY <1>2, <1>10, <2>1, BaseParts, TaskDiesFacts
<1> QED BY <1>2, <1>3, <1>4, <1>5, <1>6, <1>7, <1>8, <1>9, <1>10
       DEF WalkNext, WorkerStep, walkVars, GetTask, StoreSome, EndLoop, Join, Publish

-----------------------------------------------------------------------------
(***************************************************************************)
(* Who waits for a transfer, or makes one.                                 *)
(***************************************************************************)

\* Who does neither has nothing to wait at.
WaitOK(j) ==
  IF j.do \in {"wait", "transfer"}
  THEN j.at \in Points /\ <<j.at, Point[Last(j.stack)]>> \in Above
  ELSE j.at = Nothing

LEMMA WaitsParts == WaitsInv <=> \A w \in Workers : WaitOK(work[w])
BY DEF WaitsInv, WaitOK, top

LEMMA WaitsPartsNext == WaitsInv' <=> \A w \in Workers : WaitOK(work'[w])
BY DEF WaitsInv, WaitOK, top

LEMMA WaitsRest ==
    /\ WaitOK(Free)
    /\ \A s \in Stack : WaitOK(Going(s))
BY FreeFacts, GoingFacts DEF WaitOK

LEMMA WaitsOne ==
    ASSUME Base, NEW w \in Workers, NEW j, NewJob(work', w, j), WaitOK(j)
    PROVE  WaitsInv'
BY BaseParts, WaitsParts, WaitsPartsNext DEF NewJob

LEMMA WaitsStep ==
    ASSUME Base, [WalkNext]_walkVars
    PROVE  WaitsInv'
<1>1. CASE work' = work
  BY <1>1, BaseParts, WaitsParts, WaitsPartsNext
<1>2. ASSUME NEW w \in Workers, GetTask(w) PROVE WaitsInv'
  <2>1. work'[w].at = Nothing /\ work'[w].do \in {"tal", "walk"}
        /\ \A v \in Workers : v # w => work'[v] = work[v]
    BY <1>2, BaseParts, GetTaskFacts
  <2>2. WaitOK(work'[w])
    BY <2>1 DEF WaitOK
  <2> QED BY <2>1, <2>2, BaseParts, WaitsParts, WaitsPartsNext
<1>3. ASSUME NEW w \in Workers, NewJob(work', w, Free) PROVE WaitsInv'
  BY <1>3, WaitsRest, WaitsOne
<1>4. ASSUME NEW w \in Workers, work[w].do # "idle", NewJob(work', w, Going(Front(work[w].stack)))
      PROVE  WaitsInv'
  BY <1>4, WaitsRest, WaitsOne, WorkerStack
<1>5. ASSUME NEW w \in Workers, fetch(w) PROVE WaitsInv'
  <2> DEFINE p == Point[top(w)]
  <2>1. /\ work[w].do = "walk" /\ top(w) \in CAs
        /\ \/ work' = work
           \/ /\ NewJob(work', w, [work[w] EXCEPT !.do = "wait", !.at = entry(p)])
              /\ entry(p) \in Points /\ <<entry(p), p>> \in Above
           \/ NewJob(work', w, [work[w] EXCEPT !.do = "transfer", !.at = p])
    BY <1>5, BaseParts, FetchFacts
  <2>2. p \in Points /\ <<p, p>> \in Above /\ work[w] \in Job /\ p = Point[Last(work[w].stack)]
    BY <2>1, WorldAssumption, DirectoriesAssumption, BaseParts, JobFacts DEF top
  <2> HIDE DEF p
  <2>3. ASSUME NEW x \in {"wait", "transfer"}, NEW q \in Points, <<q, p>> \in Above
        PROVE  WaitOK([work[w] EXCEPT !.do = x, !.at = q])
    <3> DEFINE j == [work[w] EXCEPT !.do = x, !.at = q]
    <3>1. j.do = x /\ j.at = q /\ j.stack = work[w].stack
      BY <2>2 DEF Job
    <3> HIDE DEF j
    <3>2. WaitOK(j)
      BY <2>2, <2>3, <3>1 DEF WaitOK
    <3> QED BY <3>2 DEF j
  <2>4. CASE /\ NewJob(work', w, [work[w] EXCEPT !.do = "wait", !.at = entry(p)])
             /\ entry(p) \in Points /\ <<entry(p), p>> \in Above
    <3>1. WaitOK([work[w] EXCEPT !.do = "wait", !.at = entry(p)])
      BY <2>3, <2>4
    <3> QED BY <2>4, <3>1, WaitsOne
  <2>5. CASE NewJob(work', w, [work[w] EXCEPT !.do = "transfer", !.at = p])
    <3>1. WaitOK([work[w] EXCEPT !.do = "transfer", !.at = p])
      BY <2>2, <2>3
    <3> QED BY <2>5, <3>1, WaitsOne
  <2> QED BY <1>1, <2>1, <2>4, <2>5
<1>6. ASSUME NEW w \in Workers, StoreSome(w) PROVE WaitsInv'
  <2> DEFINE j == [work[w] EXCEPT !.file = "some"]
  <2>1. NewJob(work', w, j)
    BY <1>6, BaseParts, StoreSomeFacts
  <2>2. j.do = work[w].do /\ j.at = work[w].at /\ j.stack = work[w].stack
    BY BaseParts, JobFacts DEF Job
  <2> HIDE DEF j
  <2>3. WaitOK(j)
    BY <2>2, BaseParts, WaitsParts DEF WaitOK
  <2> QED BY <2>1, <2>3, WaitsOne
<1>7. ASSUME NEW ws \in SUBSET Workers, Wakes(ws),
             \A v \in Workers \ ws : work'[v] = work[v] \/ work'[v] = Free
      PROVE  WaitsInv'
  <2>1. \A v \in ws : WaitOK(work'[v])
    BY <1>7, BaseParts, JobFacts, WaitsRest DEF Wakes
  <2>2. \A v \in Workers \ ws : WaitOK(work'[v])
    BY <1>7, BaseParts, WaitsParts, WaitsRest
  <2> QED BY <2>1, <2>2, WaitsPartsNext
<1>8. ASSUME NEW w \in Workers, EndTransfer(w) PROVE WaitsInv'
  <2>1. Woken(work[w].at) \in SUBSET Workers
    BY DEF Woken
  <2> QED BY <1>7, <1>8, <2>1, BaseParts, EndTransferFacts
<1>9. ASSUME NEW w \in Workers, TaskDies(w) PROVE WaitsInv'
  <2>1. CASE /\ Wakes(Woken(work[w].at) \ {w}) /\ work'[w] = Free
             /\ \A x \in Workers \ (Woken(work[w].at) \cup {w}) : work'[x] = work[x]
    <3> DEFINE ws == Woken(work[w].at) \ {w}
    <3>1. ws \in SUBSET Workers
      BY DEF Woken
    <3>2. \A v \in Workers \ ws : work'[v] = work[v] \/ work'[v] = Free
      BY <2>1
    <3>3. Wakes(ws)
      BY <2>1
    <3> HIDE DEF ws
    <3> QED BY <1>7, <3>1, <3>2, <3>3
  <2> QED BY <1>3, <1>9, <2>1, BaseParts, TaskDiesFacts
<1>10. ASSUME NEW w \in Workers, NextFile(w) PROVE WaitsInv'
  <2>1. PICK f : NewJob(work', w, [work[w] EXCEPT !.do = "file", !.file = f])
    BY <1>10, BaseParts, NextFileFacts
  <2> DEFINE j == [work[w] EXCEPT !.do = "file", !.file = f]
  <2>2. j.do = "file" /\ j.at = work[w].at /\ work[w].do = "walk"
    BY <1>10, BaseParts, JobFacts, NextFileFacts DEF Job
  <2> HIDE DEF j
  <2>3. WaitOK(j)
    BY <2>2, BaseParts, WaitsParts DEF WaitOK
  <2>4. NewJob(work', w, j)
    BY <2>1 DEF j
  <2> QED BY <2>3, <2>4, WaitsOne
<1>11. ASSUME NEW w \in Workers, JudgeFile(w) PROVE WaitsInv'
  <2> DEFINE f == work[w].file
  <2>1. work[w].do = "file" /\ work[w].stack \in Stack
    BY <1>11, BaseParts, JudgeFileFacts, JobFacts
  <2>2. CASE NewJob(work', w, Going(work[w].stack))
    BY <2>1, <2>2, WaitsRest, WaitsOne
  <2>3. CASE f \in CAs /\ NewJob(work', w, Going(Append(work[w].stack, f)))
    <3>1. Append(work[w].stack, f) \in Stack
      BY <2>1, <2>3, PushFacts
    <3> QED BY <2>3, <3>1, WaitsRest, WaitsOne
  <2> QED BY <1>11, <2>2, <2>3, BaseParts, JudgeFileFacts
<1>12. ASSUME NEW w \in Workers, WorkerStep(w) \/ TaskDies(w) PROVE WaitsInv'
  <2>1. CASE CheckTAL(w)
    BY <1>3, <2>1, BaseParts, CheckTALFacts
  <2>2. CASE initial(w)
    BY <1>1, <1>4, <2>2, BaseParts, InitialFacts
  <2>3. CASE ready(w)
    BY <1>1, <1>4, <2>3, BaseParts, ScanFacts
  <2>4. CASE EndLoop(w)
    BY <1>4, <2>4, BaseParts, EndLoopFacts
  <2> QED BY <1>2, <1>5, <1>6, <1>8, <1>9, <1>10, <1>11, <1>12, <2>1, <2>2, <2>3, <2>4
         DEF WorkerStep
<1> QED BY <1>1, <1>12 DEF WalkNext, Join, Publish, walkVars

-----------------------------------------------------------------------------
(***************************************************************************)
(* What has been fetched.                                                  *)
(***************************************************************************)

Scanned == {"ready", "loop", "empty"}

LEMMA CompleteGrows ==
    ASSUME db \subseteq db'
    PROVE  \A p : Complete(p) => Complete(p)'
BY DEF Complete

LEMMA KnownDone ==
    ASSUME Base, failed = {}, NEW c \in CAs, known(Point[c]) = "done"
    PROVE  \E q \in Points : <<q, Point[c]>> \in Above /\ Complete(q)
<1> DEFINE p == Point[c]
<1>1. p \in Points
  BY WorldAssumption
<1>2. entry(p) \in Points /\ <<entry(p), p>> \in Above /\ history[entry(p)] = "done"
  BY <1>1, EntryFacts DEF known
<1> QED BY <1>2, BaseParts DEF FetchedInv

LEMMA FetchedKept ==
    ASSUME Base, db \subseteq db', failed \subseteq failed',
           \A p \in Points : history'[p] = "done" => history[p] = "done",
           \A c \in CAs : frames'[c].state \in Scanned =>
              \/ frames[c].state \in Scanned
              \/ failed = {} => \E q \in Points : <<q, Point[c]>> \in Above /\ Complete(q)
    PROVE  FetchedInv'
<1> SUFFICES ASSUME failed' = {}
             PROVE  /\ \A p \in Points : history'[p] = "done" => Complete(p)'
                    /\ \A c \in CAs : frames'[c].state \in Scanned =>
                         \E q \in Points : <<q, Point[c]>> \in Above /\ Complete(q)'
  BY DEF FetchedInv, Scanned
<1>1. failed = {}
  OBVIOUS
<1>2. \A p \in Points : history[p] = "done" => Complete(p)
  BY <1>1, BaseParts DEF FetchedInv
<1>3. \A c \in CAs : frames[c].state \in Scanned =>
        \E q \in Points : <<q, Point[c]>> \in Above /\ Complete(q)
  BY <1>1, BaseParts DEF FetchedInv, Scanned
<1> QED BY <1>1, <1>2, <1>3, CompleteGrows

LEMMA FetchedSameFrames ==
    ASSUME Base, db \subseteq db', failed \subseteq failed', history' = history, frames' = frames
    PROVE  FetchedInv'
BY FetchedKept

LEMMA FetchedOneFrame ==
    ASSUME Base, db \subseteq db', failed \subseteq failed', history' = history,
           NEW c \in CAs, NEW fr, NewFrame(frames', c, fr),
           \/ fr.state \notin Scanned \/ frames[c].state \in Scanned
           \/ failed = {} => \E q \in Points : <<q, Point[c]>> \in Above /\ Complete(q)
    PROVE  FetchedInv'
BY FetchedKept DEF NewFrame

LEMMA MovedState ==
    \A c \in CAs : \A x : Base => [frames[c] EXCEPT !.state = x].state = x
BY BaseParts DEF WalkTypes, Frame

LEMMA FetchedTransfer ==
    ASSUME Base, NEW w \in Workers, EndTransfer(w), db \subseteq db'
    PROVE  FetchedInv'
<1>0. PICK p : p = work[w].at
  OBVIOUS
<1>1. /\ work[w].do = "transfer" /\ Wakes(Woken(p))
      /\ history' = [history EXCEPT ![p] = "done"]
      /\ \/ db' = db \cup Offered(p) /\ failed' = failed
         \/ failed' = failed \cup {p}
  BY <1>0, BaseParts, EndTransferFacts
<1>2. p \in Points
  BY <1>0, <1>1, BaseParts DEF WaitsInv
<1> SUFFICES ASSUME failed' = {}
             PROVE  /\ \A q \in Points : history'[q] = "done" => Complete(q)'
                    /\ \A c \in CAs : frames'[c].state \in Scanned =>
                         \E q \in Points : <<q, Point[c]>> \in Above /\ Complete(q)'
  BY DEF FetchedInv, Scanned
<1>3. failed = {} /\ db' = db \cup Offered(p)
  BY <1>1
<1>4. Complete(p)'
  BY <1>2, <1>3, BaseParts, OfferedFacts DEF Complete
<1>5. \A q \in Points : history'[q] = "done" => Complete(q)'
  <2>1. \A q \in Points : history[q] = "done" => Complete(q)
    BY <1>3, BaseParts DEF FetchedInv
  <2> QED BY <1>1, <1>4, <2>1, BaseParts, CompleteGrows DEF WalkTypes
<1>6. ASSUME NEW c \in CAs, frames'[c].state \in Scanned
      PROVE  \E q \in Points : <<q, Point[c]>> \in Above /\ Complete(q)'
  <2>1. CASE \E x \in Woken(p) : c = top(x)
    <3>1. PICK x \in Woken(p) : c = top(x)
      BY <2>1
    <3>2. <<p, Point[top(x)]>> \in Above
      BY <1>2, <3>1, WokenFacts
    <3> QED BY <1>2, <1>4, <3>1, <3>2
  <2>2. CASE ~ \E x \in Woken(p) : c = top(x)
    <3>1. frames[c].state \in Scanned
      BY <1>1, <1>6, <2>2 DEF Wakes
    <3>2. \E q \in Points : <<q, Point[c]>> \in Above /\ Complete(q)
      BY <1>3, <3>1, BaseParts DEF FetchedInv, Scanned
    <3> QED BY <3>2, CompleteGrows
  <2> QED BY <2>1, <2>2
<1> QED BY <1>5, <1>6

LEMMA FailedStep ==
    ASSUME [WalkNext]_walkVars
    PROVE  failed \subseteq failed'
<1>1. ASSUME NEW w \in Workers, WorkerStep(w) \/ TaskDies(w) PROVE failed \subseteq failed'
  BY <1>1 DEF WorkerStep, TaskDies, GetTask, CheckTAL, initial, fetch, StoreSome, EndTransfer, ready,
              NextFile, JudgeFile, EndLoop
<1> QED BY <1>1 DEF WalkNext, Join, Publish, walkVars

LEMMA FetchedStep ==
    ASSUME Base, [WalkNext]_walkVars
    PROVE  FetchedInv'
<1>1. db \subseteq db' /\ failed \subseteq failed'
  BY DbStep, FailedStep
<1>2. CASE UNCHANGED <<frames, history>>
  BY <1>1, <1>2, FetchedSameFrames
<1>3. ASSUME NEW w \in Workers, CheckTAL(w) PROVE FetchedInv'
  <2>1. top(w) \in CAs /\ history' = history
        /\ \/ frames' = frames
           \/ NewFrame(frames', top(w), [frames[top(w)] EXCEPT !.state = "initial"])
    BY <1>3, BaseParts, CheckTALFacts DEF CheckTAL
  <2>2. [frames[top(w)] EXCEPT !.state = "initial"].state \notin Scanned
    BY <2>1, MovedState DEF Scanned
  <2> QED BY <1>1, <1>2, <2>1, <2>2, FetchedOneFrame
<1>4. ASSUME NEW w \in Workers, initial(w) PROVE FetchedInv'
  <2>1. /\ top(w) \in CAs /\ history' = history
        /\ \/ /\ known(Point[top(w)]) = "done"
              /\ NewFrame(frames', top(w), [frames[top(w)] EXCEPT !.state = "ready"])
           \/ NewFrame(frames', top(w), [frames[top(w)] EXCEPT !.state = "fetch"])
    BY <1>4, BaseParts, InitialFacts DEF initial, needed
  <2>2. [frames[top(w)] EXCEPT !.state = "fetch"].state \notin Scanned
    BY <2>1, MovedState DEF Scanned
  <2> QED BY <1>1, <2>1, <2>2, KnownDone, FetchedOneFrame
<1>5. ASSUME NEW w \in Workers, fetch(w) PROVE FetchedInv'
  <2> DEFINE p == Point[top(w)]
  <2>1. /\ top(w) \in CAs
        /\ \/ UNCHANGED <<frames, history>>
           \/ history' = [history EXCEPT ![p] = "pending"] /\ frames' = frames
           \/ /\ known(p) = "done" /\ history' = history
              /\ NewFrame(frames', top(w), [frames[top(w)] EXCEPT !.state = "ready"])
    BY <1>5, BaseParts, FetchFacts
  <2>2. CASE history' = [history EXCEPT ![p] = "pending"] /\ frames' = frames
    <3>1. \A q \in Points : history'[q] = "done" => history[q] = "done"
      BY <2>2, BaseParts DEF WalkTypes
    <3> QED BY <1>1, <2>2, <3>1, FetchedKept
  <2> QED BY <1>1, <1>2, <2>1, <2>2, KnownDone, FetchedOneFrame
<1>6. ASSUME NEW w \in Workers, ready(w) PROVE FetchedInv'
  <2>1. /\ top(w) \in CAs /\ frames[top(w)].state \in Scanned /\ history' = history
        /\ \E fr : NewFrame(frames', top(w), fr)
    BY <1>6, BaseParts, ScanFacts DEF ready, Scanned
  <2> QED BY <1>1, <2>1, FetchedOneFrame
<1>7. ASSUME NEW w \in Workers, NextFile(w) PROVE FetchedInv'
  <2>1. /\ top(w) \in CAs /\ frames[top(w)].state \in Scanned /\ history' = history
        /\ \E fr : NewFrame(frames', top(w), fr)
    BY <1>7, BaseParts, NextFileFacts DEF NextFile, Scanned
  <2> QED BY <1>1, <2>1, FetchedOneFrame
<1>8. ASSUME NEW w \in Workers, JudgeFile(w) PROVE FetchedInv'
  <2> DEFINE f == work[w].file
  <2>1. /\ history' = history
        /\ \/ frames' = frames
           \/ f \in CAs /\ NewFrame(frames', f, [frames[f] EXCEPT !.state = "initial"])
    BY <1>8, BaseParts, JudgeFileFacts DEF JudgeFile
  <2>2. f \in CAs => [frames[f] EXCEPT !.state = "initial"].state \notin Scanned
    BY MovedState DEF Scanned
  <2> QED BY <1>1, <1>2, <2>1, <2>2, FetchedOneFrame
<1>9. ASSUME NEW w \in Workers, TaskDies(w) PROVE FetchedInv'
  BY <1>9 DEF TaskDies, FetchedInv
<1>10. ASSUME NEW w \in Workers, EndTransfer(w) PROVE FetchedInv'
  BY <1>1, <1>10, FetchedTransfer
<1> QED BY <1>2, <1>3, <1>4, <1>5, <1>6, <1>7, <1>8, <1>9, <1>10
       DEF WalkNext, WorkerStep, walkVars, GetTask, StoreSome, EndLoop, Join, Publish

-----------------------------------------------------------------------------
(***************************************************************************)
(* Why URIs are rejected.                                                  *)
(***************************************************************************)

LEMMA CulpableStays ==
    ASSUME Base, LoopsStay, db \subseteq db', bad' = bad
    PROVE  \A o : Culpable(o) => Culpable(o)'
BY DEF Culpable, Misplaced, LoopsStay

LEMMA RejectedKept ==
    ASSUME Base, LoopsStay, db \subseteq db', bad' = bad,
           \A u \in rejected' : u \in rejected \/ \E o \in db' : Uri[o] = u /\ Culpable(o)'
    PROVE  RejectedInv'
BY CulpableStays, BaseParts DEF RejectedInv

LEMMA RejectedSame ==
    ASSUME Base, LoopsStay, db \subseteq db', bad' = bad, rejected' = rejected
    PROVE  RejectedInv'
BY RejectedKept

LEMMA RejectedStep ==
    ASSUME Base, [WalkNext]_walkVars
    PROVE  RejectedInv'
<1>1. LoopsStay /\ db \subseteq db' /\ bad' = bad
  BY DbStep, LoopsStayStep
<1>2. CASE rejected' = rejected
  BY <1>1, <1>2, RejectedSame
<1>3. ASSUME NEW w \in Workers, CheckTAL(w) PROVE RejectedInv'
  <2>1. \/ rejected' = rejected
        \/ top(w) \in db' \cap bad /\ rejected' = rejected \cup {Uri[top(w)]}
    BY <1>3, BaseParts, CheckTALFacts
  <2>2. CASE top(w) \in db' \cap bad /\ rejected' = rejected \cup {Uri[top(w)]}
    <3>1. Culpable(top(w))
      BY <2>2 DEF Culpable
    <3>2. \A o : Culpable(o) => Culpable(o)'
      BY <1>1, CulpableStays
    <3> QED BY <1>1, <2>2, <3>1, <3>2, BaseParts DEF RejectedInv
  <2> QED BY <1>2, <2>1, <2>2
<1>4. ASSUME NEW w \in Workers, ready(w) PROVE RejectedInv'
  <2> DEFINE c == top(w)
             crl == ChosenCrl(c)
  <2>1. PICK U \in SUBSET Mine(c) :
          /\ rejected' = rejected \cup {Uri[o] : o \in U}
          /\ \A o \in U : o \in bad \/ (o \in Manifests /\ crl # Nothing /\ o \in Revoked[crl])
    BY <1>4, BaseParts, ScanFacts
  <2>2. crl # Nothing => crl \in Crls \cap Mine(c)
    BY <1>4, BaseParts, ScanFacts
  <2> HIDE DEF crl
  <2>3. \A o \in Mine(c) : o \in db /\ Issuer[o] = c
    BY SignedFacts DEF Mine
  <2> HIDE DEF c
  <2>4. \A o \in U : o \in db /\ Culpable(o)
    BY <2>1, <2>2, <2>3 DEF Culpable
  <2>5. \A o : Culpable(o) => Culpable(o)'
    BY <1>1, CulpableStays
  <2>6. \A u \in rejected' : u \in rejected \/ \E o \in db' : Uri[o] = u /\ Culpable(o)'
    BY <1>1, <2>1, <2>4, <2>5
  <2> QED BY <1>1, <2>6, RejectedKept
<1>5. ASSUME NEW w \in Workers, JudgeFile(w) PROVE RejectedInv'
  <2> DEFINE f == work[w].file
             c == top(w)
  <2>1. /\ work[w].do = "file"
        /\ \/ rejected' = rejected
           \/ /\ f \in db
              /\ ~(f \in Signed(c) /\ Uri[f] \notin rejected /\ Sound(f, frames[c].crl))
              /\ rejected' = rejected \cup {Uri[f]}
    BY <1>5, BaseParts, JudgeFileFacts
  <2>2. c \in CAs /\ frames[c].state = "loop" /\ f \in Content(frames[c].mft)
    BY <2>1, JudgingFacts
  <2> HIDE DEF f, c
  <2>3. f \notin Signed(c) \/ ~Sound(f, frames[c].crl) => Culpable(f)
    BY <2>2 DEF Culpable, Misplaced, Sound
  <2>4. \A o : Culpable(o) => Culpable(o)'
    BY <1>1, CulpableStays
  <2>5. \A u \in rejected' : u \in rejected \/ \E o \in db' : Uri[o] = u /\ Culpable(o)'
    BY <1>1, <2>1, <2>3, <2>4
  <2> QED BY <1>1, <2>5, RejectedKept
<1> QED BY <1>2, <1>3, <1>4, <1>5
       DEF WalkNext, WorkerStep, walkVars, GetTask, initial, fetch, StoreSome, EndTransfer, NextFile,
           EndLoop, TaskDies, Join, Publish

-----------------------------------------------------------------------------
(***************************************************************************)
(* What has been accepted.                                                 *)
(***************************************************************************)

\* The files that a frame still has to judge.
LEMMA FilesFacts ==
    ASSUME Base, NEW c \in CAs, NEW f, f \in frames[c].files
    PROVE  /\ frames[c].state = "loop" /\ f \in Content(frames[c].mft)
           /\ frames[c].mft \in Manifests /\ Issuer[frames[c].mft] = c
           /\ f \notin Manifests \cup Crls
           /\ f \in Signed(c) => f \notin TAs /\ f \notin accepted
<1>1. frames[c].state = "loop"
  BY BaseParts DEF FramesInv, NoFrame
<1>2. /\ f \in Content(frames[c].mft) /\ frames[c].mft \in Manifests
      /\ Issuer[frames[c].mft] = c
  BY <1>1, BaseParts DEF FramesInv
<1>3. f \notin Manifests \cup Crls
  BY <1>2 DEF Content
<1> QED BY <1>1, <1>2, <1>3, SignedFacts, BaseParts DEF AcceptedInv

LEMMA AcceptedKept ==
    ASSUME Base, LoopsStay, accepted \subseteq accepted', accepted' \subseteq Objects,
           \A c \in CAs : frames'[c].state # "none" <=> c \in accepted',
           \A f \in accepted' \ accepted : \/ f \in Manifests \cup Crls \cup TAs
              \/ \E c \in CAs : /\ frames[c].state = "loop" /\ f \in Content(frames[c].mft)
                               /\ f \in Signed(c),
           \A c \in CAs : frames'[c].files \cap Signed(c) \cap accepted' = {}
    PROVE  AcceptedInv'
<1>1. ASSUME NEW f \in accepted' \ (Manifests \cup Crls \cup TAs)
      PROVE  frames'[Issuer[f]].state = "loop" /\ f \in Content(frames'[Issuer[f]].mft)
  <2>1. Issuer[f] \in CAs /\ frames[Issuer[f]].state = "loop" /\ f \in Content(frames[Issuer[f]].mft)
    <3>1. CASE f \in accepted
      BY <3>1, SignedFacts, BaseParts DEF AcceptedInv
    <3>2. CASE f \notin accepted
      BY <3>2, SignedFacts
    <3> QED BY <3>1, <3>2
  <2> QED BY <2>1 DEF LoopsStay
<1> QED BY <1>1 DEF AcceptedInv

\* Nothing is accepted, and no frame begins.
LEMMA AcceptedSame ==
    ASSUME Base, LoopsStay, accepted' = accepted,
           \A c \in CAs : /\ frames'[c].state = "none" <=> frames[c].state = "none"
                          /\ frames'[c].files \subseteq frames[c].files
    PROVE  AcceptedInv'
<1>1. accepted \subseteq Objects
  BY BaseParts DEF WalkTypes
<1>2. \A c \in CAs : frames'[c].files \cap Signed(c) \cap accepted' = {}
  BY BaseParts DEF AcceptedInv
<1>3. \A c \in CAs : frames'[c].state # "none" <=> c \in accepted'
  BY BaseParts DEF AcceptedInv
<1> QED BY <1>1, <1>2, <1>3, AcceptedKept

LEMMA AcceptedMove ==
    ASSUME Base, LoopsStay, accepted' = accepted, NEW c \in CAs, frames[c].state # "none",
           NEW x, x # "none", NewFrame(frames', c, [frames[c] EXCEPT !.state = x])
    PROVE  AcceptedInv'
<1>1. frames'[c].state = x /\ frames'[c].files = frames[c].files
  BY BaseParts DEF NewFrame, WalkTypes, Frame
<1>2. \A d \in CAs : /\ frames'[d].state = "none" <=> frames[d].state = "none"
                     /\ frames'[d].files \subseteq frames[d].files
  BY <1>1 DEF NewFrame
<1> QED BY <1>2, AcceptedSame

LEMMA AcceptedWake ==
    ASSUME Base, LoopsStay, accepted' = accepted, NEW p \in Points, NEW ws \in SUBSET Woken(p),
           Wakes(ws)
    PROVE  AcceptedInv'
<1>1. ASSUME NEW c \in CAs
      PROVE  /\ frames'[c].state = "none" <=> frames[c].state = "none"
             /\ frames'[c].files \subseteq frames[c].files
  <2>1. CASE \E x \in ws : c = top(x)
    <3>1. PICK x \in ws : c = top(x)
      BY <2>1
    <3>2. frames[c].state = "fetch"
      BY <3>1, WokenFacts
    <3>3. frames'[c] = [frames[c] EXCEPT !.state = "ready"]
      BY <2>1 DEF Wakes
    <3>4. frames'[c].state = "ready" /\ frames'[c].files = frames[c].files
      BY <3>3, BaseParts DEF WalkTypes, Frame
    <3> QED BY <3>2, <3>4
  <2>2. CASE ~ \E x \in ws : c = top(x)
    BY <2>2 DEF Wakes
  <2> QED BY <2>1, <2>2
<1> QED BY <1>1, AcceptedSame

\* A CA certificate is accepted, and its frame begins.
LEMMA AcceptedCA ==
    ASSUME Base, LoopsStay, NEW f \in Objects, accepted' = accepted \cup {f},
           \/ f \in CAs /\ NewFrame(frames', f, [frames[f] EXCEPT !.state = "initial"])
           \/ f \notin CAs /\ frames' = frames,
           \/ f \in TAs
           \/ \E c \in CAs : /\ frames[c].state = "loop" /\ f \in Content(frames[c].mft)
                            /\ f \in Signed(c),
           \A c \in CAs : f \notin frames[c].files \cap Signed(c)
    PROVE  AcceptedInv'
<1>1. \A c \in CAs : /\ frames'[c].files = frames[c].files
                     /\ c # f => frames'[c].state = frames[c].state
                     /\ c = f => frames'[c].state = "initial"
  <2>1. CASE f \in CAs /\ NewFrame(frames', f, [frames[f] EXCEPT !.state = "initial"])
    <3>1. frames'[f].state = "initial" /\ frames'[f].files = frames[f].files
      BY <2>1, BaseParts DEF NewFrame, WalkTypes, Frame
    <3> QED BY <2>1, <3>1 DEF NewFrame
  <2>2. CASE f \notin CAs /\ frames' = frames
    BY <2>2
  <2> QED BY <2>1, <2>2
<1>2. \A c \in CAs : frames'[c].state # "none" <=> c \in accepted'
  BY <1>1, BaseParts DEF AcceptedInv
<1>3. \A c \in CAs : frames'[c].files \cap Signed(c) \cap accepted' = {}
  BY <1>1, BaseParts DEF AcceptedInv
<1>4. accepted' \subseteq Objects
  BY BaseParts DEF WalkTypes
<1> QED BY <1>2, <1>3, <1>4, AcceptedKept

LEMMA AcceptedScan ==
    ASSUME Base, LoopsStay, NEW w \in Workers, ready(w)
    PROVE  AcceptedInv'
<1> DEFINE c == top(w)
           crl == ChosenCrl(c)
           mft == ChosenManifest(c)
           fr == [state |-> "loop", files |-> Content(mft), mft |-> mft, crl |-> crl]
<1>1. /\ c \in CAs /\ frames[c].state = "ready"
      /\ accepted' = accepted \cup ({crl, mft} \ {Nothing})
      /\ crl # Nothing => crl \in Crls \cap Mine(c)
      /\ mft # Nothing => mft \in Manifests \cap Mine(c) /\ crl # Nothing
      /\ \/ NewFrame(frames', c, [frames[c] EXCEPT !.state = "empty"])
         \/ mft # Nothing /\ NewFrame(frames', c, fr)
  BY BaseParts, ScanFacts
<1> HIDE DEF crl, mft, c
<1>2. \A f \in accepted' \ accepted : f \in Manifests \cup Crls
  BY <1>1
<1>3. \A d \in CAs : d \in accepted' <=> d \in accepted
  BY <1>1, <1>2, WorldAssumption
<1>6. accepted' \subseteq Objects
  BY <1>2, SignedFacts, BaseParts DEF WalkTypes
<1>4. CASE NewFrame(frames', c, [frames[c] EXCEPT !.state = "empty"])
  <2>1. frames'[c].state = "empty" /\ frames'[c].files = frames[c].files
    BY <1>1, <1>4, BaseParts DEF NewFrame, WalkTypes, Frame
  <2>2. \A d \in CAs : /\ frames'[d].state = "none" <=> frames[d].state = "none"
                       /\ frames'[d].files = frames[d].files
    BY <1>1, <1>4, <2>1 DEF NewFrame
  <2>3. \A d \in CAs : frames'[d].state # "none" <=> d \in accepted'
    BY <1>3, <2>2, BaseParts DEF AcceptedInv
  <2>4. \A d \in CAs : frames'[d].files \cap Signed(d) \cap accepted' = {}
    BY <1>2, <2>2, FilesFacts
  <2> QED BY <1>1, <1>2, <1>6, <2>3, <2>4, AcceptedKept
<1>5. CASE mft # Nothing /\ NewFrame(frames', c, fr)
  <2>1. mft \in Manifests /\ Issuer[mft] = c
    BY <1>1, <1>5, SignedFacts DEF Mine
  <2>2. fr.state = "loop" /\ fr.files = Content(mft)
    OBVIOUS
  <2> HIDE DEF fr
  <2>3. \A d \in CAs : frames'[d].state = "none" <=> frames[d].state = "none"
    BY <1>1, <1>5, <2>2 DEF NewFrame
  <2>4. \A d \in CAs : frames'[d].state # "none" <=> d \in accepted'
    BY <1>3, <2>3, BaseParts DEF AcceptedInv
  <2>5. ASSUME NEW f \in Content(mft) \cap Signed(c), f \in accepted PROVE FALSE
    <3>1. f \notin Manifests \cup Crls \cup TAs /\ Issuer[f] = c
      BY SignedFacts DEF Content
    <3>2. frames[c].state = "loop"
      BY <2>5, <3>1, BaseParts DEF AcceptedInv
    <3> QED BY <1>1, <3>2
  <2>6. \A f \in Content(mft) \cap Signed(c) : f \notin accepted'
    BY <1>2, <2>5 DEF Content
  <2>7. \A d \in CAs : frames'[d].files \cap Signed(d) \cap accepted' = {}
    <3>1. ASSUME NEW d \in CAs, d # c, NEW f \in frames'[d].files, f \in Signed(d), f \in accepted'
          PROVE  FALSE
      BY <1>2, <1>5, <3>1, FilesFacts DEF NewFrame
    <3> QED BY <1>5, <2>2, <2>6, <3>1 DEF NewFrame
  <2> QED BY <1>1, <1>2, <1>6, <2>4, <2>7, AcceptedKept
<1> QED BY <1>1, <1>4, <1>5

LEMMA AcceptedJudge ==
    ASSUME Base, LoopsStay, NEW w \in Workers, JudgeFile(w)
    PROVE  AcceptedInv'
<1>0. PICK f, c : f = work[w].file /\ c = top(w)
  OBVIOUS
<1>1. /\ work[w].do = "file"
      /\ \/ /\ accepted' = accepted \cup {f} /\ f \in Signed(c)
            /\ \/ f \in CAs /\ NewFrame(frames', f, [frames[f] EXCEPT !.state = "initial"])
               \/ f \notin CAs /\ frames' = frames
         \/ accepted' = accepted /\ frames' = frames
  BY <1>0, BaseParts, JudgeFileFacts
<1>2. /\ c \in CAs /\ frames[c].state = "loop" /\ f \in Content(frames[c].mft)
      /\ f \notin frames[c].files /\ f \in Objects
  BY <1>0, <1>1, JudgingFacts
<1>3. \A d \in CAs : f \in Signed(c) => f \notin frames[d].files \cap Signed(d)
  BY <1>2, SignedFacts
<1>4. CASE /\ accepted' = accepted \cup {f} /\ f \in Signed(c)
           /\ \/ f \in CAs /\ NewFrame(frames', f, [frames[f] EXCEPT !.state = "initial"])
              \/ f \notin CAs /\ frames' = frames
  BY <1>2, <1>3, <1>4, AcceptedCA
<1>5. CASE accepted' = accepted /\ frames' = frames
  BY <1>5, AcceptedSame
<1> QED BY <1>1, <1>4, <1>5

LEMMA AcceptedStep ==
    ASSUME Base, [WalkNext]_walkVars
    PROVE  AcceptedInv'
<1>1. LoopsStay
  BY LoopsStayStep
<1>2. CASE UNCHANGED <<frames, accepted>>
  BY <1>1, <1>2, AcceptedSame
<1>3. ASSUME NEW w \in Workers, CheckTAL(w) PROVE AcceptedInv'
  <2> DEFINE t == top(w)
  <2>1. /\ work[w].do = "tal" /\ t \in CAs
        /\ \/ /\ accepted' = accepted \cup {t}
              /\ NewFrame(frames', t, [frames[t] EXCEPT !.state = "initial"])
           \/ accepted' = accepted /\ frames' = frames
    BY <1>3, BaseParts, CheckTALFacts
  <2>2. t \in TAs
    BY <2>1, WorkerStack DEF TopStates, StackOK
  <2> HIDE DEF t
  <2>3. (\A c \in CAs : t \notin frames[c].files \cap Signed(c)) /\ t \in Objects
    BY <2>2, SignedFacts, WorldAssumption
  <2> QED BY <1>1, <1>2, <2>1, <2>2, <2>3, AcceptedCA
<1>4. ASSUME NEW w \in Workers, initial(w) PROVE AcceptedInv'
  <2>1. accepted' = accepted
    BY <1>4 DEF initial
  <2> QED BY <1>1, <1>4, <2>1, BaseParts, InitialFacts, AcceptedMove
<1>5. ASSUME NEW w \in Workers, fetch(w) PROVE AcceptedInv'
  <2>1. accepted' = accepted
    BY <1>5 DEF fetch
  <2> QED BY <1>1, <1>2, <1>5, <2>1, BaseParts, FetchFacts, AcceptedMove
<1>6. ASSUME NEW w \in Workers, EndTransfer(w) PROVE AcceptedInv'
  <2>1. work[w].do = "transfer" /\ Wakes(Woken(work[w].at)) /\ accepted' = accepted
    BY <1>6, BaseParts, EndTransferFacts DEF EndTransfer
  <2>2. work[w].at \in Points
    BY <2>1, BaseParts DEF WaitsInv
  <2> QED BY <1>1, <2>1, <2>2, AcceptedWake
<1>7. ASSUME NEW w \in Workers, NextFile(w) PROVE AcceptedInv'
  <2> DEFINE c == top(w)
  <2>1. c \in CAs /\ accepted' = accepted /\ frames[c] \in Frame
    BY <1>7, BaseParts, NextFileFacts DEF NextFile, WalkTypes
  <2>2. PICK f : NewFrame(frames', c, [frames[c] EXCEPT !.files = @ \ {f}])
    BY <1>7, BaseParts, NextFileFacts
  <2> HIDE DEF c
  <2>3. \A d \in CAs : /\ frames'[d].state = "none" <=> frames[d].state = "none"
                       /\ frames'[d].files \subseteq frames[d].files
    BY <2>1, <2>2 DEF NewFrame, Frame
  <2> QED BY <1>1, <2>1, <2>3, AcceptedSame
<1>8. ASSUME NEW w \in Workers, TaskDies(w) PROVE AcceptedInv'
  <2>1. accepted' = accepted
    BY <1>8 DEF TaskDies
  <2>2. CASE work[w].do = "transfer" /\ Wakes(Woken(work[w].at) \ {w})
    <3>1. work[w].at \in Points
      BY <2>2, BaseParts DEF WaitsInv
    <3> QED BY <1>1, <2>1, <2>2, <3>1, AcceptedWake
  <2> QED BY <1>2, <1>8, <2>1, <2>2, BaseParts, TaskDiesFacts
<1> QED BY <1>1, <1>2, <1>3, <1>4, <1>5, <1>6, <1>7, <1>8, AcceptedScan, AcceptedJudge
       DEF WalkNext, WorkerStep, walkVars, GetTask, StoreSome, EndLoop, Join, Publish

-----------------------------------------------------------------------------
(***************************************************************************)
(* Who judges what.                                                        *)
(***************************************************************************)

\* No worker takes a file.
NoNewFiles == \A v \in Workers : work'[v].do = "file" => work'[v] = work[v]

LEMMA NewFilesOne ==
    ASSUME NEW w, NEW j, NewJob(work', w, j), j.do # "file"
    PROVE  NoNewFiles
BY DEF NewJob, NoNewFiles

LEMMA GoingNotFile ==
    ASSUME Base, NEW w \in Workers
    PROVE  /\ Going(work[w].stack).do # "file" /\ Free.do # "file"
           /\ work[w].do # "idle" => Going(Front(work[w].stack)).do # "file"
           /\ \A f \in CAs : Going(Append(work[w].stack, f)).do # "file"
<1>1. work[w].stack \in Stack
  BY BaseParts, JobFacts
<1>2. \A f \in CAs : Append(work[w].stack, f) \in Stack
  BY <1>1, PushFacts
<1> QED BY <1>1, <1>2, GoingFacts, FreeFacts, WorkerStack

LEMMA NewFilesWake ==
    ASSUME Base, NEW ws \in SUBSET Workers, Wakes(ws),
           \A v \in Workers \ ws : work'[v] = work[v] \/ work'[v] = Free
    PROVE  NoNewFiles
BY GoingNotFile DEF Wakes, NoNewFiles

LEMMA NewFilesStep ==
    ASSUME Base, NEW w \in Workers, WorkerStep(w) \/ TaskDies(w), ~NextFile(w)
    PROVE  NoNewFiles
<1>1. work[w] \in Job
  BY BaseParts, JobFacts
<1>2. CASE GetTask(w)
  BY <1>2, BaseParts, GetTaskFacts DEF NoNewFiles
<1>3. CASE CheckTAL(w)
  BY <1>3, BaseParts, CheckTALFacts, GoingNotFile, NewFilesOne
<1>4. CASE initial(w)
  BY <1>4, BaseParts, InitialFacts, GoingNotFile, NewFilesOne DEF NoNewFiles
<1>5. CASE fetch(w)
  <2>1. ASSUME NEW x \in {"wait", "transfer"}, NEW q, NewJob(work', w, [work[w] EXCEPT !.do = x, !.at = q])
        PROVE  NoNewFiles
    <3>1. [work[w] EXCEPT !.do = x, !.at = q].do # "file"
      BY <1>1 DEF Job
    <3> QED BY <2>1, <3>1, NewFilesOne
  <2> DEFINE p == Point[top(w)]
  <2>2. \/ work' = work
        \/ NewJob(work', w, [work[w] EXCEPT !.do = "wait", !.at = entry(p)])
        \/ NewJob(work', w, [work[w] EXCEPT !.do = "transfer", !.at = p])
    BY <1>5, BaseParts, FetchFacts
  <2> HIDE DEF p
  <2>3. CASE work' = work
    BY <2>3 DEF NoNewFiles
  <2> QED BY <2>1, <2>2, <2>3
<1>6. CASE StoreSome(w)
  <2>1. work[w].do = "transfer" /\ NewJob(work', w, [work[w] EXCEPT !.file = "some"])
    BY <1>6, BaseParts, StoreSomeFacts
  <2>2. [work[w] EXCEPT !.file = "some"].do # "file"
    BY <1>1, <2>1 DEF Job
  <2> QED BY <2>1, <2>2, NewFilesOne
<1>7. CASE EndTransfer(w)
  <2>1. Woken(work[w].at) \in SUBSET Workers
    BY DEF Woken
  <2> QED BY <1>7, <2>1, BaseParts, EndTransferFacts, NewFilesWake
<1>8. CASE ready(w)
  BY <1>8, BaseParts, ScanFacts, GoingNotFile, NewFilesOne DEF NoNewFiles
<1>9. CASE JudgeFile(w)
  BY <1>9, BaseParts, JudgeFileFacts, GoingNotFile, NewFilesOne
<1>10. CASE EndLoop(w)
  BY <1>10, BaseParts, EndLoopFacts, GoingNotFile, NewFilesOne
<1>11. CASE TaskDies(w)
  <2>1. CASE /\ Wakes(Woken(work[w].at) \ {w}) /\ work'[w] = Free
             /\ \A x \in Workers \ (Woken(work[w].at) \cup {w}) : work'[x] = work[x]
    <3> DEFINE ws == Woken(work[w].at) \ {w}
    <3>1. ws \in SUBSET Workers /\ Wakes(ws)
      BY <2>1 DEF Woken
    <3>2. \A v \in Workers \ ws : work'[v] = work[v] \/ work'[v] = Free
      BY <2>1
    <3> HIDE DEF ws
    <3> QED BY <3>1, <3>2, NewFilesWake
  <2> QED BY <1>11, <2>1, BaseParts, TaskDiesFacts, GoingNotFile, NewFilesOne
<1> QED BY <1>2, <1>3, <1>4, <1>5, <1>6, <1>7, <1>8, <1>9, <1>10, <1>11 DEF WorkerStep

LEMMA JudgedKept ==
    ASSUME Base, LoopsStay, NoNewFiles,
           \A v \in Workers : work'[v].do = "file" /\ work[v].file \in Signed(top(v)) \cap accepted'
             => work[v].file \in accepted
    PROVE  JudgedInv'
<1>1. ASSUME NEW v \in Workers, work'[v].do = "file"
      PROVE  /\ work'[v] = work[v] /\ work[v].do = "file"
             /\ work[v].file \in Content(frames'[top(v)].mft) \ frames'[top(v)].files
             /\ work[v].file \in Signed(top(v)) => work[v].file \notin accepted'
  <2>1. work'[v] = work[v] /\ work[v].do = "file"
    BY <1>1 DEF NoNewFiles
  <2>2. /\ top(v) \in CAs /\ frames[top(v)].state = "loop"
        /\ work[v].file \in Content(frames[top(v)].mft) /\ work[v].file \notin frames[top(v)].files
        /\ work[v].file \in Signed(top(v)) => work[v].file \notin accepted
    BY <2>1, JudgingFacts
  <2>3. /\ frames'[top(v)].mft = frames[top(v)].mft
        /\ frames'[top(v)].files \subseteq frames[top(v)].files
    BY <2>2 DEF LoopsStay
  <2> QED BY <1>1, <2>1, <2>2, <2>3
<1>2. ASSUME NEW v \in Workers, work'[v].do = "file" PROVE top(v)' = top(v)
  BY <1>1, <1>2 DEF top
<1>3. \A v, u \in Workers : u # v /\ work[v].do = "file" /\ work[u].do = "file" /\ top(u) = top(v)
        => work[u].file # work[v].file
  BY BaseParts DEF JudgedInv
<1>4. ASSUME NEW v \in Workers, work'[v].do = "file"
      PROVE  /\ work'[v].file \in Content(frames'[top(v)'].mft) \ frames'[top(v)'].files
             /\ work'[v].file \in Signed(top(v)') => work'[v].file \notin accepted'
             /\ \A u \in Workers \ {v} : work'[u].do = "file" /\ top(u)' = top(v)'
                  => work'[u].file # work'[v].file
  BY <1>1, <1>2, <1>3, <1>4
<1> QED BY <1>4 DEF JudgedInv, Signed

LEMMA JudgedNext ==
    ASSUME Base, LoopsStay, NEW w \in Workers, NextFile(w)
    PROVE  JudgedInv'
<1>0. PICK c : c = top(w)
  OBVIOUS
<1>1. c \in CAs /\ frames[c].state = "loop" /\ accepted' = accepted /\ frames[c] \in Frame
      /\ work[w] \in Job
  BY <1>0, BaseParts, NextFileFacts, JobFacts DEF NextFile, WalkTypes
<1>2. PICK f \in frames[c].files :
        /\ NewFrame(frames', c, [frames[c] EXCEPT !.files = @ \ {f}])
        /\ NewJob(work', w, [work[w] EXCEPT !.do = "file", !.file = f])
  BY <1>0, BaseParts, NextFileFacts
<1>3. /\ frames'[c].mft = frames[c].mft /\ frames'[c].files = frames[c].files \ {f}
  BY <1>1, <1>2 DEF NewFrame, Frame
<1>4. work'[w].file = f /\ work'[w].stack = work[w].stack
      /\ \A v \in Workers : v # w => work'[v] = work[v]
  BY <1>1, <1>2 DEF NewJob, Job
<1>5. f \in Content(frames[c].mft) /\ (f \in Signed(c) => f \notin accepted)
  BY <1>1, <1>2, FilesFacts
<1>6. top(w)' = c /\ \A v \in Workers : v # w => top(v)' = top(v)
  BY <1>0, <1>4 DEF top
<1>7. ASSUME NEW v \in Workers, v # w, work[v].do = "file"
      PROVE  /\ top(v) = c => work[v].file # f
             /\ work[v].file \in Content(frames'[top(v)].mft) \ frames'[top(v)].files
             /\ work[v].file \in Signed(top(v)) => work[v].file \notin accepted'
  <2>1. /\ top(v) \in CAs /\ frames[top(v)].state = "loop"
        /\ work[v].file \in Content(frames[top(v)].mft) /\ work[v].file \notin frames[top(v)].files
        /\ work[v].file \in Signed(top(v)) => work[v].file \notin accepted
    BY <1>7, JudgingFacts
  <2>2. top(v) = c => work[v].file # f
    BY <1>2, <2>1
  <2>3. /\ frames'[top(v)].mft = frames[top(v)].mft
        /\ frames'[top(v)].files \subseteq frames[top(v)].files
    BY <2>1 DEF LoopsStay
  <2> QED BY <1>1, <2>1, <2>2, <2>3
<1>8. \A v, u \in Workers : u # v /\ work[v].do = "file" /\ work[u].do = "file" /\ top(u) = top(v)
        => work[u].file # work[v].file
  BY BaseParts DEF JudgedInv
<1>9. ASSUME NEW v \in Workers, work'[v].do = "file"
      PROVE  /\ work'[v].file \in Content(frames'[top(v)'].mft) \ frames'[top(v)'].files
             /\ work'[v].file \in Signed(top(v)') => work'[v].file \notin accepted'
             /\ \A u \in Workers \ {v} : work'[u].do = "file" /\ top(u)' = top(v)'
                  => work'[u].file # work'[v].file
  <2>1. CASE v = w
    BY <1>1, <1>3, <1>4, <1>5, <1>6, <1>7, <2>1
  <2>2. CASE v # w
    BY <1>4, <1>6, <1>7, <1>8, <1>9, <2>2
  <2> QED BY <2>1, <2>2
<1> QED BY <1>9 DEF JudgedInv, Signed

LEMMA JudgedStep ==
    ASSUME Base, [WalkNext]_walkVars
    PROVE  JudgedInv'
<1>1. LoopsStay
  BY LoopsStayStep
<1>2. CASE NoNewFiles /\ accepted' = accepted
  BY <1>1, <1>2, JudgedKept
<1>3. CASE UNCHANGED <<work, accepted>>
  BY <1>2, <1>3 DEF NoNewFiles
<1>4. ASSUME NEW w \in Workers, CheckTAL(w) PROVE JudgedInv'
  <2>1. work[w].do = "tal" /\ (accepted' = accepted \cup {top(w)} \/ accepted' = accepted)
    BY <1>4, BaseParts, CheckTALFacts
  <2>2. top(w) \in TAs
    BY <2>1, WorkerStack DEF TopStates, StackOK
  <2>3. NoNewFiles
    BY <1>4, NewFilesStep DEF WorkerStep, NextFile, CheckTAL, InState
  <2>4. \A v \in Workers : work'[v].do = "file" /\ work[v].file \in Signed(top(v)) \cap accepted'
          => work[v].file \in accepted
    BY <2>1, <2>2, <2>3, SignedFacts DEF NoNewFiles
  <2> QED BY <1>1, <2>3, <2>4, JudgedKept
<1>5. ASSUME NEW w \in Workers, ready(w) PROVE JudgedInv'
  <2> DEFINE c == top(w)
             crl == ChosenCrl(c)
             mft == ChosenManifest(c)
  <2>1. /\ frames[c].state = "ready"
        /\ accepted' = accepted \cup ({crl, mft} \ {Nothing})
        /\ crl # Nothing => crl \in Crls \cap Mine(c)
        /\ mft # Nothing => mft \in Manifests \cap Mine(c) /\ crl # Nothing
    BY <1>5, BaseParts, ScanFacts
  <2> HIDE DEF crl, mft
  <2>2. \A f \in accepted' \ accepted : f \in Manifests \cup Crls
    BY <2>1
  <2>3. NoNewFiles
    BY <1>5, <2>1, NewFilesStep DEF WorkerStep, NextFile, InState
  <2>4. \A v \in Workers : work'[v].do = "file" /\ work[v].file \in Signed(top(v)) \cap accepted'
          => work[v].file \in accepted
    BY <2>2, <2>3, JudgingFacts DEF NoNewFiles
  <2> QED BY <1>1, <2>3, <2>4, JudgedKept
<1>6. ASSUME NEW w \in Workers, JudgeFile(w) PROVE JudgedInv'
  <2> DEFINE f == work[w].file
  <2>1. /\ work[w].do = "file"
        /\ (accepted' = accepted \cup {f} /\ f \in Signed(top(w))) \/ accepted' = accepted
    BY <1>6, BaseParts, JudgeFileFacts
  <2>2. NoNewFiles
    BY <1>6, <2>1, NewFilesStep DEF WorkerStep, NextFile, InState
  <2>3. work'[w].do # "file"
    <3>1. \/ NewJob(work', w, Going(work[w].stack))
          \/ f \in CAs /\ NewJob(work', w, Going(Append(work[w].stack, f)))
      BY <1>6, BaseParts, JudgeFileFacts
    <3> QED BY <3>1, GoingNotFile DEF NewJob
  <2>4. \A v \in Workers \ {w} : work[v].do = "file" /\ top(v) = top(w) => work[v].file # f
    BY <2>1, BaseParts DEF JudgedInv
  <2>5. \A v \in Workers : work'[v].do = "file" /\ work[v].file \in Signed(top(v)) \cap accepted'
          => work[v].file \in accepted
    <3> SUFFICES ASSUME NEW v \in Workers, work'[v].do = "file", work[v].file \in Signed(top(v)),
                        work[v].file = f, f \in Signed(top(w))
                 PROVE  FALSE
      BY <2>1
    <3>1. v # w /\ work[v].do = "file"
      BY <2>2, <2>3 DEF NoNewFiles
    <3>2. top(v) = top(w)
      BY SignedFacts
    <3> QED BY <2>4, <3>1, <3>2
  <2> QED BY <1>1, <2>2, <2>5, JudgedKept
<1>7. ASSUME NEW w \in Workers, WorkerStep(w) \/ TaskDies(w) PROVE JudgedInv'
  <2>1. CASE NextFile(w)
    BY <1>1, <2>1, JudgedNext
  <2>2. CASE ~NextFile(w) /\ accepted' = accepted
    BY <1>2, <1>7, <2>2, NewFilesStep
  <2>3. CheckTAL(w) \/ ready(w) \/ JudgeFile(w) \/ accepted' = accepted
    BY <1>7 DEF WorkerStep, GetTask, initial, fetch, StoreSome, EndTransfer, NextFile, EndLoop, TaskDies
  <2> QED BY <1>4, <1>5, <1>6, <2>1, <2>2, <2>3
<1> QED BY <1>3, <1>7 DEF WalkNext, Join, Publish, walkVars

-----------------------------------------------------------------------------
(***************************************************************************)
(* What is not done is in a stack, and what is done is right.              *)
(***************************************************************************)

Needed(c) == frames[c].state \in {"initial", "fetch", "ready"} \/ frames[c].files # {}

Judging(f, c) == \E w \in Workers : work[w].do = "file" /\ work[w].file = f /\ top(w) = c

Right(f, c) == /\ f \in accepted => Sound(f, frames[c].crl)
               /\ Sound(f, frames[c].crl) => f \in accepted \/ Shadowed(f)

StillNeeded == \A c \in CAs : Needed(c) => InStack(c)

RightlyJudged ==
  \A c \in CAs : frames[c].state = "loop" =>
    \A f \in (Content(frames[c].mft) \cap Signed(c) \cap db) \ (overtaken \cup frames[c].files) :
      Judging(f, c) \/ Right(f, c)

LEMMA ScannedParts ==
    ScannedInv <=> /\ over => AllDone
                   /\ failed \cap CAs = {} => StillNeeded /\ RightlyJudged
BY DEF ScannedInv, StillNeeded, RightlyJudged, Needed, Judging, Right, Signed

LEMMA ScannedPartsNext ==
    ScannedInv' <=> /\ over' => AllDone'
                    /\ failed' \cap CAs = {} => StillNeeded' /\ RightlyJudged'
BY DEF ScannedInv, StillNeeded, RightlyJudged, Needed, Judging, Right, Signed

\* What is not done stays in a stack.
LEMMA SameStacks ==
    ASSUME queue' = queue, \A v \in Workers : work'[v].stack = work[v].stack
    PROVE  \A c : InStack(c)' <=> InStack(c)
BY DEF InStack

LEMMA NeededKept ==
    ASSUME StillNeeded, \A c \in CAs : Needed(c)' => InStack(c)' \/ (Needed(c) /\ (InStack(c) => InStack(c)'))
    PROVE  StillNeeded'
BY DEF StillNeeded

LEMMA SameNeeds ==
    ASSUME frames' = frames
    PROVE  \A c : Needed(c)' <=> Needed(c)
BY DEF Needed

LEMMA NeedsOne ==
    ASSUME NEW c \in CAs, NEW fr, NewFrame(frames', c, fr)
    PROVE  \A d \in CAs : d # c => (Needed(d)' <=> Needed(d))
BY DEF NewFrame, Needed

LEMMA TopIn ==
    ASSUME Base, NEW w \in Workers, work[w].do # "idle"
    PROVE  InStack(top(w))
BY TopInStack DEF InStack

LEMMA NeededSameStacks ==
    ASSUME Base, StillNeeded, queue' = queue, \A v \in Workers : work'[v].stack = work[v].stack,
           NEW c \in CAs, InStack(c), NEW fr, NewFrame(frames', c, fr)
    PROVE  StillNeeded'
BY SameStacks, NeedsOne, NeededKept

\* A worker goes back to what is below its top.
LEMMA NeededPopped ==
    ASSUME Base, StillNeeded, NEW w \in Workers, work[w].do # "idle", queue' = queue,
           NewJob(work', w, Going(Front(work[w].stack))),
           NEW c \in CAs, c = top(w), ~Needed(c)', \A d \in CAs : d # c => (Needed(d)' <=> Needed(d))
    PROVE  StillNeeded'
<1>1. work'[w].stack = Front(work[w].stack) /\ \A v \in Workers : v # w => work'[v] = work[v]
  BY WorkerStack, GoingFacts DEF NewJob
<1>2. ToSet(work[w].stack) = ToSet(Front(work[w].stack)) \cup {c}
  BY WorkerStack
<1>3. \A d : InStack(d) /\ d # c => InStack(d)'
  BY <1>1, <1>2 DEF InStack
<1> QED BY <1>3, NeededKept

LEMMA NeededGetTask ==
    ASSUME Base, StillNeeded, NEW w \in Workers, GetTask(w)
    PROVE  StillNeeded'
<1>1. /\ work[w].do = "idle" /\ queue # << >> /\ queue' = Tail(queue) /\ frames' = frames
      /\ work'[w].stack = Head(queue) /\ \A v \in Workers : v # w => work'[v] = work[v]
  BY BaseParts, GetTaskFacts DEF GetTask
<1>2. work'[w].stack = queue[1]
      /\ \A i \in DOMAIN queue : i # 1 => \E j \in DOMAIN queue' : queue'[j] = queue[i]
  BY <1>1, BaseParts, TakeTask
<1>3. ToSet(work[w].stack) = {}
  BY <1>1, BaseParts, JobFacts, EmptyStack
<1>4. ASSUME NEW c, InStack(c) PROVE InStack(c)'
  <2>1. CASE \E i \in DOMAIN queue : c \in ToSet(queue[i])
    BY <1>2, <2>1 DEF InStack
  <2>2. CASE \E v \in Workers : c \in ToSet(work[v].stack)
    BY <1>1, <1>3, <2>2 DEF InStack
  <2> QED BY <1>4, <2>1, <2>2 DEF InStack
<1> QED BY <1>1, <1>4, SameNeeds, NeededKept

\* What the queue holds stays in it.
LEMMA AppendInStack ==
    ASSUME Base, NEW s \in Stack, s # << >>, queue' = Append(queue, s)
    PROVE  /\ \A c \in ToSet(s) : InStack(c)'
           /\ \A c : (\E i \in DOMAIN queue : c \in ToSet(queue[i])) => InStack(c)'
<1>1. /\ DOMAIN queue' = DOMAIN queue \cup {Len(queue) + 1}
      /\ queue'[Len(queue) + 1] = s /\ \A i \in DOMAIN queue : queue'[i] = queue[i]
  BY BaseParts, AppendTask
<1> QED BY <1>1 DEF InStack

LEMMA NeededCheckTAL ==
    ASSUME Base, StillNeeded, NEW w \in Workers, CheckTAL(w)
    PROVE  StillNeeded'
<1>0. PICK t : t = top(w)
  OBVIOUS
<1>1. /\ work[w].do = "tal" /\ t \in CAs /\ NewJob(work', w, Free)
      /\ \/ /\ queue' = Append(queue, <<t>>)
            /\ NewFrame(frames', t, [frames[t] EXCEPT !.state = "initial"])
         \/ queue' = queue /\ frames' = frames
  BY <1>0, BaseParts, CheckTALFacts
<1>2. StackOK(frames, work[w].stack, {"none"}) /\ work[w].stack \in Stack
      /\ t = Last(work[w].stack)
  BY <1>0, <1>1, WorkerStack DEF TopStates
<1>3. Len(work[w].stack) = 1 /\ frames[t].state = "none"
  BY <1>2 DEF StackOK
<1>4. ToSet(work[w].stack) = {t}
  BY <1>2, <1>3, ShortStack
<1>5. \A v \in Workers : v # w => work'[v] = work[v]
  BY <1>1 DEF NewJob
<1>6. CASE queue' = queue /\ frames' = frames
  <2>1. ~Needed(t)
    BY <1>1, <1>3, BaseParts DEF Needed, FramesInv, NoFrame
  <2>2. \A c : InStack(c) /\ c # t => InStack(c)'
    BY <1>4, <1>5, <1>6 DEF InStack
  <2> QED BY <1>6, <2>1, <2>2, SameNeeds, NeededKept
<1>7. CASE /\ queue' = Append(queue, <<t>>)
           /\ NewFrame(frames', t, [frames[t] EXCEPT !.state = "initial"])
  <2>1. work[w].stack = <<t>> /\ <<t>> \in Stack /\ <<t>> # << >>
    BY <1>2, <1>3, ShortStack, WorkerStack
  <2>2. InStack(t)' /\ \A c : (\E i \in DOMAIN queue : c \in ToSet(queue[i])) => InStack(c)'
    BY <1>4, <1>7, <2>1, AppendInStack
  <2>3. \A c : (\E v \in Workers : v # w /\ c \in ToSet(work[v].stack)) => InStack(c)'
    BY <1>5 DEF InStack
  <2>4. \A c : InStack(c) => InStack(c)'
    BY <1>4, <2>2, <2>3 DEF InStack
  <2> QED BY <1>1, <1>7, <2>2, <2>4, NeedsOne, NeededKept
<1> QED BY <1>1, <1>6, <1>7

LEMMA NeededInitial ==
    ASSUME Base, StillNeeded, NEW w \in Workers, initial(w)
    PROVE  StillNeeded'
<1>0. PICK c : c = top(w)
  OBVIOUS
<1>1. work[w].do = "walk" /\ c \in CAs /\ InStack(c)
  BY <1>0, BaseParts, InitialFacts, TopIn
<1>2. PICK fr : NewFrame(frames', c, fr)
  BY <1>0, BaseParts, InitialFacts
<1>3. CASE UNCHANGED <<queue, work>>
  BY <1>1, <1>2, <1>3, NeededSameStacks
<1>4. CASE queue' = Append(queue, work[w].stack) /\ NewJob(work', w, Going(Front(work[w].stack)))
  <2>1. work[w].stack \in Stack /\ work[w].stack # << >> /\ c \in ToSet(work[w].stack)
    BY <1>0, <1>1, WorkerStack
  <2>2. /\ \A d \in ToSet(work[w].stack) : InStack(d)'
        /\ \A d : (\E i \in DOMAIN queue : d \in ToSet(queue[i])) => InStack(d)'
    BY <1>4, <2>1, AppendInStack
  <2>3. \A d : (\E v \in Workers : v # w /\ d \in ToSet(work[v].stack)) => InStack(d)'
    BY <1>4 DEF InStack, NewJob
  <2>4. \A d : InStack(d) => InStack(d)'
    BY <2>2, <2>3 DEF InStack
  <2> QED BY <1>1, <1>2, <2>4, NeedsOne, NeededKept
<1> QED BY <1>3, <1>4, BaseParts, InitialFacts

LEMMA NeededRest ==
    ASSUME Base, StillNeeded, NEW w \in Workers, fetch(w) \/ StoreSome(w) \/ NextFile(w)
    PROVE  StillNeeded'
<1>1. work[w] \in Job /\ queue' = queue
  BY BaseParts, JobFacts DEF fetch, StoreSome, NextFile
<1>2. \A j : NewJob(work', w, j) /\ j.stack = work[w].stack
        => \A v \in Workers : work'[v].stack = work[v].stack
  BY DEF NewJob
<1>3. CASE fetch(w)
  <2>0. PICK c, p : c = top(w) /\ p = Point[c]
    OBVIOUS
  <2>1. /\ c \in CAs /\ work[w].do # "idle"
        /\ \/ work' = work /\ NewFrame(frames', c, [frames[c] EXCEPT !.state = "ready"])
           \/ frames' = frames /\ NewJob(work', w, [work[w] EXCEPT !.do = "wait", !.at = entry(p)])
           \/ frames' = frames /\ NewJob(work', w, [work[w] EXCEPT !.do = "transfer", !.at = p])
    BY <1>3, <2>0, BaseParts, FetchFacts
  <2>2. \A x, q : [work[w] EXCEPT !.do = x, !.at = q].stack = work[w].stack
    BY <1>1 DEF Job
  <2>3. CASE \A v \in Workers : work'[v].stack = work[v].stack
    BY <1>1, <2>0, <2>1, <2>3, TopIn, NeededSameStacks, SameStacks, SameNeeds, NeededKept
  <2> QED BY <1>2, <2>1, <2>2, <2>3
<1>4. CASE StoreSome(w)
  <2>1. NewJob(work', w, [work[w] EXCEPT !.file = "some"]) /\ frames' = frames
    BY <1>4, BaseParts, StoreSomeFacts DEF StoreSome
  <2>2. [work[w] EXCEPT !.file = "some"].stack = work[w].stack
    BY <1>1 DEF Job
  <2>3. \A v \in Workers : work'[v].stack = work[v].stack
    BY <1>2, <2>1, <2>2
  <2> QED BY <1>1, <2>1, <2>3, SameStacks, SameNeeds, NeededKept
<1>5. CASE NextFile(w)
  <2>0. PICK c : c = top(w)
    OBVIOUS
  <2>1. c \in CAs /\ work[w].do # "idle"
    BY <1>5, <2>0, BaseParts, NextFileFacts
  <2>2. PICK f : /\ NewFrame(frames', c, [frames[c] EXCEPT !.files = @ \ {f}])
                 /\ NewJob(work', w, [work[w] EXCEPT !.do = "file", !.file = f])
    BY <1>5, <2>0, BaseParts, NextFileFacts
  <2>3. [work[w] EXCEPT !.do = "file", !.file = f].stack = work[w].stack
    BY <1>1 DEF Job
  <2>4. \A v \in Workers : work'[v].stack = work[v].stack
    BY <1>2, <2>2, <2>3
  <2> QED BY <1>1, <2>0, <2>1, <2>2, <2>4, TopIn, NeededSameStacks
<1> QED BY <1>3, <1>4, <1>5

LEMMA NeededTransfer ==
    ASSUME Base, StillNeeded, NEW w \in Workers, EndTransfer(w)
    PROVE  StillNeeded'
<1>0. PICK p : p = work[w].at
  OBVIOUS
<1>1. /\ work[w].do = "transfer" /\ Wakes(Woken(p)) /\ queue' = queue
      /\ \A x \in Workers \ Woken(p) : work'[x] = work[x]
  BY <1>0, BaseParts, EndTransferFacts DEF EndTransfer
<1>2. p \in Points
  BY <1>0, <1>1, BaseParts DEF WaitsInv
<1>3. \A v \in Workers : work'[v].stack = work[v].stack
  <2>1. \A v \in Woken(p) : work'[v].stack = work[v].stack
    BY <1>1, BaseParts, JobFacts, GoingFacts DEF Wakes, Woken
  <2> QED BY <1>1, <2>1
<1>4. ASSUME NEW c \in CAs, Needed(c)' PROVE Needed(c)
  <2>1. CASE \E x \in Woken(p) : c = top(x)
    <3>1. frames[c].state = "fetch"
      BY <1>2, <2>1, WokenFacts
    <3> QED BY <3>1 DEF Needed
  <2>2. CASE ~ \E x \in Woken(p) : c = top(x)
    BY <1>1, <1>4, <2>2 DEF Wakes, Needed
  <2> QED BY <2>1, <2>2
<1> QED BY <1>1, <1>3, <1>4, SameStacks, NeededKept

LEMMA NeededScan ==
    ASSUME Base, StillNeeded, NEW w \in Workers, ready(w)
    PROVE  StillNeeded'
<1>0. PICK c : c = top(w)
  OBVIOUS
<1>1. /\ work[w].do = "walk" /\ c \in CAs /\ frames[c].state = "ready" /\ queue' = queue
      /\ \/ /\ NewFrame(frames', c, [frames[c] EXCEPT !.state = "empty"])
            /\ NewJob(work', w, Going(Front(work[w].stack)))
         \/ work' = work /\ \E fr : NewFrame(frames', c, fr)
  BY <1>0, BaseParts, ScanFacts DEF ready
<1>2. CASE work' = work /\ \E fr : NewFrame(frames', c, fr)
  BY <1>0, <1>1, <1>2, TopIn, NeededSameStacks
<1>3. CASE /\ NewFrame(frames', c, [frames[c] EXCEPT !.state = "empty"])
           /\ NewJob(work', w, Going(Front(work[w].stack)))
  <2>1. frames'[c].state = "empty" /\ frames'[c].files = frames[c].files
    BY <1>1, <1>3, BaseParts DEF NewFrame, WalkTypes, Frame
  <2>2. frames[c].files = {}
    BY <1>1, BaseParts DEF FramesInv, NoFrame
  <2>3. ~Needed(c)'
    BY <2>1, <2>2 DEF Needed
  <2>4. \A d \in CAs : d # c => (Needed(d)' <=> Needed(d))
    BY <1>1, <1>3, NeedsOne
  <2> QED BY <1>0, <1>1, <1>3, <2>3, <2>4, NeededPopped
<1> QED BY <1>1, <1>2, <1>3

LEMMA NeededEndLoop ==
    ASSUME Base, StillNeeded, NEW w \in Workers, EndLoop(w)
    PROVE  StillNeeded'
<1>0. PICK c : c = top(w)
  OBVIOUS
<1>1. /\ work[w].do = "walk" /\ c \in CAs /\ frames[c].state = "loop" /\ queue' = queue
      /\ frames[c].files = {} /\ NewJob(work', w, Going(Front(work[w].stack))) /\ frames' = frames
  BY <1>0, BaseParts, EndLoopFacts DEF EndLoop
<1>2. ~Needed(c)' /\ \A d \in CAs : Needed(d)' <=> Needed(d)
  BY <1>1 DEF Needed
<1> QED BY <1>0, <1>1, <1>2, NeededPopped

LEMMA NeededJudge ==
    ASSUME Base, StillNeeded, NEW w \in Workers, JudgeFile(w)
    PROVE  StillNeeded'
<1>0. PICK f : f = work[w].file
  OBVIOUS
<1>1. /\ work[w].do = "file" /\ queue' = queue
      /\ \/ /\ f \in CAs /\ NewJob(work', w, Going(Append(work[w].stack, f)))
            /\ NewFrame(frames', f, [frames[f] EXCEPT !.state = "initial"])
         \/ NewJob(work', w, Going(work[w].stack)) /\ frames' = frames
  BY <1>0, BaseParts, JudgeFileFacts DEF JudgeFile
<1>2. work[w].stack \in Stack
  BY BaseParts, JobFacts
<1>3. CASE NewJob(work', w, Going(work[w].stack)) /\ frames' = frames
  <2>1. \A v \in Workers : work'[v].stack = work[v].stack
    BY <1>2, <1>3, GoingFacts DEF NewJob
  <2> QED BY <1>1, <1>3, <2>1, SameStacks, SameNeeds, NeededKept
<1>4. CASE /\ f \in CAs /\ NewJob(work', w, Going(Append(work[w].stack, f)))
           /\ NewFrame(frames', f, [frames[f] EXCEPT !.state = "initial"])
  <2>1. /\ Append(work[w].stack, f) \in Stack
        /\ ToSet(Append(work[w].stack, f)) = ToSet(work[w].stack) \cup {f}
    BY <1>2, <1>4, PushFacts
  <2>2. ToSet(work'[w].stack) = ToSet(work[w].stack) \cup {f}
        /\ \A v \in Workers : v # w => work'[v] = work[v]
    BY <1>4, <2>1, GoingFacts DEF NewJob
  <2>3. InStack(f)' /\ \A d : InStack(d) => InStack(d)'
    BY <1>1, <2>2 DEF InStack
  <2> QED BY <1>4, <2>3, NeedsOne, NeededKept
<1> QED BY <1>1, <1>3, <1>4

LEMMA NeededStep ==
    ASSUME Base, StillNeeded, [WalkNext]_walkVars, failed' \cap CAs = {}
    PROVE  StillNeeded'
<1>1. CASE UNCHANGED <<queue, work, frames>>
  BY <1>1, SameStacks, SameNeeds, NeededKept
<1>2. ASSUME NEW w \in Workers, TaskDies(w) PROVE FALSE
  BY <1>2, BaseParts, TaskDiesFacts
<1>3. ASSUME NEW w \in Workers, WorkerStep(w) PROVE StillNeeded'
  BY <1>3, NeededGetTask, NeededCheckTAL, NeededInitial, NeededRest, NeededTransfer, NeededScan,
     NeededEndLoop, NeededJudge DEF WorkerStep
<1> QED BY <1>1, <1>2, <1>3 DEF WalkNext, Join, Publish, walkVars

-----------------------------------------------------------------------------
(***************************************************************************)
(* What is done is right.                                                  *)
(***************************************************************************)

LEMMA GrowStep ==
    ASSUME [WalkNext]_walkVars
    PROVE  accepted \subseteq accepted' /\ rejected \subseteq rejected' /\ overtaken \subseteq overtaken'
<1>1. ASSUME NEW w \in Workers, WorkerStep(w) \/ TaskDies(w)
      PROVE  accepted \subseteq accepted' /\ rejected \subseteq rejected' /\ overtaken \subseteq overtaken'
  BY <1>1 DEF WorkerStep, TaskDies, GetTask, CheckTAL, initial, fetch, StoreSome, EndTransfer, ready,
              NextFile, JudgeFile, EndLoop
<1> QED BY <1>1 DEF WalkNext, Join, Publish, walkVars

\* A listed object that arrives late has been overtaken.
ListedInTime ==
  \A c \in CAs : frames[c].state = "loop" =>
    \A f \in Content(frames[c].mft) \cap Signed(c) \cap db' : f \in db \/ f \in overtaken'

LEMMA LoopListed ==
    ASSUME Base, NEW c \in CAs, frames[c].state = "loop"
    PROVE  /\ frames[c].mft \in Manifests /\ frames[c].mft # Nothing /\ Issuer[frames[c].mft] = c
           /\ frames[c].crl \in Crls \cap db /\ frames[c].crl # Nothing
           /\ Content(frames[c].mft) \subseteq Files[frames[c].mft]
           /\ \A f \in Content(frames[c].mft) : f \notin Manifests \cup Crls
<1>1. frames[c].mft \in Manifests /\ Issuer[frames[c].mft] = c /\ frames[c].crl \in Crls \cap db
  BY BaseParts DEF FramesInv
<1>2. frames[c].mft # Nothing /\ frames[c].crl # Nothing
  BY <1>1, WorldAssumption
<1> QED BY <1>1, <1>2 DEF Content

LEMMA ListedStep ==
    ASSUME Base, [WalkNext]_walkVars
    PROVE  ListedInTime
<1>1. CASE db' = db
  BY <1>1 DEF ListedInTime
<1>2. ASSUME NEW w \in Workers, CheckTAL(w) PROVE ListedInTime
  <2>1. work[w].do = "tal" /\ (db' = db \cup {top(w)} \/ db' = db)
    BY <1>2, BaseParts, CheckTALFacts
  <2>2. top(w) \in TAs
    BY <2>1, WorkerStack DEF TopStates, StackOK
  <2> QED BY <2>1, <2>2, SignedFacts DEF ListedInTime
<1>3. ASSUME NEW S, db' = db \cup S, overtaken' = overtaken \cup Overtaken(S) PROVE ListedInTime
  BY <1>3, LoopListed DEF ListedInTime, Overtaken
<1>4. ASSUME NEW w \in Workers, StoreSome(w) PROVE ListedInTime
  BY <1>3, <1>4, BaseParts, StoreSomeFacts
<1>5. ASSUME NEW w \in Workers, EndTransfer(w) PROVE ListedInTime
  BY <1>1, <1>3, <1>5, BaseParts, EndTransferFacts
<1>6. ASSUME NEW w \in Workers, WorkerStep(w) \/ TaskDies(w) PROVE ListedInTime
  <2>1. db' = db \/ CheckTAL(w) \/ StoreSome(w) \/ EndTransfer(w)
    BY <1>6 DEF WorkerStep, GetTask, initial, fetch, ready, NextFile, JudgeFile, EndLoop, TaskDies
  <2> QED BY <1>1, <1>2, <1>4, <1>5, <2>1
<1> QED BY <1>1, <1>6 DEF WalkNext, walkVars, Join, Publish

\* What is accepted that a CA in its loop lists is sound.
SoundlyAccepted ==
  \A c \in CAs : frames[c].state = "loop" =>
    \A f \in Content(frames[c].mft) \cap Signed(c) :
      f \in accepted' \ accepted => Sound(f, frames[c].crl)

LEMMA SoundStep ==
    ASSUME Base, [WalkNext]_walkVars
    PROVE  SoundlyAccepted
<1>1. CASE accepted' = accepted
  BY <1>1 DEF SoundlyAccepted
<1>2. ASSUME NEW w \in Workers, CheckTAL(w) PROVE SoundlyAccepted
  <2>1. work[w].do = "tal" /\ (accepted' = accepted \cup {top(w)} \/ accepted' = accepted)
    BY <1>2, BaseParts, CheckTALFacts
  <2>2. top(w) \in TAs
    BY <2>1, WorkerStack DEF TopStates, StackOK
  <2> QED BY <2>1, <2>2, SignedFacts DEF SoundlyAccepted
<1>3. ASSUME NEW w \in Workers, ready(w) PROVE SoundlyAccepted
  <2> DEFINE c == top(w)
             crl == ChosenCrl(c)
             mft == ChosenManifest(c)
  <2>1. /\ accepted' = accepted \cup ({crl, mft} \ {Nothing})
        /\ crl # Nothing => crl \in Crls \cap Mine(c)
        /\ mft # Nothing => mft \in Manifests \cap Mine(c) /\ crl # Nothing
    BY <1>3, BaseParts, ScanFacts
  <2> HIDE DEF crl, mft
  <2>2. \A f \in accepted' \ accepted : f \in Manifests \cup Crls
    BY <2>1
  <2> QED BY <2>2, LoopListed DEF SoundlyAccepted
<1>4. ASSUME NEW w \in Workers, JudgeFile(w) PROVE SoundlyAccepted
  <2> DEFINE f == work[w].file
             c == top(w)
  <2>1. /\ work[w].do = "file"
        /\ \/ accepted' = accepted \cup {f} /\ f \in Signed(c) /\ Sound(f, frames[c].crl)
           \/ accepted' = accepted
    BY <1>4, BaseParts, JudgeFileFacts
  <2> HIDE DEF f, c
  <2>2. \A d \in CAs : f \in Signed(c) \cap Signed(d) => d = c
    BY SignedFacts
  <2> QED BY <2>1, <2>2 DEF SoundlyAccepted
<1> QED BY <1>1, <1>2, <1>3, <1>4
       DEF WalkNext, WorkerStep, walkVars, GetTask, initial, fetch, StoreSome, EndTransfer, NextFile,
           EndLoop, TaskDies, Join, Publish

LEMMA ShadowedStays ==
    ASSUME LoopsStay, db \subseteq db', rejected \subseteq rejected', bad' = bad
    PROVE  \A f : Shadowed(f) => Shadowed(f)'
<1>1. \A o : Misplaced(o) => Misplaced(o)'
  BY DEF Misplaced, LoopsStay, Signed
<1> QED BY <1>1 DEF Shadowed

LEMMA RightStays ==
    ASSUME Base, [WalkNext]_walkVars, NEW c \in CAs, frames[c].state = "loop",
           NEW f \in Content(frames[c].mft) \cap Signed(c), Right(f, c)
    PROVE  Right(f, c)'
<1>1. /\ LoopsStay /\ db \subseteq db' /\ bad' = bad /\ SoundlyAccepted
      /\ accepted \subseteq accepted' /\ rejected \subseteq rejected'
  BY LoopsStayStep, DbStep, GrowStep, SoundStep
<1>2. \A o : Sound(o, frames[c].crl)' <=> Sound(o, frames[c].crl)
  BY <1>1 DEF Sound, LoopsStay
<1>3. f \in accepted' => Sound(f, frames[c].crl)
  BY <1>1 DEF Right, SoundlyAccepted
<1>4. Sound(f, frames[c].crl) => f \in accepted' \/ Shadowed(f)'
  BY <1>1, ShadowedStays DEF Right
<1> QED BY <1>2, <1>3, <1>4 DEF Right

\* Nobody stops judging, and what is taken from a frame is being judged.
FilesInHand ==
  /\ \A f : \A c : Judging(f, c) => Judging(f, c)'
  /\ \A c \in CAs : frames[c].state = "loop" =>
       \A f \in frames[c].files \ frames'[c].files : Judging(f, c)'

\* A frame that enters its loop has everything to judge.
NewLoops ==
  \A c \in CAs : frames'[c].state = "loop" /\ frames[c].state # "loop" =>
    frames'[c].files = Content(frames'[c].mft)

LEMMA JudgedOneByOne ==
    ASSUME Base, [WalkNext]_walkVars, RightlyJudged, NewLoops,
           \A c \in CAs : \A f : frames[c].state = "loop" /\ f \in Content(frames[c].mft) \cap Signed(c) =>
             /\ f \in db /\ Judging(f, c) => Judging(f, c)' \/ Right(f, c)'
             /\ f \in frames[c].files \ frames'[c].files => Judging(f, c)'
    PROVE  RightlyJudged'
<1>1. /\ LoopsStay /\ ListedInTime /\ overtaken \subseteq overtaken'
  BY LoopsStayStep, GrowStep, ListedStep
<1>2. ASSUME NEW c \in CAs, frames'[c].state = "loop",
             NEW f \in (Content(frames'[c].mft) \cap Signed(c) \cap db') \ (overtaken' \cup frames'[c].files)
      PROVE  Judging(f, c)' \/ Right(f, c)'
  <2>1. frames[c].state = "loop"
    BY <1>2 DEF NewLoops
  <2>2. frames'[c].mft = frames[c].mft
    BY <1>1, <2>1 DEF LoopsStay
  <2>3. f \in Content(frames[c].mft) \cap Signed(c) /\ f \in db /\ f \notin overtaken
    BY <1>1, <2>1, <2>2 DEF ListedInTime
  <2>4. CASE f \in frames[c].files
    BY <2>1, <2>3, <2>4
  <2>5. CASE f \notin frames[c].files
    <3>1. Judging(f, c) \/ Right(f, c)
      BY <2>1, <2>3, <2>5 DEF RightlyJudged
    <3> QED BY <2>1, <2>3, <3>1, RightStays
  <2> QED BY <2>4, <2>5
<1> QED BY <1>2 DEF RightlyJudged, Signed

LEMMA JudgedInHand ==
    ASSUME Base, [WalkNext]_walkVars, RightlyJudged, NewLoops, FilesInHand
    PROVE  RightlyJudged'
BY JudgedOneByOne DEF FilesInHand

LEMMA InHandSameFrames ==
    ASSUME \A w \in Workers : work[w].do = "file" => work'[w] = work[w],
           \A c \in CAs : frames[c].state = "loop" => frames'[c] = frames[c]
    PROVE  FilesInHand
<1>1. \A w \in Workers : work[w].do = "file" => top(w)' = top(w)
  BY DEF top
<1>2. \A f : \A c : Judging(f, c) => Judging(f, c)'
  BY <1>1 DEF Judging
<1> QED BY <1>2 DEF FilesInHand

LEMMA InHandOne ==
    ASSUME Base, NEW w \in Workers, NEW j, NewJob(work', w, j), work[w].do # "file",
           \A c \in CAs : frames[c].state = "loop" => frames'[c] = frames[c]
    PROVE  FilesInHand
BY InHandSameFrames DEF NewJob

LEMMA NewLoopsOne ==
    ASSUME NEW c \in CAs, NEW fr, NewFrame(frames', c, fr), fr.state # "loop" \/ frames[c].state = "loop"
    PROVE  NewLoops
BY DEF NewLoops, NewFrame

LEMMA NewLoopsSame ==
    ASSUME frames' = frames
    PROVE  NewLoops
BY DEF NewLoops

LEMMA OtherLoops ==
    ASSUME NEW c \in CAs, NEW fr, NewFrame(frames', c, fr), frames[c].state # "loop"
    PROVE  \A d \in CAs : frames[d].state = "loop" => frames'[d] = frames[d]
BY DEF NewFrame

\* A frame that is not in its loop moves to another state than that.
LEMMA LoopsMove ==
    ASSUME Base, NEW c \in CAs, frames[c].state # "loop", NEW x, x # "loop",
           frames' = frames \/ NewFrame(frames', c, [frames[c] EXCEPT !.state = x])
    PROVE  NewLoops /\ \A d \in CAs : frames[d].state = "loop" => frames'[d] = frames[d]
<1>1. [frames[c] EXCEPT !.state = x].state = x
  BY MovedState
<1>2. CASE NewFrame(frames', c, [frames[c] EXCEPT !.state = x])
  <2> DEFINE fr == [frames[c] EXCEPT !.state = x]
  <2>1. NewFrame(frames', c, fr) /\ fr.state # "loop"
    BY <1>1, <1>2
  <2> HIDE DEF fr
  <2> QED BY <2>1, NewLoopsOne, OtherLoops
<1> QED BY <1>2, NewLoopsSame

LEMMA HandSimple ==
    ASSUME Base, NEW w \in Workers,
           GetTask(w) \/ CheckTAL(w) \/ initial(w) \/ fetch(w) \/ StoreSome(w) \/ EndLoop(w)
    PROVE  NewLoops /\ FilesInHand
<1>0. /\ work[w].do # "file" /\ \A c \in CAs : \A x : [frames[c] EXCEPT !.state = x].state = x
      /\ \A c \in CAs : UNCHANGED frames => (frames[c].state = "loop" => frames'[c] = frames[c])
  BY MovedState DEF GetTask, CheckTAL, initial, fetch, StoreSome, EndLoop, InState
<1>1. CASE GetTask(w)
  <2>1. frames' = frames /\ \A v \in Workers : v # w => work'[v] = work[v]
    BY <1>1, BaseParts, GetTaskFacts DEF GetTask
  <2> QED BY <1>0, <2>1, NewLoopsSame, InHandSameFrames
<1>2. CASE CheckTAL(w)
  <2>0. PICK c : c = top(w)
    OBVIOUS
  <2>1. /\ work[w].do = "tal" /\ c \in CAs /\ NewJob(work', w, Free)
        /\ frames' = frames \/ NewFrame(frames', c, [frames[c] EXCEPT !.state = "initial"])
    BY <1>2, <2>0, BaseParts, CheckTALFacts
  <2>2. frames[c].state # "loop"
    BY <2>0, <2>1, WorkerStack DEF TopStates
  <2>3. NewLoops /\ \A d \in CAs : frames[d].state = "loop" => frames'[d] = frames[d]
    BY <2>1, <2>2, LoopsMove
  <2> QED BY <1>0, <2>1, <2>3, InHandOne
<1>3. CASE initial(w)
  <2>0. PICK c : c = top(w)
    OBVIOUS
  <2>1. /\ c \in CAs /\ frames[c].state = "initial"
        /\ \/ NewFrame(frames', c, [frames[c] EXCEPT !.state = "ready"])
           \/ NewFrame(frames', c, [frames[c] EXCEPT !.state = "fetch"])
        /\ work' = work \/ NewJob(work', w, Going(Front(work[w].stack)))
    BY <1>3, <2>0, BaseParts, InitialFacts
  <2>2. NewLoops /\ \A d \in CAs : frames[d].state = "loop" => frames'[d] = frames[d]
    BY <2>1, LoopsMove
  <2> QED BY <1>0, <2>1, <2>2, InHandOne, InHandSameFrames
<1>4. CASE fetch(w)
  <2>0. PICK c, p : c = top(w) /\ p = Point[c]
    OBVIOUS
  <2>1. /\ c \in CAs /\ frames[c].state = "fetch"
        /\ frames' = frames \/ NewFrame(frames', c, [frames[c] EXCEPT !.state = "ready"])
        /\ \/ work' = work
           \/ NewJob(work', w, [work[w] EXCEPT !.do = "wait", !.at = entry(p)])
           \/ NewJob(work', w, [work[w] EXCEPT !.do = "transfer", !.at = p])
    BY <1>4, <2>0, BaseParts, FetchFacts
  <2>2. NewLoops /\ \A d \in CAs : frames[d].state = "loop" => frames'[d] = frames[d]
    BY <2>1, LoopsMove
  <2> QED BY <1>0, <2>1, <2>2, InHandOne, InHandSameFrames
<1>5. CASE StoreSome(w)
  <2>1. frames' = frames /\ NewJob(work', w, [work[w] EXCEPT !.file = "some"])
    BY <1>5, BaseParts, StoreSomeFacts DEF StoreSome
  <2> QED BY <1>0, <2>1, NewLoopsSame, InHandOne
<1>6. CASE EndLoop(w)
  <2>1. frames' = frames /\ NewJob(work', w, Going(Front(work[w].stack)))
    BY <1>6, BaseParts, EndLoopFacts DEF EndLoop
  <2> QED BY <1>0, <2>1, NewLoopsSame, InHandOne
<1> QED BY <1>1, <1>2, <1>3, <1>4, <1>5, <1>6

LEMMA HandTransfer ==
    ASSUME Base, NEW w \in Workers, EndTransfer(w)
    PROVE  NewLoops /\ FilesInHand
<1>0. PICK p : p = work[w].at
  OBVIOUS
<1>1. /\ work[w].do = "transfer" /\ Wakes(Woken(p))
      /\ \A x \in Workers \ Woken(p) : work'[x] = work[x]
  BY <1>0, BaseParts, EndTransferFacts
<1>2. p \in Points
  BY <1>0, <1>1, BaseParts DEF WaitsInv
<1>3. \A x \in Woken(p) : work[x].do # "file" /\ frames[top(x)].state = "fetch"
  BY <1>2, WokenFacts
<1>4. \A c \in CAs : frames[c].state = "loop" => frames'[c] = frames[c]
  BY <1>1, <1>3 DEF Wakes
<1>5. FilesInHand
  BY <1>1, <1>3, <1>4, InHandSameFrames
<1>6. \A c \in CAs : frames'[c].state = "loop" => frames[c].state = "loop"
  <2>1. \A c \in CAs : [frames[c] EXCEPT !.state = "ready"].state = "ready"
    BY MovedState
  <2> QED BY <1>1, <2>1 DEF Wakes
<1> QED BY <1>5, <1>6 DEF NewLoops

LEMMA HandScan ==
    ASSUME Base, NEW w \in Workers, ready(w)
    PROVE  NewLoops /\ FilesInHand
<1>0. PICK c : c = top(w)
  OBVIOUS
<1>1. /\ work[w].do = "walk" /\ c \in CAs /\ frames[c].state = "ready"
      /\ \/ /\ NewFrame(frames', c, [frames[c] EXCEPT !.state = "empty"])
            /\ NewJob(work', w, Going(Front(work[w].stack)))
         \/ /\ work' = work
            /\ \E mft, crl : NewFrame(frames', c, [state |-> "loop", files |-> Content(mft),
                                                   mft |-> mft, crl |-> crl])
  BY <1>0, BaseParts, ScanFacts
<1>2. \A d \in CAs : frames[d].state = "loop" => frames'[d] = frames[d]
  BY <1>1, OtherLoops
<1>3. FilesInHand
  BY <1>1, <1>2, InHandOne, InHandSameFrames
<1>4. CASE NewFrame(frames', c, [frames[c] EXCEPT !.state = "empty"])
  <2> DEFINE fr == [frames[c] EXCEPT !.state = "empty"]
  <2>1. fr.state # "loop"
    BY <1>1, MovedState
  <2> HIDE DEF fr
  <2>2. NewFrame(frames', c, fr)
    BY <1>4 DEF fr
  <2>3. NewLoops
    BY <1>1, <2>1, <2>2, NewLoopsOne
  <2> QED BY <1>3, <2>3
<1>5. ASSUME NEW mft, NEW crl, NewFrame(frames', c, [state |-> "loop", files |-> Content(mft),
                                                     mft |-> mft, crl |-> crl])
      PROVE  NewLoops
  BY <1>1, <1>5 DEF NewLoops, NewFrame
<1> QED BY <1>1, <1>3, <1>4, <1>5

LEMMA HandNext ==
    ASSUME Base, NEW w \in Workers, NextFile(w)
    PROVE  NewLoops /\ FilesInHand
<1>0. PICK c : c = top(w)
  OBVIOUS
<1>1. /\ work[w].do = "walk" /\ c \in CAs /\ frames[c].state = "loop" /\ frames[c] \in Frame
      /\ work[w] \in Job
  BY <1>0, BaseParts, NextFileFacts, JobFacts DEF WalkTypes
<1>2. PICK f : /\ NewFrame(frames', c, [frames[c] EXCEPT !.files = @ \ {f}])
               /\ NewJob(work', w, [work[w] EXCEPT !.do = "file", !.file = f])
  BY <1>0, <1>1, BaseParts, NextFileFacts
<1>3. frames'[c].files = frames[c].files \ {f} /\ \A d \in CAs : d # c => frames'[d] = frames[d]
  BY <1>1, <1>2 DEF NewFrame, Frame
<1>4. work'[w].do = "file" /\ work'[w].file = f /\ \A v \in Workers : v # w => work'[v] = work[v]
  BY <1>1, <1>2 DEF NewJob, Job
<1>5. Judging(f, c)' /\ \A g : \A d : Judging(g, d) => Judging(g, d)'
  <2>1. top(w)' = c /\ \A v \in Workers : v # w => top(v)' = top(v)
    BY <1>0, <1>1, <1>2, <1>4 DEF top, NewJob, Job
  <2> QED BY <1>1, <1>4, <2>1 DEF Judging
<1> QED BY <1>1, <1>2, <1>3, <1>5, NewLoopsOne DEF FilesInHand

LEMMA JudgedRightly ==
    ASSUME Base, [WalkNext]_walkVars, RightlyJudged, NEW w \in Workers, JudgeFile(w)
    PROVE  RightlyJudged'
<1>0. PICK f, c : f = work[w].file /\ c = top(w)
  OBVIOUS
<1> DEFINE fit == f \in Signed(c) /\ Uri[f] \notin rejected /\ Sound(f, frames[c].crl)
<1>1. /\ work[w].do = "file"
      /\ \/ accepted' = accepted \cup {f} /\ fit
         \/ accepted' = accepted /\ f \in db /\ ~fit
         \/ accepted' = accepted /\ f \notin db
      /\ \/ /\ f \in CAs /\ f \in Signed(c)
            /\ NewJob(work', w, Going(Append(work[w].stack, f)))
            /\ NewFrame(frames', f, [frames[f] EXCEPT !.state = "initial"])
         \/ NewJob(work', w, Going(work[w].stack)) /\ frames' = frames
  BY <1>0, BaseParts, JudgeFileFacts
<1>2. /\ c \in CAs /\ frames[c].state = "loop" /\ f \in Content(frames[c].mft)
      /\ f \in Signed(c) => f \notin accepted /\ (f \in CAs => frames[f].state = "none")
      /\ f \notin Manifests \cup Crls
  BY <1>0, <1>1, JudgingFacts
<1>3. \A v \in Workers : v # w => work'[v] = work[v]
  BY <1>1 DEF NewJob
<1>4. NewLoops
  <2>1. CASE frames' = frames
    BY <2>1, NewLoopsSame
  <2>2. CASE f \in CAs /\ NewFrame(frames', f, [frames[f] EXCEPT !.state = "initial"])
    <3> DEFINE fr == [frames[f] EXCEPT !.state = "initial"]
    <3>1. fr.state # "loop"
      BY <2>2, MovedState
    <3> HIDE DEF fr
    <3> QED BY <2>2, <3>1, NewLoopsOne DEF fr
  <2> QED BY <1>1, <2>1, <2>2
<1>5. \A d \in CAs : frames[d].state = "loop" => frames'[d] = frames[d]
  BY <1>1, <1>2, OtherLoops
<1>6. \A g : \A d : Judging(g, d) /\ (g # f \/ d # c) => Judging(g, d)'
  <2>1. \A v \in Workers : v # w => top(v)' = top(v)
    BY <1>3 DEF top
  <2> QED BY <1>0, <1>3, <2>1 DEF Judging
<1>7. LoopsStay /\ db \subseteq db' /\ bad' = bad /\ rejected \subseteq rejected'
  BY LoopsStayStep, DbStep, GrowStep
<1> HIDE DEF fit
<1>8. Sound(f, frames[c].crl)' <=> Sound(f, frames[c].crl)
  BY <1>2, <1>5, <1>7 DEF Sound
<1>9. ASSUME f \in Signed(c), f \in db, Uri[f] \in rejected, Sound(f, frames[c].crl) PROVE Shadowed(f)
  <2>1. PICK o \in db : Uri[o] = Uri[f] /\ Culpable(o)
    BY <1>9, BaseParts DEF RejectedInv
  <2>2. CASE Misplaced(o)
    BY <1>9, <2>1, <2>2 DEF Shadowed
  <2>3. CASE ~Misplaced(o)
    <3>1. o # f
      <4> SUFFICES ASSUME o = f PROVE FALSE
        OBVIOUS
      <4>1. f \notin bad /\ f \notin Revoked[frames[c].crl]
        BY <1>2, <1>9, LoopListed DEF Sound
      <4>2. PICK d \in CAs : /\ frames[d].state = "loop" /\ f \in Signed(d)
                             /\ f \in Revoked[frames[d].crl]
        BY <1>2, <2>1, <2>3, <4>1 DEF Culpable
      <4>3. d = c
        BY <1>9, <4>2, SignedFacts
      <4> QED BY <4>1, <4>2, <4>3
    <3>2. o \in bad \/ \E r \in Crls \cap db : o \in Revoked[r]
      <4>1. ASSUME NEW d \in CAs, frames[d].state = "loop", o \in Revoked[frames[d].crl]
            PROVE  \E r \in Crls \cap db : o \in Revoked[r]
        BY <4>1, LoopListed
      <4> QED BY <2>1, <2>3, <4>1 DEF Culpable
    <3> QED BY <1>9, <2>1, <3>1, <3>2 DEF Shadowed
  <2> QED BY <2>2, <2>3
<1>10. ASSUME f \in db, f \in Signed(c) PROVE Right(f, c)'
  <2>1. CASE f \in accepted' /\ Sound(f, frames[c].crl)
    BY <1>8, <2>1 DEF Right
  <2>2. CASE accepted' = accepted /\ ~fit
    <3>1. Sound(f, frames[c].crl) => Shadowed(f)'
      BY <1>7, <1>9, <1>10, <2>2, ShadowedStays DEF fit
    <3>2. f \notin accepted'
      BY <1>2, <1>10, <2>2
    <3> QED BY <1>8, <3>1, <3>2 DEF Right
  <2> QED BY <1>1, <1>10, <2>1, <2>2 DEF fit
<1>11. ASSUME NEW d \in CAs, NEW g, frames[d].state = "loop", g \in Content(frames[d].mft) \cap Signed(d)
       PROVE  /\ g \in db /\ Judging(g, d) => Judging(g, d)' \/ Right(g, d)'
              /\ g \in frames[d].files \ frames'[d].files => Judging(g, d)'
  <2>1. frames'[d].files = frames[d].files
    BY <1>5, <1>11
  <2> QED BY <1>6, <1>10, <1>11, <2>1
<1> QED BY <1>4, <1>11, JudgedOneByOne

LEMMA RightlyJudgedStep ==
    ASSUME Base, [WalkNext]_walkVars, RightlyJudged, failed' \cap CAs = {}
    PROVE  RightlyJudged'
<1>1. CASE UNCHANGED <<work, frames>>
  BY <1>1, NewLoopsSame, InHandSameFrames, JudgedInHand
<1>2. ASSUME NEW w \in Workers, TaskDies(w) PROVE FALSE
  BY <1>2, BaseParts, TaskDiesFacts
<1>3. ASSUME NEW w \in Workers, WorkerStep(w) PROVE RightlyJudged'
  <2>1. CASE JudgeFile(w)
    BY <2>1, JudgedRightly
  <2>2. CASE ~JudgeFile(w)
    <3>1. NewLoops /\ FilesInHand
      BY <1>3, <2>2, HandSimple, HandTransfer, HandScan, HandNext DEF WorkerStep
    <3> QED BY <3>1, JudgedInHand
  <2> QED BY <2>1, <2>2
<1> QED BY <1>1, <1>2, <1>3 DEF WalkNext, Join, Publish, walkVars

LEMMA OverStep ==
    ASSUME Base, [WalkNext]_walkVars, over'
    PROVE  AllDone'
<1>1. CASE over
  <2>1. AllDone
    BY <1>1, BaseParts DEF ScannedInv
  <2>2. ASSUME NEW w \in Workers, WorkerStep(w) \/ TaskDies(w) PROVE FALSE
    BY <2>1, <2>2 DEF AllDone, WorkerStep, TaskDies, GetTask, CheckTAL, initial, fetch, StoreSome,
                      EndTransfer, ready, NextFile, JudgeFile, EndLoop, InState
  <2>3. UNCHANGED <<queue, work>>
    BY <2>2 DEF WalkNext, Join, Publish, walkVars
  <2> QED BY <2>1, <2>3 DEF AllDone
<1>2. CASE ~over
  <2>1. ASSUME NEW w \in Workers, WorkerStep(w) \/ TaskDies(w) PROVE over' = over
    BY <2>1 DEF WorkerStep, TaskDies, GetTask, CheckTAL, initial, fetch, StoreSome,
                EndTransfer, ready, NextFile, JudgeFile, EndLoop
  <2>2. Join
    BY <1>2, <2>1 DEF WalkNext, Publish, walkVars
  <2> QED BY <2>2 DEF Join, AllDone
<1> QED BY <1>1, <1>2

LEMMA ScannedStep ==
    ASSUME Base, [WalkNext]_walkVars
    PROVE  ScannedInv'
<1>1. failed' \cap CAs = {} => StillNeeded /\ RightlyJudged
  BY FailedStep, BaseParts, ScannedParts
<1>2. failed' \cap CAs = {} => StillNeeded' /\ RightlyJudged'
  BY <1>1, NeededStep, RightlyJudgedStep
<1> QED BY <1>2, OverStep, ScannedPartsNext

-----------------------------------------------------------------------------
(***************************************************************************)
(* rcynicng's walk: the theorems.                                          *)
(***************************************************************************)

LEMMA WalkInitTree ==
    ASSUME WalkInit
    PROVE  TreeInv
<1> DEFINE first == SetToSeq({<<t>> : t \in TAs})
<1>1. queue = first /\ frames = [c \in CAs |-> NoFrame] /\ work = [w \in Workers |-> Free]
      /\ rejected = {} /\ accepted = {} /\ over = FALSE /\ history = [p \in Points |-> "none"]
  BY DEF WalkInit
<1>2. /\ \A i \in DOMAIN first : \E t \in TAs : first[i] = <<t>>
      /\ \A i, j \in DOMAIN first : first[i] = first[j] => i = j
  BY FirstTasks
<1> HIDE DEF first
<1>3. \A c \in CAs : frames[c].state = "none" /\ frames[c].files = {} /\ frames[c].mft = Nothing
  BY <1>1 DEF NoFrame
<1>4. \A w \in Workers : /\ work[w] = Free /\ work[w].do = "idle" /\ work[w].stack = << >>
                         /\ ToSet(work[w].stack) = {}
  BY <1>1, FreeFacts, EmptyStack
<1>5. \A t \in TAs : /\ t \in CAs /\ <<t>> # << >> /\ Last(<<t>>) = t /\ Front(<<t>>) = << >>
                     /\ Len(<<t>>) = 1 /\ ToSet(<<t>>) = {t}
  <2> TAKE t \in TAs
  <2>1. t \in CAs
    BY WorldAssumption
  <2>2. <<t>> \in Stack /\ <<t>> # << >> /\ Len(<<t>>) = 1 /\ <<t>>[1] = t
    BY <2>1 DEF Stack
  <2> QED BY <2>1, <2>2, ShortStack DEF Last
<1>6. FramesInv
  BY <1>1 DEF FramesInv, NoFrame
<1>7. StacksInv
  <2>1. ASSUME NEW i \in DOMAIN queue PROVE StackOK(frames, queue[i], {"none", "initial", "fetch"})
    <3>1. PICK t \in TAs : queue[i] = <<t>>
      BY <1>1, <1>2
    <3> QED BY <1>3, <1>5, <3>1, EmptyStack DEF StackOK
  <2> QED BY <1>4, <2>1 DEF StacksInv
<1>8. SharedFramesLoop
  <2>1. ASSUME NEW i \in DOMAIN queue, NEW j \in DOMAIN queue, i # j
        PROVE  ToSet(queue[i]) \cap ToSet(queue[j]) = {}
    <3>1. PICK t \in TAs : queue[i] = <<t>>
      BY <1>1, <1>2
    <3>2. PICK u \in TAs : queue[j] = <<u>>
      BY <1>1, <1>2
    <3>3. t # u
      BY <1>1, <1>2, <2>1, <3>1, <3>2
    <3> QED BY <1>5, <3>1, <3>2, <3>3
  <2> QED BY <1>4, <2>1 DEF SharedFramesLoop
<1>9. WaitsInv /\ JudgedInv
  BY <1>4, FreeFacts DEF WaitsInv, JudgedInv
<1>10. FetchedInv /\ RejectedInv
  BY <1>1, <1>3 DEF FetchedInv, RejectedInv
<1>11. AcceptedInv /\ ScannedInv
  BY <1>1, <1>3 DEF AcceptedInv, ScannedInv
<1> QED BY <1>6, <1>7, <1>8, <1>9, <1>10, <1>11 DEF TreeInv

LEMMA TreeStep ==
    ASSUME Base, [WalkNext]_walkVars
    PROVE  Base'
<1>1. WalkTypes'
  BY BaseParts, WalkTypesStep
<1>2. TreeInv'
  BY FramesStep, StacksStep, SharedStep, WaitsStep, FetchedStep, RejectedStep, AcceptedStep,
     JudgedStep, ScannedStep DEF TreeInv
<1> QED BY <1>1, <1>2 DEF Base

\* Types and TreeInv hold in every reachable state: frames and stacks, what is
\* fetched, rejected, accepted and judged, and that nothing is lost on the way
\* (WalkFrame, WalkTask, Fetcher and worker).
THEOREM WalkInvariant == WalkSpec => [](WalkTypes /\ TreeInv)
<1>1. WalkInit => Base
  BY WalkInitTypes, WalkInitTree DEF Base
<1>2. Base /\ [WalkNext]_walkVars => Base'
  BY TreeStep
<1>3. Base => WalkTypes /\ TreeInv
  BY DEF Base
<1> QED BY <1>1, <1>2, <1>3, PTL DEF WalkSpec

\* The same as one predicate.
LEMMA BaseAlways == WalkSpec => []Base
<1>1. WalkTypes /\ TreeInv => Base
  BY DEF Base
<1> QED BY <1>1, WalkInvariant, PTL

LEMMA CompleteWalk ==
    ASSUME Base, bad \subseteq MaybeBad
    PROVE  WalkComplete
<1>1. WalkTypeOK /\ SharedFramesLoop
  BY BaseParts DEF WalkTypeOK, WalkTypes, JobsOK
<1>2. ASSUME over, failed \cap CAs = {}, NEW c \in accepted \cap CAs
      PROVE  /\ frames[c].state \in {"loop", "empty"} /\ frames[c].files = {}
             /\ frames[c].mft # Nothing =>
                  \A f \in (Content(frames[c].mft) \cap Signed(c) \cap db) \ overtaken :
                    /\ f \in accepted => Sound(f, frames[c].crl)
                    /\ Sound(f, frames[c].crl) => f \in accepted \/ Shadowed(f)
  <2>1. queue = << >> /\ \A w \in Workers : work[w].do = "idle"
    BY <1>2, BaseParts DEF ScannedInv, AllDone
  <2>2. \A w \in Workers : ToSet(work[w].stack) = {}
    BY <2>1, BaseParts, JobFacts, EmptyStack
  <2>3. ~InStack(c)
    BY <2>1, <2>2 DEF InStack
  <2>4. StillNeeded /\ RightlyJudged
    BY <1>2, BaseParts, ScannedParts
  <2>5. ~Needed(c)
    BY <2>3, <2>4 DEF StillNeeded
  <2>6. frames[c].state # "none" /\ frames[c] \in Frame
    BY BaseParts DEF AcceptedInv, WalkTypes
  <2>7. frames[c].state \in {"loop", "empty"} /\ frames[c].files = {}
    BY <2>5, <2>6 DEF Needed, Frame
  <2>8. frames[c].mft # Nothing => frames[c].state = "loop"
    BY BaseParts DEF FramesInv, NoFrame
  <2>9. \A f : ~Judging(f, c)
    BY <2>1 DEF Judging
  <2> QED BY <2>4, <2>7, <2>8, <2>9 DEF RightlyJudged, Right
<1>3. ASSUME NEW f \in accepted \ (Manifests \cup Crls \cup TAs)
      PROVE  /\ Issuer[f] \in accepted /\ frames[Issuer[f]].state = "loop"
             /\ f \in Content(frames[Issuer[f]].mft)
  <2>1. Issuer[f] \in CAs
    BY SignedFacts, BaseParts DEF WalkTypes
  <2> QED BY <2>1, BaseParts DEF AcceptedInv
<1> QED BY <1>1, <1>2, <1>3 DEF WalkComplete

\* What is accepted, an accepted CA has signed and lists.  When launcher()
\* returns and no task has died, every accepted CA has been scanned, and of its
\* own files that its manifest lists exactly the sound ones have been accepted,
\* but for those that arrived late or are shadowed.  A manifest may list
\* anything, other CAs' files included.
THEOREM WalksAreComplete == WalkSpec => []WalkComplete
<1>1. WalkInit => bad \subseteq MaybeBad
  BY DEF WalkInit
<1>2. bad \subseteq MaybeBad /\ [WalkNext]_walkVars => (bad \subseteq MaybeBad)'
  BY DbStep
<1>3. Base /\ bad \subseteq MaybeBad => WalkComplete
  BY CompleteWalk
<1> QED BY <1>1, <1>2, <1>3, BaseAlways, PTL DEF WalkSpec

-----------------------------------------------------------------------------
(***************************************************************************)
(* Fetches are made by one, and waited for by the others.                  *)
(***************************************************************************)

\* What a worker has to do with fetches: nothing before the step and nothing
\* after it, or the same.
SameFetch(v) ==
  \/ work[v].do \notin {"wait", "transfer"} /\ work'[v].do \notin {"wait", "transfer"}
  \/ work'[v].do = work[v].do /\ work'[v].at = work[v].at

LEMMA SharedRest ==
    ASSUME FetchesAreShared, history' = history, \A v \in Workers : SameFetch(v)
    PROVE  FetchesAreShared'
BY DEF FetchesAreShared, SameFetch

LEMMA SharedOne ==
    ASSUME FetchesAreShared, history' = history, NEW w \in Workers, NEW j,
           NewJob(work', w, j), work[w].do \notin {"wait", "transfer"},
           j.do \notin {"wait", "transfer"}
    PROVE  FetchesAreShared'
<1>1. \A v \in Workers : SameFetch(v)
  BY DEF NewJob, SameFetch
<1> QED BY <1>1, SharedRest

\* Nobody has begun to fetch what must be fetched.
LEMMA NotPending ==
    ASSUME WalkTypes, NEW p \in Points, MustFetch(p)
    PROVE  history[p] # "pending"
<1>1. CASE p \in Https
  <2>1. entry(p) = p
    BY <1>1 DEF entry
  <2>2. known(p) = history[p]
    BY <2>1, WorldAssumption DEF known
  <2> QED BY <2>2 DEF MustFetch
<1>2. CASE p \notin Https
  <2>1. known(p) = "none"
    BY <1>2 DEF MustFetch
  <2> QED BY <1>2, <2>1, EntryFacts, DirectoriesAssumption
<1> QED BY <1>1, <1>2

LEMMA SharedFetches ==
    ASSUME Base, FetchesAreShared, NEW w \in Workers, fetch(w)
    PROVE  FetchesAreShared'
<1> DEFINE p == Point[top(w)]
<1>1. /\ work[w].do = "walk" /\ top(w) \in CAs
      /\ \/ /\ known(p) = "pending" /\ history' = history
            /\ NewJob(work', w, [work[w] EXCEPT !.do = "wait", !.at = entry(p)])
            /\ entry(p) \in Points
         \/ /\ MustFetch(p) /\ history' = [history EXCEPT ![p] = "pending"]
            /\ NewJob(work', w, [work[w] EXCEPT !.do = "transfer", !.at = p])
         \/ history' = history /\ work' = work
  BY BaseParts, FetchFacts
<1>2. p \in Points /\ work[w] \in Job /\ history \in [Points -> {"none", "pending", "done"}]
  BY <1>1, WorldAssumption, BaseParts, JobFacts DEF WalkTypes
<1> HIDE DEF p
<1>3. CASE /\ known(p) = "pending" /\ history' = history
           /\ NewJob(work', w, [work[w] EXCEPT !.do = "wait", !.at = entry(p)])
           /\ entry(p) \in Points
  <2> DEFINE j == [work[w] EXCEPT !.do = "wait", !.at = entry(p)]
  <2>1. j.do = "wait" /\ j.at = entry(p)
    BY <1>2 DEF Job
  <2> HIDE DEF j
  <2>2. work'[w] = j /\ \A v \in Workers : v # w => work'[v] = work[v]
    BY <1>3 DEF NewJob, j
  <2>3. history[entry(p)] = "pending"
    BY <1>3, WorldAssumption DEF known
  <2> QED BY <1>1, <1>3, <2>1, <2>2, <2>3 DEF FetchesAreShared
<1>4. CASE /\ MustFetch(p) /\ history' = [history EXCEPT ![p] = "pending"]
           /\ NewJob(work', w, [work[w] EXCEPT !.do = "transfer", !.at = p])
  <2> DEFINE j == [work[w] EXCEPT !.do = "transfer", !.at = p]
  <2>1. j.do = "transfer" /\ j.at = p
    BY <1>2 DEF Job
  <2> HIDE DEF j
  <2>2. work'[w] = j /\ \A v \in Workers : v # w => work'[v] = work[v]
    BY <1>4 DEF NewJob, j
  <2>3. \A v \in Workers : work[v].do = "transfer" => work[v].at # p
    BY <1>2, <1>4, NotPending, BaseParts DEF FetchesAreShared
  <2>4. history'[p] = "pending" /\ \A q \in Points : q # p => history'[q] = history[q]
    BY <1>2, <1>4
  <2>5. \A v \in Workers : work[v].do = "wait" => work[v].at \in Points
    BY BaseParts DEF WaitsInv
  <2>6. \A q \in Points : history'[q] = "pending" <=>
          \E v \in Workers : work'[v].do = "transfer" /\ work'[v].at = q
    BY <1>1, <2>1, <2>2, <2>3, <2>4 DEF FetchesAreShared
  <2>7. \A u, v \in Workers : work'[u].do = "transfer" /\ work'[v].do = "transfer" =>
          u = v \/ work'[u].at # work'[v].at
    BY <2>1, <2>2, <2>3 DEF FetchesAreShared
  <2>8. \A v \in Workers : work'[v].do = "wait" => history'[work'[v].at] = "pending"
    BY <2>1, <2>2, <2>4, <2>5 DEF FetchesAreShared
  <2> QED BY <2>6, <2>7, <2>8 DEF FetchesAreShared
<1>5. CASE history' = history /\ work' = work
  BY <1>5 DEF FetchesAreShared
<1> QED BY <1>1, <1>3, <1>4, <1>5

\* When a fetch has ended nobody waits for it any more.
LEMMA SharedEnds ==
    ASSUME Base, FetchesAreShared, NEW p \in Points,
           history' = [history EXCEPT ![p] = "done"],
           \A v \in Woken(p) : work'[v].do \notin {"wait", "transfer"},
           \A v \in Workers \ Woken(p) : work'[v] = work[v]
    PROVE  FetchesAreShared'
<1>1. /\ \A v \in Workers : work[v].at = p => work'[v].do \notin {"wait", "transfer"}
      /\ \A v \in Workers : work[v].at # p => work'[v] = work[v]
  BY DEF Woken
<1>2. history'[p] = "done" /\ \A q \in Points : q # p => history'[q] = history[q]
  BY BaseParts DEF WalkTypes
<1>3. \A v \in Workers : work[v].do = "wait" => work[v].at \in Points
  BY BaseParts DEF WaitsInv
<1>4. \A q \in Points : history'[q] = "pending" <=>
        \E v \in Workers : work'[v].do = "transfer" /\ work'[v].at = q
  <2> TAKE q \in Points
  <2>1. CASE q = p
    BY <1>1, <1>2, <2>1
  <2>2. CASE q # p
    BY <1>1, <1>2, <2>2 DEF FetchesAreShared
  <2> QED BY <2>1, <2>2
<1>5. \A u, v \in Workers : work'[u].do = "transfer" /\ work'[v].do = "transfer" =>
        u = v \/ work'[u].at # work'[v].at
  BY <1>1 DEF FetchesAreShared
<1>6. \A v \in Workers : work'[v].do = "wait" => history'[work'[v].at] = "pending"
  BY <1>1, <1>2, <1>3 DEF FetchesAreShared
<1> QED BY <1>4, <1>5, <1>6 DEF FetchesAreShared

LEMMA WokenGoOn ==
    ASSUME Base, NEW ws \in SUBSET Workers, Wakes(ws)
    PROVE  \A v \in ws : work'[v].do \notin {"wait", "transfer"}
<1> TAKE v \in ws
<1>1. work[v].stack \in Stack
  BY BaseParts, JobFacts
<1>2. work'[v] = Going(work[v].stack)
  BY DEF Wakes
<1> QED BY <1>1, <1>2, GoingFacts

LEMMA SharedStays ==
    ASSUME Base, FetchesAreShared, [WalkNext]_walkVars
    PROVE  FetchesAreShared'
<1>1. ASSUME UNCHANGED <<history, work>> PROVE FetchesAreShared'
  BY <1>1 DEF FetchesAreShared
<1>2. ASSUME NEW w \in Workers, GetTask(w) PROVE FetchesAreShared'
  <2>1. /\ work[w].do = "idle" /\ work'[w].do \in {"tal", "walk"}
        /\ \A v \in Workers : v # w => work'[v] = work[v]
    BY <1>2, BaseParts, GetTaskFacts
  <2>2. \A v \in Workers : SameFetch(v)
    BY <2>1 DEF SameFetch
  <2>3. history' = history
    BY <1>2 DEF GetTask
  <2> QED BY <2>2, <2>3, SharedRest
<1>3. ASSUME NEW w \in Workers, CheckTAL(w) PROVE FetchesAreShared'
  <2>1. history' = history
    BY <1>3 DEF CheckTAL
  <2> QED BY <1>3, <2>1, BaseParts, CheckTALFacts, FreeFacts, SharedOne
<1>4. ASSUME NEW w \in Workers, work[w].do = "walk", history' = history,
             NewJob(work', w, Going(Front(work[w].stack)))
      PROVE  FetchesAreShared'
  <2>1. Front(work[w].stack) \in Stack
    BY <1>4, WorkerStack
  <2>2. Going(Front(work[w].stack)).do \in {"idle", "walk"}
    BY <2>1, GoingFacts
  <2> QED BY <1>4, <2>2, SharedOne
<1>5. ASSUME NEW w \in Workers, initial(w) PROVE FetchesAreShared'
  <2>1. history' = history
    BY <1>5 DEF initial
  <2> QED BY <1>1, <1>4, <1>5, <2>1, BaseParts, InitialFacts
<1>6. ASSUME NEW w \in Workers, StoreSome(w) PROVE FetchesAreShared'
  <2> DEFINE j == [work[w] EXCEPT !.file = "some"]
  <2>1. history' = history /\ NewJob(work', w, j)
    BY <1>6, BaseParts, StoreSomeFacts DEF StoreSome
  <2>2. j.do = work[w].do /\ j.at = work[w].at
    BY BaseParts, JobFacts DEF Job
  <2> HIDE DEF j
  <2>3. \A v \in Workers : SameFetch(v)
    BY <2>1, <2>2 DEF NewJob, SameFetch
  <2> QED BY <2>1, <2>3, SharedRest
<1>7. ASSUME NEW w \in Workers, EndTransfer(w) PROVE FetchesAreShared'
  <2>1. /\ work[w].do = "transfer" /\ Wakes(Woken(work[w].at))
        /\ \A v \in Workers \ Woken(work[w].at) : work'[v] = work[v]
        /\ history' = [history EXCEPT ![work[w].at] = "done"]
    BY <1>7, BaseParts, EndTransferFacts
  <2>2. work[w].at \in Points /\ Woken(work[w].at) \in SUBSET Workers
    BY <2>1, BaseParts DEF WaitsInv, Woken
  <2>3. \A v \in Woken(work[w].at) : work'[v].do \notin {"wait", "transfer"}
    BY <2>1, <2>2, WokenGoOn
  <2> QED BY <2>1, <2>2, <2>3, SharedEnds
<1>8. ASSUME NEW w \in Workers, ready(w) PROVE FetchesAreShared'
  <2>1. history' = history
    BY <1>8 DEF ready
  <2> QED BY <1>1, <1>4, <1>8, <2>1, BaseParts, ScanFacts
<1>9. ASSUME NEW w \in Workers, NextFile(w) PROVE FetchesAreShared'
  <2>1. PICK f : NewJob(work', w, [work[w] EXCEPT !.do = "file", !.file = f])
    BY <1>9, BaseParts, NextFileFacts
  <2> DEFINE j == [work[w] EXCEPT !.do = "file", !.file = f]
  <2>2. j.do = "file" /\ work[w].do = "walk" /\ history' = history
    BY <1>9, BaseParts, JobFacts, NextFileFacts DEF Job, NextFile
  <2> HIDE DEF j
  <2>3. NewJob(work', w, j)
    BY <2>1 DEF j
  <2> QED BY <2>2, <2>3, SharedOne
<1>10. ASSUME NEW w \in Workers, JudgeFile(w) PROVE FetchesAreShared'
  <2> DEFINE f == work[w].file
  <2>1. work[w].do = "file" /\ work[w].stack \in Stack /\ history' = history
    BY <1>10, BaseParts, JudgeFileFacts, JobFacts DEF JudgeFile
  <2>2. ASSUME NEW s \in Stack, NewJob(work', w, Going(s)) PROVE FetchesAreShared'
    BY <2>1, <2>2, GoingFacts, SharedOne
  <2>3. CASE f \in CAs /\ NewJob(work', w, Going(Append(work[w].stack, f)))
    <3>1. Append(work[w].stack, f) \in Stack
      BY <2>1, <2>3, PushFacts
    <3> QED BY <2>2, <2>3, <3>1
  <2> QED BY <1>10, <2>1, <2>2, <2>3, BaseParts, JudgeFileFacts
<1>11. ASSUME NEW w \in Workers, EndLoop(w) PROVE FetchesAreShared'
  <2>1. history' = history
    BY <1>11 DEF EndLoop
  <2> QED BY <1>4, <1>11, <2>1, BaseParts, EndLoopFacts
<1>12. ASSUME NEW w \in Workers, TaskDies(w) PROVE FetchesAreShared'
  <2>1. CASE /\ work[w].do \in {"tal", "walk", "file"} /\ history' = history
             /\ NewJob(work', w, Free)
    BY <2>1, FreeFacts, SharedOne
  <2>2. CASE /\ work[w].do = "transfer" /\ Wakes(Woken(work[w].at) \ {w}) /\ work'[w] = Free
             /\ \A x \in Workers \ (Woken(work[w].at) \cup {w}) : work'[x] = work[x]
             /\ history' = [history EXCEPT ![work[w].at] = "done"]
    <3>1. work[w].at \in Points /\ Woken(work[w].at) \in SUBSET Workers
          /\ w \in Woken(work[w].at)
      BY <2>2, BaseParts DEF WaitsInv, Woken
    <3>2. \A v \in Woken(work[w].at) \ {w} : work'[v].do \notin {"wait", "transfer"}
      BY <2>2, <3>1, WokenGoOn
    <3>3. \A v \in Woken(work[w].at) : work'[v].do \notin {"wait", "transfer"}
      BY <2>2, <3>2, FreeFacts
    <3>4. \A v \in Workers \ Woken(work[w].at) : work'[v] = work[v]
      BY <2>2, <3>1
    <3> QED BY <2>2, <3>1, <3>3, <3>4, SharedEnds
  <2> QED BY <1>12, <2>1, <2>2, BaseParts, TaskDiesFacts
<1>13. ASSUME NEW w \in Workers, WorkerStep(w) \/ TaskDies(w) PROVE FetchesAreShared'
  BY <1>2, <1>3, <1>5, <1>6, <1>7, <1>8, <1>9, <1>10, <1>11, <1>12, <1>13, SharedFetches
     DEF WorkerStep
<1> QED BY <1>1, <1>13 DEF WalkNext, Join, Publish, walkVars

\* A fetch that is pending is made by exactly one worker, and whoever waits has
\* somebody to wait for, in whatever order tasks are taken, transfers fail and
\* tasks die (Fetcher: `history', `pending' and its `finally' clauses).
THEOREM FetchesAreMadeOnce == WalkSpec => []FetchesAreShared
<1>1. WalkInit => FetchesAreShared
  <2> SUFFICES ASSUME WalkInit PROVE FetchesAreShared
    OBVIOUS
  <2>1. \A w \in Workers : work[w].do = "idle"
    BY FreeFacts DEF WalkInit
  <2>2. \A p \in Points : history[p] = "none"
    BY DEF WalkInit
  <2> QED BY <2>1, <2>2 DEF FetchesAreShared
<1>2. Base /\ FetchesAreShared /\ [WalkNext]_walkVars => FetchesAreShared'
  BY SharedStays
<1> QED BY <1>1, <1>2, BaseAlways, PTL DEF WalkSpec

-----------------------------------------------------------------------------
(***************************************************************************)
(* A CA is scanned when its publication point has been fetched.            *)
(***************************************************************************)

Done(c) == frames[c].state \in {"loop", "empty"}

\* Only WalkFrame.ready chooses.
LEMMA DoneStays ==
    ASSUME Base, [WalkNext]_walkVars, NEW c \in CAs, Done(c)',
           ~ \E w \in Workers : ready(w) /\ c = top(w)
    PROVE  Done(c) /\ frames'[c].mft = frames[c].mft
<1>1. CASE frames'[c] = frames[c]
  BY <1>1 DEF Done
<1>2. ASSUME NEW x, frames'[c] = [frames[c] EXCEPT !.state = x], x \notin {"loop", "empty"} PROVE FALSE
  BY <1>2, MovedState DEF Done
<1>3. ASSUME NEW ws, Wakes(ws) PROVE frames'[c] = frames[c]
  <2>1. CASE \E x \in ws : c = top(x)
    <3>1. frames'[c] = [frames[c] EXCEPT !.state = "ready"]
      BY <1>3, <2>1 DEF Wakes
    <3> QED BY <1>2, <3>1
  <2>2. CASE ~ \E x \in ws : c = top(x)
    BY <1>3, <2>2 DEF Wakes
  <2> QED BY <2>1, <2>2
<1>4. ASSUME NEW w \in Workers, CheckTAL(w) PROVE frames'[c] = frames[c]
  <2>1. \/ frames' = frames
        \/ NewFrame(frames', top(w), [frames[top(w)] EXCEPT !.state = "initial"])
    BY <1>4, BaseParts, CheckTALFacts
  <2> QED BY <1>2, <2>1 DEF NewFrame
<1>5. ASSUME NEW w \in Workers, initial(w) PROVE frames'[c] = frames[c]
  <2>1. \/ NewFrame(frames', top(w), [frames[top(w)] EXCEPT !.state = "ready"])
        \/ NewFrame(frames', top(w), [frames[top(w)] EXCEPT !.state = "fetch"])
    BY <1>5, BaseParts, InitialFacts
  <2> QED BY <1>2, <2>1 DEF NewFrame
<1>6. ASSUME NEW w \in Workers, fetch(w) PROVE frames'[c] = frames[c]
  <2>1. \/ frames' = frames
        \/ NewFrame(frames', top(w), [frames[top(w)] EXCEPT !.state = "ready"])
    BY <1>6, BaseParts, FetchFacts
  <2> QED BY <1>2, <2>1 DEF NewFrame
<1>7. ASSUME NEW w \in Workers, EndTransfer(w) PROVE frames'[c] = frames[c]
  BY <1>3, <1>7, BaseParts, EndTransferFacts
<1>8. ASSUME NEW w \in Workers, TaskDies(w) PROVE frames'[c] = frames[c]
  BY <1>3, <1>8, BaseParts, TaskDiesFacts
<1>9. ASSUME NEW w \in Workers, ready(w) PROVE frames'[c] = frames[c]
  <2>1. \E fr : NewFrame(frames', top(w), fr)
    BY <1>9, BaseParts, ScanFacts
  <2> QED BY <1>9, <2>1 DEF NewFrame
<1>10. ASSUME NEW w \in Workers, NextFile(w) PROVE Done(c) /\ frames'[c].mft = frames[c].mft
  <2>1. PICK f : NewFrame(frames', top(w), [frames[top(w)] EXCEPT !.files = @ \ {f}])
    BY <1>10, BaseParts, NextFileFacts
  <2>2. frames[c] \in Frame
    BY BaseParts DEF WalkTypes
  <2>3. [frames[c] EXCEPT !.files = @ \ {f}].state = frames[c].state
        /\ [frames[c] EXCEPT !.files = @ \ {f}].mft = frames[c].mft
    BY <2>2 DEF Frame
  <2> QED BY <1>1, <2>1, <2>3 DEF NewFrame, Done
<1>11. ASSUME NEW w \in Workers, JudgeFile(w) PROVE frames'[c] = frames[c]
  <2>1. \/ frames' = frames
        \/ NewFrame(frames', work[w].file, [frames[work[w].file] EXCEPT !.state = "initial"])
    BY <1>11, BaseParts, JudgeFileFacts
  <2> QED BY <1>2, <2>1 DEF NewFrame
<1>12. ASSUME NEW w \in Workers, GetTask(w) \/ StoreSome(w) \/ EndLoop(w) PROVE frames'[c] = frames[c]
  BY <1>12 DEF GetTask, StoreSome, EndLoop
<1>13. ASSUME NEW w \in Workers, WorkerStep(w) \/ TaskDies(w)
       PROVE  Done(c) /\ frames'[c].mft = frames[c].mft
  BY <1>1, <1>4, <1>5, <1>6, <1>7, <1>8, <1>9, <1>10, <1>11, <1>12, <1>13 DEF WorkerStep
<1>14. CASE frames' = frames
  BY <1>1, <1>14
<1> QED BY <1>13, <1>14 DEF WalkNext, Join, Publish, walkVars

Issued(c) == Signed(c) \cap (Manifests \cup Crls)

\* Nothing that c has issued is bad or revoked.
Flawless(c) == /\ Issued(c) \cap bad = {}
               /\ \A r \in Issued(c) \cap Crls : Revoked[r] \cap Issued(c) = {}

LEMMA FlawlessPass ==
    ASSUME Base, NEW c \in CAs, Flawless(c), NEW S \in SUBSET Issued(c), NEW o \in S
    PROVE  Passes(o, S)
<1>1. \A x \in Manifests \cup Crls : x \in Objects /\ x \in Signed(Issuer[x])
  BY SignedFacts
<1>2. Uri[o] \notin rejected
  <2> SUFFICES ASSUME Uri[o] \in rejected PROVE FALSE
    OBVIOUS
  <2>1. PICK q \in db : Uri[q] = Uri[o] /\ Culpable(q)
    BY BaseParts DEF RejectedInv
  <2>2. q \in Objects /\ o \in Manifests \cup Crls /\ Issuer[o] = c
    BY SignedFacts, BaseParts DEF WalkTypes, Issued
  <2>3. q \in Manifests \cup Crls /\ Issuer[q] = c
    BY <2>1, <2>2, NamesAssumption
  <2>4. q \in Issued(c)
    BY <1>1, <2>3 DEF Issued
  <2>5. q \notin bad /\ \A r \in Crls : Issuer[r] = c => q \notin Revoked[r]
    BY <1>1, <2>4 DEF Flawless, Issued
  <2>6. \A d \in CAs : frames[d].state = "loop" => q \notin Content(frames[d].mft)
    BY <2>3, LoopListed
  <2> QED BY <2>1, <2>3, <2>5, <2>6 DEF Culpable, Misplaced
<1>3. \A q \in S : Sound(q, Nothing)
  BY DEF Sound, Flawless
<1> QED BY <1>2, <1>3 DEF Passes

LEMMA FreshChoice ==
    ASSUME Base, failed = {}, NEW c \in CAs, frames[c].state = "ready", Flawless(c),
           NEW m \in Versions[Point[c]][1] \cap Issued(c) \cap Manifests
    PROVE  /\ ChosenManifest(c) # Nothing
           /\ Number[ChosenManifest(c)] >= Number[m]
<1>1. Issuer[m] = c /\ \A x \in Manifests \cup Crls : x \in Signed(Issuer[x])
  BY SignedFacts DEF Issued
<1>2. PICK q \in Points : <<q, Point[c]>> \in Above /\ Complete(q)
  BY BaseParts DEF FetchedInv
<1>3. PICK i \in DOMAIN Versions[q] : Versions[q][i] \subseteq db
  BY <1>2 DEF Complete
<1>4. PICK n \in Versions[q][i] \cap Manifests, r \in Versions[q][i] \cap Crls :
        Issuer[n] = c /\ Number[n] >= Number[m] /\ Issuer[r] = c /\ r \in Files[n]
  BY <1>1, <1>2, <1>3, VersionsAssumption
<1>5. n \in Mine(c) /\ r \in Mine(c) /\ Mine(c) \cap (Manifests \cup Crls) \subseteq Issued(c)
  BY <1>1, <1>3, <1>4 DEF Mine, Issued
<1>6. n \in GoodManifests(c) /\ GoodManifests(c) \subseteq Mine(c) \cap Manifests
  <2>1. Passes(n, Mine(c) \cap Manifests)
    BY <1>4, <1>5, FlawlessPass
  <2> QED BY <1>4, <1>5, <2>1 DEF GoodManifests
<1>7. r \in HeardCrls(c) /\ HeardCrls(c) \subseteq Mine(c) \cap Crls
  BY <1>4, <1>5, <1>6 DEF HeardCrls
<1>8. r \in GoodCrls(c) /\ GoodCrls(c) \subseteq Mine(c) \cap Crls
  <2>1. Passes(r, HeardCrls(c))
    BY <1>5, <1>7, FlawlessPass
  <2> QED BY <1>7, <2>1 DEF GoodCrls
<1>9. ChosenCrl(c) \in Mine(c) \cap Crls
  <2>1. GoodCrls(c) \in SUBSET (Manifests \cup Crls)
    BY <1>8
  <2> QED BY <1>8, <2>1, NewestFacts DEF ChosenCrl
<1>10. ChosenCrl(c) # Nothing
  BY <1>9, WorldAssumption
<1>11. n \in LeftManifests(c) /\ LeftManifests(c) \subseteq Mine(c) \cap Manifests
  <2>1. n \notin Revoked[ChosenCrl(c)]
    BY <1>5, <1>9 DEF Flawless
  <2> QED BY <1>6, <1>10, <2>1 DEF LeftManifests
<1>12. /\ ChosenManifest(c) \in LeftManifests(c)
       /\ Number[n] <= Number[ChosenManifest(c)]
  <2>1. LeftManifests(c) \in SUBSET (Manifests \cup Crls)
    BY <1>11
  <2> QED BY <1>11, <2>1, NewestFacts DEF ChosenManifest
<1>13. ChosenManifest(c) \in Manifests /\ ChosenManifest(c) # Nothing
  BY <1>11, <1>12, WorldAssumption
<1>14. Number[m] \in Nat /\ Number[n] \in Nat /\ Number[ChosenManifest(c)] \in Nat
  BY <1>4, <1>13, WorldAssumption
<1> QED BY <1>4, <1>12, <1>13, <1>14

Fresh(c) ==
  Done(c) /\ failed = {} /\ Flawless(c) =>
    \A m \in Versions[Point[c]][1] \cap Issued(c) \cap Manifests :
      frames[c].mft # Nothing /\ Number[frames[c].mft] >= Number[m]

LEMMA FreshParts == FreshScan <=> \A c \in CAs : Fresh(c)
BY DEF FreshScan, Fresh, Done, Flawless, Issued

LEMMA FreshPartsNext == FreshScan' <=> \A c \in CAs : Fresh(c)'
BY DEF FreshScan, Fresh, Done, Flawless, Issued

LEMMA FreshStep ==
    ASSUME Base, [WalkNext]_walkVars, FreshScan
    PROVE  FreshScan'
<1>1. bad' = bad /\ failed \subseteq failed'
  BY DbStep, FailedStep
<1> SUFFICES ASSUME NEW c \in CAs, Done(c)', failed' = {}, Flawless(c)',
                    NEW m \in Versions[Point[c]][1] \cap Issued(c) \cap Manifests
             PROVE  frames'[c].mft # Nothing /\ Number[frames'[c].mft] >= Number[m]
  BY FreshPartsNext DEF Fresh, Issued
<1>2. Flawless(c) /\ failed = {}
  BY <1>1 DEF Flawless, Issued
<1>3. CASE \E w \in Workers : ready(w) /\ c = top(w)
  <2>1. PICK w \in Workers : ready(w) /\ c = top(w)
    BY <1>3
  <2>2. frames[c].state = "ready"
    BY <2>1, BaseParts, ScanFacts
  <2> DEFINE mft == ChosenManifest(c)
  <2>3. mft # Nothing /\ Number[mft] >= Number[m]
    BY <1>2, <2>2, FreshChoice
  <2>4. frames'[c].mft = mft
    <3>1. NewFrame(frames', c, [state |-> "loop", files |-> Content(mft), mft |-> mft,
                                crl |-> ChosenCrl(c)])
      <4>1. \/ ChosenManifest(top(w)) = Nothing
            \/ NewFrame(frames', top(w), [state |-> "loop", files |-> Content(ChosenManifest(top(w))),
                          mft |-> ChosenManifest(top(w)), crl |-> ChosenCrl(top(w))])
        BY <2>1, BaseParts, ScanFacts
      <4> QED BY <2>1, <2>3, <4>1
    <3> HIDE DEF mft
    <3> QED BY <3>1 DEF NewFrame
  <2> HIDE DEF mft
  <2> QED BY <2>3, <2>4
<1>4. CASE ~ \E w \in Workers : ready(w) /\ c = top(w)
  <2>1. Done(c) /\ frames'[c].mft = frames[c].mft
    BY <1>4, DoneStays
  <2>2. frames[c].mft # Nothing /\ Number[frames[c].mft] >= Number[m]
    BY <1>2, <2>1, FreshParts DEF Fresh
  <2> QED BY <2>1, <2>2
<1> QED BY <1>3, <1>4

\* WalkFrame.ready chooses a manifest that is at least as new as the one that
\* was on offer when the run began: Fetcher.needed and `pending' let nobody
\* scan a publication point before it has been fetched.
THEOREM ScansAreFresh == WalkSpec => []FreshScan
<1>1. WalkInit => FreshScan
  BY DEF WalkInit, FreshScan, NoFrame
<1>2. Base /\ FreshScan /\ [WalkNext]_walkVars => FreshScan'
  BY FreshStep
<1> QED BY <1>1, <1>2, BaseAlways, PTL DEF WalkSpec
=============================================================================
