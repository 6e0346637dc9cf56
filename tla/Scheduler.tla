----------------------------- MODULE Scheduler -----------------------------
(***************************************************************************)
(* rpkid's background tasks: the queue that cron and the run_now command   *)
(* fill, the loop that takes one task at a time from it, the time slices   *)
(* after which a long task postpones itself, and the conditions on which   *)
(* run_now waits.                                                          *)
(*                                                                         *)
(* cron_run and the left-right handler each load the Tenant row anew, and  *)
(* cron_tasks keeps the task objects in that instance: two commands never  *)
(* share a task object.  An Instance is such a Python object; it can be    *)
(* used for another one when its tasks are gone (Forget).                  *)
(*                                                                         *)
(* UpdateChildren and UpdateROAs walk through items (child certificates,   *)
(* ROAs) and look at the clock between them.  "Other" stands for the       *)
(* classes that do not.  Items that need work are in `stale', which is in  *)
(* the database: a run begins from the first item again.  It works with    *)
(* the answer that irdbd gave at its start; what changes after that is for *)
(* a later run.                                                            *)
(***************************************************************************)
EXTENDS Naturals, Sequences, SequencesExt

CONSTANTS
  Instance,     \* Tenant objects in memory
  TaskClasses,  \* rpkid_tasks.task_classes, in order
  Items,        \* number of child certificates, and of ROAs
  MaxChanges    \* bound: changes in the IRDB

Class == ToSet(TaskClasses)
Long == Class \ {"Other"}
Item == Long \X (1..Items)
Task == Instance \X Class
Nobody == <<>>

ASSUME ClassAssumption == TaskClasses \in Seq({"UpdateChildren", "UpdateROAs", "Other"})
ASSUME NumberAssumption == Items \in Nat \ {0} /\ MaxChanges \in Nat

VARIABLES
  task_queue, \* self.task_queue
  task_ready, \* self.task_ready
  postponed,  \* Task -> task.postponed
  doneThis,   \* tasks whose done_this is a Condition, with a waiter
  doneNext,   \* tasks whose done_next is one
  run,        \* what task_loop is doing
  stale,      \* the items that differ from what the IRDB says
  owner,      \* Instance -> who loaded it: cron, run_now, or nobody
  awaiting,   \* Instance -> classes whose end run_now waits for
  owed,       \* history: what was stale when run_now was asked for, until the
              \* instance's own task has attended to it
  hurried,    \* history: a slice was used up before any item was done
  changes     \* number of changes so far

taskVars == <<task_queue, task_ready, postponed, doneThis, doneNext>>
historyVars == <<owed, hurried, changes>>
vars == <<taskVars, run, stale, owner, awaiting, historyVars>>

Idle == [task |-> Nobody, at |-> "idle", pos |-> 0, late |-> FALSE,
         progress |-> FALSE, postponing |-> FALSE, missed |-> {}]

Init ==
  /\ task_queue = <<>> /\ task_ready = {}
  /\ postponed = [t \in Task |-> FALSE]
  /\ doneThis = {} /\ doneNext = {}
  /\ run = Idle
  /\ stale = {}
  /\ owner = [i \in Instance |-> "free"]
  /\ awaiting = [i \in Instance |-> {}]
  /\ owed = [i \in Instance |-> {}]
  /\ hurried = FALSE /\ changes = 0

-----------------------------------------------------------------------------
(* Filling the queue.                                                      *)

\* One turn of task_add's loop: a task that is already queued is left where it is.
Put(q, t) ==
  IF t \in q.ready THEN q
  ELSE [queue |-> Append(q.queue, t), ready |-> q.ready \cup {t}]

TaskAdd(ts) ==
  LET q == FoldLeft(Put, [queue |-> task_queue, ready |-> task_ready], ts)
  IN  task_queue' = q.queue /\ task_ready' = q.ready

CronTasks(i) == [k \in DOMAIN TaskClasses |-> <<i, TaskClasses[k]>>]

\* New task objects: AbstractTask.__init__.
Load(i, by) ==
  /\ owner[i] = "free"
  /\ owner' = [owner EXCEPT ![i] = by]
  /\ TaskAdd(CronTasks(i))
  /\ postponed' = [t \in Task |-> IF t[1] = i THEN FALSE ELSE postponed[t]]

\* cron_run for the tenant.
CronRun(i) ==
  /\ Load(i, "cron")
  /\ UNCHANGED <<doneThis, doneNext, run, stale, awaiting, historyVars>>

\* Mutant: run_now always waits for the run after this one.
Wait_ForNextRun(ts) ==
  /\ doneNext' = doneNext \cup ts
  /\ UNCHANGED doneThis

\* The condition that AbstractTask.wait() makes.
Wait(ts) ==
  /\ doneThis' = doneThis \cup {t \in ts : t # run.task}
  /\ doneNext' = doneNext \cup {t \in ts : t = run.task}

\* Tenant.serve_run_now.
RunNow(i) ==
  /\ Load(i, "run_now")
  /\ Wait({i} \X Class)
  /\ awaiting' = [awaiting EXCEPT ![i] = Class]
  /\ owed' = [owed EXCEPT ![i] = stale]
  /\ UNCHANGED <<run, stale, hurried, changes>>

\* run_now has answered, or cron's tasks are done: nothing refers to the instance.
Forget(i) ==
  /\ owner[i] # "free" /\ awaiting[i] = {}
  /\ \A c \in Class : <<i, c>> \notin task_ready \cup {run.task}
  /\ owner' = [owner EXCEPT ![i] = "free"]
  /\ owed' = [owed EXCEPT ![i] = {}]
  /\ UNCHANGED <<taskVars, run, stale, awaiting, hurried, changes>>

\* The operator changes the IRDB, or a certificate comes up for renewal.  A run
\* that has irdbd's answer, and the time of its start, does not notice.
Change(item) ==
  /\ changes < MaxChanges
  /\ changes' = changes + 1
  /\ stale' = stale \cup {item}
  /\ run' = [run EXCEPT !.missed = IF run.at \in {"check", "publish"}
                                  THEN @ \cup {item} ELSE @]
  /\ UNCHANGED <<taskVars, owner, awaiting, owed, hurried>>

-----------------------------------------------------------------------------
(* Running a task.                                                         *)

TaskClass == run.task[2]

\* task_loop takes a task, AbstractTask.start calls its main, which asks irdbd.
Start ==
  /\ run = Idle /\ task_queue # <<>>
  /\ LET t == Head(task_queue)
     IN  /\ task_queue' = Tail(task_queue)
         /\ task_ready' = task_ready \ {t}
         /\ postponed' = [postponed EXCEPT ![t] = FALSE]
         /\ run' = [Idle EXCEPT !.task = t, !.at = "query"]
  /\ UNCHANGED <<doneThis, doneNext, stale, owner, awaiting, historyVars>>

\* now > due_date from here on.
Late ==
  /\ run # Idle /\ ~run.late
  /\ run' = [run EXCEPT !.late = TRUE]
  /\ hurried' = (hurried \/ ~run.progress)
  /\ UNCHANGED <<taskVars, stale, owner, awaiting, owed, changes>>

\* Mutant: any other task is a reason to stop.
Overdue_AnyTask == run.late /\ task_ready # {}

\* AbstractTask.overdue: time is up, and a task waits that has not had its turn.
Overdue == run.late /\ \E t \in task_ready : ~postponed[t]

\* Where the walk stops next: UpdateROAs looks at the clock before each item,
\* UpdateChildren after each.
After(pos) == IF TaskClass = "UpdateROAs" /\ pos = Items THEN "publish" ELSE "check"

\* The next item is brought to what irdbd has answered, or cannot be and is skipped.
Handle(ok) ==
  LET k == run.pos + 1
      item == <<TaskClass, k>>
  IN  /\ run' = [run EXCEPT !.pos = k, !.at = After(k),
                            !.progress = @ \/ (ok /\ item \in stale)]
      /\ stale' = IF ok THEN stale \ ({item} \ run.missed) ELSE stale
      /\ owed' = [owed EXCEPT ![run.task[1]] = @ \ {item}]
      /\ UNCHANGED <<taskVars, owner, awaiting, hurried, changes>>

\* Mutant: the conditions are notified in any case.
End_AlwaysNotifies(postponing) ==
  LET t == run.task
  IN  /\ run' = Idle
      /\ awaiting' = [awaiting EXCEPT ![t[1]] = IF t \in doneThis THEN @ \ {t[2]} ELSE @]
      /\ doneThis' = (doneThis \ {t}) \cup (doneNext \cap {t})
      /\ doneNext' = doneNext \ {t}
      /\ IF postponing
         THEN /\ postponed' = [postponed EXCEPT ![t] = TRUE]
              /\ TaskAdd(<<t>>)
         ELSE UNCHANGED <<task_queue, task_ready, postponed>>
      /\ UNCHANGED <<stale, owner, hurried, changes>>

\* The finally clause of AbstractTask.start.
End(postponing) ==
  LET t == run.task
  IN  /\ run' = Idle
      /\ IF postponing
         THEN /\ postponed' = [postponed EXCEPT ![t] = TRUE]
              /\ TaskAdd(<<t>>)
              /\ UNCHANGED <<doneThis, doneNext, awaiting>>
         ELSE /\ awaiting' = [awaiting EXCEPT ![t[1]] =
                                IF t \in doneThis THEN @ \ {t[2]} ELSE @]
              /\ doneThis' = (doneThis \ {t}) \cup (doneNext \cap {t})
              /\ doneNext' = doneNext \ {t}
              /\ UNCHANGED <<task_queue, task_ready, postponed>>
      /\ UNCHANGED <<stale, owner, hurried, changes>>

\* irdbd has answered; UpdateChildren goes on to the first item at once.
Queried ==
  /\ run.at = "query"
  /\ \/ /\ TaskClass = "UpdateChildren"
        /\ \E ok \in BOOLEAN : Handle(ok)
     \/ /\ TaskClass = "UpdateROAs"
        /\ run' = [run EXCEPT !.at = "check"]
        /\ UNCHANGED <<taskVars, stale, owner, awaiting, historyVars>>
     \/ /\ TaskClass = "Other"
        /\ End(FALSE)
        /\ UNCHANGED owed

\* irdbd cannot be asked: the run is over, whatever the class.
QueryFails ==
  /\ run.at = "query"
  /\ owed' = [owed EXCEPT ![run.task[1]] = {item \in @ : item[1] # TaskClass}]
  /\ End(FALSE)

\* overdue() answers; without it the walk goes on, to publication at its end.
Check ==
  /\ run.at = "check"
  /\ \/ /\ Overdue
        /\ run' = [run EXCEPT !.at = "publish", !.postponing = TRUE]
        /\ UNCHANGED <<taskVars, stale, owner, awaiting, historyVars>>
     \/ /\ ~Overdue /\ run.pos = Items
        /\ run' = [run EXCEPT !.at = "publish"]
        /\ UNCHANGED <<taskVars, stale, owner, awaiting, historyVars>>
     \/ /\ ~Overdue /\ run.pos < Items
        /\ \E ok \in BOOLEAN : Handle(ok)

Published ==
  /\ run.at = "publish"
  /\ End(run.postponing)
  /\ UNCHANGED owed

\* UpdateChildren goes on to PostponeTask; from UpdateROAs the exception gets
\* to AbstractTask.start, and the ROAs that were left are forgotten.
PublishFails ==
  /\ run.at = "publish"
  /\ IF TaskClass = "UpdateROAs"
     THEN /\ End(FALSE)
          /\ owed' = [owed EXCEPT ![run.task[1]] = {item \in @ : item[1] # TaskClass}]
     ELSE /\ End(run.postponing)
          /\ UNCHANGED owed

TaskLoop == Start \/ Queried \/ QueryFails \/ Check \/ Published \/ PublishFails

Next ==
  \/ \E i \in Instance : CronRun(i) \/ RunNow(i) \/ Forget(i)
  \/ \E item \in Item : Change(item)
  \/ Late
  \/ TaskLoop

Spec == Init /\ [][Next]_vars

\* The I/O loop resumes what is ready; HTTP requests end, if only by their timeout.
LiveSpec == Spec /\ WF_vars(TaskLoop)

-----------------------------------------------------------------------------
(* Properties.                                                             *)

RunType == [task : Task \cup {Nobody}, at : {"idle", "query", "check", "publish"},
            pos : 0..Items, late : BOOLEAN, progress : BOOLEAN, postponing : BOOLEAN,
            missed : SUBSET Item]

\* Type correctness.
TypeOK ==
  /\ task_queue \in Seq(Task) /\ task_ready \subseteq Task
  /\ postponed \in [Task -> BOOLEAN]
  /\ doneThis \subseteq Task /\ doneNext \subseteq Task
  /\ run \in RunType /\ stale \subseteq Item
  /\ owner \in [Instance -> {"free", "cron", "run_now"}]
  /\ awaiting \in [Instance -> SUBSET Class]
  /\ owed \in [Instance -> SUBSET Item]
  /\ hurried \in BOOLEAN /\ changes \in 0..MaxChanges

\* When run_now hears that a task is done, that very task has attended to everything
\* that called for work when run_now was asked for, with an answer from irdbd that
\* is no older, however often it was postponed on the way. (An item may have
\* failed, and so may a whole run: no irdbd, or no pubd in the case of UpdateROAs.)
RunNowMeansDone ==
  TypeOK /\ \A i \in Instance : \A item \in owed[i] : item[1] \in awaiting[i]

\* What makes RunNowMeansDone and GivesWay inductive.  A task is in the queue at
\* most once, and task_ready says which tasks are.
QueueInv ==
  /\ task_ready = ToSet(task_queue)
  /\ \A j, k \in DOMAIN task_queue : task_queue[j] = task_queue[k] => j = k

\* A task that is queued or running belongs to a Tenant object in use, and the
\* one that is running is not queued as well.
TasksInv ==
  /\ \A t \in task_ready : owner[t[1]] # "free"
  /\ run # Idle => /\ run.task \in Task \ task_ready
                   /\ owner[run.task[1]] # "free"

\* The walk has attended to every item up to where it is, gets to publication
\* only at its end or to give way, and still has somebody to give way to.
WalkInv ==
  /\ run = Idle <=> run.at = "idle"
  /\ run.at = "query" => run.pos = 0
  /\ run # Idle =>
       \A item \in owed[run.task[1]] : item[1] = TaskClass => item[2] > run.pos
  /\ run.at = "publish" /\ ~run.postponing => run.pos = Items
  /\ run.postponing => run.at = "publish" /\ \E t \in task_ready : ~postponed[t]

\* The inductive invariant from which the properties are proved.
SchedInv == RunNowMeansDone /\ QueueInv /\ TasksInv /\ WalkInv

\* A task is put off only in favour of one that has not yet had its turn: two
\* long tasks do not put each other off.
GivesWay ==
  [][\A t \in Task : ~postponed[t] /\ postponed'[t]
        => \E u \in task_ready' : ~postponed'[u]]_vars

\* run_now is answered, whatever cron adds to the queue and however often tasks
\* are postponed, unless a slice is used up by the question to irdbd: then the
\* task comes back to the same point each time.
RunNowAnswered ==
  \A i \in Instance : awaiting[i] # {} ~> (awaiting[i] = {} \/ hurried)
=============================================================================
