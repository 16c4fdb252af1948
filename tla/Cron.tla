-------------------------------- MODULE Cron --------------------------------
(***************************************************************************)
(* The cron scheduler: cron/scheduler.rs, the worker that runs what is due *)
(* (cron/worker.rs), the rows of the store they share with the users who   *)
(* create, pause, resume and delete jobs, and restarts of the daemon.      *)
(*                                                                         *)
(* One loop keeps a queue by due time and a cache of jobs, both rebuilt    *)
(* from the store on reload.  Each run is a task of its own that hands its *)
(* job back to the scheduler when it is over.  A lock held over an await,  *)
(* or the store, separates steps; what a job does, its schedule's syntax   *)
(* and its name are left out.  Manual triggers bypass all of this.         *)
(***************************************************************************)
EXTENDS Integers, Sequences, FiniteSets, Functions

CONSTANTS
  Job,
  Slot,        \* bound: runs (with their winding up) there are at one time
  Loop,        \* the scheduler's loop, as a process
  None,
  Every,       \* [Job -> Nat \ {0}]: its schedule, a run every so often
  Limit,       \* [Job -> Nat]: max_runs, 0 for none
  Expiry,      \* [Job -> Nat]: expires_at, 0 for never
  Capacity,    \* of the channel to the worker
  RetryDelay,  \* until a job that could not be handed over is due again
  MaxTime,     \* bounds: ticks of the clock,
  MaxEdits,    \* edits by users,
  MaxTroubles  \* restarts and failing calls to the store, together

ASSUME CronAssumption ==
  /\ Loop \notin Slot
  /\ None \notin Job \cup Nat
  /\ Every \in [Job -> Nat \ {0}]
  /\ Limit \in [Job -> Nat]
  /\ Expiry \in [Job -> Nat]
  /\ Capacity \in Nat \ {0}
  /\ RetryDelay \in Nat \ {0}

VARIABLES
  clock,     \* Utc::now()
  status,    \* [Job -> ...]: of its row; "absent" and "deleted" have none
  nextRun,   \* [Job -> Nat]: next_run_at of its row
  runs,      \* [Job -> Nat]: run_count of its row
  queue,     \* set of <<time, job>>
  cache,     \* [Job -> Nat \cup {None}]: run_count of the cached job
  running,   \* jobs marked as being run
  reload,    \* the watch channel has changed since the loop last looked
  wake,      \* permit of queue_wake
  chan,      \* task channel to the worker
  open,      \* the worker takes from it
  cancelled, \* the intake token
  at, on,    \* [Slot \cup {Loop} -> ...]: where each is, with which job
  snap,      \* [Job -> ...]: what list_active has returned to the loop
  now,       \* the loop's local time
  alarm,     \* when its sleep ends, None if it does not sleep
  due,       \* [Job -> Nat \cup {None}]: due_jobs, copies from the cache
  stale,     \* entries to be dropped
  copy,      \* [Slot -> Nat]: run_count of the row job_finished has read
  next,      \* [Slot -> Nat]: its time, then the next one it has computed
  owed,      \* a user's edit is in the store, its reload not yet called
  astray,    \* history: jobs that a race or a fault may have left wrong in
             \* the scheduler's memory since it was last rebuilt
  outrun,    \* history: jobs cached with a run_count the store had passed, or
             \* collected before an earlier run of theirs was wound up
  edits, restarts, faults

rows == <<status, nextRun, runs>>
memory == <<queue, cache, running>>
signals == <<reload, wake>>
worker == <<chan, open, cancelled>>
locals == <<snap, now, alarm, due, stale>>
taskLocals == <<copy, next>>
history == <<astray, outrun>>
bounds == <<edits, restarts, faults>>
vars == <<clock, rows, memory, signals, worker, at, on, locals, taskLocals,
          owed, history, bounds>>

Process == Slot \cup {Loop}
HasRow(j) == status[j] \in {"active", "paused", "completed"}

LoopPlaces == {"load", "merge", "look", "wait", "drop", "each", "unqueue",
               "send", "retry", "completing", "marking", "forgetting", "gone"}
TaskPlaces == {"idle", "running", "release", "unqueue", "read", "persist",
               "requeue", "completing", "marking", "forgetting"}

\* CronSchedule::next_after is later than the time it is given.
NextAfter(j, t) == ((t \div Every[j]) + 1) * Every[j]

\* MUTANT of Spent: one run too many.
SpentLate(j, t, count) ==
  \/ Expiry[j] > 0 /\ t >= Expiry[j]
  \/ Limit[j] > 0 /\ count > Limit[j]

\* The job has expired or has had its runs.
Spent(j, t, count) ==
  \/ Expiry[j] > 0 /\ t >= Expiry[j]
  \/ Limit[j] > 0 /\ count >= Limit[j]

Queued(j) == \E e \in queue : e[2] = j
Without(j) == {e \in queue : e[2] # j}

\* MUTANT of WakeUp: notify_one is forgotten.
WakeNot == UNCHANGED wake

WakeUp == wake' = TRUE

Go(p, place) == at' = [at EXCEPT ![p] = place]
Leave(p, place, j) == Go(p, place) /\ on' = [on EXCEPT ![p] = j]

\* A call to the store fails.
Fault ==
  /\ faults + restarts < MaxTroubles
  /\ faults' = faults + 1
NoFault == UNCHANGED faults

Nothing == [j \in Job |-> None]
Starting == [p \in Process |-> IF p = Loop THEN "load" ELSE "idle"]
Free == [p \in Process |-> None]
Zero == [p \in Slot |-> 0]

Init ==
  /\ clock = 0
  /\ status = [j \in Job |-> "absent"]
  /\ nextRun = [j \in Job |-> 0]
  /\ runs = [j \in Job |-> 0]
  /\ queue = {}
  /\ cache = Nothing
  /\ running = {}
  /\ reload = FALSE
  /\ wake = FALSE
  /\ chan = <<>>
  /\ open = TRUE
  /\ cancelled = FALSE
  /\ at = Starting
  /\ on = Free
  /\ snap = Nothing
  /\ now = 0
  /\ alarm = None
  /\ due = Nothing
  /\ stale = {}
  /\ copy = Zero
  /\ next = Zero
  /\ owed = FALSE
  /\ astray = {}
  /\ outrun = {}
  /\ edits = 0
  /\ restarts = 0
  /\ faults = 0

-----------------------------------------------------------------------------
(***************************************************************************)
(* The loop: load_jobs.                                                    *)
(***************************************************************************)

\* list_active, and then the time.
Load ==
  /\ at[Loop] = "load"
  /\ snap' = [j \in Job |-> IF status[j] = "active"
                            THEN [next |-> nextRun[j], runs |-> runs[j]] ELSE None]
  /\ now' = clock
  /\ Go(Loop, "merge")
  /\ UNCHANGED <<clock, rows, memory, signals, worker, on, alarm, due, stale,
                 taskLocals, owed, history, bounds>>

LoadFails ==
  /\ at[Loop] = "load"
  /\ Fault
  /\ astray' = Job
  /\ Go(Loop, "look")
  /\ UNCHANGED <<clock, rows, memory, signals, worker, on, locals, taskLocals,
                 owed, outrun, edits, restarts>>

\* compute_next_run: a time that is past is computed anew, and stored.
NextOf(j) == IF snap[j].next > now THEN snap[j].next ELSE NextAfter(j, now)
Missed(j) == snap[j] # None /\ HasRow(j) /\ snap[j].next <= now

\* Both locks are held from the clearing to the end.
Merge ==
  /\ at[Loop] = "merge"
  /\ LET found == {j \in Job : snap[j] # None}
     IN  /\ queue' = {<<NextOf(j), j>> : j \in found}
         /\ cache' = [j \in Job |-> IF j \in found THEN snap[j].runs ELSE None]
         /\ \/ /\ NoFault
               /\ nextRun' = [j \in Job |-> IF Missed(j) THEN NextOf(j) ELSE nextRun[j]]
            \/ /\ Fault
               /\ UNCHANGED nextRun
         /\ astray' = {j \in Job : (j \in found) # (status[j] = "active")}
         /\ outrun' = outrun \cup {j \in found : snap[j].runs # runs[j]}
  /\ snap' = [j \in Job |-> None]
  /\ now' = 0
  /\ Go(Loop, "look")
  /\ UNCHANGED <<clock, status, runs, running, signals, worker, on, alarm, due,
                 stale, taskLocals, owed, edits, restarts>>

-----------------------------------------------------------------------------
(***************************************************************************)
(* The loop: its select.                                                   *)
(***************************************************************************)

\* How long to sleep: until the first entry, or (an empty queue) not at all.
Times == {e[1] : e \in queue}
Look ==
  /\ at[Loop] = "look"
  /\ alarm' = IF queue = {} THEN None
              ELSE CHOOSE t \in Times : \A u \in Times : t <= u
  /\ Go(Loop, "wait")
  /\ UNCHANGED <<clock, rows, memory, signals, worker, on, snap, now, due, stale,
                 taskLocals, owed, history, bounds>>

\* The token goes first.  A sleep may end a little late (its timer counts
\* milliseconds), so that a reload or a wake-up can overtake it.
LoopExit ==
  /\ at[Loop] = "wait"
  /\ cancelled
  /\ Go(Loop, "gone")
  /\ UNCHANGED <<clock, rows, memory, signals, worker, on, locals, taskLocals,
                 owed, history, bounds>>

Reload ==
  /\ at[Loop] = "wait"
  /\ ~cancelled
  /\ reload
  /\ reload' = FALSE
  /\ alarm' = None
  /\ Go(Loop, "load")
  /\ UNCHANGED <<clock, rows, memory, wake, worker, on, snap, now, due, stale,
                 taskLocals, owed, history, bounds>>

Wake ==
  /\ at[Loop] = "wait"
  /\ ~cancelled
  /\ ~reload
  /\ wake
  /\ wake' = FALSE
  /\ alarm' = None
  /\ Go(Loop, "look")
  /\ UNCHANGED <<clock, rows, memory, reload, worker, on, snap, now, due, stale,
                 taskLocals, owed, history, bounds>>

-----------------------------------------------------------------------------
(***************************************************************************)
(* The loop: fire_due_jobs.                                                *)
(***************************************************************************)
IsDue(j) == \E e \in queue : e[2] = j /\ e[1] <= clock

\* Under three read locks: what is due, less what is being run.
Collect ==
  /\ at[Loop] = "wait"
  /\ ~cancelled
  /\ alarm # None
  /\ alarm <= clock
  /\ now' = clock
  /\ stale' = {e \in queue : e[1] <= clock /\ e[2] \in running}
  /\ due' = [j \in Job |-> IF IsDue(j) /\ j \notin running THEN cache[j] ELSE None]
  /\ outrun' = outrun \cup {j \in Job : due'[j] # None /\ \E p \in Slot : on[p] = j}
  /\ alarm' = None
  /\ Go(Loop, "drop")
  /\ UNCHANGED <<clock, rows, memory, signals, worker, on, snap, taskLocals, owed,
                 astray, bounds>>

\* The entries of jobs that are being run go, each at its own time only.
\* ToReturn: there is a run whose job_finished will queue the job again.
ToReturn(j) ==
  \/ \E i \in DOMAIN chan : chan[i] = j
  \/ \E p \in Slot :
       on[p] = j /\ at[p] \notin {"completing", "marking", "forgetting"}

\* MUTANT of Fresh: every entry of the job goes.
FreshJobs == {e \in queue : \A d \in stale : d[2] # e[2]}

Fresh == queue \ stale

Drop ==
  /\ at[Loop] = "drop"
  /\ queue' = Fresh
  /\ stale' = {}
  /\ astray' = astray \cup {e[2] : e \in {d \in queue \cap stale : ~ToReturn(d[2])}}
  /\ Go(Loop, "each")
  /\ UNCHANGED <<clock, rows, cache, running, signals, worker, on, snap, now,
                 alarm, due, taskLocals, owed, outrun, bounds>>

\* MUTANT of Mark: the mark is forgotten.
MarkNot(j) == UNCHANGED running

Mark(j) == running' = running \cup {j}

\* The next due job: done with, or marked as running.
Take(j) ==
  /\ at[Loop] = "each"
  /\ due[j] # None
  /\ due' = [due EXCEPT ![j] = None]
  /\ IF Spent(j, now, due[j])
     THEN Leave(Loop, "completing", j) /\ UNCHANGED running
     ELSE IF j \in running
     THEN UNCHANGED <<at, on, running>>
     ELSE Mark(j) /\ Leave(Loop, "unqueue", j)
  /\ UNCHANGED <<clock, rows, queue, cache, signals, worker, snap, now, alarm,
                 stale, taskLocals, owed, history, bounds>>

FireEnds ==
  /\ at[Loop] = "each"
  /\ \A j \in Job : due[j] = None
  /\ now' = 0
  /\ Go(Loop, "look")
  /\ UNCHANGED <<clock, rows, memory, signals, worker, on, snap, alarm, due, stale,
                 taskLocals, owed, history, bounds>>

FireUnqueue ==
  /\ at[Loop] = "unqueue"
  /\ queue' = Without(on[Loop])
  /\ Go(Loop, "send")
  /\ UNCHANGED <<clock, rows, cache, running, signals, worker, on, locals,
                 taskLocals, owed, history, bounds>>

Send ==
  /\ at[Loop] = "send"
  /\ open
  /\ Len(chan) < Capacity
  /\ chan' = Append(chan, on[Loop])
  /\ Leave(Loop, "each", None)
  /\ UNCHANGED <<clock, rows, memory, signals, open, cancelled, locals, taskLocals,
                 owed, history, bounds>>

\* The worker is gone: the mark is lifted, and ...
SendFails ==
  /\ at[Loop] = "send"
  /\ ~open
  /\ running' = running \ {on[Loop]}
  /\ Go(Loop, "retry")
  /\ UNCHANGED <<clock, rows, queue, cache, signals, worker, on, locals, taskLocals,
                 owed, history, bounds>>

\* ... the job is queued again for later.
Retry ==
  /\ at[Loop] = "retry"
  /\ queue' = queue \cup {<<clock + RetryDelay, on[Loop]>>}
  /\ Leave(Loop, "each", None)
  /\ UNCHANGED <<clock, rows, cache, running, signals, worker, locals, taskLocals,
                 owed, history, bounds>>

-----------------------------------------------------------------------------
(***************************************************************************)
(* complete_job, by the loop or by the task of a run.                      *)
(***************************************************************************)
CompleteUnqueue(p) ==
  /\ at[p] = "completing"
  /\ queue' = Without(on[p])
  /\ Go(p, "marking")
  /\ UNCHANGED <<clock, rows, cache, running, signals, worker, on, locals,
                 taskLocals, owed, history, bounds>>

CompleteMark(p) ==
  /\ at[p] = "marking"
  /\ \/ /\ NoFault
        /\ status' = [status EXCEPT ![on[p]] = IF HasRow(on[p]) THEN "completed" ELSE @]
        /\ UNCHANGED astray
     \/ /\ Fault
        /\ astray' = astray \cup {on[p]}
        /\ UNCHANGED status
  /\ Go(p, "forgetting")
  /\ UNCHANGED <<clock, nextRun, runs, memory, signals, worker, on, locals,
                 taskLocals, owed, outrun, edits, restarts>>

\* Back to the due jobs, or to the end of the task.
Return(p) == IF p = Loop THEN "each" ELSE "idle"

\* A load may have queued the job since.
CompleteForget(p) ==
  /\ at[p] = "forgetting"
  /\ cache' = [cache EXCEPT ![on[p]] = None]
  /\ WakeUp
  /\ astray' = IF Queued(on[p]) THEN astray \cup {on[p]} ELSE astray
  /\ Leave(p, Return(p), None)
  /\ UNCHANGED <<clock, rows, queue, running, reload, worker, locals, taskLocals,
                 owed, outrun, bounds>>

-----------------------------------------------------------------------------
(***************************************************************************)
(* The worker, and the task of a run: finalize and job_finished.           *)
(***************************************************************************)
WorkerExit ==
  /\ cancelled
  /\ open
  /\ open' = FALSE
  /\ chan' = <<>>
  /\ UNCHANGED <<clock, rows, memory, signals, cancelled, at, on, locals,
                 taskLocals, owed, history, bounds>>

Recv ==
  /\ open
  /\ ~cancelled
  /\ chan # <<>>
  /\ \E p \in Slot : at[p] = "idle"
  /\ LET p == CHOOSE p \in Slot : at[p] = "idle"
     IN  Leave(p, "running", Head(chan))
  /\ chan' = Tail(chan)
  /\ UNCHANGED <<clock, rows, memory, signals, open, cancelled, locals, taskLocals,
                 owed, history, bounds>>

\* record_execution counts the run, whether the run went well or not.
Record(j) ==
  \/ /\ NoFault
     /\ runs' = IF HasRow(j) THEN [runs EXCEPT ![j] = @ + 1] ELSE runs
  \/ /\ Fault
     /\ UNCHANGED runs

\* A precheck that fails skips the run: it does not count.
Skipped(p) ==
  /\ at[p] = "running"
  /\ Go(p, "release")
  /\ UNCHANGED <<clock, rows, memory, signals, worker, on, locals, taskLocals,
                 owed, history, bounds>>

Executed(p) ==
  /\ at[p] = "running"
  /\ Record(on[p])
  /\ Go(p, "release")
  /\ UNCHANGED <<clock, status, nextRun, memory, signals, worker, on, locals,
                 taskLocals, owed, history, edits, restarts>>

\* Exit code 42: straight to complete_job, past job_finished.
SelfCompleted(p) ==
  /\ at[p] = "running"
  /\ Record(on[p])
  /\ Go(p, "completing")
  /\ UNCHANGED <<clock, status, nextRun, memory, signals, worker, on, locals,
                 taskLocals, owed, history, edits, restarts>>

Release(p) ==
  /\ at[p] = "release"
  /\ running' = running \ {on[p]}
  /\ Go(p, "unqueue")
  /\ UNCHANGED <<clock, rows, queue, cache, signals, worker, on, locals, taskLocals,
                 owed, history, bounds>>

\* The time is taken before the row is read.
Unqueue(p) ==
  /\ p \in Slot
  /\ at[p] = "unqueue"
  /\ queue' = Without(on[p])
  /\ next' = [next EXCEPT ![p] = clock]
  /\ Go(p, "read")
  /\ UNCHANGED <<clock, rows, cache, running, signals, worker, on, locals, copy,
                 owed, history, bounds>>

\* The row is gone, or is not to be run again ...
ReadInactive(p) ==
  /\ at[p] = "read"
  /\ status[on[p]] # "active"
  /\ next' = [next EXCEPT ![p] = 0]
  /\ Leave(p, "idle", None)
  /\ UNCHANGED <<clock, rows, memory, signals, worker, locals, copy, owed, history,
                 bounds>>

ReadFails(p) ==
  /\ at[p] = "read"
  /\ Fault
  /\ astray' = astray \cup {on[p]}
  /\ next' = [next EXCEPT ![p] = 0]
  /\ Leave(p, "idle", None)
  /\ UNCHANGED <<clock, rows, memory, signals, worker, locals, copy, owed, outrun,
                 edits, restarts>>

\* ... or is spent ...
ReadSpent(p) ==
  /\ at[p] = "read"
  /\ status[on[p]] = "active"
  /\ Spent(on[p], next[p], runs[on[p]])
  /\ next' = [next EXCEPT ![p] = 0]
  /\ Go(p, "completing")
  /\ UNCHANGED <<clock, rows, memory, signals, worker, on, locals, copy, owed,
                 history, bounds>>

\* ... or its next time is computed, ...
ReadActive(p) ==
  /\ at[p] = "read"
  /\ status[on[p]] = "active"
  /\ ~Spent(on[p], next[p], runs[on[p]])
  /\ copy' = [copy EXCEPT ![p] = runs[on[p]]]
  /\ next' = [next EXCEPT ![p] = NextAfter(on[p], @)]
  /\ Go(p, "persist")
  /\ UNCHANGED <<clock, rows, memory, signals, worker, on, locals, owed, history,
                 bounds>>

\* ... stored, and ...
Persist(p) ==
  /\ at[p] = "persist"
  /\ \/ /\ NoFault
        /\ nextRun' = [nextRun EXCEPT ![on[p]] = IF HasRow(on[p]) THEN next[p] ELSE @]
     \/ /\ Fault
        /\ UNCHANGED nextRun
  /\ Go(p, "requeue")
  /\ UNCHANGED <<clock, status, runs, memory, signals, worker, on, locals,
                 taskLocals, owed, history, edits, restarts>>

\* MUTANT of QueueOf: it does not look whether the job is queued.
QueueAlways(j, t) == queue \cup {<<t, j>>}

QueueOf(j, t) == IF Queued(j) THEN queue ELSE queue \cup {<<t, j>>}

\* ... queued, unless a load was faster.  A cached job keeps its run_count.
Requeue(p) ==
  /\ at[p] = "requeue"
  /\ LET j == on[p]
     IN  /\ queue' = QueueOf(j, next[p])
         /\ cache' = IF cache[j] = None THEN [cache EXCEPT ![j] = copy[p]] ELSE cache
         /\ astray' = IF status[j] # "active" THEN astray \cup {j} ELSE astray
         /\ outrun' = IF cache[j] = None /\ copy[p] # runs[j]
                       THEN outrun \cup {j} ELSE outrun
  /\ WakeUp
  /\ copy' = [copy EXCEPT ![p] = 0]
  /\ next' = [next EXCEPT ![p] = 0]
  /\ Leave(p, "idle", None)
  /\ UNCHANGED <<clock, rows, running, reload, worker, locals, owed, bounds>>

-----------------------------------------------------------------------------
(***************************************************************************)
(* The users (clients, chat cards, the cron tool of an agent): the row is  *)
(* written first, then the scheduler is told to reload.                    *)
(***************************************************************************)
Edit ==
  /\ ~owed
  /\ edits < MaxEdits
  /\ edits' = edits + 1
  /\ owed' = TRUE
  /\ UNCHANGED <<clock, runs, memory, signals, worker, at, on, locals, taskLocals,
                 history, restarts, faults>>

Create(j) ==
  /\ status[j] = "absent"
  /\ status' = [status EXCEPT ![j] = "active"]
  /\ nextRun' = [nextRun EXCEPT ![j] = NextAfter(j, clock)]
  /\ Edit

\* Pause, resume (also what is completed), or change something else: with the
\* schedule (its period stays the same here), next_run_at is computed anew.
Update(j, s) ==
  /\ HasRow(j)
  /\ status' = [status EXCEPT ![j] = s]
  /\ \E t \in {nextRun[j], NextAfter(j, clock)} : nextRun' = [nextRun EXCEPT ![j] = t]
  /\ Edit

Delete(j) ==
  /\ HasRow(j)
  /\ status' = [status EXCEPT ![j] = "deleted"]
  /\ UNCHANGED nextRun
  /\ Edit

Notify ==
  /\ owed
  /\ owed' = FALSE
  /\ reload' = TRUE
  /\ UNCHANGED <<clock, rows, memory, wake, worker, at, on, locals, taskLocals,
                 history, bounds>>

-----------------------------------------------------------------------------
(***************************************************************************)
(* Time, shutdown and restart.                                             *)
(***************************************************************************)
Tick ==
  /\ clock < MaxTime
  /\ clock' = clock + 1
  /\ UNCHANGED <<rows, memory, signals, worker, at, on, locals, taskLocals, owed,
                 history, bounds>>

\* The intake gate closes: no new runs.
Shutdown ==
  /\ ~cancelled
  /\ cancelled' = TRUE
  /\ UNCHANGED <<clock, rows, memory, signals, chan, open, at, on, locals,
                 taskLocals, owed, history, bounds>>

\* The process ends, in order or not, and starts again with the store alone.
Restart ==
  /\ faults + restarts < MaxTroubles
  /\ restarts' = restarts + 1
  /\ queue' = {}
  /\ cache' = Nothing
  /\ running' = {}
  /\ reload' = FALSE
  /\ wake' = FALSE
  /\ chan' = <<>>
  /\ open' = TRUE
  /\ cancelled' = FALSE
  /\ at' = Starting
  /\ on' = Free
  /\ snap' = Nothing
  /\ now' = 0
  /\ alarm' = None
  /\ due' = Nothing
  /\ stale' = {}
  /\ copy' = Zero
  /\ next' = Zero
  /\ owed' = FALSE
  /\ astray' = {}
  /\ UNCHANGED <<clock, rows, outrun, edits, faults>>

-----------------------------------------------------------------------------
Complete(p) == CompleteUnqueue(p) \/ CompleteMark(p) \/ CompleteForget(p)

LoopStep ==
  \/ Load
  \/ LoadFails
  \/ Merge
  \/ Look
  \/ LoopExit
  \/ Reload
  \/ Wake
  \/ Collect
  \/ Drop
  \/ \E j \in Job : Take(j)
  \/ FireEnds
  \/ FireUnqueue
  \/ Send
  \/ SendFails
  \/ Retry
  \/ Complete(Loop)

TaskStep(p) ==
  \/ Skipped(p)
  \/ Executed(p)
  \/ SelfCompleted(p)
  \/ Release(p)
  \/ Unqueue(p)
  \/ ReadInactive(p)
  \/ ReadFails(p)
  \/ ReadSpent(p)
  \/ ReadActive(p)
  \/ Persist(p)
  \/ Requeue(p)
  \/ Complete(p)

UserStep ==
  \E j \in Job :
    \/ Create(j)
    \/ \E s \in {"active", "paused", status[j]} : Update(j, s)
    \/ Delete(j)

Next ==
  \/ LoopStep
  \/ Recv
  \/ WorkerExit
  \/ \E p \in Slot : TaskStep(p)
  \/ UserStep
  \/ Notify
  \/ Tick
  \/ Shutdown
  \/ Restart

Spec == Init /\ [][Next]_vars

-----------------------------------------------------------------------------
RowsOK ==
  /\ status \in [Job -> {"absent", "active", "paused", "completed", "deleted"}]
  /\ nextRun \in [Job -> Nat]
  /\ runs \in [Job -> Nat]

MemoryOK ==
  /\ queue \subseteq Nat \X Job
  /\ cache \in [Job -> Nat \cup {None}]
  /\ running \subseteq Job
  /\ astray \subseteq Job
  /\ outrun \subseteq Job

SignalsOK ==
  /\ reload \in BOOLEAN
  /\ wake \in BOOLEAN
  /\ chan \in Seq(Job)
  /\ open \in BOOLEAN
  /\ cancelled \in BOOLEAN
  /\ owed \in BOOLEAN

PlacesOK ==
  /\ at \in [Process -> LoopPlaces \cup TaskPlaces]
  /\ at[Loop] \in LoopPlaces
  /\ \A p \in Slot : at[p] \in TaskPlaces
  /\ on \in [Process -> Job \cup {None}]

LoopOK ==
  /\ snap \in [Job -> [next : Nat, runs : Nat] \cup {None}]
  /\ now \in Nat
  /\ alarm \in Nat \cup {None}
  /\ due \in [Job -> Nat \cup {None}]
  /\ stale \subseteq Nat \X Job

TaskOK ==
  /\ copy \in [Slot -> Nat]
  /\ next \in [Slot -> Nat]

CountersOK == {clock, edits, restarts, faults} \subseteq Nat

TypeOK ==
  RowsOK /\ MemoryOK /\ SignalsOK /\ PlacesOK /\ LoopOK /\ TaskOK /\ CountersOK

Executing(p) == at[p] = "running"

\* A job is never run twice at once, nor handed over while it is being run,
\* whatever loads, edits and late winding up do to the queue: one run at most
\* of each job is in the channel or under way.
OneRunAtATime ==
  /\ \A p, q \in Slot : Executing(p) /\ Executing(q) /\ on[p] = on[q] => p = q
  /\ \A i, k \in DOMAIN chan : chan[i] = chan[k] => i = k
  /\ \A p \in Slot : Executing(p) => on[p] \notin Range(chan)

\* "never queue a job twice": a load and job_finished, or two job_finished of
\* the same job, do not leave two entries.  Only a failed send, during
\* shutdown, does not look before it queues.
QueuedOnce ==
  ~cancelled => \A d, e \in queue : d[2] = e[2] => d = e

\* max_runs holds although the check before a run looks at a cached count
\* that nobody updates.  The exception: jobs cached from a row that the store
\* had moved past, or collected while an earlier run was still being wound up.
WithinLimit ==
  \A j \in Job : Limit[j] = 0 \/ runs[j] <= Limit[j] \/ j \in outrun

\* Nothing is under way that will still change the scheduler's memory.
AtRest ==
  /\ ~cancelled
  /\ ~owed
  /\ ~reload
  /\ at[Loop] \in {"look", "wait"}
  /\ chan = <<>>
  /\ \A p \in Slot : at[p] = "idle"

\* No job is forgotten and none runs on: at rest, the queue and the cache hold
\* exactly the active jobs of the store, in whatever order edits, loads, runs
\* and completions met.  The exceptions: jobs in a race that the code does not
\* exclude, or after a fault of the store, until the next reload.
MemoryMatchesStore ==
  AtRest =>
    \A j \in Job \ astray :
      /\ Queued(j) <=> status[j] = "active"
      /\ Queued(j) => cache[j] # None

\* The loop never sleeps through an entry: whoever queues one that is due
\* before the loop means to look again has made sure that it is woken.
SleepsNoLonger ==
  at[Loop] = "wait" /\ ~reload /\ ~wake =>
    \A e \in queue : alarm # None /\ alarm <= e[1]
=============================================================================
