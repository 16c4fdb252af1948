----------------------------- MODULE CronProofs -----------------------------
(***************************************************************************)
(* Proofs about Cron, for any jobs, schedules, number of runs and bounds.  *)
(***************************************************************************)
EXTENDS Cron, TLAPS, WellFoundedInduction

-----------------------------------------------------------------------------
(***************************************************************************)
(* The inductive invariant.                                                *)
(***************************************************************************)

\* The places between marking a job as running and lifting the mark, the
\* channel apart.
Carries(p) ==
  \/ p = Loop /\ at[p] \in {"unqueue", "send"}
  \/ p \in Slot /\ at[p] \in {"running", "release"}

\* A job that is handed over or run is marked ...
Marked ==
  /\ \A p \in Process : Carries(p) => on[p] \in running
  /\ \A i \in DOMAIN chan : chan[i] \in running

\* ... and by one of its carriers only, so that lifting the mark of one run
\* leaves all others marked.
OneCarrier ==
  /\ \A p, q \in Process : Carries(p) /\ Carries(q) /\ on[p] = on[q] => p = q
  /\ \A i, k \in DOMAIN chan : chan[i] = chan[k] => i = k
  /\ \A p \in Process : Carries(p) => \A i \in DOMAIN chan : chan[i] # on[p]

\* A send fails only when the daemon shuts down.
FailsLate ==
  /\ ~open => cancelled
  /\ at[Loop] = "retry" => cancelled

\* The loop is in the midst of one job.
BusyPlaces == {"unqueue", "send", "retry", "completing", "marking", "forgetting"}

\* Whoever is busy is busy with a job.
Busy ==
  /\ \A p \in Slot : at[p] # "idle" => on[p] \in Job
  /\ at[Loop] \in BusyPlaces => on[Loop] \in Job

Inv ==
  /\ TypeOK
  /\ Busy
  /\ Marked
  /\ OneCarrier
  /\ FailsLate
  /\ QueuedOnce
  /\ SleepsNoLonger

-----------------------------------------------------------------------------
\* A set of naturals has a least element.
LEMMA LeastElement ==
  ASSUME NEW S, S \subseteq Nat, S # {}
  PROVE  \E t \in S : \A u \in S : t <= u
<1> DEFINE Less == {ss \in Nat \X Nat : ss[1] < ss[2]}
<1>1. IsWellFoundedOn(Less, Nat)
  BY NatLessThanWellFounded, Zenon DEF OpToRel
<1>2. PICK t \in S : \A u \in S : <<u, t>> \notin Less
  <2> HIDE DEF Less
  <2> QED
    BY <1>1, WFMin
<1>3. ASSUME NEW u \in S PROVE t <= u
  <2>1. <<u, t>> \notin Less
    BY <1>2
  <2>2. u \in Nat /\ t \in Nat /\ <<u, t>>[1] = u /\ <<u, t>>[2] = t
    OBVIOUS
  <2>3. ~(u < t)
    BY <2>1, <2>2
  <2> QED
    BY <2>2, <2>3
<1> QED
  BY <1>3

\* What NextAfter gives is a time.
LEMMA NextAfterType ==
  ASSUME NEW j \in Job, NEW t \in Nat
  PROVE  NextAfter(j, t) \in Nat
<1>1. Every[j] \in Nat /\ Every[j] > 0
  BY CronAssumption
<1>2. t \div Every[j] \in Nat
  BY <1>1
<1>3. \A a, b \in Nat : (a + 1) * b \in Nat
  OBVIOUS
<1> QED
  BY <1>1, <1>2, <1>3 DEF NextAfter

-----------------------------------------------------------------------------
(***************************************************************************)
(* Types.                                                                  *)
(***************************************************************************)
\* A channel may be empty.
LEMMA EmptySequence == <<>> \in Seq(Job)
  OBVIOUS

\* The initial state satisfies the invariant.
LEMMA InitInv == Init => Inv
<1> SUFFICES ASSUME Init PROVE Inv
  OBVIOUS
<1>1. PlacesOK /\ Busy
  BY CronAssumption DEF Init, PlacesOK, Busy, BusyPlaces, Process, LoopPlaces,
     TaskPlaces,
     Starting, Free
<1>2. RowsOK /\ MemoryOK /\ SignalsOK
  BY CronAssumption, EmptySequence DEF Init, RowsOK, MemoryOK, SignalsOK, Nothing
<1>4. LoopOK /\ TaskOK /\ CountersOK
  BY CronAssumption DEF Init, LoopOK, TaskOK, CountersOK, Nothing, Zero
<1>3. Marked /\ OneCarrier /\ FailsLate /\ QueuedOnce /\ SleepsNoLonger
  BY CronAssumption DEF Init, Marked, OneCarrier, Carries, FailsLate, QueuedOnce,
     SleepsNoLonger, Process, Starting, Free
<1> QED
  BY <1>1, <1>2, <1>3, <1>4 DEF Inv, TypeOK

\* Where everything is after a start.
LEMMA StartTypes ==
  ASSUME at' = [p \in Process |-> IF p = Loop THEN "load" ELSE "idle"],
         on' = [p \in Process |-> None]
  PROVE  PlacesOK' /\ Busy'
<1>1. at'[Loop] = "load" /\ \A p \in Slot : at'[p] = "idle"
  BY CronAssumption DEF Process
<1>2. at' \in [Process -> LoopPlaces \cup TaskPlaces]
  BY DEF LoopPlaces, TaskPlaces
<1>3. on' \in [Process -> Job \cup {None}]
  OBVIOUS
<1> QED
  BY <1>1, <1>2, <1>3 DEF PlacesOK, Busy, BusyPlaces, LoopPlaces, TaskPlaces

\* Going to another place, the job kept or changed.
LEMMA LoopGoes ==
  ASSUME PlacesOK, Busy, NEW x \in LoopPlaces, NEW k \in Job \cup {None},
         Go(Loop, x),
         \/ on' = [on EXCEPT ![Loop] = k] /\ (x \in BusyPlaces => k \in Job)
         \/ UNCHANGED on /\ (x \in BusyPlaces => at[Loop] \in BusyPlaces)
  PROVE  PlacesOK' /\ Busy'
  BY CronAssumption DEF PlacesOK, Busy, Go, Process, LoopPlaces

\* The same of a task.
LEMMA SlotGoes ==
  ASSUME PlacesOK, Busy, NEW p \in Slot, NEW x \in TaskPlaces, NEW k \in Job \cup {None},
         Go(p, x),
         \/ on' = [on EXCEPT ![p] = k] /\ (x # "idle" => k \in Job)
         \/ UNCHANGED on /\ (x # "idle" => at[p] # "idle")
  PROVE  PlacesOK' /\ Busy'
  BY CronAssumption DEF PlacesOK, Busy, Go, Process, TaskPlaces

\* The time that Merge gives a job it has found.
LEMMA NextOfType ==
  ASSUME LoopOK, NEW j \in Job, snap[j] # None
  PROVE  NextOf(j) \in Nat
<1>1. snap[j] \in [next : Nat, runs : Nat] /\ now \in Nat
  BY DEF LoopOK
<1> QED
  BY <1>1, NextAfterType DEF NextOf

\* The steps of complete_job, the loop's or a task's, keep the types.
LEMMA TypeComplete ==
  ASSUME TypeOK, Busy, NEW p \in Process, Complete(p)
  PROVE  TypeOK' /\ Busy'
<1> USE DEF TypeOK, rows, memory, signals, worker, locals, taskLocals, history, bounds,
   Process, Fault, NoFault
<1>1. CASE CompleteUnqueue(p)
  <2>1. MemoryOK'
    BY <1>1 DEF CompleteUnqueue, Without, MemoryOK, PlacesOK, Busy, BusyPlaces
  <2>2. PlacesOK' /\ Busy'
    BY <1>1, LoopGoes, SlotGoes DEF CompleteUnqueue, Without, Go, Leave, BusyPlaces,
       LoopPlaces, TaskPlaces
  <2> QED
    BY <1>1, <2>1, <2>2 DEF CompleteUnqueue, RowsOK, SignalsOK, LoopOK, TaskOK,
       CountersOK, rows, signals, worker, locals, taskLocals, bounds
<1>2. CASE CompleteMark(p)
  <2>1. RowsOK'
    BY <1>2 DEF CompleteMark, HasRow, RowsOK, PlacesOK, Busy, BusyPlaces
  <2>2. MemoryOK'
    BY <1>2 DEF CompleteMark, HasRow, MemoryOK, PlacesOK, Busy, BusyPlaces
  <2>3. PlacesOK' /\ Busy'
    BY <1>2, LoopGoes, SlotGoes DEF CompleteMark, HasRow, Go, Leave, BusyPlaces,
       LoopPlaces, TaskPlaces
  <2>4. CountersOK'
    BY <1>2 DEF CompleteMark, HasRow, CountersOK, PlacesOK, Busy, BusyPlaces
  <2> QED
    BY <1>2, <2>1, <2>2, <2>3, <2>4 DEF CompleteMark, SignalsOK, LoopOK, TaskOK,
       signals, worker, locals, taskLocals
<1>3. CASE CompleteForget(p)
  <2>1. MemoryOK'
    BY <1>3 DEF CompleteForget, WakeUp, Return, MemoryOK, PlacesOK, Busy, BusyPlaces
  <2>2. SignalsOK'
    BY <1>3 DEF CompleteForget, WakeUp, Return, SignalsOK, PlacesOK, Busy, BusyPlaces
  <2>3. PlacesOK' /\ Busy'
    BY <1>3, LoopGoes, SlotGoes DEF CompleteForget, WakeUp, Return, Go, Leave,
       BusyPlaces, LoopPlaces, TaskPlaces
  <2> QED
    BY <1>3, <2>1, <2>2, <2>3 DEF CompleteForget, WakeUp, Return, RowsOK, LoopOK,
       TaskOK, CountersOK, rows, locals, taskLocals, bounds
<1> QED
  BY <1>1, <1>2, <1>3 DEF Complete

\* So do the others of the loop, ...
LEMMA TypeLoop ==
  ASSUME TypeOK, Busy, LoopStep
  PROVE  TypeOK' /\ Busy'
<1> USE DEF TypeOK, rows, memory, signals, worker, locals, taskLocals, history, bounds,
   Process, Fault, NoFault
<1>1. CASE Load
  <2>1. PlacesOK' /\ Busy'
    BY <1>1, LoopGoes DEF Load, Go, Leave, BusyPlaces, LoopPlaces, TaskPlaces
  <2>2. LoopOK'
    BY <1>1 DEF Load, LoopOK, RowsOK, CountersOK
  <2> QED
    BY <1>1, <2>1, <2>2 DEF Load, RowsOK, MemoryOK, SignalsOK, TaskOK, CountersOK,
       rows, memory, history, signals, worker, taskLocals, bounds
<1>2. CASE LoadFails
  <2>1. MemoryOK'
    BY <1>2 DEF LoadFails, MemoryOK
  <2>2. PlacesOK' /\ Busy'
    BY <1>2, LoopGoes DEF LoadFails, Go, Leave, BusyPlaces, LoopPlaces, TaskPlaces
  <2>3. CountersOK'
    BY <1>2 DEF LoadFails, CountersOK
  <2> QED
    BY <1>2, <2>1, <2>2, <2>3 DEF LoadFails, RowsOK, SignalsOK, LoopOK, TaskOK, rows,
       signals, worker, locals, taskLocals
<1>3. CASE Merge
  <2>1. RowsOK'
    BY <1>3, NextOfType DEF Merge, Missed, RowsOK
  <2>2. MemoryOK'
    BY <1>3, NextOfType DEF Merge, Missed, MemoryOK, LoopOK
  <2>3. PlacesOK' /\ Busy'
    BY <1>3, LoopGoes DEF Merge, Missed, NextOf, Go, Leave, BusyPlaces, LoopPlaces,
       TaskPlaces
  <2>4. LoopOK'
    BY <1>3 DEF Merge, Missed, NextOf, LoopOK
  <2>5. CountersOK'
    BY <1>3 DEF Merge, Missed, NextOf, CountersOK
  <2> QED
    BY <1>3, <2>1, <2>2, <2>3, <2>4, <2>5 DEF Merge, SignalsOK, TaskOK, signals,
       worker, taskLocals
<1>4. CASE Look
  <2>1. PlacesOK' /\ Busy'
    BY <1>4, LoopGoes DEF Look, Times, Go, Leave, BusyPlaces, LoopPlaces, TaskPlaces
  <2>2. LoopOK'
    <3>1. queue # {} => alarm' \in Nat
      <4>1. Times \subseteq Nat /\ (queue # {} => Times # {})
        BY DEF MemoryOK, Times
      <4> QED
        BY <1>4, <4>1, LeastElement DEF Look
    <3> QED
      BY <1>4, <3>1 DEF Look, LoopOK
  <2> QED
    BY <1>4, <2>1, <2>2 DEF Look, RowsOK, MemoryOK, SignalsOK, TaskOK, CountersOK,
       rows, memory, history, signals, worker, taskLocals, bounds
<1>5. CASE LoopExit
  <2>1. PlacesOK' /\ Busy'
    BY <1>5, LoopGoes DEF LoopExit, Go, Leave, BusyPlaces, LoopPlaces, TaskPlaces
  <2> QED
    BY <1>5, <2>1 DEF LoopExit, RowsOK, MemoryOK, SignalsOK, LoopOK, TaskOK,
       CountersOK, rows, memory, history, signals, worker, locals, taskLocals, bounds
<1>6. CASE Reload
  <2>1. SignalsOK'
    BY <1>6 DEF Reload, SignalsOK
  <2>2. PlacesOK' /\ Busy'
    BY <1>6, LoopGoes DEF Reload, Go, Leave, BusyPlaces, LoopPlaces, TaskPlaces
  <2>3. LoopOK'
    BY <1>6 DEF Reload, LoopOK
  <2> QED
    BY <1>6, <2>1, <2>2, <2>3 DEF Reload, RowsOK, MemoryOK, TaskOK, CountersOK, rows,
       memory, history, taskLocals, bounds
<1>7. CASE Wake
  <2>1. SignalsOK'
    BY <1>7 DEF Wake, SignalsOK
  <2>2. PlacesOK' /\ Busy'
    BY <1>7, LoopGoes DEF Wake, Go, Leave, BusyPlaces, LoopPlaces, TaskPlaces
  <2>3. LoopOK'
    BY <1>7 DEF Wake, LoopOK
  <2> QED
    BY <1>7, <2>1, <2>2, <2>3 DEF Wake, RowsOK, MemoryOK, TaskOK, CountersOK, rows,
       memory, history, taskLocals, bounds
<1>8. CASE Collect
  <2>1. MemoryOK'
    BY <1>8 DEF Collect, IsDue, MemoryOK
  <2>2. PlacesOK' /\ Busy'
    BY <1>8, LoopGoes DEF Collect, IsDue, Go, Leave, BusyPlaces, LoopPlaces, TaskPlaces
  <2>3. LoopOK'
    BY <1>8 DEF Collect, IsDue, LoopOK, MemoryOK, CountersOK
  <2> QED
    BY <1>8, <2>1, <2>2, <2>3 DEF Collect, RowsOK, SignalsOK, TaskOK, CountersOK, rows,
       signals, worker, taskLocals, bounds
<1>9. CASE Drop
  <2>1. MemoryOK'
    BY <1>9 DEF Drop, Fresh, MemoryOK
  <2>2. PlacesOK' /\ Busy'
    BY <1>9, LoopGoes DEF Drop, Fresh, Go, Leave, BusyPlaces, LoopPlaces, TaskPlaces
  <2>3. LoopOK'
    BY <1>9 DEF Drop, Fresh, LoopOK
  <2> QED
    BY <1>9, <2>1, <2>2, <2>3 DEF Drop, RowsOK, SignalsOK, TaskOK, CountersOK, rows,
       signals, worker, taskLocals, bounds
<1>10. ASSUME NEW j \in Job, Take(j) PROVE TypeOK' /\ Busy'
  <2>1. MemoryOK'
    BY <1>10 DEF Take, Mark, MemoryOK, LoopOK
  <2>2. PlacesOK' /\ Busy'
    <3>1. CASE Leave(Loop, "completing", j) \/ Leave(Loop, "unqueue", j)
      BY <3>1, LoopGoes DEF Leave, BusyPlaces, LoopPlaces
    <3>2. CASE UNCHANGED <<at, on>>
      BY <3>2 DEF PlacesOK, Busy
    <3> QED
      BY <1>10, <3>1, <3>2 DEF Take
  <2>3. LoopOK'
    BY <1>10 DEF Take, Mark, LoopOK
  <2> QED
    BY <1>10, <2>1, <2>2, <2>3 DEF Take, RowsOK, SignalsOK, TaskOK, CountersOK, rows,
       signals, worker, taskLocals, bounds
<1>11. CASE FireEnds
  <2>1. PlacesOK' /\ Busy'
    BY <1>11, LoopGoes DEF FireEnds, Go, Leave, BusyPlaces, LoopPlaces, TaskPlaces
  <2>2. LoopOK'
    BY <1>11 DEF FireEnds, LoopOK
  <2> QED
    BY <1>11, <2>1, <2>2 DEF FireEnds, RowsOK, MemoryOK, SignalsOK, TaskOK, CountersOK,
       rows, memory, history, signals, worker, taskLocals, bounds
<1>12. CASE FireUnqueue
  <2>1. MemoryOK'
    BY <1>12 DEF FireUnqueue, Without, MemoryOK, PlacesOK, Busy, BusyPlaces
  <2>2. PlacesOK' /\ Busy'
    BY <1>12, LoopGoes DEF FireUnqueue, Without, Go, Leave, BusyPlaces, LoopPlaces,
       TaskPlaces
  <2> QED
    BY <1>12, <2>1, <2>2 DEF FireUnqueue, RowsOK, SignalsOK, LoopOK, TaskOK,
       CountersOK, rows, signals, worker, locals, taskLocals, bounds
<1>13. CASE Send
  <2>1. SignalsOK'
    BY <1>13 DEF Send, SignalsOK, PlacesOK, Busy, BusyPlaces
  <2>2. PlacesOK' /\ Busy'
    BY <1>13, LoopGoes DEF Send, Go, Leave, BusyPlaces, LoopPlaces, TaskPlaces
  <2> QED
    BY <1>13, <2>1, <2>2 DEF Send, RowsOK, MemoryOK, LoopOK, TaskOK, CountersOK, rows,
       memory, history, locals, taskLocals, bounds
<1>14. CASE SendFails
  <2>1. MemoryOK'
    BY <1>14 DEF SendFails, MemoryOK, PlacesOK, Busy, BusyPlaces
  <2>2. PlacesOK' /\ Busy'
    BY <1>14, LoopGoes DEF SendFails, Go, Leave, BusyPlaces, LoopPlaces, TaskPlaces
  <2> QED
    BY <1>14, <2>1, <2>2 DEF SendFails, RowsOK, SignalsOK, LoopOK, TaskOK, CountersOK,
       rows, signals, worker, locals, taskLocals, bounds
<1>15. CASE Retry
  <2>1. MemoryOK'
    BY <1>15, CronAssumption DEF Retry, MemoryOK, CountersOK, PlacesOK, Busy, BusyPlaces
  <2>2. PlacesOK' /\ Busy'
    BY <1>15, LoopGoes DEF Retry, Go, Leave, BusyPlaces, LoopPlaces, TaskPlaces
  <2> QED
    BY <1>15, <2>1, <2>2 DEF Retry, RowsOK, SignalsOK, LoopOK, TaskOK, CountersOK,
       rows, signals, worker, locals, taskLocals, bounds
<1> QED
  BY <1>1, <1>2, <1>3, <1>4, <1>5, <1>6, <1>7, <1>8, <1>9, <1>10, <1>11, <1>12, <1>13,
     <1>14, <1>15, TypeComplete DEF LoopStep

\* ... those of the task of a run, ...
LEMMA TypeTask ==
  ASSUME TypeOK, Busy, NEW p \in Slot, TaskStep(p)
  PROVE  TypeOK' /\ Busy'
<1> USE DEF TypeOK, rows, memory, signals, worker, locals, taskLocals, history, bounds,
   Process, Fault, NoFault
<1>1. CASE Skipped(p)
  <2>1. PlacesOK' /\ Busy'
    BY <1>1, SlotGoes DEF Skipped, Go, Leave, BusyPlaces, LoopPlaces, TaskPlaces
  <2> QED
    BY <1>1, <2>1 DEF Skipped, RowsOK, MemoryOK, SignalsOK, LoopOK, TaskOK, CountersOK,
       rows, memory, history, signals, worker, locals, taskLocals, bounds
<1>2. CASE Executed(p)
  <2>1. RowsOK'
    BY <1>2 DEF Executed, Record, HasRow, RowsOK, PlacesOK, Busy, BusyPlaces
  <2>2. PlacesOK' /\ Busy'
    BY <1>2, SlotGoes DEF Executed, Record, HasRow, Go, Leave, BusyPlaces, LoopPlaces,
       TaskPlaces
  <2>3. CountersOK'
    BY <1>2 DEF Executed, Record, HasRow, CountersOK, PlacesOK, Busy, BusyPlaces
  <2> QED
    BY <1>2, <2>1, <2>2, <2>3 DEF Executed, MemoryOK, SignalsOK, LoopOK, TaskOK,
       memory, history, signals, worker, locals, taskLocals
<1>3. CASE SelfCompleted(p)
  <2>1. RowsOK'
    BY <1>3 DEF SelfCompleted, Record, HasRow, RowsOK, PlacesOK, Busy, BusyPlaces
  <2>2. PlacesOK' /\ Busy'
    BY <1>3, SlotGoes DEF SelfCompleted, Record, HasRow, Go, Leave, BusyPlaces,
       LoopPlaces, TaskPlaces
  <2>3. CountersOK'
    BY <1>3 DEF SelfCompleted, Record, HasRow, CountersOK, PlacesOK, Busy, BusyPlaces
  <2> QED
    BY <1>3, <2>1, <2>2, <2>3 DEF SelfCompleted, MemoryOK, SignalsOK, LoopOK, TaskOK,
       memory, history, signals, worker, locals, taskLocals
<1>4. CASE Release(p)
  <2>1. MemoryOK'
    BY <1>4 DEF Release, MemoryOK, PlacesOK, Busy, BusyPlaces
  <2>2. PlacesOK' /\ Busy'
    BY <1>4, SlotGoes DEF Release, Go, Leave, BusyPlaces, LoopPlaces, TaskPlaces
  <2> QED
    BY <1>4, <2>1, <2>2 DEF Release, RowsOK, SignalsOK, LoopOK, TaskOK, CountersOK,
       rows, signals, worker, locals, taskLocals, bounds
<1>5. CASE Unqueue(p)
  <2>1. MemoryOK'
    BY <1>5 DEF Unqueue, Without, MemoryOK, PlacesOK, Busy, BusyPlaces
  <2>2. PlacesOK' /\ Busy'
    BY <1>5, SlotGoes DEF Unqueue, Without, Go, Leave, BusyPlaces, LoopPlaces,
       TaskPlaces
  <2>3. TaskOK'
    BY <1>5 DEF Unqueue, Without, TaskOK, CountersOK, PlacesOK, Busy, BusyPlaces
  <2> QED
    BY <1>5, <2>1, <2>2, <2>3 DEF Unqueue, RowsOK, SignalsOK, LoopOK, CountersOK, rows,
       signals, worker, locals, bounds
<1>6. CASE ReadInactive(p)
  <2>1. PlacesOK' /\ Busy'
    BY <1>6, SlotGoes DEF ReadInactive, Go, Leave, BusyPlaces, LoopPlaces, TaskPlaces
  <2>2. TaskOK'
    BY <1>6 DEF ReadInactive, TaskOK
  <2> QED
    BY <1>6, <2>1, <2>2 DEF ReadInactive, RowsOK, MemoryOK, SignalsOK, LoopOK,
       CountersOK, rows, memory, history, signals, worker, locals, bounds
<1>7. CASE ReadFails(p)
  <2>1. MemoryOK'
    BY <1>7 DEF ReadFails, MemoryOK, PlacesOK, Busy, BusyPlaces
  <2>2. PlacesOK' /\ Busy'
    BY <1>7, SlotGoes DEF ReadFails, Go, Leave, BusyPlaces, LoopPlaces, TaskPlaces
  <2>3. TaskOK'
    BY <1>7 DEF ReadFails, TaskOK, PlacesOK, Busy, BusyPlaces
  <2>4. CountersOK'
    BY <1>7 DEF ReadFails, CountersOK, PlacesOK, Busy, BusyPlaces
  <2> QED
    BY <1>7, <2>1, <2>2, <2>3, <2>4 DEF ReadFails, RowsOK, SignalsOK, LoopOK, rows,
       signals, worker, locals
<1>8. CASE ReadSpent(p)
  <2>1. PlacesOK' /\ Busy'
    BY <1>8, SlotGoes DEF ReadSpent, Go, Leave, BusyPlaces, LoopPlaces, TaskPlaces
  <2>2. TaskOK'
    BY <1>8 DEF ReadSpent, TaskOK, PlacesOK, Busy, BusyPlaces
  <2> QED
    BY <1>8, <2>1, <2>2 DEF ReadSpent, RowsOK, MemoryOK, SignalsOK, LoopOK, CountersOK,
       rows, memory, history, signals, worker, locals, bounds
<1>9. CASE ReadActive(p)
  <2>1. PlacesOK' /\ Busy'
    BY <1>9, SlotGoes DEF ReadActive, Go, Leave, BusyPlaces, LoopPlaces, TaskPlaces
  <2>2. TaskOK'
    BY <1>9, NextAfterType DEF ReadActive, TaskOK, RowsOK, PlacesOK, Busy, BusyPlaces
  <2> QED
    BY <1>9, <2>1, <2>2 DEF ReadActive, RowsOK, MemoryOK, SignalsOK, LoopOK,
       CountersOK, rows, memory, history, signals, worker, locals, bounds
<1>10. CASE Persist(p)
  <2>1. RowsOK'
    BY <1>10 DEF Persist, HasRow, RowsOK, TaskOK, PlacesOK, Busy, BusyPlaces
  <2>2. PlacesOK' /\ Busy'
    BY <1>10, SlotGoes DEF Persist, HasRow, Go, Leave, BusyPlaces, LoopPlaces,
       TaskPlaces
  <2>3. CountersOK'
    BY <1>10 DEF Persist, HasRow, CountersOK, PlacesOK, Busy, BusyPlaces
  <2> QED
    BY <1>10, <2>1, <2>2, <2>3 DEF Persist, MemoryOK, SignalsOK, LoopOK, TaskOK,
       memory, history, signals, worker, locals, taskLocals
<1>11. CASE Requeue(p)
  <2>1. MemoryOK'
    BY <1>11 DEF Requeue, QueueOf, WakeUp, MemoryOK, TaskOK, PlacesOK, Busy, BusyPlaces
  <2>2. SignalsOK'
    BY <1>11 DEF Requeue, QueueOf, WakeUp, SignalsOK, PlacesOK, Busy, BusyPlaces
  <2>3. PlacesOK' /\ Busy'
    BY <1>11, SlotGoes DEF Requeue, QueueOf, WakeUp, Go, Leave, BusyPlaces, LoopPlaces,
       TaskPlaces
  <2>4. TaskOK'
    BY <1>11 DEF Requeue, QueueOf, WakeUp, TaskOK, PlacesOK, Busy, BusyPlaces
  <2> QED
    BY <1>11, <2>1, <2>2, <2>3, <2>4 DEF Requeue, QueueOf, WakeUp, RowsOK, LoopOK,
       CountersOK, rows, locals, bounds
<1> QED
  BY <1>1, <1>2, <1>3, <1>4, <1>5, <1>6, <1>7, <1>8, <1>9, <1>10, <1>11,
     TypeComplete DEF TaskStep

\* ... and all others.
LEMMA TypeOther ==
  ASSUME TypeOK, Busy,
         \/ Recv \/ WorkerExit \/ UserStep \/ Notify \/ Tick \/ Shutdown \/ Restart
         \/ UNCHANGED vars
  PROVE  TypeOK' /\ Busy'
<1> USE DEF TypeOK, rows, memory, signals, worker, locals, taskLocals, history, bounds,
   Process
<1>1. CASE Recv
  <2>1. SignalsOK'
    BY <1>1 DEF Recv, SignalsOK
  <2>2. PlacesOK' /\ Busy'
    <3>1. PICK p \in Slot : Leave(p, "running", Head(chan))
      BY <1>1 DEF Recv
    <3>2. Head(chan) \in Job
      BY <1>1 DEF Recv, SignalsOK
    <3> QED
      BY <3>1, <3>2, SlotGoes DEF Leave, TaskPlaces
  <2> QED
    BY <1>1, <2>1, <2>2 DEF Recv, RowsOK, MemoryOK, LoopOK, TaskOK, CountersOK, rows,
       memory, history, locals, taskLocals, bounds
<1>2. CASE WorkerExit
  <2>1. SignalsOK'
    BY <1>2, EmptySequence DEF WorkerExit, SignalsOK
  <2> QED
    BY <1>2, <2>1 DEF WorkerExit, RowsOK, MemoryOK, PlacesOK, LoopOK, TaskOK,
       CountersOK, Busy, rows, memory, history, locals, taskLocals, bounds
<1>3. ASSUME NEW j \in Job, Create(j) PROVE TypeOK' /\ Busy'
  <2>1. RowsOK'
    BY <1>3, NextAfterType DEF Create, Edit, RowsOK, CountersOK
  <2>2. SignalsOK'
    BY <1>3 DEF Create, Edit, SignalsOK
  <2>3. CountersOK'
    BY <1>3 DEF Create, Edit, CountersOK
  <2> QED
    BY <1>3, <2>1, <2>2, <2>3 DEF Create, Edit, MemoryOK, PlacesOK, LoopOK, TaskOK,
       Busy, memory, history, locals, taskLocals
<1>4. ASSUME NEW j \in Job, NEW s \in {"active", "paused", status[j]}, Update(j, s)
       PROVE TypeOK' /\ Busy'
  <2>1. RowsOK'
    BY <1>4, NextAfterType DEF Update, Edit, RowsOK, CountersOK
  <2>2. SignalsOK'
    BY <1>4 DEF Update, Edit, SignalsOK
  <2>3. CountersOK'
    BY <1>4 DEF Update, Edit, CountersOK
  <2> QED
    BY <1>4, <2>1, <2>2, <2>3 DEF Update, Edit, MemoryOK, PlacesOK, LoopOK, TaskOK,
       Busy, memory, history, locals, taskLocals
<1>5. ASSUME NEW j \in Job, Delete(j) PROVE TypeOK' /\ Busy'
  <2>1. RowsOK'
    BY <1>5 DEF Delete, Edit, RowsOK
  <2>2. SignalsOK'
    BY <1>5 DEF Delete, Edit, SignalsOK
  <2>3. CountersOK'
    BY <1>5 DEF Delete, Edit, CountersOK
  <2> QED
    BY <1>5, <2>1, <2>2, <2>3 DEF Delete, Edit, MemoryOK, PlacesOK, LoopOK, TaskOK,
       Busy, memory, history, locals, taskLocals
<1>6. CASE Notify
  <2>1. SignalsOK'
    BY <1>6 DEF Notify, SignalsOK
  <2> QED
    BY <1>6, <2>1 DEF Notify, RowsOK, MemoryOK, PlacesOK, LoopOK, TaskOK, CountersOK,
       Busy, rows, memory, history, locals, taskLocals, bounds
<1>7. CASE Tick
  <2>1. CountersOK'
    BY <1>7 DEF Tick, CountersOK
  <2> QED
    BY <1>7, <2>1 DEF Tick, RowsOK, MemoryOK, SignalsOK, PlacesOK, LoopOK, TaskOK,
       Busy, rows, memory, history, signals, worker, locals, taskLocals
<1>8. CASE Shutdown
  <2>1. SignalsOK'
    BY <1>8 DEF Shutdown, SignalsOK
  <2> QED
    BY <1>8, <2>1 DEF Shutdown, RowsOK, MemoryOK, PlacesOK, LoopOK, TaskOK, CountersOK,
       Busy, rows, memory, history, locals, taskLocals, bounds
<1>9. CASE Restart
  <2>1. MemoryOK'
    BY <1>9 DEF Restart, Nothing, Zero, MemoryOK
  <2>2. SignalsOK'
    BY <1>9, EmptySequence DEF Restart, Nothing, Zero, SignalsOK
  <2>3. PlacesOK' /\ Busy'
    <3>1. /\ at' = [p \in Process |-> IF p = Loop THEN "load" ELSE "idle"]
          /\ on' = [p \in Process |-> None]
      BY <1>9 DEF Restart, Starting, Free
    <3> QED
      BY <3>1, StartTypes
  <2>4. LoopOK'
    BY <1>9 DEF Restart, Nothing, Zero, LoopOK
  <2>5. TaskOK'
    BY <1>9 DEF Restart, Nothing, Zero, TaskOK
  <2>6. CountersOK'
    BY <1>9 DEF Restart, Nothing, Zero, CountersOK
  <2> QED
    BY <1>9, <2>1, <2>2, <2>3, <2>4, <2>5, <2>6 DEF Restart, RowsOK, rows
<1>10. CASE UNCHANGED vars
  BY <1>10 DEF vars, RowsOK, MemoryOK, SignalsOK, PlacesOK, LoopOK, TaskOK, CountersOK,
     Busy
<1> QED
  BY <1>1, <1>2, <1>3, <1>4, <1>5, <1>6, <1>7, <1>8, <1>9, <1>10 DEF UserStep

-----------------------------------------------------------------------------
(***************************************************************************)
(* What each kind of step may do to the loop and its queue.                *)
(***************************************************************************)
\* The loop leaves the worker and the token alone.
LEMMA LoopFrame ==
  ASSUME PlacesOK, LoopStep
  PROVE  /\ UNCHANGED <<open, cancelled>>
         /\ at'[Loop] = "wait" => Look
         /\ at'[Loop] = "retry" => SendFails
         /\ queue' \subseteq queue \/ Merge \/ Retry
<1> USE DEF PlacesOK, Process, Go, Leave, rows, memory, signals, worker, locals,
      taskLocals, history, bounds
<1>1. CASE Load
  BY <1>1 DEF Load
<1>2. CASE LoadFails
  BY <1>2 DEF LoadFails
<1>3. CASE Merge
  BY <1>3 DEF Merge
<1>4. CASE Look
  BY <1>4 DEF Look
<1>5. CASE LoopExit
  BY <1>5 DEF LoopExit
<1>6. CASE Reload
  BY <1>6 DEF Reload
<1>7. CASE Wake
  BY <1>7 DEF Wake
<1>8. CASE Collect
  BY <1>8 DEF Collect
<1>9. CASE Drop
  BY <1>9 DEF Drop, Fresh
<1>10. CASE FireEnds
  BY <1>10 DEF FireEnds
<1>11. CASE FireUnqueue
  BY <1>11 DEF FireUnqueue, Without
<1>12. CASE Send
  BY <1>12 DEF Send
<1>13. CASE SendFails
  BY <1>13 DEF SendFails
<1>14. CASE Retry
  BY <1>14 DEF Retry
<1>15. CASE \E j \in Job : Take(j)
  BY <1>15 DEF Take
<1>16. CASE Complete(Loop)
  BY <1>16 DEF Complete, CompleteUnqueue, CompleteMark, CompleteForget, Without,
     Return, WakeUp
<1> QED
  BY <1>1, <1>2, <1>3, <1>4, <1>5, <1>6, <1>7, <1>8, <1>9, <1>10, <1>11, <1>12, <1>13,
     <1>14, <1>15, <1>16 DEF LoopStep

\* Tasks leave the loop where it is, and wake it if they queue something.
LEMMA TaskFrame ==
  ASSUME PlacesOK, NEW p \in Slot, TaskStep(p)
  PROVE  /\ at'[Loop] = at[Loop]
         /\ UNCHANGED <<alarm, reload, open, cancelled, chan>>
         /\ wake => wake'
         /\ queue' \subseteq queue \/ Requeue(p)
<1> USE CronAssumption DEF PlacesOK, Process, Go, Leave, rows, memory, signals, worker,
      locals, taskLocals, history, bounds
<1>1. CASE Skipped(p)
  BY <1>1 DEF Skipped
<1>2. CASE Executed(p)
  BY <1>2 DEF Executed
<1>3. CASE SelfCompleted(p)
  BY <1>3 DEF SelfCompleted
<1>4. CASE Release(p)
  BY <1>4 DEF Release
<1>5. CASE Unqueue(p)
  BY <1>5 DEF Unqueue, Without
<1>6. CASE ReadInactive(p)
  BY <1>6 DEF ReadInactive
<1>7. CASE ReadFails(p)
  BY <1>7 DEF ReadFails
<1>8. CASE ReadSpent(p)
  BY <1>8 DEF ReadSpent
<1>9. CASE ReadActive(p)
  BY <1>9 DEF ReadActive
<1>10. CASE Persist(p)
  BY <1>10 DEF Persist
<1>11. CASE Requeue(p)
  BY <1>11 DEF Requeue, WakeUp
<1>12. CASE Complete(p)
  BY <1>12 DEF Complete, CompleteUnqueue, CompleteMark, CompleteForget, Without,
     Return, WakeUp
<1> QED
  BY <1>1, <1>2, <1>3, <1>4, <1>5, <1>6, <1>7, <1>8, <1>9, <1>10, <1>11,
     <1>12 DEF TaskStep

\* So do all others, who queue nothing.
LEMMA OtherFrame ==
  ASSUME PlacesOK,
         \/ Recv \/ WorkerExit \/ UserStep \/ Notify \/ Tick \/ Shutdown
         \/ UNCHANGED vars
  PROVE  /\ at'[Loop] = at[Loop]
         /\ UNCHANGED <<alarm, wake, queue, running>>
         /\ reload => reload'
         /\ cancelled => cancelled'
         /\ open => open' \/ cancelled'
         /\ ~open => ~open'
<1> USE CronAssumption DEF PlacesOK, Process, Go, Leave, rows, memory, signals, worker,
      locals, taskLocals, history, bounds
<1>1. CASE Recv
  BY <1>1 DEF Recv
<1>2. CASE WorkerExit
  BY <1>2 DEF WorkerExit
<1>3. CASE UserStep
  BY <1>3 DEF UserStep, Create, Update, Delete, Edit
<1>4. CASE Notify \/ Tick \/ Shutdown
  BY <1>4 DEF Notify, Tick, Shutdown
<1>5. CASE UNCHANGED vars
  BY <1>5 DEF vars
<1> QED
  BY <1>1, <1>2, <1>3, <1>4, <1>5

-----------------------------------------------------------------------------
(***************************************************************************)
(* The three parts about the queue.                                        *)
(***************************************************************************)
\* Sends fail only after the shutdown has begun.
LEMMA FailsLateNext ==
  ASSUME PlacesOK, FailsLate, [Next]_vars
  PROVE  FailsLate'
<1>1. CASE LoopStep
  BY <1>1, LoopFrame DEF FailsLate, SendFails
<1>2. ASSUME NEW p \in Slot, TaskStep(p) PROVE FailsLate'
  BY <1>2, TaskFrame DEF FailsLate
<1>3. CASE Recv \/ WorkerExit \/ UserStep \/ Notify \/ Tick \/ Shutdown \/ UNCHANGED vars
  BY <1>3, OtherFrame DEF FailsLate
<1>4. CASE Restart
  BY <1>4 DEF Restart, Starting, Process, FailsLate
<1> QED
  BY <1>1, <1>2, <1>3, <1>4 DEF Next

\* Who queues a job looks first, or rebuilds the queue.
LEMMA QueuedOnceNext ==
  ASSUME PlacesOK, FailsLate, QueuedOnce, [Next]_vars
  PROVE  QueuedOnce'
<1>1. ASSUME queue' \subseteq queue, cancelled => cancelled' PROVE QueuedOnce'
  BY <1>1 DEF QueuedOnce
<1>2. CASE LoopStep
  <2>1. CASE Merge
    BY <2>1 DEF Merge, QueuedOnce
  <2>2. CASE Retry
    BY <2>2, <1>2, LoopFrame DEF Retry, FailsLate, QueuedOnce
  <2> QED
    BY <1>1, <1>2, <2>1, <2>2, LoopFrame
<1>3. ASSUME NEW p \in Slot, TaskStep(p) PROVE QueuedOnce'
  <2>1. CASE Requeue(p)
    <3>1. cancelled' = cancelled
      BY <1>3, TaskFrame
    <3>2. CASE Queued(on[p])
      BY <2>1, <3>1, <3>2 DEF Requeue, QueueOf, QueuedOnce
    <3>3. CASE ~Queued(on[p])
      <4>1. \A e \in queue : e[2] # on[p]
        BY <3>3 DEF Queued
      <4>2. queue' = queue \cup {<<next[p], on[p]>>}
        BY <2>1, <3>3 DEF Requeue, QueueOf
      <4> QED
        BY <3>1, <4>1, <4>2 DEF QueuedOnce
    <3> QED
      BY <3>2, <3>3
  <2> QED
    BY <1>1, <1>3, <2>1, TaskFrame
<1>4. CASE Recv \/ WorkerExit \/ UserStep \/ Notify \/ Tick \/ Shutdown \/ UNCHANGED vars
  BY <1>1, <1>4, OtherFrame
<1>5. CASE Restart
  BY <1>5 DEF Restart, QueuedOnce
<1> QED
  BY <1>2, <1>3, <1>4, <1>5 DEF Next

\* Who queues an entry wakes the loop.
LEMMA SleepsNoLongerNext ==
  ASSUME TypeOK, SleepsNoLonger, [Next]_vars
  PROVE  SleepsNoLonger'
<1> USE DEF TypeOK
<1>1. CASE LoopStep
  <2>1. CASE Look
    <3>1. Times \subseteq Nat /\ (queue # {} => Times # {})
      BY DEF MemoryOK, Times
    <3>2. queue # {} => alarm' \in Times /\ \A u \in Times : alarm' <= u
      BY <2>1, <3>1, LeastElement DEF Look
    <3>3. \A t \in Nat : t # None
      BY CronAssumption
    <3>4. queue' = queue /\ \A e \in queue : e[1] \in Times
      BY <2>1 DEF Look, memory, Times
    <3> QED
      BY <3>1, <3>2, <3>3, <3>4 DEF SleepsNoLonger
  <2> QED
    BY <1>1, <2>1, LoopFrame DEF SleepsNoLonger
<1>2. ASSUME NEW p \in Slot, TaskStep(p) PROVE SleepsNoLonger'
  <2>1. CASE Requeue(p)
    BY <2>1 DEF Requeue, WakeUp, SleepsNoLonger
  <2> QED
    BY <1>2, <2>1, TaskFrame DEF SleepsNoLonger
<1>3. CASE Recv \/ WorkerExit \/ UserStep \/ Notify \/ Tick \/ Shutdown \/ UNCHANGED vars
  BY <1>3, OtherFrame DEF SleepsNoLonger, SignalsOK
<1>4. CASE Restart
  BY <1>4 DEF Restart, SleepsNoLonger
<1> QED
  BY <1>1, <1>2, <1>3, <1>4 DEF Next

-----------------------------------------------------------------------------
(***************************************************************************)
(* The marks.                                                              *)
(***************************************************************************)

\* Nobody becomes a carrier or passes its job on.
LEMMA Quiet ==
  ASSUME Marked, OneCarrier, UNCHANGED <<running, chan>>,
         \A p \in Process : Carries(p)' => Carries(p) /\ on'[p] = on[p]
  PROVE  Marked' /\ OneCarrier'
  BY DEF Marked, OneCarrier

\* The loop goes on without marking or handing over.
LEMMA QuietLoop ==
  ASSUME PlacesOK, Marked, OneCarrier, UNCHANGED <<running, chan>>,
         NEW x, NEW k, Go(Loop, x),
         \/ x \notin {"unqueue", "send"} /\ on' = [on EXCEPT ![Loop] = k]
         \/ x \notin {"unqueue", "send"} /\ UNCHANGED on
         \/ at[Loop] = "unqueue" /\ UNCHANGED on
  PROVE  Marked' /\ OneCarrier'
<1> \A p \in Process : Carries(p)' => Carries(p) /\ on'[p] = on[p]
  BY CronAssumption DEF Carries, PlacesOK, Process, Go
<1> QED
  BY Quiet

\* A task goes on after its run, its job unmarked.
LEMMA QuietTask ==
  ASSUME PlacesOK, Marked, OneCarrier, UNCHANGED <<running, chan>>,
         NEW p \in Slot, NEW x, NEW k, Go(p, x),
         \/ x \notin {"running", "release"} /\ on' = [on EXCEPT ![p] = k]
         \/ x \notin {"running", "release"} /\ UNCHANGED on
         \/ at[p] = "running" /\ UNCHANGED on
  PROVE  Marked' /\ OneCarrier'
<1> \A q \in Process : Carries(q)' => Carries(q) /\ on'[q] = on[q]
  BY CronAssumption DEF Carries, PlacesOK, Process, Go
<1> QED
  BY Quiet

\* The loop marks a job that was not, hands it on, or lifts the mark.
LEMMA CarriersLoop ==
  ASSUME TypeOK, Marked, OneCarrier, LoopStep
  PROVE  Marked' /\ OneCarrier'
<1> USE DEF TypeOK, Leave, memory, signals, worker, locals
<1>1. CASE Load
  BY <1>1, QuietLoop DEF Load
<1>2. CASE LoadFails
  BY <1>2, QuietLoop DEF LoadFails
<1>3. CASE Merge
  BY <1>3, QuietLoop DEF Merge
<1>4. CASE Look
  BY <1>4, QuietLoop DEF Look
<1>5. CASE LoopExit
  BY <1>5, QuietLoop DEF LoopExit
<1>6. CASE Reload
  BY <1>6, QuietLoop DEF Reload
<1>7. CASE Wake
  BY <1>7, QuietLoop DEF Wake
<1>8. CASE Collect
  BY <1>8, QuietLoop DEF Collect
<1>9. CASE Drop
  BY <1>9, QuietLoop DEF Drop
<1>10. CASE FireEnds
  BY <1>10, QuietLoop DEF FireEnds
<1>11. CASE FireUnqueue
  BY <1>11, QuietLoop DEF FireUnqueue
<1>12. CASE Retry
  BY <1>12, QuietLoop DEF Retry
<1>13. CASE Complete(Loop)
  BY <1>13, QuietLoop DEF Complete, CompleteUnqueue, CompleteMark, CompleteForget,
     Return
<1>14. ASSUME NEW j \in Job, Take(j) PROVE Marked' /\ OneCarrier'
  <2>1. CASE Leave(Loop, "completing", j) /\ UNCHANGED running
    BY <1>14, <2>1, QuietLoop DEF Take
  <2>2. CASE UNCHANGED <<at, on, running>>
    BY <1>14, <2>2, Quiet DEF Take, Carries
  <2>3. CASE j \notin running /\ running' = running \cup {j} /\ Leave(Loop, "unqueue", j)
    <3>1. UNCHANGED chan /\ on'[Loop] = j
      BY <1>14, <2>3 DEF Take, PlacesOK, Process
    <3>2. \A p \in Process : Carries(p)' => p = Loop \/ (Carries(p) /\ on'[p] = on[p])
      BY <2>3, CronAssumption DEF Carries, PlacesOK, Process, Go
    <3> QED
      BY <2>3, <3>1, <3>2 DEF Marked, OneCarrier
  <2> QED
    BY <1>14, <2>1, <2>2, <2>3 DEF Take, Mark
<1>15. CASE Send
  <2>1. /\ chan' = Append(chan, on[Loop])
        /\ running' = running
        /\ Carries(Loop)
    BY <1>15 DEF Send, Carries
  <2>2. \A p \in Process : Carries(p)' => p # Loop /\ Carries(p) /\ on'[p] = on[p]
    BY <1>15, CronAssumption DEF Send, Carries, PlacesOK, Process, Go
  <2>3. \A i \in DOMAIN chan' : \/ i \in DOMAIN chan /\ chan'[i] = chan[i]
                                \/ i = Len(chan) + 1 /\ chan'[i] = on[Loop]
    BY <1>15, <2>1 DEF SignalsOK
  <2>4. Loop \in Process
    BY DEF Process
  <2> QED
    BY <2>1, <2>2, <2>3, <2>4 DEF Marked, OneCarrier
<1>16. CASE SendFails
  <2>1. /\ chan' = chan
        /\ running' = running \ {on[Loop]}
        /\ Carries(Loop)
        /\ Loop \in Process
    BY <1>16 DEF SendFails, Carries, Process
  <2>2. \A p \in Process : Carries(p)' => p # Loop /\ Carries(p) /\ on'[p] = on[p]
    BY <1>16, CronAssumption DEF SendFails, Carries, PlacesOK, Process, Go
  <2> QED
    BY <2>1, <2>2 DEF Marked, OneCarrier
<1> QED
  BY <1>1, <1>2, <1>3, <1>4, <1>5, <1>6, <1>7, <1>8, <1>9, <1>10, <1>11, <1>12, <1>13,
     <1>14, <1>15, <1>16 DEF LoopStep

\* A task lifts the mark of the job it carries.
LEMMA CarriersTask ==
  ASSUME TypeOK, Marked, OneCarrier, NEW p \in Slot, TaskStep(p)
  PROVE  Marked' /\ OneCarrier'
<1> USE DEF TypeOK, Leave, memory, signals, worker
<1>1. CASE Skipped(p)
  BY <1>1, QuietTask DEF Skipped
<1>2. CASE Executed(p)
  BY <1>2, QuietTask DEF Executed
<1>3. CASE SelfCompleted(p)
  BY <1>3, QuietTask DEF SelfCompleted
<1>4. CASE Unqueue(p)
  BY <1>4, QuietTask DEF Unqueue
<1>5. CASE ReadInactive(p)
  BY <1>5, QuietTask DEF ReadInactive
<1>6. CASE ReadFails(p)
  BY <1>6, QuietTask DEF ReadFails
<1>7. CASE ReadSpent(p)
  BY <1>7, QuietTask DEF ReadSpent
<1>8. CASE ReadActive(p)
  BY <1>8, QuietTask DEF ReadActive
<1>9. CASE Persist(p)
  BY <1>9, QuietTask DEF Persist
<1>10. CASE Requeue(p)
  BY <1>10, QuietTask DEF Requeue
<1>11. CASE Complete(p)
  BY <1>11, CronAssumption, QuietTask DEF Complete, CompleteUnqueue, CompleteMark,
     CompleteForget, Return
<1>12. CASE Release(p)
  <2>1. /\ chan' = chan
        /\ running' = running \ {on[p]}
        /\ Carries(p)
        /\ p \in Process
    BY <1>12 DEF Release, Carries, Process
  <2>2. \A q \in Process : Carries(q)' => q # p /\ Carries(q) /\ on'[q] = on[q]
    BY <1>12, CronAssumption DEF Release, Carries, PlacesOK, Process, Go
  <2> QED
    BY <2>1, <2>2 DEF Marked, OneCarrier
<1> QED
  BY <1>1, <1>2, <1>3, <1>4, <1>5, <1>6, <1>7, <1>8, <1>9, <1>10, <1>11,
     <1>12 DEF TaskStep

\* The worker hands the first job in the channel to a new task.
LEMMA CarriersRecv ==
  ASSUME TypeOK, Marked, OneCarrier, Recv
  PROVE  Marked' /\ OneCarrier'
<1> USE DEF TypeOK
<1>1. PICK p \in Slot : at[p] = "idle" /\ Leave(p, "running", Head(chan))
  BY DEF Recv
<1>2. /\ chan # <<>>
      /\ chan' = Tail(chan)
      /\ running' = running
  BY DEF Recv, memory
<1>3. /\ 1 \in DOMAIN chan /\ Head(chan) = chan[1]
      /\ \A i \in DOMAIN chan' : i + 1 \in DOMAIN chan /\ i + 1 # 1 /\ chan'[i] = chan[i + 1]
  BY <1>2 DEF SignalsOK
<1>4. on'[p] = Head(chan) /\ p \in Process /\ p # Loop
  BY <1>1, CronAssumption DEF Leave, Go, PlacesOK, Process
<1>5. \A q \in Process : Carries(q)' => q = p \/ (Carries(q) /\ on'[q] = on[q])
  BY <1>1, CronAssumption DEF Leave, Go, Carries, PlacesOK, Process
<1>6. \A i, k \in DOMAIN chan' : i + 1 = k + 1 => i = k
  BY <1>2 DEF SignalsOK
<1> QED
  BY <1>2, <1>3, <1>4, <1>5, <1>6 DEF Marked, OneCarrier

\* All steps keep the marks.
LEMMA CarriersNext ==
  ASSUME TypeOK, Marked, OneCarrier, [Next]_vars
  PROVE  Marked' /\ OneCarrier'
<1>1. CASE WorkerExit
  BY <1>1 DEF WorkerExit, memory, Marked, OneCarrier, Carries
<1>2. CASE UserStep \/ Notify \/ Tick \/ Shutdown
  BY <1>2, Quiet DEF UserStep, Create, Update, Delete, Edit, Notify, Tick, Shutdown,
     memory, worker, Carries
<1>3. CASE UNCHANGED vars
  BY <1>3, Quiet DEF vars, memory, worker, Carries
<1>4. CASE Restart
  <2>1. at' = [p \in Process |-> IF p = Loop THEN "load" ELSE "idle"] /\ chan' = <<>>
    BY <1>4 DEF Restart, Starting
  <2>2. \A p \in Process : ~Carries(p)'
    BY <2>1, CronAssumption DEF Carries
  <2> QED
    BY <2>1, <2>2 DEF Marked, OneCarrier
<1> QED
  BY <1>1, <1>2, <1>3, <1>4, CarriersLoop, CarriersTask, CarriersRecv DEF Next

-----------------------------------------------------------------------------
\* All steps keep the invariant.
LEMMA InvNext == Inv /\ [Next]_vars => Inv'
<1> SUFFICES ASSUME Inv, [Next]_vars PROVE Inv'
  OBVIOUS
<1>1. TypeOK' /\ Busy'
  <2>1. CASE LoopStep
    BY <2>1, TypeLoop DEF Inv
  <2>2. CASE \E p \in Slot : TaskStep(p)
    BY <2>2, TypeTask DEF Inv
  <2>3. CASE \/ Recv \/ WorkerExit \/ UserStep \/ Notify \/ Tick \/ Shutdown \/ Restart
             \/ UNCHANGED vars
    BY <2>3, TypeOther DEF Inv
  <2> QED
    BY <2>1, <2>2, <2>3 DEF Next
<1>2. Marked' /\ OneCarrier'
  BY CarriersNext DEF Inv
<1>3. FailsLate' /\ QueuedOnce' /\ SleepsNoLonger'
  BY FailsLateNext, QueuedOnceNext, SleepsNoLongerNext DEF Inv, TypeOK
<1> QED
  BY <1>1, <1>2, <1>3 DEF Inv

\* So it holds always.
LEMMA InvAlways == Spec => []Inv
  BY InitInv, InvNext, PTL DEF Spec

-----------------------------------------------------------------------------
(***************************************************************************)
(* The limit on runs.  The count that is checked before a run may be old;  *)
(* what holds is that a job is only queued, handed over and run while its  *)
(* row is below the limit, or the cached count is not.                     *)
(***************************************************************************)

\* Who has the job in hand, the channel apart.
Holds(p, j) ==
  on[p] = j /\ (p = Loop => at[p] \in {"unqueue", "send", "retry"})

\* A job that is due, handed over or run is so in one place.
Solo(j) ==
  /\ \A p, q \in Process : Holds(p, j) /\ Holds(q, j) => p = q
  /\ (\E i \in DOMAIN chan : chan[i] = j) => \A p \in Process : ~Holds(p, j)
  /\ due[j] # None =>
       /\ \A p \in Process : ~Holds(p, j)
       /\ \A i \in DOMAIN chan : chan[i] # j

Below(j) == Limit[j] = 0 \/ runs[j] < Limit[j]
Seen(j, n) == n = None \/ n >= Limit[j]

\* The job will be run, or queued again.
ToRun(p) ==
  \/ p = Loop /\ at[p] \in {"unqueue", "send", "retry"}
  \/ p \in Slot /\ at[p] \in {"running", "persist", "requeue"}

\* The run is over, and what is queued for the job is about to go.
Ran(p) == at[p] \in {"release", "unqueue", "completing"}

Counted(j) ==
  /\ Limit[j] = 0 \/ runs[j] <= Limit[j]
  /\ \A p \in Process : ToRun(p) /\ on[p] = j => Below(j)
  /\ \A i \in DOMAIN chan : chan[i] = j => Below(j)
  /\ Below(j) \/ Seen(j, due[j])
  /\ Queued(j) /\ (\A p \in Slot : on[p] = j => ~Ran(p)) =>
       Below(j) \/ Seen(j, cache[j])

LimitInv == Inv /\ \A j \in Job \ outrun : Solo(j) /\ Counted(j)

\* The exceptions are never withdrawn.
LEMMA OutrunGrows == [Next]_vars => outrun \subseteq outrun'
<1> SUFFICES ASSUME [Next]_vars PROVE outrun \subseteq outrun'
  OBVIOUS
<1> USE DEF history
<1>1. CASE LoopStep
  BY <1>1 DEF LoopStep, Load, LoadFails, Merge, Look, LoopExit, Reload, Wake, Collect,
     Drop, Take, FireEnds, FireUnqueue, Send, SendFails, Retry, Complete,
     CompleteUnqueue, CompleteMark, CompleteForget
<1>2. ASSUME NEW p \in Slot, TaskStep(p) PROVE outrun \subseteq outrun'
  BY <1>2 DEF TaskStep, Skipped, Executed, SelfCompleted, Release, Unqueue,
     ReadInactive, ReadFails, ReadSpent, ReadActive, Persist, Requeue, Complete,
     CompleteUnqueue, CompleteMark, CompleteForget
<1>3. CASE Recv \/ WorkerExit \/ UserStep \/ Notify \/ Tick \/ Shutdown \/ Restart
           \/ UNCHANGED vars
  BY <1>3 DEF Recv, WorkerExit, UserStep, Create, Update, Delete, Edit, Notify, Tick,
     Shutdown, Restart, vars
<1> QED
  BY <1>1, <1>2, <1>3 DEF Next

\* Nobody gets the job in hand.
LEMMA SoloQuiet ==
  ASSUME NEW j \in Job, Solo(j), UNCHANGED chan, due'[j] \in {due[j], None},
         \A p \in Process : Holds(p, j)' => Holds(p, j)
  PROVE  Solo(j)'
  BY DEF Solo

\* The loop goes on and takes up no job.
LEMMA SoloLoopGoes ==
  ASSUME TypeOK, NEW j \in Job, Solo(j), UNCHANGED <<chan, due>>, NEW x, Go(Loop, x),
         \/ on' = [on EXCEPT ![Loop] = None]
         \/ x \notin {"unqueue", "send", "retry"} /\ UNCHANGED on
         \/ at[Loop] \in {"unqueue", "send"} /\ UNCHANGED on
  PROVE  Solo(j)'
<1>1. \A p \in Process : Holds(p, j)' => Holds(p, j)
  BY CronAssumption DEF TypeOK, Holds, PlacesOK, Process, Go
<1> QED
  BY <1>1, SoloQuiet

\* A task keeps its job or lets go of it.
LEMMA SoloTaskGoes ==
  ASSUME TypeOK, NEW j \in Job, Solo(j), UNCHANGED <<chan, due>>, NEW p \in Slot,
         NEW x, Go(p, x), UNCHANGED on \/ on' = [on EXCEPT ![p] = None]
  PROVE  Solo(j)'
<1>1. \A q \in Process : Holds(q, j)' => Holds(q, j)
  BY CronAssumption DEF TypeOK, Holds, PlacesOK, Process, Go
<1> QED
  BY <1>1, SoloQuiet

\* The loop collects what nobody has in hand.
LEMMA SoloLoop ==
  ASSUME TypeOK, Marked, NEW j \in Job, j \notin outrun, j \notin outrun', Solo(j),
         LoopStep
  PROVE  Solo(j)'
<1> USE DEF Leave, worker, locals
<1>1. CASE Load
  BY <1>1, SoloLoopGoes DEF Load
<1>2. CASE LoadFails
  BY <1>2, SoloLoopGoes DEF LoadFails
<1>3. CASE Merge
  BY <1>3, SoloLoopGoes DEF Merge
<1>4. CASE Look
  BY <1>4, SoloLoopGoes DEF Look
<1>5. CASE LoopExit
  BY <1>5, SoloLoopGoes DEF LoopExit
<1>6. CASE Reload
  BY <1>6, SoloLoopGoes DEF Reload
<1>7. CASE Wake
  BY <1>7, SoloLoopGoes DEF Wake
<1>8. CASE Drop
  BY <1>8, SoloLoopGoes DEF Drop
<1>9. CASE FireEnds
  BY <1>9, SoloLoopGoes DEF FireEnds
<1>10. CASE FireUnqueue
  BY <1>10, SoloLoopGoes DEF FireUnqueue
<1>11. CASE SendFails
  BY <1>11, SoloLoopGoes DEF SendFails
<1>12. CASE Retry
  BY <1>12, SoloLoopGoes DEF Retry
<1>13. CASE Complete(Loop)
  BY <1>13, SoloLoopGoes DEF Complete, CompleteUnqueue, CompleteMark, CompleteForget,
     Return
<1>14. CASE Collect
  <2>1. \A p \in Process : ~Holds(p, j)' \/ Holds(p, j)
    BY <1>14, CronAssumption DEF Collect, Holds, TypeOK, PlacesOK, Process, Go
  <2>2. CASE due'[j] = None
    BY <1>14, <2>1, <2>2, SoloQuiet DEF Collect
  <2>3. CASE due'[j] # None
    <3>1. /\ chan' = chan /\ on' = on /\ at'[Loop] = "drop"
          /\ due'[j] = IF IsDue(j) /\ j \notin running THEN cache[j] ELSE None
          /\ outrun' = outrun \cup {k \in Job : due'[k] # None /\ \E p \in Slot : on[p] = k}
      BY <1>14 DEF Collect, Go, TypeOK, PlacesOK, Process
    <3>2. j \notin running /\ \A p \in Slot : on[p] # j
      BY <3>1, <2>3
    <3>3. \A p \in Process : ~Holds(p, j)'
      BY <3>1, <3>2 DEF Holds, Process
    <3>4. \A i \in DOMAIN chan' : chan'[i] # j
      BY <3>1, <3>2 DEF Marked
    <3> QED
      BY <3>3, <3>4 DEF Solo
  <2> QED
    BY <2>2, <2>3
<1>15. ASSUME NEW k \in Job, Take(k) PROVE Solo(j)'
  <2>1. UNCHANGED chan /\ due' = [due EXCEPT ![k] = None] /\ due[k] # None
    BY <1>15 DEF Take
  <2>2. due'[j] \in {due[j], None} /\ (k = j => due'[j] = None)
    BY <2>1 DEF TypeOK, LoopOK
  <2>3. CASE Leave(Loop, "completing", k) \/ UNCHANGED <<at, on>> \/ k # j
    <3>1. \A p \in Process : Holds(p, j)' => Holds(p, j)
      BY <1>15, <2>3, CronAssumption DEF Take, Holds, TypeOK, PlacesOK, Process, Go
    <3> QED
      BY <2>1, <2>2, <3>1, SoloQuiet
  <2>4. CASE k = j /\ Leave(Loop, "unqueue", j)
    <3>1. \A p \in Process : ~Holds(p, j)
      BY <2>1, <2>4 DEF Solo
    <3>2. \A p \in Process : Holds(p, j)' => p = Loop
      BY <2>4, <3>1, CronAssumption DEF Holds, TypeOK, PlacesOK, Process, Go
    <3>3. \A i \in DOMAIN chan' : chan'[i] # j
      BY <2>1, <2>4 DEF Solo
    <3> QED
      BY <2>2, <2>4, <3>2, <3>3 DEF Solo
  <2> QED
    BY <1>15, <2>3, <2>4 DEF Take
<1>16. CASE Send
  <2>1. chan' = Append(chan, on[Loop]) /\ due' = due /\ at[Loop] = "send"
    BY <1>16 DEF Send
  <2>2. \A p \in Process : Holds(p, j)' => p # Loop /\ Holds(p, j)
    BY <1>16, CronAssumption DEF Send, Holds, TypeOK, PlacesOK, Process, Go
  <2>3. \A i \in DOMAIN chan' : (i \in DOMAIN chan /\ chan'[i] = chan[i]) \/ chan'[i] = on[Loop]
    BY <1>16, <2>1 DEF TypeOK, SignalsOK
  <2>4. Loop \in Process /\ (on[Loop] = j => Holds(Loop, j))
    BY <2>1 DEF Process, Holds
  <2> QED
    BY <2>1, <2>2, <2>3, <2>4 DEF Solo
<1> QED
  BY <1>1, <1>2, <1>3, <1>4, <1>5, <1>6, <1>7, <1>8, <1>9, <1>10, <1>11, <1>12, <1>13,
     <1>14, <1>15, <1>16 DEF LoopStep

\* So do the tasks, the worker and all others.
LEMMA SoloNext ==
  ASSUME TypeOK, Marked, OneCarrier, NEW j \in Job, j \notin outrun, j \notin outrun', Solo(j),
         [Next]_vars
  PROVE  Solo(j)'
<1> USE DEF Leave, worker, locals
<1>1. CASE LoopStep
  BY <1>1, SoloLoop
<1>2. ASSUME NEW p \in Slot, TaskStep(p) PROVE Solo(j)'
  <2>1. CASE Skipped(p) \/ Executed(p) \/ SelfCompleted(p) \/ Release(p) \/ Unqueue(p)
    BY <2>1, SoloTaskGoes DEF Skipped, Executed, SelfCompleted, Release, Unqueue
  <2>2. CASE ReadInactive(p) \/ ReadFails(p) \/ ReadSpent(p) \/ ReadActive(p)
    BY <2>2, SoloTaskGoes DEF ReadInactive, ReadFails, ReadSpent, ReadActive
  <2>3. CASE Persist(p) \/ Requeue(p)
    BY <2>3, SoloTaskGoes DEF Persist, Requeue
  <2>4. CASE Complete(p)
    BY <2>4, CronAssumption, SoloTaskGoes DEF Complete, CompleteUnqueue, CompleteMark,
       CompleteForget, Return
  <2> QED
    BY <1>2, <2>1, <2>2, <2>3, <2>4 DEF TaskStep
<1>3. CASE Recv
  <2>1. PICK p \in Slot : at[p] = "idle" /\ Leave(p, "running", Head(chan))
    BY <1>3 DEF Recv
  <2>2. chan # <<>> /\ chan' = Tail(chan) /\ due' = due
    BY <1>3 DEF Recv
  <2>3. Head(chan) = chan[1] /\ 1 \in DOMAIN chan
        /\ \A i \in DOMAIN chan' : i + 1 \in DOMAIN chan /\ i + 1 # 1 /\ chan'[i] = chan[i + 1]
    BY <2>2 DEF TypeOK, SignalsOK
  <2>4. \A q \in Process : Holds(q, j)' => (q = p /\ chan[1] = j) \/ (q # p /\ Holds(q, j))
    BY <2>1, <2>3, CronAssumption DEF Holds, TypeOK, PlacesOK, Process, Go
  <2>5. CASE chan[1] = j
    <3>1. due[j] = None /\ \A q \in Process : ~Holds(q, j)
      BY <2>3, <2>5 DEF Solo
    <3>2. \A i \in DOMAIN chan' : chan'[i] # j
      BY <2>3, <2>5 DEF OneCarrier
    <3> QED
      BY <2>2, <2>4, <3>1, <3>2 DEF Solo
  <2>6. CASE chan[1] # j
    BY <2>2, <2>3, <2>4, <2>6 DEF Solo
  <2> QED
    BY <2>5, <2>6
<1>4. CASE WorkerExit
  BY <1>4 DEF WorkerExit, Solo, Holds
<1>5. CASE UserStep \/ Notify \/ Tick \/ Shutdown \/ UNCHANGED vars
  BY <1>5, SoloQuiet DEF UserStep, Create, Update, Delete, Edit, Notify, Tick, Shutdown,
     vars, Holds
<1>6. CASE Restart
  <2>1. on' = [p \in Process |-> None] /\ due' = [k \in Job |-> None] /\ chan' = <<>>
    BY <1>6 DEF Restart, Free, Nothing
  <2>2. \A p \in Process : ~Holds(p, j)'
    BY <2>1, CronAssumption DEF Holds
  <2> QED
    BY <2>1, <2>2 DEF Solo
<1> QED
  BY <1>1, <1>2, <1>3, <1>4, <1>5, <1>6 DEF Next

-----------------------------------------------------------------------------
\* Nothing that counts for the job changes.
LEMMA CountedQuiet ==
  ASSUME NEW j \in Job, Counted(j), UNCHANGED <<runs, chan>>,
         due'[j] = None \/ Below(j) \/ due'[j] = due[j],
         cache'[j] = None \/ Below(j) \/ cache'[j] = cache[j],
         Queued(j)' => Queued(j) \/ Below(j),
         \A p \in Process : ToRun(p)' /\ on'[p] = j => Below(j),
         \A p \in Slot : on[p] = j /\ Ran(p) => (on'[p] = j /\ Ran(p)') \/ ~Queued(j)'
  PROVE  Counted(j)'
<1>1. Below(j)' <=> Below(j)
  BY DEF Below
<1>2. CASE Below(j)
  BY <1>1, <1>2 DEF Counted
<1>3. CASE ~Below(j)
  BY <1>1, <1>3 DEF Counted, Seen
<1> QED
  BY <1>2, <1>3

\* The loop goes on and takes up no job.
LEMMA CountedLoopGoes ==
  ASSUME TypeOK, NEW j \in Job, Counted(j), UNCHANGED <<runs, cache, chan, due>>,
         queue' \subseteq queue, NEW x, Go(Loop, x),
         \/ on' = [on EXCEPT ![Loop] = None]
         \/ x \notin {"unqueue", "send", "retry"} /\ UNCHANGED on
         \/ at[Loop] \in {"unqueue", "send"} /\ UNCHANGED on
  PROVE  Counted(j)'
<1>1. \A p \in Process : ToRun(p)' /\ on'[p] = j => ToRun(p) /\ on[p] = j
  BY CronAssumption DEF TypeOK, ToRun, PlacesOK, Process, Go
<1>2. \A p \in Slot : on'[p] = on[p] /\ at'[p] = at[p]
  BY CronAssumption DEF TypeOK, PlacesOK, Process, Go
<1>3. Queued(j)' => Queued(j)
  BY DEF Queued
<1>4. \A p \in Process : ToRun(p)' /\ on'[p] = j => Below(j)
  BY <1>1 DEF Counted
<1>5. \A p \in Slot : on[p] = j /\ Ran(p) => on'[p] = j /\ Ran(p)'
  BY <1>2 DEF Ran
<1> QED
  BY <1>3, <1>4, <1>5, CountedQuiet

\* What is spent in the cache is not taken up.
LEMMA CountedLoop ==
  ASSUME TypeOK, NEW j \in Job, j \notin outrun, j \notin outrun', Counted(j),
         LoopStep
  PROVE  Counted(j)'
<1> USE DEF Leave, rows, memory, worker, locals
<1>1. CASE Load
  BY <1>1, CountedLoopGoes DEF Load
<1>2. CASE LoadFails
  BY <1>2, CountedLoopGoes DEF LoadFails
<1>3. CASE Look
  BY <1>3, CountedLoopGoes DEF Look
<1>4. CASE LoopExit
  BY <1>4, CountedLoopGoes DEF LoopExit
<1>5. CASE Reload
  BY <1>5, CountedLoopGoes DEF Reload
<1>6. CASE Wake
  BY <1>6, CountedLoopGoes DEF Wake
<1>7. CASE Drop
  BY <1>7, CountedLoopGoes DEF Drop, Fresh
<1>8. CASE FireEnds
  BY <1>8, CountedLoopGoes DEF FireEnds
<1>9. CASE FireUnqueue
  BY <1>9, CountedLoopGoes DEF FireUnqueue, Without
<1>10. CASE SendFails
  BY <1>10, CountedLoopGoes DEF SendFails
<1>11. CASE CompleteUnqueue(Loop) \/ CompleteMark(Loop)
  BY <1>11, CountedLoopGoes DEF CompleteUnqueue, CompleteMark, Without
<1>12. ASSUME NEW x, Go(Loop, x), x \notin {"unqueue", "send", "retry"},
              UNCHANGED on \/ on' = [on EXCEPT ![Loop] = None]
       PROVE  /\ \A p \in Process : ToRun(p)' /\ on'[p] = j => ToRun(p) /\ on[p] = j
              /\ \A p \in Slot : on'[p] = on[p] /\ at'[p] = at[p]
              /\ \A p \in Slot : Ran(p)' <=> Ran(p)
  BY <1>12, CronAssumption DEF TypeOK, ToRun, Ran, PlacesOK, Process, Go
<1>13. CASE CompleteForget(Loop)
  <2>1. cache'[j] \in {cache[j], None} /\ UNCHANGED <<runs, chan, queue, due>>
    BY <1>13 DEF CompleteForget, TypeOK, MemoryOK
  <2>2. /\ \A p \in Process : ToRun(p)' /\ on'[p] = j => ToRun(p) /\ on[p] = j
        /\ \A p \in Slot : on'[p] = on[p] /\ (Ran(p)' <=> Ran(p))
    BY <1>13, <1>12 DEF CompleteForget, Return
  <2>3. Queued(j)' => Queued(j)
    BY <2>1 DEF Queued
  <2> QED
    BY <2>1, <2>2, <2>3, CountedQuiet DEF Counted
<1>14. CASE Merge
  <2>1. /\ UNCHANGED <<runs, chan, due, on>>
        /\ Go(Loop, "look")
        /\ queue' = {<<NextOf(k), k>> : k \in {i \in Job : snap[i] # None}}
        /\ cache'[j] = IF snap[j] # None THEN snap[j].runs ELSE None
        /\ snap[j] # None => snap[j].runs = runs[j]
    BY <1>14 DEF Merge
  <2>2. /\ \A p \in Process : ToRun(p)' /\ on'[p] = j => ToRun(p) /\ on[p] = j
    BY <2>1, <1>12
  <2>3. Queued(j)' => snap[j] # None
    <3>1. SUFFICES ASSUME NEW e \in queue', e[2] = j PROVE snap[j] # None
      BY DEF Queued
    <3>2. PICK k \in {i \in Job : snap[i] # None} : e = <<NextOf(k), k>>
      BY <2>1
    <3> QED
      BY <3>1, <3>2
  <2>4. Queued(j)' => Below(j) \/ Seen(j, cache[j])'
    BY <2>1, <2>3, CronAssumption DEF Below, Seen, TypeOK, RowsOK
  <2>5. Below(j)' <=> Below(j)
    BY <2>1 DEF Below
  <2>6. Seen(j, due[j])' <=> Seen(j, due[j])
    BY <2>1 DEF Seen
  <2> QED
    BY <2>1, <2>2, <2>4, <2>5, <2>6 DEF Counted
<1>15. CASE Collect
  <2>1. /\ UNCHANGED <<runs, chan, on, queue, cache>>
        /\ Go(Loop, "drop")
        /\ due'[j] = IF IsDue(j) /\ j \notin running THEN cache[j] ELSE None
        /\ outrun' = outrun \cup {k \in Job : due'[k] # None /\ \E p \in Slot : on[p] = k}
    BY <1>15 DEF Collect
  <2>2. /\ \A p \in Process : ToRun(p)' /\ on'[p] = j => ToRun(p) /\ on[p] = j
        /\ \A p \in Slot : on'[p] = on[p] /\ (Ran(p)' <=> Ran(p))
    BY <2>1, <1>12
  <2>3. Below(j) \/ Seen(j, due[j])'
    <3>1. CASE due'[j] = None
      BY <3>1 DEF Seen
    <3>2. CASE due'[j] # None
      <4>1. Queued(j) /\ due'[j] = cache[j]
        BY <2>1, <3>2 DEF IsDue, Queued
      <4>2. \A p \in Slot : on[p] # j
        BY <2>1, <3>2
      <4>3. Below(j) \/ Seen(j, cache[j])
        BY <4>1, <4>2 DEF Counted
      <4> QED
        BY <4>1, <4>3 DEF Seen
    <3> QED
      BY <3>1, <3>2
  <2>4. (Below(j)' <=> Below(j)) /\ (Queued(j)' <=> Queued(j))
        /\ (Seen(j, cache[j])' <=> Seen(j, cache[j]))
    BY <2>1 DEF Below, Queued, Seen
  <2> QED
    BY <2>1, <2>2, <2>3, <2>4 DEF Counted
<1>16. ASSUME NEW k \in Job, Take(k) PROVE Counted(j)'
  <2>1. /\ UNCHANGED <<runs, chan, queue, cache>>
        /\ due' = [due EXCEPT ![k] = None]
        /\ due[k] # None
    BY <1>16 DEF Take
  <2>2. due'[j] \in {due[j], None} /\ (Queued(j)' <=> Queued(j))
    BY <2>1 DEF TypeOK, LoopOK, Queued
  <2>3. \A p \in Slot : on'[p] = on[p] /\ at'[p] = at[p] /\ p # Loop
    BY <1>16, CronAssumption DEF Take, TypeOK, PlacesOK, Process, Go
  <2>4. \A p \in Slot : Ran(p)' <=> Ran(p)
    BY <2>3 DEF Ran
  <2>5. ASSUME NEW p \in Process, ToRun(p)', on'[p] = j PROVE Below(j)
    <3>1. CASE p \in Slot
      BY <2>3, <2>5, <3>1 DEF Counted, ToRun
    <3>2. CASE p = Loop /\ UNCHANGED <<at, on>>
      BY <2>5, <3>2 DEF Counted, ToRun
    <3>3. CASE p = Loop /\ Leave(Loop, "completing", k)
      BY <2>5, <3>3, CronAssumption DEF ToRun, TypeOK, PlacesOK, Process, Go
    <3>4. CASE p = Loop /\ Leave(Loop, "unqueue", k) /\ ~Spent(k, now, due[k])
      <4>1. k = j
        BY <2>5, <3>4 DEF TypeOK, PlacesOK, Process, Go
      <4>2. due[j] \in Nat /\ Limit[j] \in Nat
        BY <2>1, <4>1, CronAssumption DEF TypeOK, LoopOK
      <4>3. Limit[j] = 0 \/ ~(due[j] >= Limit[j])
        BY <3>4, <4>1, <4>2 DEF Spent
      <4> QED
        BY <2>1, <4>1, <4>3 DEF Counted, Seen, Below
    <3> QED
      BY <1>16, <3>1, <3>2, <3>3, <3>4 DEF Take, Process
  <2> QED
    BY <2>1, <2>2, <2>3, <2>4, <2>5, CountedQuiet
<1>17. CASE Send
  <2>1. /\ UNCHANGED <<runs, queue, cache, due>>
        /\ chan' = Append(chan, on[Loop])
        /\ Leave(Loop, "each", None)
        /\ at[Loop] = "send"
    BY <1>17 DEF Send
  <2>2. /\ \A p \in Process : ToRun(p)' /\ on'[p] = j => ToRun(p) /\ on[p] = j
        /\ \A p \in Slot : on'[p] = on[p] /\ (Ran(p)' <=> Ran(p))
    BY <2>1, <1>12
  <2>3. \A i \in DOMAIN chan' : (i \in DOMAIN chan /\ chan'[i] = chan[i]) \/ chan'[i] = on[Loop]
    BY <2>1 DEF TypeOK, SignalsOK
  <2>4. on[Loop] = j => Below(j)
    BY <2>1 DEF Counted, ToRun, Process
  <2>5. (Below(j)' <=> Below(j)) /\ (Queued(j)' <=> Queued(j))
        /\ (Seen(j, cache[j])' <=> Seen(j, cache[j]))
        /\ (Seen(j, due[j])' <=> Seen(j, due[j]))
    BY <2>1 DEF Below, Queued, Seen
  <2> QED
    BY <2>1, <2>2, <2>3, <2>4, <2>5 DEF Counted
<1>18. CASE Retry
  <2>1. /\ UNCHANGED <<runs, chan, cache, due>>
        /\ queue' = queue \cup {<<clock + RetryDelay, on[Loop]>>}
        /\ Leave(Loop, "each", None)
        /\ at[Loop] = "retry"
    BY <1>18 DEF Retry
  <2>2. /\ \A p \in Process : ToRun(p)' /\ on'[p] = j => ToRun(p) /\ on[p] = j
        /\ \A p \in Slot : on'[p] = on[p] /\ (Ran(p)' <=> Ran(p))
    BY <2>1, <1>12
  <2>3. on[Loop] = j => Below(j)
    BY <2>1 DEF Counted, ToRun, Process
  <2>4. Queued(j)' => Queued(j) \/ Below(j)
    BY <2>1, <2>3 DEF Queued
  <2> QED
    BY <2>1, <2>2, <2>4, CountedQuiet DEF Counted
<1> QED
  BY <1>1, <1>2, <1>3, <1>4, <1>5, <1>6, <1>7, <1>8, <1>9, <1>10, <1>11, <1>13,
     <1>14, <1>15, <1>16, <1>17, <1>18 DEF LoopStep, Complete

\* A run counts once, and its end looks at the row.
LEMMA CountedTask ==
  ASSUME TypeOK, Busy, NEW j \in Job, j \notin outrun, Solo(j), Counted(j),
         NEW p \in Slot, TaskStep(p)
  PROVE  Counted(j)'
<1> USE DEF Leave, rows, memory, worker, locals
<1>a. p # Loop /\ p \in Process /\ None \notin Job
  BY CronAssumption DEF Process
\* A task that moves: what it still has to do for the job, and what is queued.
<1>1. ASSUME UNCHANGED <<runs, chan, due>>, NEW x, Go(p, x),
             UNCHANGED on \/ on' = [on EXCEPT ![p] = None],
             on[p] = j /\ x \in {"running", "persist", "requeue"} => ToRun(p) \/ Below(j),
             on[p] = j /\ Ran(p) => x \in {"release", "unqueue", "completing"} \/ ~Queued(j)',
             Queued(j)' => Queued(j) \/ Below(j),
             cache'[j] \in {cache[j], None} \/ Below(j),
             on[p] = j /\ Ran(p) => UNCHANGED on \/ ~Queued(j)'
      PROVE  Counted(j)'
  <2>1. \A q \in Process : q # p => at'[q] = at[q] /\ on'[q] = on[q]
    BY <1>1 DEF TypeOK, PlacesOK, Process, Go
  <2>2. at'[p] = x /\ (on'[p] = on[p] \/ on'[p] = None)
    BY <1>1, <1>a DEF TypeOK, PlacesOK, Process, Go
  <2>3. \A q \in Process : ToRun(q)' /\ on'[q] = j => Below(j)
    BY <1>1, <1>a, <2>1, <2>2 DEF ToRun, Counted
  <2>4. \A q \in Slot : on[q] = j /\ Ran(q) => (on'[q] = j /\ Ran(q)') \/ ~Queued(j)'
    BY <1>1, <2>1, <2>2 DEF Ran, Process
  <2> QED
    BY <1>1, <2>3, <2>4, CountedQuiet
<1>2. CASE Skipped(p)
  BY <1>2, <1>1 DEF Skipped, ToRun, Ran, Queued
<1>3. CASE Release(p)
  BY <1>3, <1>1 DEF Release, ToRun, Ran, Queued
<1>4. CASE Unqueue(p)
  <2>1. queue' \subseteq queue /\ (on[p] = j => ~Queued(j)')
    BY <1>4 DEF Unqueue, Without, Queued
  <2> QED
    BY <1>4, <1>1, <2>1 DEF Unqueue, Queued
<1>5. CASE ReadInactive(p)
  BY <1>5, <1>1 DEF ReadInactive, Ran, Queued
<1>6. CASE ReadFails(p)
  BY <1>6, <1>1 DEF ReadFails, Ran, Queued
<1>7. CASE ReadSpent(p)
  BY <1>7, <1>1 DEF ReadSpent, Ran, Queued
<1>8. CASE ReadActive(p)
  <2>1. on[p] = j => Below(j)
    BY <1>8, CronAssumption DEF ReadActive, Spent, Below, TypeOK, RowsOK
  <2> QED
    BY <1>8, <1>1, <2>1 DEF ReadActive, Ran, Queued
<1>9. CASE Persist(p)
  BY <1>9, <1>1, <1>a DEF Persist, ToRun, Ran, Queued
<1>10. CASE Requeue(p)
  <2>1. on[p] = j => Below(j)
    BY <1>10, <1>a DEF Requeue, Counted, ToRun
  <2>2. Queued(j)' => Queued(j) \/ on[p] = j
    BY <1>10 DEF Requeue, QueueOf, Queued
  <2>3. cache'[j] = cache[j] \/ on[p] = j
    BY <1>10 DEF Requeue, TypeOK, MemoryOK
  <2> QED
    BY <1>10, <1>1, <2>1, <2>2, <2>3 DEF Requeue, Ran
<1>11. CASE CompleteUnqueue(p)
  <2>1. queue' \subseteq queue /\ (on[p] = j => ~Queued(j)')
    BY <1>11 DEF CompleteUnqueue, Without, Queued
  <2> QED
    BY <1>11, <1>1, <2>1 DEF CompleteUnqueue, Queued
<1>12. CASE CompleteMark(p)
  BY <1>12, <1>1 DEF CompleteMark, Ran, Queued
<1>13. CASE CompleteForget(p)
  <2>1. cache'[j] \in {cache[j], None}
    BY <1>13 DEF CompleteForget, TypeOK, MemoryOK
  <2> QED
    BY <1>13, <1>1, <1>a, <2>1 DEF CompleteForget, Return, Ran, Queued
<1>14. CASE Executed(p) \/ SelfCompleted(p)
  <2>1. PICK x \in {"release", "completing"} : Go(p, x)
    BY <1>14 DEF Executed, SelfCompleted
  <2>2. UNCHANGED <<on, queue, cache, chan, due>> /\ at[p] = "running"
    BY <1>14 DEF Executed, SelfCompleted
  <2>3. runs' = runs \/ runs' = [runs EXCEPT ![on[p]] = @ + 1]
    BY <1>14 DEF Executed, SelfCompleted, Record
  <2>4. CASE on[p] # j \/ runs' = runs
    <3>1. runs'[j] = runs[j]
      BY <2>3, <2>4 DEF TypeOK, RowsOK
    <3>2. (Below(j)' <=> Below(j)) /\ (Queued(j)' <=> Queued(j))
          /\ (Seen(j, cache[j])' <=> Seen(j, cache[j]))
          /\ (Seen(j, due[j])' <=> Seen(j, due[j]))
      BY <2>2, <3>1 DEF Below, Queued, Seen
    <3>3. \A q \in Process : at'[q] = IF q = p THEN x ELSE at[q]
      BY <2>1 DEF Go, TypeOK, PlacesOK
    <3>4. \A q \in Process : ToRun(q)' => ToRun(q)
      BY <3>3, <2>1, <1>a DEF ToRun
    <3>5. \A q \in Slot : Ran(q) => Ran(q)'
      BY <3>3, <2>1 DEF Ran, Process
    <3> QED
      BY <2>2, <3>1, <3>2, <3>4, <3>5 DEF Counted
  <2>5. CASE on[p] = j /\ runs' = [runs EXCEPT ![on[p]] = @ + 1]
    <3>1. Below(j) /\ Holds(p, j)
      BY <1>a, <2>2, <2>5 DEF Counted, ToRun, Holds
    <3>2. runs'[j] = runs[j] + 1 /\ runs[j] \in Nat /\ Limit[j] \in Nat
      BY <2>5, CronAssumption DEF TypeOK, RowsOK
    <3>3. Limit[j] = 0 \/ runs'[j] <= Limit[j]
      BY <3>1, <3>2 DEF Below
    <3>4. at'[p] = x /\ \A q \in Process : q # p => at'[q] = at[q]
      BY <2>1, <1>a DEF Go, TypeOK, PlacesOK
    <3>5. due[j] = None /\ \A i \in DOMAIN chan : chan[i] # j
      BY <1>a, <3>1 DEF Solo
    <3>6. \A q \in Process : ToRun(q)' /\ on'[q] = j => q = p
      <4>1. \A q \in Process : ToRun(q)' /\ on'[q] = j /\ q # p => Holds(q, j)
        BY <2>2, <3>4, CronAssumption DEF ToRun, Holds
      <4> QED
        BY <1>a, <3>1, <4>1 DEF Solo
    <3>7. ~ToRun(p)' /\ Ran(p)'
      BY <2>1, <3>4, <1>a DEF ToRun, Ran
    <3> QED
      BY <2>2, <2>5, <3>3, <3>5, <3>6, <3>7 DEF Counted, Seen
  <2> QED
    BY <2>3, <2>4, <2>5
<1> QED
  BY <1>2, <1>3, <1>4, <1>5, <1>6, <1>7, <1>8, <1>9, <1>10, <1>11, <1>12, <1>13,
     <1>14 DEF TaskStep, Complete

\* All steps keep the count.
LEMMA CountedNext ==
  ASSUME TypeOK, Busy, NEW j \in Job, j \notin outrun, j \notin outrun', Solo(j),
         Counted(j), [Next]_vars
  PROVE  Counted(j)'
<1> USE DEF Leave, rows, memory, worker, locals
<1>1. CASE LoopStep
  BY <1>1, CountedLoop
<1>2. ASSUME NEW p \in Slot, TaskStep(p) PROVE Counted(j)'
  BY <1>2, CountedTask
<1>3. CASE Recv
  <2>1. PICK p \in Slot : at[p] = "idle" /\ Leave(p, "running", Head(chan))
    BY <1>3 DEF Recv
  <2>2. chan # <<>> /\ chan' = Tail(chan) /\ UNCHANGED <<runs, queue, cache, due>>
    BY <1>3 DEF Recv
  <2>3. Head(chan) = chan[1] /\ 1 \in DOMAIN chan
        /\ \A i \in DOMAIN chan' : i + 1 \in DOMAIN chan /\ chan'[i] = chan[i + 1]
    BY <2>2 DEF TypeOK, SignalsOK
  <2>4. at'[p] = "running" /\ on'[p] = chan[1]
        /\ \A q \in Process : q # p => at'[q] = at[q] /\ on'[q] = on[q]
    BY <2>1, <2>3 DEF TypeOK, PlacesOK, Process, Go
  <2>5. (Below(j)' <=> Below(j)) /\ (Queued(j)' <=> Queued(j))
        /\ (Seen(j, cache[j])' <=> Seen(j, cache[j]))
        /\ (Seen(j, due[j])' <=> Seen(j, due[j]))
    BY <2>2 DEF Below, Queued, Seen
  <2>6. \A q \in Process : ToRun(q)' /\ on'[q] = j => Below(j)
    BY <2>3, <2>4 DEF Counted, ToRun
  <2>7. \A q \in Slot : Ran(q) /\ on[q] = j => Ran(q)' /\ on'[q] = j
    BY <2>1, <2>4 DEF Ran, Process
  <2> QED
    BY <2>2, <2>3, <2>5, <2>6, <2>7 DEF Counted
<1>4. CASE WorkerExit \/ UserStep \/ Notify \/ Tick \/ Shutdown \/ UNCHANGED vars
  <2>1. UNCHANGED <<runs, queue, cache, due, at, on>> /\ (chan' = chan \/ chan' = <<>>)
    BY <1>4 DEF WorkerExit, UserStep, Create, Update, Delete, Edit, Notify, Tick,
       Shutdown, vars
  <2>2. (Below(j)' <=> Below(j)) /\ (Queued(j)' <=> Queued(j))
        /\ (Seen(j, cache[j])' <=> Seen(j, cache[j]))
        /\ (Seen(j, due[j])' <=> Seen(j, due[j]))
        /\ \A p \in Process : (ToRun(p)' <=> ToRun(p)) /\ (Ran(p)' <=> Ran(p))
    BY <2>1 DEF Below, Queued, Seen, ToRun, Ran
  <2>3. \A i \in DOMAIN chan' : i \in DOMAIN chan /\ chan'[i] = chan[i]
    BY <2>1
  <2> QED
    BY <2>1, <2>2, <2>3 DEF Counted, Process
<1>5. CASE Restart
  <2>1. /\ queue' = {} /\ chan' = <<>> /\ runs' = runs
        /\ due' = [k \in Job |-> None]
        /\ on' = [p \in Process |-> None]
    BY <1>5 DEF Restart, Nothing, Free
  <2>2. ~Queued(j)' /\ Seen(j, due[j])'
    BY <2>1 DEF Queued, Seen
  <2>3. \A p \in Process : on'[p] # j
    BY <2>1, CronAssumption
  <2>4. Limit[j] = 0 \/ runs'[j] <= Limit[j]
    BY <2>1 DEF Counted
  <2> QED
    BY <2>1, <2>2, <2>3, <2>4 DEF Counted
<1> QED
  BY <1>1, <1>2, <1>3, <1>4, <1>5 DEF Next

\* The limit's invariant holds always.
LEMMA LimitAlways == Spec => []LimitInv
<1>1. Init => LimitInv
  <2> SUFFICES ASSUME Init PROVE LimitInv
    OBVIOUS
  <2>1. /\ on = [p \in Process |-> None] /\ chan = <<>> /\ queue = {}
        /\ due = [j \in Job |-> None] /\ runs = [j \in Job |-> 0]
    BY DEF Init, Free, Nothing
  <2>2. ASSUME NEW j \in Job PROVE Solo(j) /\ Counted(j)
    <3>1. \A p \in Process : on[p] # j
      BY <2>1, CronAssumption
    <3>2. Limit[j] = 0 \/ runs[j] <= Limit[j]
      BY <2>1, CronAssumption
    <3> QED
      BY <2>1, <3>1, <3>2 DEF Solo, Holds, Counted, Queued, Seen
  <2> QED
    BY <2>2, InitInv DEF LimitInv
<1>2. LimitInv /\ [Next]_vars => LimitInv'
  <2> SUFFICES ASSUME LimitInv, [Next]_vars PROVE LimitInv'
    OBVIOUS
  <2>1. ASSUME NEW j \in Job, j \notin outrun' PROVE Solo(j)' /\ Counted(j)'
    <3>1. j \notin outrun
      BY <2>1, OutrunGrows
    <3> QED
      BY <2>1, <3>1, SoloNext, CountedNext DEF LimitInv, Inv
  <2> QED
    BY <2>1, InvNext DEF LimitInv
<1> QED
  BY <1>1, <1>2, PTL DEF Spec

-----------------------------------------------------------------------------
(***************************************************************************)
(* The scheduler's memory and the store.  Until the next load, a job that  *)
(* no race or fault has led astray is queued if its row is active, or on   *)
(* its way back to the queue; and what is queued besides is about to be    *)
(* found by complete_job.                                                  *)
(***************************************************************************)

\* A task without a run has no job.
IdleFree == \A p \in Slot : at[p] = "idle" => on[p] = None

\* A load is due, or under way.
ToLoad == owed \/ reload \/ at[Loop] \in {"load", "merge"}

\* The places on the way back to the queue, or to a row that is completed.
Returning == {"unqueue", "send", "running", "release", "read", "persist", "requeue",
              "completing", "marking"}

Returns(j) ==
  \/ \E i \in DOMAIN chan : chan[i] = j
  \/ \E p \in Process : on[p] = j /\ at[p] \in Returning

Forgotten(j) == \E p \in Process : on[p] = j /\ at[p] = "forgetting"

Kept(j) ==
  /\ status[j] = "active" => Queued(j) \/ Returns(j)
  /\ status[j] # "active" /\ Queued(j) => Forgotten(j)
  /\ Queued(j) => cache[j] # None

StoreInv ==
  /\ Inv
  /\ IdleFree
  /\ ~cancelled /\ ~ToLoad => \A j \in Job \ astray : Kept(j)

\* Whoever becomes idle lets go of its job.
LEMMA IdleFreeNext ==
  ASSUME PlacesOK, IdleFree, [Next]_vars
  PROVE  IdleFree'
<1> USE CronAssumption DEF PlacesOK, Process, Go, Leave, IdleFree
<1>1. CASE LoopStep
  <2>1. \A p \in Slot : at'[p] = at[p] /\ on'[p] = on[p]
    BY <1>1 DEF LoopStep, Load, LoadFails, Merge, Look, LoopExit, Reload, Wake, Collect,
       Drop, Take, FireEnds, FireUnqueue, Send, SendFails, Retry, Complete,
       CompleteUnqueue, CompleteMark, CompleteForget
  <2> QED
    BY <2>1
<1>2. ASSUME NEW p \in Slot, TaskStep(p) PROVE IdleFree'
  <2>1. CASE Skipped(p) \/ Executed(p) \/ SelfCompleted(p) \/ Release(p) \/ Unqueue(p)
    BY <2>1 DEF Skipped, Executed, SelfCompleted, Release, Unqueue
  <2>2. CASE ReadInactive(p) \/ ReadFails(p) \/ ReadSpent(p) \/ ReadActive(p)
    BY <2>2 DEF ReadInactive, ReadFails, ReadSpent, ReadActive
  <2>3. CASE Persist(p) \/ Requeue(p)
    BY <2>3 DEF Persist, Requeue
  <2>4. CASE Complete(p)
    BY <2>4 DEF Complete, CompleteUnqueue, CompleteMark, CompleteForget, Return
  <2> QED
    BY <1>2, <2>1, <2>2, <2>3, <2>4 DEF TaskStep
<1>3. CASE Recv
  <2>1. PICK p \in Slot : Leave(p, "running", Head(chan))
    BY <1>3 DEF Recv
  <2> QED
    BY <2>1
<1>4. CASE WorkerExit \/ UserStep \/ Notify \/ Tick \/ Shutdown \/ UNCHANGED vars
  BY <1>4 DEF WorkerExit, UserStep, Create, Update, Delete, Edit, Notify, Tick, Shutdown,
     vars
<1>5. CASE Restart
  BY <1>5 DEF Restart, Starting, Free
<1> QED
  BY <1>1, <1>2, <1>3, <1>4, <1>5 DEF Next

\* Nothing is lost from memory or put into it.
LEMMA KeptQuiet ==
  ASSUME NEW j \in Job, Kept(j), status'[j] = status[j],
         Queued(j)' => Queued(j) /\ cache'[j] = cache[j],
         Queued(j) /\ status[j] = "active" => Queued(j)' \/ Returns(j)',
         Returns(j) /\ status[j] = "active" => Queued(j)' \/ Returns(j)',
         Forgotten(j) /\ Queued(j)' => Forgotten(j)'
  PROVE  Kept(j)'
  BY DEF Kept

\* One process goes on, with its job or without.
LEMMA KeptGoes ==
  ASSUME PlacesOK, NEW j \in Job, Kept(j), NEW p \in Process, NEW x, Go(p, x),
         UNCHANGED <<status, chan>>,
         on' = on \/ on' = [on EXCEPT ![p] = None],
         on[p] = j /\ at[p] \in Returning /\ status[j] = "active" =>
           x \in Returning /\ on' = on,
         on[p] = j /\ at[p] = "forgetting" => ~Queued(j)',
         Queued(j)' => Queued(j) /\ cache'[j] = cache[j],
         Queued(j) => Queued(j)' \/ (on[p] = j /\ x \in Returning /\ on' = on)
  PROVE  Kept(j)'
<1>1. /\ at'[p] = x
      /\ on' = on => on'[p] = on[p]
      /\ \A q \in Process : q # p => at'[q] = at[q] /\ on'[q] = on[q]
  BY DEF PlacesOK, Go
<1>2. Queued(j) => Queued(j)' \/ Returns(j)'
  BY <1>1 DEF Returns
<1>3. Returns(j) /\ status[j] = "active" => Returns(j)'
  BY <1>1 DEF Returns
<1>4. Forgotten(j) /\ Queued(j)' => Forgotten(j)'
  BY <1>1 DEF Forgotten
<1> QED
  BY <1>2, <1>3, <1>4, KeptQuiet

\* The queue and the cache stay as they are.
LEMMA KeptGoesBy ==
  ASSUME PlacesOK, NEW j \in Job, Kept(j), NEW p \in Process, NEW x, Go(p, x),
         UNCHANGED <<status, chan, queue, cache>>,
         on' = on \/ on' = [on EXCEPT ![p] = None],
         on[p] = j /\ at[p] \in Returning /\ status[j] = "active" =>
           x \in Returning /\ on' = on,
         at[p] # "forgetting"
  PROVE  Kept(j)'
<1>1. Queued(j)' <=> Queued(j)
  BY DEF Queued
<1> QED
  BY <1>1, KeptGoes

\* A load builds the queue and the cache from the active rows.
LEMMA KeptMerge ==
  ASSUME TypeOK, NEW j \in Job, j \notin astray', Merge
  PROVE  Kept(j)'
<1>1. /\ queue' = {<<NextOf(k), k>> : k \in {k \in Job : snap[k] # None}}
      /\ cache' = [k \in Job |-> IF k \in {l \in Job : snap[l] # None}
                                 THEN snap[k].runs ELSE None]
      /\ status' = status
      /\ snap[j] # None <=> status[j] = "active"
  BY DEF Merge
<1>2. Queued(j)' <=> snap[j] # None
  <2>1. snap[j] # None => <<NextOf(j), j>> \in queue'
    BY <1>1
  <2>2. \A e \in queue' : \E k \in Job : snap[k] # None /\ e = <<NextOf(k), k>>
    BY <1>1
  <2>3. \A x : <<x, j>>[2] = j /\ \A k \in Job : <<x, k>>[2] = k
    OBVIOUS
  <2> QED
    BY <2>1, <2>2, <2>3 DEF Queued
<1>3. snap[j] # None => cache'[j] # None
  <2>1. snap[j] # None => snap[j].runs \in Nat
    BY DEF TypeOK, LoopOK
  <2> QED
    BY <1>1, <2>1, CronAssumption
<1> QED
  BY <1>1, <1>2, <1>3 DEF Kept

\* The steps of complete_job: a job that was queued in between goes astray.
LEMMA KeptComplete ==
  ASSUME TypeOK, Busy, NEW j \in Job, j \notin astray', Kept(j), NEW p \in Process,
         Complete(p)
  PROVE  Kept(j)'
<1>0. on[p] \in Job /\ PlacesOK /\ at \in [Process -> LoopPlaces \cup TaskPlaces]
      /\ on \in [Process -> Job \cup {None}]
  BY DEF Complete, CompleteUnqueue, CompleteMark, CompleteForget, Busy, BusyPlaces,
     Process, TypeOK, PlacesOK
<1>1. CASE CompleteUnqueue(p)
  <2>1. /\ Go(p, "marking") /\ UNCHANGED <<status, chan, on, cache>>
        /\ queue' = Without(on[p]) /\ at[p] = "completing"
    BY <1>1 DEF CompleteUnqueue, rows, worker
  <2>2. Queued(j)' => Queued(j)
    BY <2>1 DEF Queued, Without
  <2>3. Queued(j) => Queued(j)' \/ on[p] = j
    BY <2>1 DEF Queued, Without
  <2> QED
    BY <1>0, <2>1, <2>2, <2>3, KeptGoes DEF Returning
<1>2. CASE CompleteMark(p)
  <2>1. /\ Go(p, "forgetting") /\ UNCHANGED <<chan, on, queue, cache>>
        /\ at[p] = "marking"
    BY <1>2 DEF CompleteMark, memory, worker
  <2>2. Queued(j)' <=> Queued(j)
    BY <2>1 DEF Queued
  <2>3. CASE on[p] = j
    <3>1. status'[j] # "active"
      BY <1>2, <2>3 DEF CompleteMark, TypeOK, RowsOK, HasRow
    <3>2. Forgotten(j)'
      BY <1>0, <2>1, <2>3 DEF Forgotten, Go
    <3> QED
      BY <2>1, <2>2, <3>1, <3>2 DEF Kept
  <2>4. CASE on[p] # j
    <3>1. status'[j] = status[j]
      BY <1>0, <1>2, <2>4 DEF CompleteMark, TypeOK, RowsOK
    <3>2. \A q \in Process : on[q] = j => at'[q] = at[q]
      BY <1>0, <2>1, <2>4 DEF Go
    <3> QED
      BY <2>1, <2>2, <3>1, <3>2 DEF Kept, Returns, Forgotten
  <2> QED
    BY <2>3, <2>4
<1>3. CASE CompleteForget(p)
  <2>1. /\ Go(p, Return(p)) /\ UNCHANGED <<status, chan, queue>>
        /\ on' = [on EXCEPT ![p] = None] /\ at[p] = "forgetting"
        /\ cache' = [cache EXCEPT ![on[p]] = None]
        /\ astray' = IF Queued(on[p]) THEN astray \cup {on[p]} ELSE astray
    BY <1>3 DEF CompleteForget, Leave, rows, worker
  <2>2. Queued(j)' <=> Queued(j)
    BY <2>1 DEF Queued
  <2>3. on[p] = j => ~Queued(j)
    BY <2>1
  <2>4. on[p] # j => cache'[j] = cache[j]
    BY <2>1, <1>0 DEF TypeOK, MemoryOK
  <2> QED
    BY <1>0, <2>1, <2>2, <2>3, <2>4, KeptGoes DEF Returning
<1> QED
  BY <1>1, <1>2, <1>3 DEF Complete

\* The loop drops the entry of a job only if that comes back, and takes it out
\* of the queue to hand it over.
LEMMA KeptLoop ==
  ASSUME Inv, IdleFree, NEW j \in Job, j \notin astray', Kept(j), ~cancelled, ~ToLoad,
         ~ToLoad', LoopStep
  PROVE  Kept(j)'
<1>0. Loop \in Process /\ PlacesOK /\ TypeOK /\ Busy
      /\ at \in [Process -> LoopPlaces \cup TaskPlaces]
      /\ on \in [Process -> Job \cup {None}]
  BY DEF Inv, TypeOK, PlacesOK, Process
<1> USE DEF Leave, rows, memory, worker
<1>1. CASE Load \/ LoadFails \/ Merge
  BY <1>1 DEF Load, LoadFails, Merge, ToLoad
<1>2. CASE Reload
  BY <1>0, <1>2 DEF Reload, ToLoad, Go
<1>3. CASE Look \/ LoopExit \/ Wake \/ Collect \/ FireEnds
  BY <1>0, <1>3, KeptGoesBy DEF Look, LoopExit, Wake, Collect, FireEnds, Returning
<1>4. CASE Drop
  <2>1. /\ Go(Loop, "each") /\ UNCHANGED <<status, chan, on, cache>>
        /\ queue' = queue \ stale /\ at[Loop] = "drop"
        /\ astray' = astray \cup {e[2] : e \in {d \in queue \cap stale : ~ToReturn(d[2])}}
    BY <1>4 DEF Drop, Fresh
  <2>2. \A p \in Process : at[p] \in Returning \cup {"forgetting"} => at'[p] = at[p]
    BY <1>0, <2>1 DEF Go, Returning
  <2>3. Queued(j)' => Queued(j)
    BY <2>1 DEF Queued
  <2>4. (Returns(j) => Returns(j)') /\ (Forgotten(j) => Forgotten(j)')
    BY <2>1, <2>2 DEF Returns, Forgotten
  <2>5. ToReturn(j) => Returns(j)
    <3>1. ASSUME NEW p \in Slot, on[p] = j,
                 at[p] \notin {"completing", "marking", "forgetting"}
          PROVE  p \in Process /\ at[p] \in Returning
      <4>1. at[p] # "idle" /\ at[p] \in TaskPlaces
        BY <1>0, <3>1, CronAssumption DEF IdleFree, PlacesOK
      <4> QED
        BY <3>1, <4>1 DEF TaskPlaces, Returning, Process
    <3> QED
      BY <3>1 DEF ToReturn, Returns
  <2>6. Queued(j) => Queued(j)' \/ Returns(j)'
    <3>1. ASSUME NEW e \in queue, e[2] = j, ~Queued(j)' PROVE ToReturn(j)
      BY <2>1, <3>1 DEF Queued
    <3> QED
      BY <2>4, <2>5, <3>1 DEF Queued
  <2> QED
    BY <2>1, <2>3, <2>4, <2>6, KeptQuiet
<1>5. ASSUME NEW k \in Job, Take(k) PROVE Kept(j)'
  <2>1. at[Loop] = "each" /\ UNCHANGED <<status, chan, queue, cache>>
    BY <1>5 DEF Take
  <2>2. \A p \in Process : at[p] \in Returning \cup {"forgetting"} =>
          at'[p] = at[p] /\ on'[p] = on[p]
    BY <1>0, <1>5, <2>1 DEF Take, Go, Returning
  <2> QED
    BY <2>1, <2>2 DEF Kept, Queued, Returns, Forgotten
<1>6. CASE FireUnqueue
  <2>1. /\ Go(Loop, "send") /\ UNCHANGED <<status, chan, on, cache>>
        /\ queue' = Without(on[Loop]) /\ at[Loop] = "unqueue"
    BY <1>6 DEF FireUnqueue
  <2>2. (Queued(j)' => Queued(j)) /\ (Queued(j) => Queued(j)' \/ on[Loop] = j)
    BY <2>1 DEF Queued, Without
  <2> QED
    BY <1>0, <2>1, <2>2, KeptGoes DEF Returning
<1>7. CASE Send
  <2>1. /\ Go(Loop, "each") /\ on' = [on EXCEPT ![Loop] = None]
        /\ UNCHANGED <<status, queue, cache>>
        /\ chan' = Append(chan, on[Loop]) /\ at[Loop] = "send"
    BY <1>7 DEF Send
  <2>2. on[Loop] \in Job /\ chan \in Seq(Job)
    BY <1>0, <2>1 DEF Busy, BusyPlaces, TypeOK, SignalsOK
  <2>3. /\ \A i \in DOMAIN chan : i \in DOMAIN chan' /\ chan'[i] = chan[i]
        /\ \E i \in DOMAIN chan' : chan'[i] = on[Loop]
    <3>1. Len(chan) + 1 \in DOMAIN chan' /\ chan'[Len(chan) + 1] = on[Loop]
      BY <2>1, <2>2
    <3> QED
      BY <2>1, <2>2, <3>1
  <2>4. \A p \in Process : p # Loop => at'[p] = at[p] /\ on'[p] = on[p]
    BY <1>0, <2>1 DEF Go
  <2>5. (Returns(j) => Returns(j)') /\ (Forgotten(j) => Forgotten(j)')
    BY <2>1, <2>3, <2>4 DEF Returns, Forgotten
  <2> QED
    BY <2>1, <2>5 DEF Kept, Queued
<1>8. CASE SendFails \/ Retry
  BY <1>8 DEF SendFails, Retry, Inv, FailsLate
<1>9. CASE Complete(Loop)
  BY <1>0, <1>9, KeptComplete
<1> QED
  BY <1>1, <1>2, <1>3, <1>4, <1>5, <1>6, <1>7, <1>8, <1>9 DEF LoopStep

\* The task of a run brings its job back, unless the row says otherwise.
LEMMA KeptTask ==
  ASSUME Inv, NEW j \in Job, j \notin astray', Kept(j), NEW p \in Slot, TaskStep(p)
  PROVE  Kept(j)'
<1>0. p \in Process /\ PlacesOK /\ TypeOK /\ Busy
      /\ at \in [Process -> LoopPlaces \cup TaskPlaces]
      /\ on \in [Process -> Job \cup {None}]
  BY DEF Inv, TypeOK, PlacesOK, Process
<1> USE DEF Leave, rows, memory, worker
<1>1. CASE Skipped(p) \/ Executed(p) \/ SelfCompleted(p)
  BY <1>0, <1>1, KeptGoesBy DEF Skipped, Executed, SelfCompleted, Returning
<1>2. CASE Release(p)
  BY <1>0, <1>2, KeptGoesBy DEF Release, Returning
<1>3. CASE Unqueue(p)
  <2>1. /\ Go(p, "read") /\ UNCHANGED <<status, chan, on, cache>>
        /\ queue' = Without(on[p]) /\ at[p] = "unqueue"
    BY <1>3 DEF Unqueue
  <2>2. (Queued(j)' => Queued(j)) /\ (Queued(j) => Queued(j)' \/ on[p] = j)
    BY <2>1 DEF Queued, Without
  <2> QED
    BY <1>0, <2>1, <2>2, KeptGoes DEF Returning
<1>4. CASE ReadInactive(p)
  BY <1>0, <1>4, KeptGoesBy DEF ReadInactive
<1>5. CASE ReadFails(p)
  BY <1>0, <1>5, KeptGoesBy DEF ReadFails
<1>6. CASE ReadSpent(p) \/ ReadActive(p) \/ Persist(p)
  BY <1>0, <1>6, KeptGoesBy DEF ReadSpent, ReadActive, Persist, Returning
<1>7. CASE Requeue(p)
  <2>1. /\ Go(p, "idle") /\ UNCHANGED <<status, chan>> /\ at[p] = "requeue"
        /\ on' = [on EXCEPT ![p] = None]
        /\ queue' = QueueOf(on[p], next[p])
        /\ cache' = IF cache[on[p]] = None THEN [cache EXCEPT ![on[p]] = copy[p]]
                                           ELSE cache
        /\ astray' = IF status[on[p]] # "active" THEN astray \cup {on[p]} ELSE astray
    BY <1>7 DEF Requeue
  <2>2. on[p] \in Job /\ copy[p] \in Nat
    BY <1>0, <2>1 DEF Busy, TypeOK, TaskOK
  <2>3. CASE on[p] = j
    <3>1. status'[j] = "active"
      BY <2>1, <2>3
    <3>2. Queued(j)'
      <4>1. CASE Queued(j)
        BY <2>1, <2>3, <4>1 DEF Queued, QueueOf
      <4>2. CASE ~Queued(j)
        <5>1. <<next[p], j>> \in queue' /\ <<next[p], j>>[2] = j
          BY <2>1, <2>3, <4>2 DEF QueueOf
        <5> QED
          BY <5>1 DEF Queued
      <4> QED
        BY <4>1, <4>2
    <3>3. cache'[j] # None
      BY <1>0, <2>1, <2>2, <2>3, CronAssumption DEF TypeOK, MemoryOK
    <3> QED
      BY <3>1, <3>2, <3>3 DEF Kept
  <2>4. CASE on[p] # j
    <3>1. (Queued(j)' <=> Queued(j)) /\ cache'[j] = cache[j]
      BY <1>0, <2>1, <2>2, <2>4 DEF Queued, QueueOf, TypeOK, MemoryOK
    <3> QED
      BY <1>0, <2>1, <2>4, <3>1, KeptGoes
  <2> QED
    BY <2>3, <2>4
<1>8. CASE Complete(p)
  BY <1>0, <1>8, KeptComplete
<1> QED
  BY <1>1, <1>2, <1>3, <1>4, <1>5, <1>6, <1>7, <1>8 DEF TaskStep

\* Once no load is due any more, there was none before, or one has ended.
LEMMA LoadFrame ==
  ASSUME TypeOK, [Next]_vars, ~cancelled', ~ToLoad'
  PROVE  \/ ~cancelled /\ ~ToLoad /\ astray \subseteq astray'
         \/ Merge
         \/ LoadFails
<1> USE CronAssumption DEF TypeOK, PlacesOK, Process, Go, Leave, ToLoad, history, signals,
      worker
<1>1. CASE LoopStep
  BY <1>1 DEF LoopStep, Load, LoadFails, Merge, Look, LoopExit, Reload, Wake, Collect,
     Drop, Take, FireEnds, FireUnqueue, Send, SendFails, Retry, Complete,
     CompleteUnqueue, CompleteMark, CompleteForget, Return, WakeUp
<1>2. ASSUME NEW p \in Slot, TaskStep(p)
      PROVE  ~cancelled /\ ~ToLoad /\ astray \subseteq astray'
  BY <1>2 DEF TaskStep, Skipped, Executed, SelfCompleted, Release, Unqueue,
     ReadInactive, ReadFails, ReadSpent, ReadActive, Persist, Requeue, Complete,
     CompleteUnqueue, CompleteMark, CompleteForget, Return, WakeUp
<1>3. CASE Recv \/ WorkerExit \/ UserStep \/ Notify \/ Tick \/ Shutdown \/ UNCHANGED vars
  BY <1>3 DEF Recv, WorkerExit, UserStep, Create, Update, Delete, Edit, Notify, Tick,
     Shutdown, vars
<1>4. CASE Restart
  BY <1>4 DEF Restart, Starting
<1> QED
  BY <1>1, <1>2, <1>3, <1>4 DEF Next

\* Memory and store agree, as far as they are to.
LEMMA KeptNext ==
  ASSUME Inv, IdleFree, NEW j \in Job, j \notin astray', Kept(j), ~cancelled, ~ToLoad,
         ~cancelled', ~ToLoad', [Next]_vars
  PROVE  Kept(j)'
<1>1. CASE LoopStep
  BY <1>1, KeptLoop
<1>2. ASSUME NEW p \in Slot, TaskStep(p) PROVE Kept(j)'
  BY <1>2, KeptTask
<1>3. CASE Recv
  <2>1. PICK p \in Slot : at[p] = "idle" /\ Leave(p, "running", Head(chan))
    BY <1>3 DEF Recv
  <2>2. chan # <<>> /\ chan' = Tail(chan) /\ UNCHANGED <<status, queue, cache>>
    BY <1>3 DEF Recv, rows, memory
  <2>3. chan \in Seq(Job) /\ PlacesOK /\ p \in Process
    BY DEF Inv, TypeOK, SignalsOK, PlacesOK, Process
  <2>4. \A i \in DOMAIN chan : chan[i] = Head(chan) \/ \E k \in DOMAIN chan' : chan'[k] = chan[i]
    <3> TAKE i \in DOMAIN chan
    <3>1. i # 1 => i - 1 \in DOMAIN chan' /\ chan'[i - 1] = chan[i]
      BY <2>2, <2>3
    <3> QED
      BY <2>2, <2>3, <3>1
  <2>5. /\ at'[p] = "running" /\ on'[p] = Head(chan)
        /\ \A q \in Process : q # p => at'[q] = at[q] /\ on'[q] = on[q]
    BY <2>1, <2>3 DEF Leave, Go, PlacesOK
  <2>6. (Returns(j) => Returns(j)') /\ (Forgotten(j) => Forgotten(j)')
    BY <2>1, <2>3, <2>4, <2>5 DEF Returns, Forgotten, Returning
  <2> QED
    BY <2>2, <2>6 DEF Kept, Queued
<1>4. CASE WorkerExit \/ UserStep \/ Notify \/ Shutdown \/ Restart
  BY <1>4, CronAssumption DEF WorkerExit, UserStep, Create, Update, Delete, Edit, Notify,
     Shutdown, Restart, Starting, ToLoad, Process
<1>5. CASE Tick \/ UNCHANGED vars
  BY <1>5 DEF Tick, vars, rows, memory, worker, Kept, Queued, Returns, Forgotten
<1> QED
  BY <1>1, <1>2, <1>3, <1>4, <1>5 DEF Next

\* The invariant of memory and store holds always.
LEMMA StoreAlways == Spec => []StoreInv
<1>1. Init => StoreInv
  <2> SUFFICES ASSUME Init PROVE StoreInv
    OBVIOUS
  <2>1. ToLoad /\ IdleFree
    BY CronAssumption DEF Init, Starting, Free, Process, ToLoad, IdleFree
  <2> QED
    BY <2>1, InitInv DEF StoreInv
<1>2. StoreInv /\ [Next]_vars => StoreInv'
  <2> SUFFICES ASSUME StoreInv, [Next]_vars PROVE StoreInv'
    OBVIOUS
  <2>1. Inv /\ TypeOK /\ PlacesOK /\ IdleFree
    BY DEF StoreInv, Inv, TypeOK
  <2>2. ASSUME ~cancelled', ~ToLoad', NEW j \in Job, j \notin astray' PROVE Kept(j)'
    <3>1. CASE Merge
      BY <2>1, <2>2, <3>1, KeptMerge
    <3>2. CASE LoadFails
      BY <2>2, <3>2 DEF LoadFails
    <3>3. CASE ~cancelled /\ ~ToLoad /\ astray \subseteq astray'
      BY <2>1, <2>2, <3>3, KeptNext DEF StoreInv
    <3> QED
      BY <2>1, <2>2, <3>1, <3>2, <3>3, LoadFrame
  <2>3. Inv' /\ IdleFree'
    BY <2>1, InvNext, IdleFreeNext
  <2> QED
    BY <2>2, <2>3 DEF StoreInv
<1> QED
  BY <1>1, <1>2, PTL DEF Spec

-----------------------------------------------------------------------------
\* The type invariant of the scheduler, its worker and the store.
THEOREM TypeCorrect == Spec => []TypeOK
<1>1. Inv => TypeOK
  BY DEF Inv
<1> QED
  BY <1>1, InvAlways, PTL

\* At most one run of a job is handed over or under way.
THEOREM NeverTwiceAtOnce == Spec => []OneRunAtATime
<1>1. Inv => OneRunAtATime
  BY DEF Inv, TypeOK, SignalsOK, OneRunAtATime, OneCarrier, Carries, Executing,
     Process, Range
<1> QED
  BY <1>1, InvAlways, PTL

\* A job is queued at most once, until the daemon shuts down.
THEOREM NeverQueuedTwice == Spec => []QueuedOnce
<1>1. Inv => QueuedOnce
  BY DEF Inv
<1> QED
  BY <1>1, InvAlways, PTL

\* The loop does not sleep through a queued entry that nobody wakes it for.
THEOREM NeverOversleeps == Spec => []SleepsNoLonger
<1>1. Inv => SleepsNoLonger
  BY DEF Inv
<1> QED
  BY <1>1, InvAlways, PTL

\* A job is not run more often than its limit says, up to those whose cached
\* count had been passed or that were collected too early.
THEOREM NeverTooOften == Spec => []WithinLimit
<1>1. LimitInv => WithinLimit
  BY DEF LimitInv, Counted, WithinLimit
<1> QED
  BY <1>1, LimitAlways, PTL

\* At rest, the scheduler's memory holds exactly the active jobs of the store, up to
\* those that a race or a fault has led astray.
THEOREM KeepsInStep == Spec => []MemoryMatchesStore
<1>1. StoreInv => MemoryMatchesStore
  <2> SUFFICES ASSUME StoreInv, AtRest, NEW j \in Job, j \notin astray
               PROVE  (Queued(j) <=> status[j] = "active") /\ (Queued(j) => cache[j] # None)
    BY DEF MemoryMatchesStore
  <2>1. Kept(j)
    BY CronAssumption DEF StoreInv, AtRest, ToLoad
  <2>2. ~Returns(j) /\ ~Forgotten(j)
    BY DEF AtRest, Returns, Forgotten, Returning, Process
  <2> QED
    BY <2>1, <2>2 DEF Kept
<1> QED
  BY <1>1, StoreAlways, PTL
=============================================================================
