--------------------------- MODULE ConductorProofs ---------------------------
(***************************************************************************)
(* Proofs about Conductor, for any number of inputs, cancels, edits and    *)
(* ticks.                                                                  *)
(***************************************************************************)
EXTENDS Conductor, TLAPS

-----------------------------------------------------------------------------
(***************************************************************************)
(* The inductive invariant.                                                *)
(***************************************************************************)
Spawning(t) == at[t] \in {"spawning", "entering"}
Removing(c) == at[c] \in {"locking", "removing"}

\* An agent lives after its task is done, has a mailbox, and is the only kind
\* that the map holds and a cancel can hit; a Cancel takes one agent at most.
Shape ==
  /\ \A t \in Task : agent[t] # "unborn" => at[t] = "done" /\ mb[t] # None
  /\ \A t \in Task : token[t] => agent[t] # "unborn"
  /\ active # None => agent[active] # "unborn"
  /\ \A c \in Stop : at[c] = "new" \/ Removing(c) => victim[c] = None

\* One task spawns at a time, holds the lock while it does, and still finds
\* the map vacant when it comes to enter its agent.
LockHeld ==
  ~swept =>
    /\ \A t \in Task : Spawning(t) => locked = t /\ Vacant
    /\ locked # None => Spawning(locked)

\* Whoever still uses a mailbox uses the one in the map.
OneBox ==
  ~swept =>
    /\ \A t \in Task : mb[t] # None /\ (at[t] # "done" \/ Live(t)) => mb[t] = boxed
    /\ into # None => into = boxed

\* A live agent that is cancelled and still in the map has a Cancel after it
\* which holds its mailbox.
Chased ==
  ~swept /\ Intake /\ active # None =>
    (Live(active) /\ token[active] => \E c \in Stop : Removing(c) /\ mb[c] # None)

\* There is mail in b, or there will be when a user's edit puts it back.
Wanted(b) == mail[b] # {} \/ (hand # None /\ into = b)

\* Attended, and a Cancel before its wait counts only while there is an agent
\* for it to take.
Secured(b) ==
  \/ \E a \in Task :
       agent[a] \in {"idle", "running", "winding"} /\ ~token[a] /\ mb[a] = b
  \/ \E t \in Task : at[t] \in {"waking", "spawning", "entering", "waiting"} /\ mb[t] = b
  \/ active # None /\ \E c \in Stop : Removing(c) /\ mb[c] = b

Excused == overtaken \/ swept \/ Mailless \/ fumbled

WantedIsSecured == \A b \in Msg : Wanted(b) /\ Intake => Secured(b) \/ Excused

\* The Cancel of delete_session follows the tombstone, after which only late
\* wakes spawn.
Deletion ==
  /\ DeleteStop # None /\ ~deleted => at[DeleteStop] = "new"
  /\ deleted => DeleteStop # None
  /\ deleted => \A t \in Task : Spawning(t) => t \in late
  /\ deleted /\ at[DeleteStop] # "new" =>
       \A a \in Task : Live(a) => token[a] \/ a \in misfired \cup late \/ swept

\* Every live agent is in the map, in the hands of Kernel::stop, or in those of
\* a Cancel; what Kernel::stop and the shutdown arm have waited for is finished.
Shutdown ==
  /\ stopping \in {"up", "closing"} => joined = None
  /\ stopping \in {"arm", "down"} /\ ~timedOut /\ joined # None => Finished(joined)
  /\ ~swept => \A a \in Task : Live(a) =>
                 a = active \/ a = joined \/ \E c \in Stop : victim[c] = a
  /\ stopping = "down" => \A t \in Task : at[t] = "entering" => t \in escaping
  /\ stopping = "down" /\ ~timedOut /\ active # None =>
       Finished(active) \/ active \in escaping

Inv ==
  /\ TypeOK
  /\ Shape
  /\ LockHeld
  /\ OneBox
  /\ Chased
  /\ WantedIsSecured
  /\ UncancelledIsTracked
  /\ Deletion
  /\ Shutdown

-----------------------------------------------------------------------------
\* Every step keeps the types.
LEMMA TypeStep ==
  ASSUME TypeOK, [Next]_vars
  PROVE  TypeOK'
<1> USE ConductorAssumption
<1>1. ASSUME NEW m \in Msg, Receive(m) PROVE TypeOK'
  BY <1>1 DEF Receive, Clear, Go, TypeOK, Task, TaskStates, AgentStates, maps,
     kernel, edit, history, vars
<1>2. ASSUME NEW m \in Msg, Box(m) PROVE TypeOK'
  BY <1>2 DEF Box, Go, TypeOK, Task, TaskStates, AgentStates, maps, kernel,
     edit, history, vars
<1>3. ASSUME NEW m \in Msg, Push(m) PROVE TypeOK'
  BY <1>3 DEF Push, Go, TypeOK, Task, TaskStates, AgentStates, maps, kernel,
     edit, history, vars
<1>4. ASSUME NEW t \in Task, Wake(t) PROVE TypeOK'
  <2>1. CASE ~Intake
    BY <1>4, <2>1 DEF Wake, Go, TypeOK, Task, TaskStates, AgentStates, maps, kernel, edit, history
  <2>2. CASE Intake /\ Tombstoned
    BY <1>4, <2>2 DEF Wake, Go, Clear, TypeOK, Task, TaskStates, AgentStates, maps, kernel, edit, history
  <2>3. CASE Intake /\ ~Tombstoned
    <3>1. (overtaken' = overtaken \/ overtaken' = (overtaken \/ agent[active] = "leaving"))
          /\ fumbled' = fumbled /\ mail' = mail
      BY <1>4, <2>3 DEF Wake
    <3>2. overtaken' \in BOOLEAN
      BY <3>1 DEF TypeOK
    <3> QED
      BY <1>4, <2>3, <3>1, <3>2 DEF Wake, Go, TypeOK, Task, TaskStates, AgentStates, maps, kernel, edit, history
  <2> QED
    BY <2>1, <2>2, <2>3
<1>5. ASSUME NEW t \in Task, Spawn(t) PROVE TypeOK'
  BY <1>5 DEF Spawn, Go, Unlock, MaySpawn, Intake, TypeOK, Task, TaskStates,
     AgentStates, maps, kernel, edit, history, vars
<1>6. ASSUME NEW t \in Task, Enter(t) PROVE TypeOK'
  BY <1>6 DEF Enter, Go, Unlock, TypeOK, Task, TaskStates, AgentStates, maps,
     kernel, edit, history, vars
<1>7. ASSUME NEW c \in Stop, Cancel(c) PROVE TypeOK'
  BY <1>7 DEF Cancel, Go, Receives, TypeOK, Task, TaskStates, AgentStates,
     maps, kernel, edit, history, vars
<1>8. ASSUME NEW c \in Stop, ClearMail(c) PROVE TypeOK'
  BY <1>8 DEF ClearMail, Clear, Go, TypeOK, Task, TaskStates, AgentStates,
     maps, kernel, edit, history, vars
<1>9. ASSUME NEW c \in Stop, Remove(c) PROVE TypeOK'
  BY <1>9 DEF Remove, Go, TypeOK, Task, TaskStates, AgentStates, maps, kernel,
     edit, history, vars
<1>10. ASSUME NEW c \in Stop, Waited(c) PROVE TypeOK'
  BY <1>10 DEF Waited, EndWait, HasMail, Clear, Go, TypeOK, Task, TaskStates,
     AgentStates, maps, kernel, edit, history, vars
<1>11. ASSUME NEW c \in Stop, Detach(c) PROVE TypeOK'
  BY <1>11 DEF Detach, EndWait, HasMail, Clear, Go, TypeOK, Task, TaskStates,
     AgentStates, maps, kernel, edit, history, vars
<1>12. ASSUME NEW a \in Task, Pull(a) PROVE TypeOK'
  BY <1>12 DEF Pull, Step, TypeOK, Task, TaskStates, AgentStates, maps,
     kernel, edit, history, vars
<1>13. ASSUME NEW a \in Task, PullSteers(a) PROVE TypeOK'
  <2>1. mail' \in [Msg -> SUBSET Msg]
    <3>1. CASE mb[a] \in Msg
      BY <1>13, <3>1 DEF PullSteers, TypeOK
    <3>2. CASE mb[a] \notin Msg
      BY <1>13, <3>2 DEF PullSteers, TypeOK
    <3> QED
      BY <3>1, <3>2
  <2> QED
    BY <1>13, <2>1 DEF PullSteers, TypeOK, Task, TaskStates, AgentStates, maps, kernel, edit, history
<1>14. ASSUME NEW a \in Task, EndRun(a) PROVE TypeOK'
  BY <1>14 DEF EndRun, Step, TypeOK, Task, TaskStates, AgentStates, maps,
     kernel, edit, history, vars
<1>15. ASSUME NEW a \in Task, WoundDown(a) PROVE TypeOK'
  BY <1>15 DEF WoundDown, Step, TypeOK, Task, TaskStates, AgentStates, maps,
     kernel, edit, history, vars
<1>16. ASSUME NEW a \in Task, Leave(a) PROVE TypeOK'
  BY <1>16 DEF Leave, Step, MayLeave, TypeOK, Task, TaskStates, AgentStates,
     maps, kernel, edit, history, vars
<1>17. ASSUME NEW a \in Task, Finish(a) PROVE TypeOK'
  BY <1>17 DEF Finish, Step, TypeOK, Task, TaskStates, AgentStates, maps,
     kernel, edit, history, vars
<1>18. ASSUME NEW m \in Msg, TakeItem(m) PROVE TypeOK'
  BY <1>18 DEF TakeItem, TypeOK, Task, TaskStates, AgentStates, maps, kernel,
     edit, history, vars
<1>19. CASE PutItem
  BY <1>19 DEF PutItem, TypeOK, Task, TaskStates, AgentStates, maps, kernel,
     edit, history, vars
<1>20. CASE Withdraw
  BY <1>20 DEF Withdraw, TypeOK, Task, TaskStates, AgentStates, maps, kernel,
     edit, history, vars
<1>21. CASE Sweep
  BY <1>21 DEF Sweep, Receives, TypeOK, Task, TaskStates, AgentStates, maps,
     kernel, edit, history, vars
<1>22. CASE Delete
  BY <1>22 DEF Delete, TypeOK, Task, TaskStates, AgentStates, maps, kernel,
     edit, history, vars
<1>23. CASE DeleteRows
  BY <1>23 DEF DeleteRows, TypeOK, Task, TaskStates, AgentStates, maps,
     kernel, edit, history, vars
<1>24. CASE CloseIntake
  BY <1>24 DEF CloseIntake, TypeOK, Task, TaskStates, AgentStates, maps,
     kernel, edit, history, vars
<1>25. CASE ArmCancels
  BY <1>25 DEF ArmCancels, TypeOK, Task, TaskStates, AgentStates, maps,
     kernel, edit, history, vars
<1>26. CASE Joined
  BY <1>26 DEF Joined, TypeOK, Task, TaskStates, AgentStates, maps, kernel,
     edit, history, vars
<1>27. CASE ShutdownAgents
  BY <1>27 DEF ShutdownAgents, TypeOK, Task, TaskStates, AgentStates, maps,
     kernel, edit, history, vars
<1>28. CASE ArmEnds
  BY <1>28 DEF ArmEnds, TypeOK, Task, TaskStates, AgentStates, maps, kernel,
     edit, history, vars
<1>29. CASE UNCHANGED vars
  BY <1>29 DEF TypeOK, Task, TaskStates, AgentStates, maps, kernel, edit,
     history, vars
<1> QED
  BY <1>1, <1>2, <1>3, <1>4, <1>5, <1>6, <1>7, <1>8, <1>9, <1>10, <1>11,
     <1>12, <1>13, <1>14, <1>15, <1>16, <1>17, <1>18, <1>19, <1>20, <1>21,
     <1>22, <1>23, <1>24, <1>25, <1>26, <1>27, <1>28, <1>29 DEF Next,
     TaskStep, AgentStep, StopStep, Task

\* Every step keeps the shape.
LEMMA ShapeStep ==
  ASSUME TypeOK, Shape, [Next]_vars
  PROVE  Shape'
<1> USE ConductorAssumption
<1>1. ASSUME NEW m \in Msg, Receive(m) PROVE Shape'
  BY <1>1 DEF Receive, Clear, Go, TypeOK, Task, TaskStates, AgentStates,
     Shape, Removing, maps, kernel, edit, history, vars
<1>2. ASSUME NEW m \in Msg, Box(m) PROVE Shape'
  BY <1>2 DEF Box, Go, TypeOK, Task, TaskStates, AgentStates, Shape, Removing,
     maps, kernel, edit, history, vars
<1>3. ASSUME NEW m \in Msg, Push(m) PROVE Shape'
  BY <1>3 DEF Push, Go, TypeOK, Task, TaskStates, AgentStates, Shape,
     Removing, maps, kernel, edit, history, vars
<1>4. ASSUME NEW t \in Task, Wake(t) PROVE Shape'
  BY <1>4 DEF Wake, Clear, Go, Intake, Tombstoned, TypeOK, Task, TaskStates,
     AgentStates, Shape, Removing, maps, kernel, edit, history, vars
<1>5. ASSUME NEW t \in Task, Spawn(t) PROVE Shape'
  BY <1>5 DEF Spawn, Go, Unlock, MaySpawn, Intake, TypeOK, Task, TaskStates,
     AgentStates, Shape, Removing, maps, kernel, edit, history, vars
<1>6. ASSUME NEW t \in Task, Enter(t) PROVE Shape'
  BY <1>6 DEF Enter, Go, Unlock, TypeOK, Task, TaskStates, AgentStates, Shape,
     Removing, maps, kernel, edit, history, vars
<1>7. ASSUME NEW c \in Stop, Cancel(c) PROVE Shape'
  BY <1>7 DEF Cancel, Go, Receives, TypeOK, Task, TaskStates, AgentStates,
     Shape, Removing, maps, kernel, edit, history, vars
<1>8. ASSUME NEW c \in Stop, ClearMail(c) PROVE Shape'
  BY <1>8 DEF ClearMail, Clear, Go, TypeOK, Task, TaskStates, AgentStates,
     Shape, Removing, maps, kernel, edit, history, vars
<1>9. ASSUME NEW c \in Stop, Remove(c) PROVE Shape'
  BY <1>9 DEF Remove, Go, TypeOK, Task, TaskStates, AgentStates, Shape,
     Removing, maps, kernel, edit, history, vars
<1>10. ASSUME NEW c \in Stop, Waited(c) PROVE Shape'
  BY <1>10 DEF Waited, EndWait, HasMail, Clear, Go, TypeOK, Task, TaskStates,
     AgentStates, Shape, Removing, maps, kernel, edit, history, vars
<1>11. ASSUME NEW c \in Stop, Detach(c) PROVE Shape'
  BY <1>11 DEF Detach, EndWait, HasMail, Clear, Go, TypeOK, Task, TaskStates,
     AgentStates, Shape, Removing, maps, kernel, edit, history, vars
<1>12. ASSUME NEW a \in Task, Pull(a) PROVE Shape'
  BY <1>12 DEF Pull, Step, TypeOK, Task, TaskStates, AgentStates, Shape,
     Removing, maps, kernel, edit, history, vars
<1>13. ASSUME NEW a \in Task, EndRun(a) PROVE Shape'
  BY <1>13 DEF EndRun, Step, TypeOK, Task, TaskStates, AgentStates, Shape,
     Removing, maps, kernel, edit, history, vars
<1>14. ASSUME NEW a \in Task, WoundDown(a) PROVE Shape'
  BY <1>14 DEF WoundDown, Step, TypeOK, Task, TaskStates, AgentStates, Shape,
     Removing, maps, kernel, edit, history, vars
<1>15. ASSUME NEW a \in Task, Leave(a) PROVE Shape'
  BY <1>15 DEF Leave, Step, MayLeave, TypeOK, Task, TaskStates, AgentStates,
     Shape, Removing, maps, kernel, edit, history, vars
<1>16. ASSUME NEW a \in Task, Finish(a) PROVE Shape'
  BY <1>16 DEF Finish, Step, TypeOK, Task, TaskStates, AgentStates, Shape,
     Removing, maps, kernel, edit, history, vars
<1>17. CASE Sweep
  BY <1>17 DEF Sweep, Receives, TypeOK, Task, TaskStates, AgentStates, Shape,
     Removing, maps, kernel, edit, history, vars
<1>18. CASE ShutdownAgents
  BY <1>18 DEF ShutdownAgents, TypeOK, Task, TaskStates, AgentStates, Shape,
     Removing, maps, kernel, edit, history, vars
<1>19. CASE ArmCancels
  BY <1>19 DEF ArmCancels, TypeOK, Task, TaskStates, AgentStates, Shape,
     Removing, maps, kernel, edit, history, vars
<1>20. ASSUME NEW m \in Msg, TakeItem(m) PROVE Shape'
  BY <1>20 DEF TakeItem, TypeOK, Task, TaskStates, AgentStates, Shape,
     Removing, maps, kernel, edit, history, vars
<1>21. ASSUME NEW a \in Task, PullSteers(a) PROVE Shape'
  BY <1>21 DEF PullSteers, TypeOK, Task, TaskStates, AgentStates, Shape,
     Removing, maps, kernel, edit, history, vars
<1>22. CASE PutItem \/ Withdraw \/ Delete \/ DeleteRows
  BY <1>22 DEF PutItem, Withdraw, Delete, DeleteRows, TypeOK, Task,
     TaskStates, AgentStates, Shape, Removing, maps, kernel, edit, history,
     vars
<1>23. CASE CloseIntake \/ Joined \/ ArmEnds
  BY <1>23 DEF CloseIntake, Joined, ArmEnds, TypeOK, Task, TaskStates,
     AgentStates, Shape, Removing, maps, kernel, edit, history, vars
<1>24. CASE UNCHANGED vars
  BY <1>24 DEF TypeOK, Task, TaskStates, AgentStates, Shape, Removing, maps,
     kernel, edit, history, vars
<1> QED
  BY <1>1, <1>2, <1>3, <1>4, <1>5, <1>6, <1>7, <1>8, <1>9, <1>10, <1>11,
     <1>12, <1>13, <1>14, <1>15, <1>16, <1>17, <1>18, <1>19, <1>20, <1>21,
     <1>22, <1>23, <1>24 DEF Next, TaskStep, AgentStep, StopStep, Task

\* Every step keeps the lock with the one task that spawns.
LEMMA LockStep ==
  ASSUME TypeOK, Shape, LockHeld, [Next]_vars
  PROVE  LockHeld'
<1> USE ConductorAssumption
<1>1. ASSUME NEW m \in Msg, Receive(m) PROVE LockHeld'
  BY <1>1 DEF Receive, Clear, Go, TypeOK, Task, TaskStates, AgentStates,
     Shape, Removing, LockHeld, Spawning, Vacant, Finished, maps, kernel,
     edit, history, vars
<1>2. ASSUME NEW m \in Msg, Box(m) PROVE LockHeld'
  BY <1>2 DEF Box, Go, TypeOK, Task, TaskStates, AgentStates, Shape, Removing,
     LockHeld, Spawning, Vacant, Finished, maps, kernel, edit, history, vars
<1>3. ASSUME NEW m \in Msg, Push(m) PROVE LockHeld'
  BY <1>3 DEF Push, Go, TypeOK, Task, TaskStates, AgentStates, Shape,
     Removing, LockHeld, Spawning, Vacant, Finished, maps, kernel, edit,
     history, vars
<1>4. ASSUME NEW t \in Task, Wake(t) PROVE LockHeld'
  BY <1>4 DEF Wake, Clear, Go, Intake, Tombstoned, TypeOK, Task, TaskStates,
     AgentStates, Shape, Removing, LockHeld, Spawning, Vacant, Finished, maps,
     kernel, edit, history, vars
<1>5. ASSUME NEW t \in Task, Spawn(t) PROVE LockHeld'
  BY <1>5 DEF Spawn, Go, Unlock, MaySpawn, Intake, TypeOK, Task, TaskStates,
     AgentStates, Shape, Removing, LockHeld, Spawning, Vacant, Finished, maps,
     kernel, edit, history, vars
<1>6. ASSUME NEW t \in Task, Enter(t) PROVE LockHeld'
  BY <1>6 DEF Enter, Go, Unlock, TypeOK, Task, TaskStates, AgentStates, Shape,
     Removing, LockHeld, Spawning, Vacant, Finished, maps, kernel, edit,
     history, vars
<1>7. ASSUME NEW c \in Stop, Cancel(c) PROVE LockHeld'
  BY <1>7 DEF Cancel, Go, Receives, TypeOK, Task, TaskStates, AgentStates,
     Shape, Removing, LockHeld, Spawning, Vacant, Finished, maps, kernel,
     edit, history, vars
<1>8. ASSUME NEW c \in Stop, ClearMail(c) PROVE LockHeld'
  BY <1>8 DEF ClearMail, Clear, Go, TypeOK, Task, TaskStates, AgentStates,
     Shape, Removing, LockHeld, Spawning, Vacant, Finished, maps, kernel,
     edit, history, vars
<1>9. ASSUME NEW c \in Stop, Remove(c) PROVE LockHeld'
  BY <1>9 DEF Remove, Go, TypeOK, Task, TaskStates, AgentStates, Shape,
     Removing, LockHeld, Spawning, Vacant, Finished, maps, kernel, edit,
     history, vars
<1>10. ASSUME NEW c \in Stop, Waited(c) PROVE LockHeld'
  BY <1>10 DEF Waited, EndWait, HasMail, Clear, Go, TypeOK, Task, TaskStates,
     AgentStates, Shape, Removing, LockHeld, Spawning, Vacant, Finished, maps,
     kernel, edit, history, vars
<1>11. ASSUME NEW c \in Stop, Detach(c) PROVE LockHeld'
  BY <1>11 DEF Detach, EndWait, HasMail, Clear, Go, TypeOK, Task, TaskStates,
     AgentStates, Shape, Removing, LockHeld, Spawning, Vacant, Finished, maps,
     kernel, edit, history, vars
<1>12. ASSUME NEW a \in Task, Pull(a) PROVE LockHeld'
  BY <1>12 DEF Pull, Step, TypeOK, Task, TaskStates, AgentStates, Shape,
     Removing, LockHeld, Spawning, Vacant, Finished, maps, kernel, edit,
     history, vars
<1>13. ASSUME NEW a \in Task, EndRun(a) PROVE LockHeld'
  BY <1>13 DEF EndRun, Step, TypeOK, Task, TaskStates, AgentStates, Shape,
     Removing, LockHeld, Spawning, Vacant, Finished, maps, kernel, edit,
     history, vars
<1>14. ASSUME NEW a \in Task, WoundDown(a) PROVE LockHeld'
  BY <1>14 DEF WoundDown, Step, TypeOK, Task, TaskStates, AgentStates, Shape,
     Removing, LockHeld, Spawning, Vacant, Finished, maps, kernel, edit,
     history, vars
<1>15. ASSUME NEW a \in Task, Leave(a) PROVE LockHeld'
  BY <1>15 DEF Leave, Step, MayLeave, TypeOK, Task, TaskStates, AgentStates,
     Shape, Removing, LockHeld, Spawning, Vacant, Finished, maps, kernel,
     edit, history, vars
<1>16. ASSUME NEW a \in Task, Finish(a) PROVE LockHeld'
  BY <1>16 DEF Finish, Step, TypeOK, Task, TaskStates, AgentStates, Shape,
     Removing, LockHeld, Spawning, Vacant, Finished, maps, kernel, edit,
     history, vars
<1>17. CASE Sweep
  BY <1>17 DEF Sweep, Receives, TypeOK, Task, TaskStates, AgentStates, Shape,
     Removing, LockHeld, Spawning, Vacant, Finished, maps, kernel, edit,
     history, vars
<1>18. CASE ShutdownAgents
  BY <1>18 DEF ShutdownAgents, TypeOK, Task, TaskStates, AgentStates, Shape,
     Removing, LockHeld, Spawning, Vacant, Finished, maps, kernel, edit,
     history, vars
<1>19. CASE ArmCancels
  BY <1>19 DEF ArmCancels, TypeOK, Task, TaskStates, AgentStates, Shape,
     Removing, LockHeld, Spawning, Vacant, Finished, maps, kernel, edit,
     history, vars
<1>20. ASSUME NEW m \in Msg, TakeItem(m) PROVE LockHeld'
  BY <1>20 DEF TakeItem, TypeOK, Task, TaskStates, AgentStates, Shape,
     Removing, LockHeld, Spawning, Vacant, Finished, maps, kernel, edit,
     history, vars
<1>21. ASSUME NEW a \in Task, PullSteers(a) PROVE LockHeld'
  BY <1>21 DEF PullSteers, TypeOK, Task, TaskStates, AgentStates, Shape,
     Removing, LockHeld, Spawning, Vacant, Finished, maps, kernel, edit,
     history, vars
<1>22. CASE PutItem \/ Withdraw \/ Delete \/ DeleteRows
  BY <1>22 DEF PutItem, Withdraw, Delete, DeleteRows, TypeOK, Task,
     TaskStates, AgentStates, Shape, Removing, LockHeld, Spawning, Vacant,
     Finished, maps, kernel, edit, history, vars
<1>23. CASE CloseIntake \/ Joined \/ ArmEnds
  BY <1>23 DEF CloseIntake, Joined, ArmEnds, TypeOK, Task, TaskStates,
     AgentStates, Shape, Removing, LockHeld, Spawning, Vacant, Finished, maps,
     kernel, edit, history, vars
<1>24. CASE UNCHANGED vars
  BY <1>24 DEF TypeOK, Task, TaskStates, AgentStates, Shape, Removing,
     LockHeld, Spawning, Vacant, Finished, maps, kernel, edit, history, vars
<1> QED
  BY <1>1, <1>2, <1>3, <1>4, <1>5, <1>6, <1>7, <1>8, <1>9, <1>10, <1>11,
     <1>12, <1>13, <1>14, <1>15, <1>16, <1>17, <1>18, <1>19, <1>20, <1>21,
     <1>22, <1>23, <1>24 DEF Next, TaskStep, AgentStep, StopStep, Task

\* Every step leaves the uncancelled agents tracked.
LEMMA TrackedStep ==
  ASSUME TypeOK, Shape, LockHeld, UncancelledIsTracked, [Next]_vars
  PROVE  UncancelledIsTracked'
<1> USE ConductorAssumption
<1>1. ASSUME NEW t \in Task, Enter(t) PROVE UncancelledIsTracked'
  BY <1>1 DEF Enter, Go, Unlock, TypeOK, Task, Shape, LockHeld, Spawning,
     Vacant, Finished, Live, UncancelledIsTracked, maps, kernel, edit,
     history, vars
<1>2. ASSUME NEW c \in Stop, Cancel(c) PROVE UncancelledIsTracked'
  BY <1>2 DEF Cancel, Go, Receives, TypeOK, Task, Shape, LockHeld, Spawning,
     Vacant, Finished, Live, UncancelledIsTracked, maps, kernel, edit,
     history, vars
<1>3. ASSUME NEW c \in Stop, Remove(c) PROVE UncancelledIsTracked'
  BY <1>3 DEF Remove, Go, TypeOK, Task, Shape, LockHeld, Spawning, Vacant,
     Finished, Live, UncancelledIsTracked, maps, kernel, edit, history, vars
<1>4. ASSUME NEW a \in Task, Pull(a) PROVE UncancelledIsTracked'
  BY <1>4 DEF Pull, Step, TypeOK, Task, Shape, LockHeld, Spawning, Vacant,
     Finished, Live, UncancelledIsTracked, maps, kernel, edit, history, vars
<1>5. ASSUME NEW a \in Task, EndRun(a) PROVE UncancelledIsTracked'
  BY <1>5 DEF EndRun, Step, TypeOK, Task, Shape, LockHeld, Spawning, Vacant,
     Finished, Live, UncancelledIsTracked, maps, kernel, edit, history, vars
<1>6. ASSUME NEW a \in Task, WoundDown(a) PROVE UncancelledIsTracked'
  BY <1>6 DEF WoundDown, Step, TypeOK, Task, Shape, LockHeld, Spawning,
     Vacant, Finished, Live, UncancelledIsTracked, maps, kernel, edit,
     history, vars
<1>7. ASSUME NEW a \in Task, Leave(a) PROVE UncancelledIsTracked'
  BY <1>7 DEF Leave, Step, MayLeave, TypeOK, Task, Shape, LockHeld, Spawning,
     Vacant, Finished, Live, UncancelledIsTracked, maps, kernel, edit,
     history, vars
<1>8. ASSUME NEW a \in Task, Finish(a) PROVE UncancelledIsTracked'
  BY <1>8 DEF Finish, Step, TypeOK, Task, Shape, LockHeld, Spawning, Vacant,
     Finished, Live, UncancelledIsTracked, maps, kernel, edit, history, vars
<1>9. CASE Sweep
  BY <1>9 DEF Sweep, Receives, TypeOK, Task, Shape, LockHeld, Spawning,
     Vacant, Finished, Live, UncancelledIsTracked, maps, kernel, edit,
     history, vars
<1>10. CASE ShutdownAgents
  BY <1>10 DEF ShutdownAgents, TypeOK, Task, Shape, LockHeld, Spawning,
     Vacant, Finished, Live, UncancelledIsTracked, maps, kernel, edit,
     history, vars
<1>11. CASE ArmCancels
  BY <1>11 DEF ArmCancels, TypeOK, Task, Shape, LockHeld, Spawning, Vacant,
     Finished, Live, UncancelledIsTracked, maps, kernel, edit, history, vars
<1>12. ASSUME NEW m \in Msg, Receive(m) \/ Box(m) \/ Push(m) \/ TakeItem(m)
   PROVE UncancelledIsTracked'
  BY <1>12 DEF Receive, Clear, Go, Box, Push, TakeItem, TypeOK, Task, Shape,
     LockHeld, Spawning, Vacant, Finished, Live, UncancelledIsTracked, maps,
     kernel, edit, history, vars
<1>13. ASSUME NEW c \in Stop, ClearMail(c) \/ Waited(c) \/ Detach(c) PROVE
   UncancelledIsTracked'
  BY <1>13 DEF ClearMail, Clear, Go, Waited, EndWait, HasMail, Detach, TypeOK,
     Task, Shape, LockHeld, Spawning, Vacant, Finished, Live,
     UncancelledIsTracked, maps, kernel, edit, history, vars
<1>14. ASSUME NEW a \in Task, Wake(a) \/ Spawn(a) \/ PullSteers(a) PROVE
   UncancelledIsTracked'
  BY <1>14 DEF Wake, Clear, Go, Intake, Tombstoned, Spawn, Unlock, MaySpawn,
     PullSteers, TypeOK, Task, Shape, LockHeld, Spawning, Vacant, Finished,
     Live, UncancelledIsTracked, maps, kernel, edit, history, vars
<1>15. CASE PutItem \/ Withdraw \/ Delete \/ DeleteRows
  BY <1>15 DEF PutItem, Withdraw, Delete, DeleteRows, TypeOK, Task, Shape,
     LockHeld, Spawning, Vacant, Finished, Live, UncancelledIsTracked, maps,
     kernel, edit, history, vars
<1>16. CASE CloseIntake \/ Joined \/ ArmEnds
  BY <1>16 DEF CloseIntake, Joined, ArmEnds, TypeOK, Task, Shape, LockHeld,
     Spawning, Vacant, Finished, Live, UncancelledIsTracked, maps, kernel,
     edit, history, vars
<1>17. CASE UNCHANGED vars
  BY <1>17 DEF TypeOK, Task, Shape, LockHeld, Spawning, Vacant, Finished,
     Live, UncancelledIsTracked, maps, kernel, edit, history, vars
<1> QED
  BY <1>1, <1>2, <1>3, <1>4, <1>5, <1>6, <1>7, <1>8, <1>9, <1>10, <1>11,
     <1>12, <1>13, <1>14, <1>15, <1>16, <1>17 DEF Next, TaskStep, AgentStep,
     StopStep, Task

\* Every step leaves one mailbox in use.
LEMMA OneBoxStep ==
  ASSUME TypeOK, Shape, OneBox, [Next]_vars
  PROVE  OneBox'
<1> USE ConductorAssumption
<1>1. ASSUME NEW m \in Msg, Receive(m) PROVE OneBox'
  BY <1>1 DEF Receive, Clear, Go, TypeOK, Task, TaskStates, AgentStates,
     Shape, Removing, OneBox, Live, InUse, maps, kernel, edit, history, vars
<1>2. ASSUME NEW m \in Msg, Box(m) PROVE OneBox'
  BY <1>2 DEF Box, Go, TypeOK, Task, TaskStates, AgentStates, Shape, Removing,
     OneBox, Live, InUse, maps, kernel, edit, history, vars
<1>3. ASSUME NEW m \in Msg, Push(m) PROVE OneBox'
  BY <1>3 DEF Push, Go, TypeOK, Task, TaskStates, AgentStates, Shape,
     Removing, OneBox, Live, InUse, maps, kernel, edit, history, vars
<1>4. ASSUME NEW t \in Task, Wake(t) PROVE OneBox'
  BY <1>4 DEF Wake, Clear, Go, Intake, Tombstoned, TypeOK, Task, TaskStates,
     AgentStates, Shape, Removing, OneBox, Live, InUse, maps, kernel, edit,
     history, vars
<1>5. ASSUME NEW t \in Task, Spawn(t) PROVE OneBox'
  BY <1>5 DEF Spawn, Go, Unlock, MaySpawn, Intake, TypeOK, Task, TaskStates,
     AgentStates, Shape, Removing, OneBox, Live, InUse, maps, kernel, edit,
     history, vars
<1>6. ASSUME NEW t \in Task, Enter(t) PROVE OneBox'
  BY <1>6 DEF Enter, Go, Unlock, TypeOK, Task, TaskStates, AgentStates, Shape,
     Removing, OneBox, Live, InUse, maps, kernel, edit, history, vars
<1>7. ASSUME NEW c \in Stop, Cancel(c) PROVE OneBox'
  BY <1>7 DEF Cancel, Go, Receives, TypeOK, Task, TaskStates, AgentStates,
     Shape, Removing, OneBox, Live, InUse, maps, kernel, edit, history, vars
<1>8. ASSUME NEW c \in Stop, ClearMail(c) PROVE OneBox'
  BY <1>8 DEF ClearMail, Clear, Go, TypeOK, Task, TaskStates, AgentStates,
     Shape, Removing, OneBox, Live, InUse, maps, kernel, edit, history, vars
<1>9. ASSUME NEW c \in Stop, Remove(c) PROVE OneBox'
  BY <1>9 DEF Remove, Go, TypeOK, Task, TaskStates, AgentStates, Shape,
     Removing, OneBox, Live, InUse, maps, kernel, edit, history, vars
<1>10. ASSUME NEW c \in Stop, Waited(c) PROVE OneBox'
  BY <1>10 DEF Waited, EndWait, HasMail, Clear, Go, TypeOK, Task, TaskStates,
     AgentStates, Shape, Removing, OneBox, Live, InUse, maps, kernel, edit,
     history, vars
<1>11. ASSUME NEW c \in Stop, Detach(c) PROVE OneBox'
  BY <1>11 DEF Detach, EndWait, HasMail, Clear, Go, TypeOK, Task, TaskStates,
     AgentStates, Shape, Removing, OneBox, Live, InUse, maps, kernel, edit,
     history, vars
<1>12. ASSUME NEW a \in Task, Pull(a) PROVE OneBox'
  BY <1>12 DEF Pull, Step, TypeOK, Task, TaskStates, AgentStates, Shape,
     Removing, OneBox, Live, InUse, maps, kernel, edit, history, vars
<1>13. ASSUME NEW a \in Task, PullSteers(a) PROVE OneBox'
  BY <1>13 DEF PullSteers, TypeOK, Task, TaskStates, AgentStates, Shape,
     Removing, OneBox, Live, InUse, maps, kernel, edit, history, vars
<1>14. ASSUME NEW a \in Task, EndRun(a) PROVE OneBox'
  BY <1>14 DEF EndRun, Step, TypeOK, Task, TaskStates, AgentStates, Shape,
     Removing, OneBox, Live, InUse, maps, kernel, edit, history, vars
<1>15. ASSUME NEW a \in Task, WoundDown(a) PROVE OneBox'
  BY <1>15 DEF WoundDown, Step, TypeOK, Task, TaskStates, AgentStates, Shape,
     Removing, OneBox, Live, InUse, maps, kernel, edit, history, vars
<1>16. ASSUME NEW a \in Task, Leave(a) PROVE OneBox'
  BY <1>16 DEF Leave, Step, MayLeave, TypeOK, Task, TaskStates, AgentStates,
     Shape, Removing, OneBox, Live, InUse, maps, kernel, edit, history, vars
<1>17. ASSUME NEW a \in Task, Finish(a) PROVE OneBox'
  BY <1>17 DEF Finish, Step, TypeOK, Task, TaskStates, AgentStates, Shape,
     Removing, OneBox, Live, InUse, maps, kernel, edit, history, vars
<1>18. ASSUME NEW m \in Msg, TakeItem(m) PROVE OneBox'
  BY <1>18 DEF TakeItem, TypeOK, Task, TaskStates, AgentStates, Shape,
     Removing, OneBox, Live, InUse, maps, kernel, edit, history, vars
<1>19. CASE PutItem
  BY <1>19 DEF PutItem, TypeOK, Task, TaskStates, AgentStates, Shape,
     Removing, OneBox, Live, InUse, maps, kernel, edit, history, vars
<1>20. CASE Withdraw
  BY <1>20 DEF Withdraw, TypeOK, Task, TaskStates, AgentStates, Shape,
     Removing, OneBox, Live, InUse, maps, kernel, edit, history, vars
<1>21. CASE Sweep
  BY <1>21 DEF Sweep, Receives, TypeOK, Task, TaskStates, AgentStates, Shape,
     Removing, OneBox, Live, InUse, maps, kernel, edit, history, vars
<1>22. CASE Delete \/ DeleteRows \/ CloseIntake \/ ShutdownAgents
  BY <1>22 DEF Delete, DeleteRows, CloseIntake, ShutdownAgents, TypeOK, Task,
     TaskStates, AgentStates, Shape, Removing, OneBox, Live, InUse, maps,
     kernel, edit, history, vars
<1>23. CASE Joined \/ ArmCancels \/ ArmEnds
  BY <1>23 DEF Joined, ArmCancels, ArmEnds, TypeOK, Task, TaskStates,
     AgentStates, Shape, Removing, OneBox, Live, InUse, maps, kernel, edit,
     history, vars
<1>24. CASE UNCHANGED vars
  BY <1>24 DEF TypeOK, Task, TaskStates, AgentStates, Shape, Removing, OneBox,
     Live, InUse, maps, kernel, edit, history, vars
<1> QED
  BY <1>1, <1>2, <1>3, <1>4, <1>5, <1>6, <1>7, <1>8, <1>9, <1>10, <1>11,
     <1>12, <1>13, <1>14, <1>15, <1>16, <1>17, <1>18, <1>19, <1>20, <1>21,
     <1>22, <1>23, <1>24 DEF Next, TaskStep, AgentStep, StopStep, Task

\* Every step leaves a cancelled agent in the map with a Cancel after it.
LEMMA ChasedStep ==
  ASSUME TypeOK, Shape, OneBox, Chased, [Next]_vars
  PROVE  Chased'
<1> USE ConductorAssumption
<1>1. ASSUME NEW m \in Msg, Receive(m) PROVE Chased'
  BY <1>1 DEF Receive, Clear, Go, TypeOK, Task, TaskStates, AgentStates,
     Shape, Removing, OneBox, Chased, Live, Intake, Finished, Cancelling,
     maps, kernel, edit, history, vars
<1>2. ASSUME NEW m \in Msg, Box(m) PROVE Chased'
  BY <1>2 DEF Box, Go, TypeOK, Task, TaskStates, AgentStates, Shape, Removing,
     OneBox, Chased, Live, Intake, Finished, Cancelling, maps, kernel, edit,
     history, vars
<1>3. ASSUME NEW m \in Msg, Push(m) PROVE Chased'
  BY <1>3 DEF Push, Go, TypeOK, Task, TaskStates, AgentStates, Shape,
     Removing, OneBox, Chased, Live, Intake, Finished, Cancelling, maps,
     kernel, edit, history, vars
<1>4. ASSUME NEW t \in Task, Wake(t) PROVE Chased'
  BY <1>4 DEF Wake, Clear, Go, Intake, Tombstoned, TypeOK, Task, TaskStates,
     AgentStates, Shape, Removing, OneBox, Chased, Live, Finished, Cancelling,
     maps, kernel, edit, history, vars
<1>5. ASSUME NEW t \in Task, Spawn(t) PROVE Chased'
  BY <1>5 DEF Spawn, Go, Unlock, MaySpawn, Intake, TypeOK, Task, TaskStates,
     AgentStates, Shape, Removing, OneBox, Chased, Live, Finished, Cancelling,
     maps, kernel, edit, history, vars
<1>6. ASSUME NEW t \in Task, Enter(t) PROVE Chased'
  BY <1>6 DEF Enter, Go, Unlock, TypeOK, Task, TaskStates, AgentStates, Shape,
     Removing, OneBox, Chased, Live, Intake, Finished, Cancelling, maps,
     kernel, edit, history, vars
<1>7. ASSUME NEW c \in Stop, Cancel(c) PROVE Chased'
  BY <1>7 DEF Cancel, Go, Receives, TypeOK, Task, TaskStates, AgentStates,
     Shape, Removing, OneBox, Chased, Live, Intake, Finished, Cancelling,
     maps, kernel, edit, history, vars
<1>8. ASSUME NEW c \in Stop, ClearMail(c) PROVE Chased'
  BY <1>8 DEF ClearMail, Clear, Go, TypeOK, Task, TaskStates, AgentStates,
     Shape, Removing, OneBox, Chased, Live, Intake, Finished, Cancelling,
     maps, kernel, edit, history, vars
<1>9. ASSUME NEW c \in Stop, Remove(c) PROVE Chased'
  BY <1>9 DEF Remove, Go, TypeOK, Task, TaskStates, AgentStates, Shape,
     Removing, OneBox, Chased, Live, Intake, Finished, Cancelling, maps,
     kernel, edit, history, vars
<1>10. ASSUME NEW c \in Stop, Waited(c) PROVE Chased'
  BY <1>10 DEF Waited, EndWait, HasMail, Clear, Go, TypeOK, Task, TaskStates,
     AgentStates, Shape, Removing, OneBox, Chased, Live, Intake, Finished,
     Cancelling, maps, kernel, edit, history, vars
<1>11. ASSUME NEW c \in Stop, Detach(c) PROVE Chased'
  BY <1>11 DEF Detach, EndWait, HasMail, Clear, Go, TypeOK, Task, TaskStates,
     AgentStates, Shape, Removing, OneBox, Chased, Live, Intake, Finished,
     Cancelling, maps, kernel, edit, history, vars
<1>12. ASSUME NEW a \in Task, Pull(a) PROVE Chased'
  BY <1>12 DEF Pull, Step, TypeOK, Task, TaskStates, AgentStates, Shape,
     Removing, OneBox, Chased, Live, Intake, Finished, Cancelling, maps,
     kernel, edit, history, vars
<1>13. ASSUME NEW a \in Task, PullSteers(a) PROVE Chased'
  BY <1>13 DEF PullSteers, TypeOK, Task, TaskStates, AgentStates, Shape,
     Removing, OneBox, Chased, Live, Intake, Finished, Cancelling, maps,
     kernel, edit, history, vars
<1>14. ASSUME NEW a \in Task, EndRun(a) PROVE Chased'
  BY <1>14 DEF EndRun, Step, TypeOK, Task, TaskStates, AgentStates, Shape,
     Removing, OneBox, Chased, Live, Intake, Finished, Cancelling, maps,
     kernel, edit, history, vars
<1>15. ASSUME NEW a \in Task, WoundDown(a) PROVE Chased'
  BY <1>15 DEF WoundDown, Step, TypeOK, Task, TaskStates, AgentStates, Shape,
     Removing, OneBox, Chased, Live, Intake, Finished, Cancelling, maps,
     kernel, edit, history, vars
<1>16. ASSUME NEW a \in Task, Leave(a) PROVE Chased'
  BY <1>16 DEF Leave, Step, MayLeave, TypeOK, Task, TaskStates, AgentStates,
     Shape, Removing, OneBox, Chased, Live, Intake, Finished, Cancelling,
     maps, kernel, edit, history, vars
<1>17. ASSUME NEW a \in Task, Finish(a) PROVE Chased'
  BY <1>17 DEF Finish, Step, TypeOK, Task, TaskStates, AgentStates, Shape,
     Removing, OneBox, Chased, Live, Intake, Finished, Cancelling, maps,
     kernel, edit, history, vars
<1>18. CASE Sweep
  BY <1>18 DEF Sweep, Receives, TypeOK, Task, TaskStates, AgentStates, Shape,
     Removing, OneBox, Chased, Live, Intake, Finished, Cancelling, maps,
     kernel, edit, history, vars
<1>19. CASE CloseIntake
  BY <1>19 DEF CloseIntake, TypeOK, Task, TaskStates, AgentStates, Shape,
     Removing, OneBox, Chased, Live, Intake, Finished, Cancelling, maps,
     kernel, edit, history, vars
<1>20. CASE ShutdownAgents
  BY <1>20 DEF ShutdownAgents, TypeOK, Task, TaskStates, AgentStates, Shape,
     Removing, OneBox, Chased, Live, Intake, Finished, Cancelling, maps,
     kernel, edit, history, vars
<1>21. CASE ArmCancels
  BY <1>21 DEF ArmCancels, TypeOK, Task, TaskStates, AgentStates, Shape,
     Removing, OneBox, Chased, Live, Intake, Finished, Cancelling, maps,
     kernel, edit, history, vars
<1>22. ASSUME NEW m \in Msg, TakeItem(m) PROVE Chased'
  BY <1>22 DEF TakeItem, TypeOK, Task, TaskStates, AgentStates, Shape,
     Removing, OneBox, Chased, Live, Intake, Finished, Cancelling, maps,
     kernel, edit, history, vars
<1>23. CASE PutItem \/ Withdraw \/ Delete \/ DeleteRows
  BY <1>23 DEF PutItem, Withdraw, Delete, DeleteRows, TypeOK, Task,
     TaskStates, AgentStates, Shape, Removing, OneBox, Chased, Live, Intake,
     Finished, Cancelling, maps, kernel, edit, history, vars
<1>24. CASE Joined \/ ArmEnds
  BY <1>24 DEF Joined, ArmEnds, TypeOK, Task, TaskStates, AgentStates, Shape,
     Removing, OneBox, Chased, Live, Intake, Finished, Cancelling, maps,
     kernel, edit, history, vars
<1>25. CASE UNCHANGED vars
  BY <1>25 DEF TypeOK, Task, TaskStates, AgentStates, Shape, Removing, OneBox,
     Chased, Live, Intake, Finished, Cancelling, maps, kernel, edit, history,
     vars
<1> QED
  BY <1>1, <1>2, <1>3, <1>4, <1>5, <1>6, <1>7, <1>8, <1>9, <1>10, <1>11,
     <1>12, <1>13, <1>14, <1>15, <1>16, <1>17, <1>18, <1>19, <1>20, <1>21,
     <1>22, <1>23, <1>24, <1>25 DEF Next, TaskStep, AgentStep, StopStep, Task

\* Every step keeps what follows from a deletion.
LEMMA DeletionStep ==
  ASSUME TypeOK, Shape, UncancelledIsTracked, Deletion, [Next]_vars
  PROVE  Deletion'
<1> USE ConductorAssumption
<1>1. ASSUME NEW m \in Msg, Receive(m) PROVE Deletion'
  BY <1>1 DEF Receive, Clear, Go, TypeOK, Task, TaskStates, AgentStates,
     Shape, Removing, Deletion, Spawning, UncancelledIsTracked, Live, maps,
     kernel, edit, history, vars
<1>2. ASSUME NEW m \in Msg, Box(m) PROVE Deletion'
  BY <1>2 DEF Box, Go, TypeOK, Task, TaskStates, AgentStates, Shape, Removing,
     Deletion, Spawning, UncancelledIsTracked, Live, maps, kernel, edit,
     history, vars
<1>3. ASSUME NEW m \in Msg, Push(m) PROVE Deletion'
  BY <1>3 DEF Push, Go, TypeOK, Task, TaskStates, AgentStates, Shape,
     Removing, Deletion, Spawning, UncancelledIsTracked, Live, maps, kernel,
     edit, history, vars
<1>4. ASSUME NEW t \in Task, Wake(t) PROVE Deletion'
  BY <1>4 DEF Wake, Clear, Go, Intake, Tombstoned, TypeOK, Task, TaskStates,
     AgentStates, Shape, Removing, Deletion, Spawning, UncancelledIsTracked,
     Live, maps, kernel, edit, history, vars
<1>5. ASSUME NEW t \in Task, Spawn(t) PROVE Deletion'
  BY <1>5 DEF Spawn, Go, Unlock, MaySpawn, Intake, TypeOK, Task, TaskStates,
     AgentStates, Shape, Removing, Deletion, Spawning, UncancelledIsTracked,
     Live, maps, kernel, edit, history, vars
<1>6. ASSUME NEW t \in Task, Enter(t) PROVE Deletion'
  BY <1>6 DEF Enter, Go, Unlock, TypeOK, Task, TaskStates, AgentStates, Shape,
     Removing, Deletion, Spawning, UncancelledIsTracked, Live, maps, kernel,
     edit, history, vars
<1>7. ASSUME NEW c \in Stop, Cancel(c) PROVE Deletion'
  BY <1>7 DEF Cancel, Go, Receives, TypeOK, Task, TaskStates, AgentStates,
     Shape, Removing, Deletion, Spawning, UncancelledIsTracked, Live, maps,
     kernel, edit, history, vars
<1>8. ASSUME NEW c \in Stop, ClearMail(c) PROVE Deletion'
  BY <1>8 DEF ClearMail, Clear, Go, TypeOK, Task, TaskStates, AgentStates,
     Shape, Removing, Deletion, Spawning, UncancelledIsTracked, Live, maps,
     kernel, edit, history, vars
<1>9. ASSUME NEW c \in Stop, Remove(c) PROVE Deletion'
  BY <1>9 DEF Remove, Go, TypeOK, Task, TaskStates, AgentStates, Shape,
     Removing, Deletion, Spawning, UncancelledIsTracked, Live, maps, kernel,
     edit, history, vars
<1>10. ASSUME NEW c \in Stop, Waited(c) PROVE Deletion'
  BY <1>10 DEF Waited, EndWait, HasMail, Clear, Go, TypeOK, Task, TaskStates,
     AgentStates, Shape, Removing, Deletion, Spawning, UncancelledIsTracked,
     Live, maps, kernel, edit, history, vars
<1>11. ASSUME NEW c \in Stop, Detach(c) PROVE Deletion'
  BY <1>11 DEF Detach, EndWait, HasMail, Clear, Go, TypeOK, Task, TaskStates,
     AgentStates, Shape, Removing, Deletion, Spawning, UncancelledIsTracked,
     Live, maps, kernel, edit, history, vars
<1>12. ASSUME NEW a \in Task, Pull(a) PROVE Deletion'
  BY <1>12 DEF Pull, Step, TypeOK, Task, TaskStates, AgentStates, Shape,
     Removing, Deletion, Spawning, UncancelledIsTracked, Live, maps, kernel,
     edit, history, vars
<1>13. ASSUME NEW a \in Task, PullSteers(a) PROVE Deletion'
  BY <1>13 DEF PullSteers, TypeOK, Task, TaskStates, AgentStates, Shape,
     Removing, Deletion, Spawning, UncancelledIsTracked, Live, maps, kernel,
     edit, history, vars
<1>14. ASSUME NEW a \in Task, EndRun(a) PROVE Deletion'
  BY <1>14 DEF EndRun, Step, TypeOK, Task, TaskStates, AgentStates, Shape,
     Removing, Deletion, Spawning, UncancelledIsTracked, Live, maps, kernel,
     edit, history, vars
<1>15. ASSUME NEW a \in Task, WoundDown(a) PROVE Deletion'
  BY <1>15 DEF WoundDown, Step, TypeOK, Task, TaskStates, AgentStates, Shape,
     Removing, Deletion, Spawning, UncancelledIsTracked, Live, maps, kernel,
     edit, history, vars
<1>16. ASSUME NEW a \in Task, Leave(a) PROVE Deletion'
  BY <1>16 DEF Leave, Step, MayLeave, TypeOK, Task, TaskStates, AgentStates,
     Shape, Removing, Deletion, Spawning, UncancelledIsTracked, Live, maps,
     kernel, edit, history, vars
<1>17. ASSUME NEW a \in Task, Finish(a) PROVE Deletion'
  BY <1>17 DEF Finish, Step, TypeOK, Task, TaskStates, AgentStates, Shape,
     Removing, Deletion, Spawning, UncancelledIsTracked, Live, maps, kernel,
     edit, history, vars
<1>18. CASE Sweep
  BY <1>18 DEF Sweep, Receives, TypeOK, Task, TaskStates, AgentStates, Shape,
     Removing, Deletion, Spawning, UncancelledIsTracked, Live, maps, kernel,
     edit, history, vars
<1>19. CASE Delete
  BY <1>19 DEF Delete, TypeOK, Task, TaskStates, AgentStates, Shape, Removing,
     Deletion, Spawning, UncancelledIsTracked, Live, maps, kernel, edit,
     history, vars
<1>20. CASE ShutdownAgents
  BY <1>20 DEF ShutdownAgents, TypeOK, Task, TaskStates, AgentStates, Shape,
     Removing, Deletion, Spawning, UncancelledIsTracked, Live, maps, kernel,
     edit, history, vars
<1>21. CASE ArmCancels
  BY <1>21 DEF ArmCancels, TypeOK, Task, TaskStates, AgentStates, Shape,
     Removing, Deletion, Spawning, UncancelledIsTracked, Live, maps, kernel,
     edit, history, vars
<1>22. ASSUME NEW m \in Msg, TakeItem(m) PROVE Deletion'
  BY <1>22 DEF TakeItem, TypeOK, Task, TaskStates, AgentStates, Shape,
     Removing, Deletion, Spawning, UncancelledIsTracked, Live, maps, kernel,
     edit, history, vars
<1>23. CASE PutItem \/ Withdraw \/ DeleteRows \/ CloseIntake
  BY <1>23 DEF PutItem, Withdraw, DeleteRows, CloseIntake, TypeOK, Task,
     TaskStates, AgentStates, Shape, Removing, Deletion, Spawning,
     UncancelledIsTracked, Live, maps, kernel, edit, history, vars
<1>24. CASE Joined \/ ArmEnds
  BY <1>24 DEF Joined, ArmEnds, TypeOK, Task, TaskStates, AgentStates, Shape,
     Removing, Deletion, Spawning, UncancelledIsTracked, Live, maps, kernel,
     edit, history, vars
<1>25. CASE UNCHANGED vars
  BY <1>25 DEF TypeOK, Task, TaskStates, AgentStates, Shape, Removing,
     Deletion, Spawning, UncancelledIsTracked, Live, maps, kernel, edit,
     history, vars
<1> QED
  BY <1>1, <1>2, <1>3, <1>4, <1>5, <1>6, <1>7, <1>8, <1>9, <1>10, <1>11,
     <1>12, <1>13, <1>14, <1>15, <1>16, <1>17, <1>18, <1>19, <1>20, <1>21,
     <1>22, <1>23, <1>24, <1>25 DEF Next, TaskStep, AgentStep, StopStep, Task

\* Every step keeps account of the live agents.
LEMMA ShutdownStep ==
  ASSUME TypeOK, Shape, LockHeld, Shutdown, [Next]_vars
  PROVE  Shutdown'
<1> USE ConductorAssumption
<1>1. ASSUME NEW m \in Msg, Receive(m) PROVE Shutdown'
  BY <1>1 DEF Receive, Clear, Go, TypeOK, Task, TaskStates, AgentStates,
     Shape, Removing, LockHeld, Spawning, Vacant, Shutdown, Intake, Live,
     Finished, maps, kernel, edit, history, vars
<1>2. ASSUME NEW m \in Msg, Box(m) PROVE Shutdown'
  BY <1>2 DEF Box, Go, TypeOK, Task, TaskStates, AgentStates, Shape, Removing,
     LockHeld, Spawning, Vacant, Shutdown, Intake, Live, Finished, maps,
     kernel, edit, history, vars
<1>3. ASSUME NEW m \in Msg, Push(m) PROVE Shutdown'
  BY <1>3 DEF Push, Go, TypeOK, Task, TaskStates, AgentStates, Shape,
     Removing, LockHeld, Spawning, Vacant, Shutdown, Intake, Live, Finished,
     maps, kernel, edit, history, vars
<1>4. ASSUME NEW t \in Task, Wake(t) PROVE Shutdown'
  BY <1>4 DEF Wake, Clear, Go, Intake, Tombstoned, TypeOK, Task, TaskStates,
     AgentStates, Shape, Removing, LockHeld, Spawning, Vacant, Shutdown, Live,
     Finished, maps, kernel, edit, history, vars
<1>5. ASSUME NEW t \in Task, Spawn(t) PROVE Shutdown'
  BY <1>5 DEF Spawn, Go, Unlock, MaySpawn, Intake, TypeOK, Task, TaskStates,
     AgentStates, Shape, Removing, LockHeld, Spawning, Vacant, Shutdown, Live,
     Finished, maps, kernel, edit, history, vars
<1>6. ASSUME NEW t \in Task, Enter(t) PROVE Shutdown'
  BY <1>6 DEF Enter, Go, Unlock, TypeOK, Task, TaskStates, AgentStates, Shape,
     Removing, LockHeld, Spawning, Vacant, Shutdown, Intake, Live, Finished,
     maps, kernel, edit, history, vars
<1>7. ASSUME NEW c \in Stop, Cancel(c) PROVE Shutdown'
  BY <1>7 DEF Cancel, Go, Receives, TypeOK, Task, TaskStates, AgentStates,
     Shape, Removing, LockHeld, Spawning, Vacant, Shutdown, Intake, Live,
     Finished, maps, kernel, edit, history, vars
<1>8. ASSUME NEW c \in Stop, ClearMail(c) PROVE Shutdown'
  BY <1>8 DEF ClearMail, Clear, Go, TypeOK, Task, TaskStates, AgentStates,
     Shape, Removing, LockHeld, Spawning, Vacant, Shutdown, Intake, Live,
     Finished, maps, kernel, edit, history, vars
<1>9. ASSUME NEW c \in Stop, Remove(c) PROVE Shutdown'
  BY <1>9 DEF Remove, Go, TypeOK, Task, TaskStates, AgentStates, Shape,
     Removing, LockHeld, Spawning, Vacant, Shutdown, Intake, Live, Finished,
     maps, kernel, edit, history, vars
<1>10. ASSUME NEW c \in Stop, Waited(c) PROVE Shutdown'
  BY <1>10 DEF Waited, EndWait, HasMail, Clear, Go, TypeOK, Task, TaskStates,
     AgentStates, Shape, Removing, LockHeld, Spawning, Vacant, Shutdown,
     Intake, Live, Finished, maps, kernel, edit, history, vars
<1>11. ASSUME NEW c \in Stop, Detach(c) PROVE Shutdown'
  BY <1>11 DEF Detach, EndWait, HasMail, Clear, Go, TypeOK, Task, TaskStates,
     AgentStates, Shape, Removing, LockHeld, Spawning, Vacant, Shutdown,
     Intake, Live, Finished, maps, kernel, edit, history, vars
<1>12. ASSUME NEW a \in Task, Pull(a) PROVE Shutdown'
  BY <1>12 DEF Pull, Step, TypeOK, Task, TaskStates, AgentStates, Shape,
     Removing, LockHeld, Spawning, Vacant, Shutdown, Intake, Live, Finished,
     maps, kernel, edit, history, vars
<1>13. ASSUME NEW a \in Task, PullSteers(a) PROVE Shutdown'
  BY <1>13 DEF PullSteers, TypeOK, Task, TaskStates, AgentStates, Shape,
     Removing, LockHeld, Spawning, Vacant, Shutdown, Intake, Live, Finished,
     maps, kernel, edit, history, vars
<1>14. ASSUME NEW a \in Task, EndRun(a) PROVE Shutdown'
  BY <1>14 DEF EndRun, Step, TypeOK, Task, TaskStates, AgentStates, Shape,
     Removing, LockHeld, Spawning, Vacant, Shutdown, Intake, Live, Finished,
     maps, kernel, edit, history, vars
<1>15. ASSUME NEW a \in Task, WoundDown(a) PROVE Shutdown'
  BY <1>15 DEF WoundDown, Step, TypeOK, Task, TaskStates, AgentStates, Shape,
     Removing, LockHeld, Spawning, Vacant, Shutdown, Intake, Live, Finished,
     maps, kernel, edit, history, vars
<1>16. ASSUME NEW a \in Task, Leave(a) PROVE Shutdown'
  BY <1>16 DEF Leave, Step, MayLeave, TypeOK, Task, TaskStates, AgentStates,
     Shape, Removing, LockHeld, Spawning, Vacant, Shutdown, Intake, Live,
     Finished, maps, kernel, edit, history, vars
<1>17. ASSUME NEW a \in Task, Finish(a) PROVE Shutdown'
  BY <1>17 DEF Finish, Step, TypeOK, Task, TaskStates, AgentStates, Shape,
     Removing, LockHeld, Spawning, Vacant, Shutdown, Intake, Live, Finished,
     maps, kernel, edit, history, vars
<1>18. CASE Sweep
  BY <1>18 DEF Sweep, Receives, TypeOK, Task, TaskStates, AgentStates, Shape,
     Removing, LockHeld, Spawning, Vacant, Shutdown, Intake, Live, Finished,
     maps, kernel, edit, history, vars
<1>19. CASE Delete
  BY <1>19 DEF Delete, TypeOK, Task, TaskStates, AgentStates, Shape, Removing,
     LockHeld, Spawning, Vacant, Shutdown, Intake, Live, Finished, maps,
     kernel, edit, history, vars
<1>20. CASE DeleteRows
  BY <1>20 DEF DeleteRows, TypeOK, Task, TaskStates, AgentStates, Shape,
     Removing, LockHeld, Spawning, Vacant, Shutdown, Intake, Live, Finished,
     maps, kernel, edit, history, vars
<1>21. CASE CloseIntake
  BY <1>21 DEF CloseIntake, TypeOK, Task, TaskStates, AgentStates, Shape,
     Removing, LockHeld, Spawning, Vacant, Shutdown, Intake, Live, Finished,
     maps, kernel, edit, history, vars
<1>22. CASE ShutdownAgents
  BY <1>22 DEF ShutdownAgents, TypeOK, Task, TaskStates, AgentStates, Shape,
     Removing, LockHeld, Spawning, Vacant, Shutdown, Intake, Live, Finished,
     maps, kernel, edit, history, vars
<1>23. CASE Joined
  BY <1>23 DEF Joined, TypeOK, Task, TaskStates, AgentStates, Shape, Removing,
     LockHeld, Spawning, Vacant, Shutdown, Intake, Live, Finished, maps,
     kernel, edit, history, vars
<1>24. CASE ArmCancels
  BY <1>24 DEF ArmCancels, TypeOK, Task, TaskStates, AgentStates, Shape,
     Removing, LockHeld, Spawning, Vacant, Shutdown, Intake, Live, Finished,
     maps, kernel, edit, history, vars
<1>25. CASE ArmEnds
  BY <1>25 DEF ArmEnds, TypeOK, Task, TaskStates, AgentStates, Shape,
     Removing, LockHeld, Spawning, Vacant, Shutdown, Intake, Live, Finished,
     maps, kernel, edit, history, vars
<1>26. ASSUME NEW m \in Msg, TakeItem(m) PROVE Shutdown'
  BY <1>26 DEF TakeItem, TypeOK, Task, TaskStates, AgentStates, Shape,
     Removing, LockHeld, Spawning, Vacant, Shutdown, Intake, Live, Finished,
     maps, kernel, edit, history, vars
<1>27. CASE PutItem \/ Withdraw
  BY <1>27 DEF PutItem, Withdraw, TypeOK, Task, TaskStates, AgentStates,
     Shape, Removing, LockHeld, Spawning, Vacant, Shutdown, Intake, Live,
     Finished, maps, kernel, edit, history, vars
<1>28. CASE UNCHANGED vars
  BY <1>28 DEF TypeOK, Task, TaskStates, AgentStates, Shape, Removing,
     LockHeld, Spawning, Vacant, Shutdown, Intake, Live, Finished, maps,
     kernel, edit, history, vars
<1> QED
  BY <1>1, <1>2, <1>3, <1>4, <1>5, <1>6, <1>7, <1>8, <1>9, <1>10, <1>11,
     <1>12, <1>13, <1>14, <1>15, <1>16, <1>17, <1>18, <1>19, <1>20, <1>21,
     <1>22, <1>23, <1>24, <1>25, <1>26, <1>27, <1>28 DEF Next, TaskStep,
     AgentStep, StopStep, Task

\* Every step leaves somebody to look at what is wanted.
LEMMA SecuredStep ==
  ASSUME TypeOK, Shape, LockHeld, OneBox, Chased, WantedIsSecured, [Next]_vars
  PROVE  WantedIsSecured'
<1> USE ConductorAssumption
<1>1. ASSUME NEW m \in Msg, Receive(m) PROVE WantedIsSecured'
  BY <1>1 DEF Receive, Clear, Go, TypeOK, Task, TaskStates, AgentStates,
     Shape, Removing, LockHeld, Spawning, Vacant, Finished, OneBox, Chased,
     Live, Intake, WantedIsSecured, Wanted, Secured, Excused, Mailless,
     Cancelling, maps, kernel, edit, history, vars
<1>2. ASSUME NEW m \in Msg, Box(m) PROVE WantedIsSecured'
  BY <1>2 DEF Box, Go, TypeOK, Task, TaskStates, AgentStates, Shape, Removing,
     LockHeld, Spawning, Vacant, Finished, OneBox, Chased, Live, Intake,
     WantedIsSecured, Wanted, Secured, Excused, Mailless, Cancelling, maps,
     kernel, edit, history, vars
<1>3. ASSUME NEW m \in Msg, Push(m) PROVE WantedIsSecured'
  BY <1>3 DEF Push, Go, TypeOK, Task, TaskStates, AgentStates, Shape,
     Removing, LockHeld, Spawning, Vacant, Finished, OneBox, Chased, Live,
     Intake, WantedIsSecured, Wanted, Secured, Excused, Mailless, Cancelling,
     maps, kernel, edit, history, vars
<1>4. ASSUME NEW t \in Task, Wake(t) PROVE WantedIsSecured'
  <2> SUFFICES ASSUME NEW b \in Msg, Wanted(b)', Intake', ~Excused' PROVE Secured(b)'
    BY DEF WantedIsSecured
  <2>1. Wanted(b) /\ Intake /\ ~Excused
    BY <1>4 DEF Wake, Clear, Intake, Wanted, Excused, Mailless, TypeOK, maps, kernel, edit
  <2>2. Secured(b)
    BY <2>1 DEF WantedIsSecured
  <2>3. ~swept /\ (mb[t] # None => mb[t] = boxed)
    BY <1>4, <2>1 DEF Excused, OneBox, Wake
  <2>4. at' = [at EXCEPT ![t] = IF Intake /\ ~Tombstoned /\ locked = None /\ Vacant
                                THEN "spawning" ELSE "done"]
        /\ at[t] = "waking" /\ UNCHANGED <<active, agent, token, mb>>
    BY <1>4 DEF Wake, Go, maps
  <2>5. CASE mb[t] # b
    <3>1. CASE \E a \in Task :
                 agent[a] \in {"idle", "running", "winding"} /\ ~token[a] /\ mb[a] = b
      BY <2>4, <3>1 DEF Secured
    <3>2. CASE \E u \in Task :
                 at[u] \in {"waking", "spawning", "entering", "waiting"} /\ mb[u] = b
      <4>1. PICK u \in Task :
                 at[u] \in {"waking", "spawning", "entering", "waiting"} /\ mb[u] = b
        BY <3>2
      <4>2. u # t /\ at'[u] = at[u]
        BY <2>4, <2>5, <4>1 DEF TypeOK
      <4> QED
        BY <2>4, <4>1, <4>2 DEF Secured
    <3>3. CASE active # None /\ \E c \in Stop : Removing(c) /\ mb[c] = b
      <4>1. PICK c \in Stop : Removing(c) /\ mb[c] = b
        BY <3>3
      <4>2. c # t /\ at'[c] = at[c]
        BY <2>4, <2>5, <4>1 DEF TypeOK, Task
      <4> QED
        BY <2>4, <3>3, <4>1, <4>2 DEF Secured, Removing
    <3> QED
      BY <2>2, <3>1, <3>2, <3>3 DEF Secured
  <2>6. CASE mb[t] = b
    <3>1. b = boxed /\ b # None
      BY <2>3, <2>6 DEF Task
    <3>2. ~Tombstoned
      BY <1>4, <2>1, <2>6 DEF Wake, Clear, Wanted, Excused, Intake, TypeOK, edit
    <3>3. CASE locked # None
      <4>1. Spawning(locked) /\ locked \in Task /\ locked # t
        BY <2>3, <2>4, <3>3 DEF LockHeld, TypeOK, Spawning
      <4>2. mb[locked] = b /\ at'[locked] = at[locked]
        BY <2>3, <2>4, <3>1, <4>1 DEF OneBox, TypeOK, Spawning
      <4> QED
        BY <2>4, <4>1, <4>2 DEF Secured, Spawning
    <3>4. CASE locked = None /\ Vacant
      BY <2>1, <2>4, <2>6, <3>2, <3>4 DEF Secured, TypeOK
    <3>5. CASE locked = None /\ ~Vacant
      <4>1. active \in Task /\ agent[active] \in {"idle", "running", "winding"}
        BY <1>4, <2>1, <3>2, <3>5 DEF Wake, Vacant, Finished, Excused, Shape, TypeOK, AgentStates
      <4>2. mb[active] = b
        BY <2>3, <3>1, <4>1 DEF OneBox, Shape, Live
      <4>3. CASE ~token[active]
        BY <2>4, <4>1, <4>2, <4>3 DEF Secured
      <4>4. CASE token[active]
        <5>1. active # None
          BY <4>1, ConductorAssumption
        <5>2. PICK c \in Stop : Removing(c) /\ mb[c] # None
          BY <2>1, <2>3, <4>1, <4>4, <5>1 DEF Chased, Live
        <5>3. mb[c] = b /\ at'[c] = at[c]
          BY <2>3, <2>4, <3>1, <5>2 DEF OneBox, Removing, Task, TypeOK
        <5> QED
          BY <2>4, <5>1, <5>2, <5>3 DEF Secured, Removing
      <4> QED
        BY <4>3, <4>4
    <3> QED
      BY <3>3, <3>4, <3>5
  <2> QED
    BY <2>5, <2>6
<1>5. ASSUME NEW t \in Task, Spawn(t) PROVE WantedIsSecured'
  BY <1>5 DEF Spawn, Go, Unlock, MaySpawn, Intake, TypeOK, Task, TaskStates,
     AgentStates, Shape, Removing, LockHeld, Spawning, Vacant, Finished,
     OneBox, Chased, Live, WantedIsSecured, Wanted, Secured, Excused,
     Mailless, Cancelling, maps, kernel, edit, history, vars
<1>6. ASSUME NEW t \in Task, Enter(t) PROVE WantedIsSecured'
  BY <1>6 DEF Enter, Go, Unlock, TypeOK, Task, TaskStates, AgentStates, Shape,
     Removing, LockHeld, Spawning, Vacant, Finished, OneBox, Chased, Live,
     Intake, WantedIsSecured, Wanted, Secured, Excused, Mailless, Cancelling,
     maps, kernel, edit, history, vars
<1>7. ASSUME NEW c \in Stop, Cancel(c) PROVE WantedIsSecured'
  <2> SUFFICES ASSUME NEW b \in Msg, Wanted(b)', Intake', ~Excused' PROVE Secured(b)'
    BY DEF WantedIsSecured
  <2>1. Wanted(b) /\ Intake /\ ~Excused
    BY <1>7 DEF Cancel, Go, Intake, Wanted, Excused, Mailless, TypeOK, Shape, kernel, edit, history, Task
  <2>2. Secured(b)
    BY <2>1 DEF WantedIsSecured
  <2>3. /\ at[c] = "new" /\ at' = [at EXCEPT ![c] = "locking"]
        /\ mb' = [mb EXCEPT ![c] = boxed]
        /\ UNCHANGED <<active, agent>>
        /\ c \in Task
    BY <1>7 DEF Cancel, Go, maps, Task
  <2>4. \A u \in Task : u # active => token'[u] = token[u]
    BY <1>7 DEF Cancel, TypeOK
  <2>5. CASE \E a \in Task :
               agent[a] \in {"idle", "running", "winding"} /\ ~token[a] /\ mb[a] = b
    <3>1. PICK a \in Task :
               agent[a] \in {"idle", "running", "winding"} /\ ~token[a] /\ mb[a] = b
      BY <2>5
    <3>2. CASE a = active
      <4>1. boxed = b
        BY <2>1, <3>1 DEF OneBox, Excused, Live, Task
      <4> QED
        BY <2>3, <3>1, <3>2, <4>1 DEF Secured, Removing, TypeOK
    <3>3. CASE a # active
      <4>1. a # c
        BY <2>3, <3>1 DEF Shape
      <4>2. mb'[a] = b
        BY <2>3, <3>1, <4>1 DEF TypeOK
      <4> QED
        BY <2>3, <2>4, <3>1, <3>3, <4>2 DEF Secured
    <3> QED
      BY <3>2, <3>3
  <2>6. CASE \E u \in Task :
               at[u] \in {"waking", "spawning", "entering", "waiting"} /\ mb[u] = b
    BY <2>3, <2>6 DEF Secured, TypeOK
  <2>7. CASE active # None /\ \E d \in Stop : Removing(d) /\ mb[d] = b
    BY <2>3, <2>7 DEF Secured, TypeOK, Removing, Task
  <2> QED
    BY <2>2, <2>5, <2>6, <2>7 DEF Secured
<1>8. ASSUME NEW c \in Stop, ClearMail(c) PROVE WantedIsSecured'
  BY <1>8 DEF ClearMail, Clear, Go, TypeOK, Task, TaskStates, AgentStates,
     Shape, Removing, LockHeld, Spawning, Vacant, Finished, OneBox, Chased,
     Live, Intake, WantedIsSecured, Wanted, Secured, Excused, Mailless,
     Cancelling, maps, kernel, edit, history, vars
<1>9. ASSUME NEW c \in Stop, Remove(c) PROVE WantedIsSecured'
  BY <1>9 DEF Remove, Go, TypeOK, Task, TaskStates, AgentStates, Shape,
     Removing, LockHeld, Spawning, Vacant, Finished, OneBox, Chased, Live,
     Intake, WantedIsSecured, Wanted, Secured, Excused, Mailless, Cancelling,
     maps, kernel, edit, history, vars
<1>10. ASSUME NEW c \in Stop, Waited(c) \/ Detach(c) PROVE WantedIsSecured'
  <2> SUFFICES ASSUME NEW b \in Msg, Wanted(b)', Intake', ~Excused' PROVE Secured(b)'
    BY DEF WantedIsSecured
  <2>1. Wanted(b) /\ Intake /\ ~Excused
    BY <1>10 DEF Waited, Detach, EndWait, Clear, Intake, Wanted, Excused, Mailless, TypeOK, kernel, edit
  <2>2. Secured(b)
    BY <2>1 DEF WantedIsSecured
  <2>3. /\ at[c] = "waiting" /\ c \in Task
        /\ at' = [at EXCEPT ![c] = IF ~deleted /\ HasMail(mb[c]) THEN "waking" ELSE "done"]
        /\ UNCHANGED <<active, agent, token, mb, hand, into>>
        /\ deleted => Clear(mb[c])
        /\ ~deleted => mail' = mail
        /\ hand = None
    BY <1>10 DEF Waited, Detach, EndWait, Go, Task, maps, edit, Excused
  <2>4. CASE mb[c] = b
    <3>1. mail[b] # {} /\ mail' = mail
      BY <2>1, <2>3, <2>4 DEF Wanted, Clear, TypeOK, Task
    <3>2. HasMail(mb[c]) /\ ~deleted
      BY <2>3, <2>4, <3>1 DEF HasMail, Wanted, Clear, TypeOK, Task
    <3> QED
      BY <2>3, <2>4, <3>2 DEF Secured, TypeOK
  <2>5. CASE mb[c] # b
    <3>1. CASE \E a \in Task :
                 agent[a] \in {"idle", "running", "winding"} /\ ~token[a] /\ mb[a] = b
      BY <2>3, <3>1 DEF Secured
    <3>2. CASE \E u \in Task :
                 at[u] \in {"waking", "spawning", "entering", "waiting"} /\ mb[u] = b
      BY <2>3, <2>5, <3>2 DEF Secured, TypeOK
    <3>3. CASE active # None /\ \E d \in Stop : Removing(d) /\ mb[d] = b
      BY <2>3, <3>3 DEF Secured, TypeOK, Removing, Task
    <3> QED
      BY <2>2, <3>1, <3>2, <3>3 DEF Secured
  <2> QED
    BY <2>4, <2>5
<1>11. ASSUME NEW a \in Task, Pull(a) PROVE WantedIsSecured'
  BY <1>11 DEF Pull, Step, TypeOK, Task, TaskStates, AgentStates, Shape,
     Removing, LockHeld, Spawning, Vacant, Finished, OneBox, Chased, Live,
     Intake, WantedIsSecured, Wanted, Secured, Excused, Mailless, Cancelling,
     maps, kernel, edit, history, vars
<1>12. ASSUME NEW a \in Task, PullSteers(a) PROVE WantedIsSecured'
  BY <1>12 DEF PullSteers, TypeOK, Task, TaskStates, AgentStates, Shape,
     Removing, LockHeld, Spawning, Vacant, Finished, OneBox, Chased, Live,
     Intake, WantedIsSecured, Wanted, Secured, Excused, Mailless, Cancelling,
     maps, kernel, edit, history, vars
<1>13. ASSUME NEW a \in Task, EndRun(a) PROVE WantedIsSecured'
  BY <1>13 DEF EndRun, Step, TypeOK, Task, TaskStates, AgentStates, Shape,
     Removing, LockHeld, Spawning, Vacant, Finished, OneBox, Chased, Live,
     Intake, WantedIsSecured, Wanted, Secured, Excused, Mailless, Cancelling,
     maps, kernel, edit, history, vars
<1>14. ASSUME NEW a \in Task, WoundDown(a) PROVE WantedIsSecured'
  BY <1>14 DEF WoundDown, Step, TypeOK, Task, TaskStates, AgentStates, Shape,
     Removing, LockHeld, Spawning, Vacant, Finished, OneBox, Chased, Live,
     Intake, WantedIsSecured, Wanted, Secured, Excused, Mailless, Cancelling,
     maps, kernel, edit, history, vars
<1>15. ASSUME NEW a \in Task, Leave(a) PROVE WantedIsSecured'
  <2> SUFFICES ASSUME NEW b \in Msg, Wanted(b)', Intake', ~Excused' PROVE Secured(b)'
    BY DEF WantedIsSecured
  <2>1. Wanted(b) /\ Intake /\ ~Excused
    BY <1>15 DEF Leave, Intake, Wanted, Excused, Mailless, TypeOK, kernel, edit
  <2>2. Secured(b)
    BY <2>1 DEF WantedIsSecured
  <2>3. token[a] \/ mb[a] # b
    BY <1>15, <2>1 DEF Leave, MayLeave, Wanted, Excused
  <2>4. /\ agent' = [agent EXCEPT ![a] = "leaving"]
        /\ UNCHANGED <<active, at, token, mb>>
    BY <1>15 DEF Leave, Step, maps
  <2>5. CASE \E u \in Task :
               agent[u] \in {"idle", "running", "winding"} /\ ~token[u] /\ mb[u] = b
    BY <2>3, <2>4, <2>5 DEF Secured, TypeOK
  <2>6. CASE ~ \E u \in Task :
               agent[u] \in {"idle", "running", "winding"} /\ ~token[u] /\ mb[u] = b
    BY <2>2, <2>4, <2>6 DEF Secured, Removing
  <2> QED
    BY <2>5, <2>6
<1>16. ASSUME NEW a \in Task, Finish(a) PROVE WantedIsSecured'
  BY <1>16 DEF Finish, Step, TypeOK, Task, TaskStates, AgentStates, Shape,
     Removing, LockHeld, Spawning, Vacant, Finished, OneBox, Chased, Live,
     Intake, WantedIsSecured, Wanted, Secured, Excused, Mailless, Cancelling,
     maps, kernel, edit, history, vars
<1>17. ASSUME NEW m \in Msg, TakeItem(m) PROVE WantedIsSecured'
  BY <1>17 DEF TakeItem, TypeOK, Task, TaskStates, AgentStates, Shape,
     Removing, LockHeld, Spawning, Vacant, Finished, OneBox, Chased, Live,
     Intake, WantedIsSecured, Wanted, Secured, Excused, Mailless, Cancelling,
     maps, kernel, edit, history, vars
<1>18. CASE PutItem
  BY <1>18 DEF PutItem, TypeOK, Task, TaskStates, AgentStates, Shape,
     Removing, LockHeld, Spawning, Vacant, Finished, OneBox, Chased, Live,
     Intake, WantedIsSecured, Wanted, Secured, Excused, Mailless, Cancelling,
     maps, kernel, edit, history, vars
<1>19. CASE Withdraw
  BY <1>19 DEF Withdraw, TypeOK, Task, TaskStates, AgentStates, Shape,
     Removing, LockHeld, Spawning, Vacant, Finished, OneBox, Chased, Live,
     Intake, WantedIsSecured, Wanted, Secured, Excused, Mailless, Cancelling,
     maps, kernel, edit, history, vars
<1>20. CASE Sweep
  <2> SUFFICES ASSUME NEW b \in Msg, Wanted(b)', Intake', ~Excused' PROVE Secured(b)'
    BY DEF WantedIsSecured
  <2>1. Wanted(b) /\ Intake /\ ~Excused
    BY <1>20 DEF Sweep, Intake, Wanted, Excused, Mailless, kernel, edit
  <2>2. Secured(b)
    BY <2>1 DEF WantedIsSecured
  <2>3. active' = active \/ ~Cancelling
    BY <1>20 DEF Sweep, Excused
  <2> QED
    BY <1>20, <2>2, <2>3 DEF Sweep, Secured, Cancelling, Removing
<1>21. CASE Delete
  BY <1>21 DEF Delete, TypeOK, Task, TaskStates, AgentStates, Shape, Removing,
     LockHeld, Spawning, Vacant, Finished, OneBox, Chased, Live, Intake,
     WantedIsSecured, Wanted, Secured, Excused, Mailless, Cancelling, maps,
     kernel, edit, history, vars
<1>22. CASE DeleteRows
  BY <1>22 DEF DeleteRows, TypeOK, Task, TaskStates, AgentStates, Shape,
     Removing, LockHeld, Spawning, Vacant, Finished, OneBox, Chased, Live,
     Intake, WantedIsSecured, Wanted, Secured, Excused, Mailless, Cancelling,
     maps, kernel, edit, history, vars
<1>23. CASE CloseIntake
  BY <1>23 DEF CloseIntake, TypeOK, Task, TaskStates, AgentStates, Shape,
     Removing, LockHeld, Spawning, Vacant, Finished, OneBox, Chased, Live,
     Intake, WantedIsSecured, Wanted, Secured, Excused, Mailless, Cancelling,
     maps, kernel, edit, history, vars
<1>24. CASE ShutdownAgents
  BY <1>24 DEF ShutdownAgents, TypeOK, Task, TaskStates, AgentStates, Shape,
     Removing, LockHeld, Spawning, Vacant, Finished, OneBox, Chased, Live,
     Intake, WantedIsSecured, Wanted, Secured, Excused, Mailless, Cancelling,
     maps, kernel, edit, history, vars
<1>25. CASE Joined
  BY <1>25 DEF Joined, TypeOK, Task, TaskStates, AgentStates, Shape, Removing,
     LockHeld, Spawning, Vacant, Finished, OneBox, Chased, Live, Intake,
     WantedIsSecured, Wanted, Secured, Excused, Mailless, Cancelling, maps,
     kernel, edit, history, vars
<1>26. CASE ArmCancels
  BY <1>26 DEF ArmCancels, TypeOK, Task, TaskStates, AgentStates, Shape,
     Removing, LockHeld, Spawning, Vacant, Finished, OneBox, Chased, Live,
     Intake, WantedIsSecured, Wanted, Secured, Excused, Mailless, Cancelling,
     maps, kernel, edit, history, vars
<1>27. CASE ArmEnds
  BY <1>27 DEF ArmEnds, TypeOK, Task, TaskStates, AgentStates, Shape,
     Removing, LockHeld, Spawning, Vacant, Finished, OneBox, Chased, Live,
     Intake, WantedIsSecured, Wanted, Secured, Excused, Mailless, Cancelling,
     maps, kernel, edit, history, vars
<1>28. CASE UNCHANGED vars
  BY <1>28 DEF TypeOK, Task, TaskStates, AgentStates, Shape, Removing,
     LockHeld, Spawning, Vacant, Finished, OneBox, Chased, Live, Intake,
     WantedIsSecured, Wanted, Secured, Excused, Mailless, Cancelling, maps,
     kernel, edit, history, vars
<1> QED
  BY <1>1, <1>2, <1>3, <1>4, <1>5, <1>6, <1>7, <1>8, <1>9, <1>10, <1>11,
     <1>12, <1>13, <1>14, <1>15, <1>16, <1>17, <1>18, <1>19, <1>20, <1>21,
     <1>22, <1>23, <1>24, <1>25, <1>26, <1>27, <1>28 DEF Next, TaskStep,
     AgentStep, StopStep, Task

-----------------------------------------------------------------------------
LEMMA InitInv == Init => Inv
<1> SUFFICES ASSUME Init PROVE Inv
  OBVIOUS
<1> USE ConductorAssumption DEF Init
<1>1. TypeOK
  BY DEF TypeOK, TaskStates, AgentStates, Task
<1>2. Shape /\ LockHeld /\ OneBox /\ Chased
  BY DEF Shape, Removing, LockHeld, Spawning, OneBox, Live, Chased, Task
<1>3. WantedIsSecured /\ UncancelledIsTracked
  BY DEF WantedIsSecured, Wanted, UncancelledIsTracked, Live
<1>4. Deletion /\ Shutdown
  BY DEF Deletion, Shutdown, Live, Spawning, Task
<1> QED
  BY <1>1, <1>2, <1>3, <1>4 DEF Inv

LEMMA InvStep == Inv /\ [Next]_vars => Inv'
BY TypeStep, ShapeStep, LockStep, OneBoxStep, ChasedStep, SecuredStep,
   TrackedStep, DeletionStep, ShutdownStep DEF Inv

LEMMA InvAlways == Spec => []Inv
BY InitInv, InvStep, PTL DEF Spec

-----------------------------------------------------------------------------
(***************************************************************************)
(* The theorems.                                                           *)
(***************************************************************************)

\* Every reachable state has the types.
THEOREM TypeCorrect == Spec => []TypeOK
<1>1. Inv => TypeOK
  BY DEF Inv
<1> QED
  BY <1>1, InvAlways, PTL

\* Pending mail always has somebody to look at it while the intake is open, up
\* to the four exceptions.
THEOREM StrandsNoMail == Spec => []NoStrandedMail
<1>1. Inv => NoStrandedMail
  <2> SUFFICES ASSUME Inv, NEW b \in Msg, mail[b] # {}, Intake, ~Excused
               PROVE  Attended(b)
    BY DEF NoStrandedMail, Excused
  <2>1. Secured(b)
    BY DEF Inv, WantedIsSecured, Wanted
  <2> QED
    BY <2>1 DEF Secured, Attended, Removing, Task
<1> QED
  BY <1>1, InvAlways, PTL

\* An agent nobody has cancelled is the one in the active map, up to those a
\* Cancel took uncancelled and to locks lost to a cleanup tick.
THEOREM TracksUncancelled == Spec => []UncancelledIsTracked
<1>1. Inv => UncancelledIsTracked
  BY DEF Inv
<1> QED
  BY <1>1, InvAlways, PTL

\* After a deletion and its Cancel no agent goes on uncancelled.
THEOREM TellsDeletedToGo == Spec => []DeletedIsToldToGo
<1>1. Inv => DeletedIsToldToGo
  BY DEF Inv, Deletion, DeletedIsToldToGo
<1> QED
  BY <1>1, InvAlways, PTL

\* No agent outlives a shutdown that gave up on none.
THEOREM StopsForGood == Spec => []StopIsFinal
<1>1. Inv => StopIsFinal
  <2> SUFFICES ASSUME Inv, stopping = "down", ~timedOut, ~swept,
                      NEW a \in Task, Live(a)
               PROVE  a \in escaping \/ \E c \in Stop : victim[c] = a
    BY DEF StopIsFinal
  <2>1. a # None /\ ~Finished(a)
    BY ConductorAssumption DEF Live, Finished
  <2>2. a = active \/ a = joined \/ \E c \in Stop : victim[c] = a
    BY DEF Inv, Shutdown
  <2> QED
    BY <2>1, <2>2 DEF Inv, Shutdown
<1> QED
  BY <1>1, InvAlways, PTL
=============================================================================
