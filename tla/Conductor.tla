----------------------------- MODULE Conductor -----------------------------
(***************************************************************************)
(* How one session's agents are spawned, fed, cancelled, swept, deleted    *)
(* and shut down: kernel/conductor.rs with Kernel::stop and                *)
(* Kernel::delete_session of kernel/mod.rs, the mailbox of comms/mailbox.rs*)
(* and the outer states of the agent loop in agent/agent.rs.               *)
(*                                                                         *)
(* The conductor handles every input in a task of its own, so the inputs   *)
(* of one session interleave.  A step of a task is what it does between    *)
(* two awaits at which another task can change what it reads next.  A task *)
(* spawns at most one agent and creates at most one mailbox; both are      *)
(* named by it.  The order of mails within a queue, message contents and   *)
(* events are left out.                                                    *)
(***************************************************************************)
EXTENDS Naturals

CONSTANTS
  Msg,        \* User and Steer inputs of the session
  Steers,     \* the Steer inputs among them
  Stop,       \* Cancel inputs (Shutdown inputs take the same path)
  DeleteStop, \* the Cancel input that delete_session publishes
  None,
  MaxSweeps,  \* bound: ticks of the cleanup interval
  MaxEdits,   \* bound: edits of the pending items by users
  MayStop,    \* bound: does the kernel stop in these runs?
  MayDetach   \* bound: do the bounded waits for an agent time out?

Task == Msg \cup Stop

ASSUME ConductorAssumption ==
  /\ Steers \subseteq Msg
  /\ Msg \cap Stop = {}
  /\ None \notin Task
  /\ DeleteStop \in Stop \cup {None}
  /\ MaxSweeps \in Nat
  /\ MaxEdits \in Nat
  /\ MayStop \in BOOLEAN
  /\ MayDetach \in BOOLEAN

VARIABLES
  active,    \* the active map: the agent of the session, or None
  boxed,     \* the mailboxes map: the mailbox of the session, or None
  locked,    \* the spawn_locks map: who holds the current lock, or None
  mail,      \* [Msg -> SUBSET Msg]: what is pending in a mailbox
  urgent,    \* the inputs that go, or would go, into the steer lane
  hand,      \* steer_mailbox_item: the item it took from the queue, or None
  into,      \* the mailbox it took the item from
  edits,     \* edits so far
  at,        \* [Task -> ...]: where the task that handles an input stands
  mb,        \* [Task -> Msg \cup {None}]: the mailbox Arc it has cloned
  victim,    \* [Stop -> Task \cup {None}]: the agent it took from the map
  agent,     \* [Task -> ...]: the state of the agent a task spawned
  token,     \* [Task -> BOOLEAN]: the agent's cancel_token is cancelled
  deleted,   \* the tombstone in deleted_sessions
  rows,      \* delete_session: "kept", "waiting" for the run, "deleted"
  stopping,  \* Kernel::stop: "up", "closing", "joining", "arm", "down"
  joined,    \* the agent shutdown_all_agents took from the map, or None
  sweeps,    \* ticks so far
  swept,     \* history: a tick dropped a mailbox or lock still in use
  overtaken, \* history: a wake relied on an agent past its last look
  misfired,  \* history: agents a Cancel took from the map uncancelled
  escaping,  \* history: wakes between their second look at the intake and the
             \* map when the shutdown arm ended
  timedOut,  \* history: a bounded wait for an agent gave up
  late,      \* history: wakes past their look at the tombstone when it was set
  fumbled    \* history: the mailbox was given up with an item in a hand

maps == <<active, boxed, locked>>
kernel == <<deleted, rows, stopping, joined>>
edit == <<urgent, hand, into, edits>>
history == <<swept, overtaken, misfired, escaping, timedOut, late, fumbled>>
vars == <<maps, mail, edit, at, mb, victim, agent, token, kernel, sweeps, history>>

TaskStates == {"new", "boxing", "pushing", "waking", "spawning", "entering",
               "locking", "clearing", "removing", "waiting", "done"}
AgentStates == {"unborn", "idle", "running", "winding", "leaving", "finished"}

Init ==
  /\ active = None
  /\ boxed = None
  /\ locked = None
  /\ mail = [b \in Msg |-> {}]
  /\ urgent = Steers
  /\ hand = None
  /\ into = None
  /\ edits = 0
  /\ at = [t \in Task |-> "new"]
  /\ mb = [t \in Task |-> None]
  /\ victim = [c \in Stop |-> None]
  /\ agent = [t \in Task |-> "unborn"]
  /\ token = [t \in Task |-> FALSE]
  /\ deleted = FALSE
  /\ rows = "kept"
  /\ stopping = "up"
  /\ joined = None
  /\ sweeps = 0
  /\ swept = FALSE
  /\ overtaken = FALSE
  /\ misfired = {}
  /\ escaping = {}
  /\ timedOut = FALSE
  /\ late = {}
  /\ fumbled = FALSE

Finished(a) == agent[a] = "finished"
Live(a) == agent[a] \notin {"unborn", "finished"}
Busy(a) == agent[a] \in {"running", "winding"}
Intake == stopping = "up"

\* MUTANT of Tombstoned: the wake relies on what handle_input saw.
TombstonedUnseen == FALSE

Tombstoned == deleted

\* Once shutdown is cancelled the conductor's loop receives no more inputs.
Receives == stopping \notin {"arm", "down"}

Go(t, place) == at' = [at EXCEPT ![t] = place]

\* Mailbox::clear on the mailbox a task holds, if it holds one.
Clear(b) == mail' = IF b = None THEN mail ELSE [mail EXCEPT ![b] = {}]

-----------------------------------------------------------------------------
(***************************************************************************)
(* A User or Steer input.                                                  *)
(***************************************************************************)

\* handle_input: the tombstone check, before the images are processed.
Receive(m) ==
  /\ at[m] = "new"
  /\ Receives
  /\ IF deleted
     THEN Go(m, "done") /\ Clear(boxed) /\ fumbled' = (fumbled \/ hand # None)
     ELSE Go(m, "boxing") /\ UNCHANGED <<mail, fumbled>>
  /\ UNCHANGED <<maps, mb, victim, agent, token, kernel, sweeps,
                 swept, overtaken, misfired, escaping, timedOut, late, edit>>

\* The session's mailbox is looked up, or created.
Box(m) ==
  /\ at[m] = "boxing"
  /\ boxed' = IF boxed = None THEN m ELSE boxed
  /\ mb' = [mb EXCEPT ![m] = boxed']
  /\ Go(m, "pushing")
  /\ UNCHANGED <<active, locked, mail, victim, agent, token, kernel, sweeps, history, edit>>

Push(m) ==
  /\ at[m] = "pushing"
  /\ mail' = [mail EXCEPT ![mb[m]] = @ \cup {m}]
  /\ Go(m, "waking")
  /\ UNCHANGED <<maps, mb, victim, agent, token, kernel, sweeps, history, edit>>

-----------------------------------------------------------------------------
(***************************************************************************)
(* wake_agent, called by a task with a mailbox in hand.                    *)
(***************************************************************************)

\* MUTANT of Vacant: the agent in the map is not looked at.
VacantAlways == TRUE

\* No agent is in the map, or only one whose task has returned.
Vacant == active # None => Finished(active)

\* Everything up to the first await: the task goes away, or goes on to spawn
\* with the lock in hand.
Wake(t) ==
  /\ at[t] = "waking"
  /\ \/ /\ ~Intake
        /\ Go(t, "done")
        /\ UNCHANGED <<locked, mail, overtaken, fumbled>>
     \/ /\ Intake /\ Tombstoned
        /\ Go(t, "done")
        /\ Clear(mb[t])
        /\ fumbled' = (fumbled \/ hand # None)
        /\ UNCHANGED <<locked, overtaken>>
     \/ /\ Intake /\ ~Tombstoned /\ locked # None
        /\ Go(t, "done")
        /\ UNCHANGED <<locked, mail, overtaken, fumbled>>
     \/ /\ Intake /\ ~Tombstoned /\ locked = None
        /\ ~Vacant
        /\ Go(t, "done")
        /\ overtaken' = (overtaken \/ agent[active] = "leaving")
        /\ UNCHANGED <<locked, mail, fumbled>>
     \/ /\ Intake /\ ~Tombstoned /\ locked = None
        /\ Vacant
        /\ Go(t, "spawning")
        /\ locked' = t
        /\ UNCHANGED <<mail, overtaken, fumbled>>
  /\ UNCHANGED <<active, boxed, mb, victim, agent, token, kernel, sweeps,
                 swept, misfired, escaping, timedOut, late, edit>>

\* The spawn lock is dropped; a tick may have taken it out of the map before.
Unlock(t) == locked' = IF locked = t THEN None ELSE locked

\* MUTANT of MaySpawn: what wake_agent saw before its awaits still counts.
MaySpawnStale == TRUE

MaySpawn == Intake

\* After the session context is assembled and the agent built, the intake is
\* looked at again ...
Spawn(t) ==
  /\ at[t] = "spawning"
  /\ IF MaySpawn
     THEN Go(t, "entering") /\ UNCHANGED locked
     ELSE Go(t, "done") /\ Unlock(t)
  /\ UNCHANGED <<active, boxed, mail, mb, victim, agent, token, kernel, sweeps,
                 history, edit>>

\* ... and the agent is entered in the map and started.  There is no await in
\* between, but other threads do not wait for this one.
Enter(t) ==
  /\ at[t] = "entering"
  /\ active' = t
  /\ agent' = [agent EXCEPT ![t] = "idle"]
  /\ Unlock(t)
  /\ Go(t, "done")
  /\ UNCHANGED <<boxed, mail, mb, victim, token, kernel, sweeps, history, edit>>

-----------------------------------------------------------------------------
(***************************************************************************)
(* A Cancel input.                                                         *)
(***************************************************************************)

\* Clone the mailbox, cancel the agent that is in the map now.
Cancel(c) ==
  /\ at[c] = "new"
  /\ Receives
  /\ c = DeleteStop => deleted
  /\ mb' = [mb EXCEPT ![c] = boxed]
  /\ token' = [t \in Task |-> token[t] \/ t = active]
  /\ Go(c, "locking")
  /\ UNCHANGED <<maps, mail, victim, agent, kernel, sweeps, history, edit>>

\* The btw lock is obtained, possibly much later; the mailbox is cleared.
ClearMail(c) ==
  /\ at[c] = "locking"
  /\ Clear(mb[c])
  /\ Go(c, "removing")
  /\ UNCHANGED <<maps, mb, victim, agent, token, kernel, sweeps, history, edit>>

\* Whatever agent is in the map now is taken out and waited for.
Remove(c) ==
  /\ at[c] = "removing"
  /\ active' = None
  /\ victim' = [victim EXCEPT ![c] = active]
  /\ Go(c, IF active = None THEN "done" ELSE "waiting")
  /\ misfired' = IF active # None /\ ~token[active]
                 THEN misfired \cup {active} ELSE misfired
  /\ UNCHANGED <<boxed, locked, mail, mb, agent, token, kernel, sweeps,
                 swept, overtaken, escaping, timedOut, late, fumbled, edit>>

\* MUTANT of HasMail: no look into the mailbox after the wait.
HasMailNever(b) == FALSE

HasMail(b) == IF b = None THEN FALSE ELSE mail[b] # {}

\* The wait ends, with the agent finished or not.  Input that came in the
\* meantime gets a new agent, unless the session is deleted.
EndWait(c) ==
  /\ at[c] = "waiting"
  /\ IF deleted
     THEN Clear(mb[c]) /\ Go(c, "done")
     ELSE Go(c, IF HasMail(mb[c]) THEN "waking" ELSE "done") /\ UNCHANGED mail
  /\ fumbled' = (fumbled \/ hand # None)
  /\ UNCHANGED <<maps, mb, victim, agent, token, kernel, sweeps,
                 swept, overtaken, misfired, escaping, late, edit>>

Waited(c) ==
  /\ EndWait(c)
  /\ Finished(victim[c])
  /\ UNCHANGED timedOut

\* 5 s, and 30 s more if the agent is winding down by then.
Detach(c) ==
  /\ MayDetach
  /\ EndWait(c)
  /\ ~Finished(victim[c])
  /\ timedOut' = TRUE

-----------------------------------------------------------------------------
(***************************************************************************)
(* The agent loop, as far as the conductor can tell its states apart.      *)
(***************************************************************************)
Step(a, from, to) ==
  /\ agent[a] = from
  /\ agent' = [agent EXCEPT ![a] = to]

\* Idle: all pending steers, or else one message, start a run.
Pull(a) ==
  /\ ~token[a]
  /\ Step(a, "idle", "running")
  /\ LET pending == mail[mb[a]] IN
       \/ /\ pending \cap urgent # {}
          /\ mail' = [mail EXCEPT ![mb[a]] = @ \ urgent]
       \/ /\ pending \cap urgent = {}
          /\ \E m \in pending : mail' = [mail EXCEPT ![mb[a]] = @ \ {m}]
  /\ UNCHANGED <<maps, at, mb, victim, token, kernel, sweeps, history, edit>>

\* Streaming takes pending steers along, even when already cancelled.
PullSteers(a) ==
  /\ agent[a] = "running"
  /\ mail[mb[a]] \cap urgent # {}
  /\ mail' = [mail EXCEPT ![mb[a]] = @ \ urgent]
  /\ UNCHANGED <<maps, at, mb, victim, agent, token, kernel, sweeps, history, edit>>

\* The run is over (done, failed, cancelled), then its turn has wound down.
EndRun(a) ==
  /\ Step(a, "running", "winding")
  /\ UNCHANGED <<maps, mail, at, mb, victim, token, kernel, sweeps, history, edit>>

WoundDown(a) ==
  /\ Step(a, "winding", "idle")
  /\ UNCHANGED <<maps, mail, at, mb, victim, token, kernel, sweeps, history, edit>>

\* MUTANT of MayLeave: the mailbox is not looked at after the idle time.
MayLeaveBlindly(a) == TRUE

MayLeave(a) == token[a] \/ mail[mb[a]] = {}

\* A cancelled agent leaves at Idle whatever is in its mailbox; another one
\* leaves after two idle minutes if it finds its mailbox empty.
Leave(a) ==
  /\ Step(a, "idle", "leaving")
  /\ MayLeave(a)
  /\ fumbled' = (fumbled \/ hand # None)
  /\ UNCHANGED <<maps, mail, at, mb, victim, token, kernel, sweeps,
                 swept, overtaken, misfired, escaping, timedOut, late, edit>>

\* The task has returned: JoinHandle::is_finished.
Finish(a) ==
  /\ Step(a, "leaving", "finished")
  /\ UNCHANGED <<maps, mail, at, mb, victim, token, kernel, sweeps, history, edit>>

-----------------------------------------------------------------------------
(***************************************************************************)
(* A user edits what is pending.                                           *)
(***************************************************************************)

\* steer_mailbox_item takes an item out of its queue ...
TakeItem(m) ==
  /\ edits < MaxEdits
  /\ hand = None
  /\ boxed # None
  /\ m \in mail[boxed] \ urgent
  /\ mail' = [mail EXCEPT ![boxed] = @ \ {m}]
  /\ hand' = m
  /\ into' = boxed
  /\ edits' = edits + 1
  /\ UNCHANGED <<maps, urgent, at, mb, victim, agent, token, kernel, sweeps, history>>

\* ... and puts it into the steer lane, or back if it was no user's message.
\* It wakes nobody.
PutItem ==
  /\ hand # None
  /\ mail' = [mail EXCEPT ![into] = @ \cup {hand}]
  /\ urgent' \in {urgent, urgent \cup {hand}}
  /\ hand' = None
  /\ into' = None
  /\ UNCHANGED <<maps, edits, at, mb, victim, agent, token, kernel, sweeps, history>>

\* remove_mailbox_item withdraws one item, clear_mailbox a lane or both.
Withdraw ==
  /\ edits < MaxEdits
  /\ boxed # None
  /\ LET box == mail[boxed] IN
       \E gone \in {{m} : m \in box} \cup {box \cap urgent, box \ urgent, box} :
         mail' = [mail EXCEPT ![boxed] = @ \ gone]
  /\ edits' = edits + 1
  /\ UNCHANGED <<maps, urgent, hand, into, at, mb, victim, agent, token, kernel,
                 sweeps, history>>

-----------------------------------------------------------------------------
(***************************************************************************)
(* The cleanup tick, deletion and shutdown.                                *)
(***************************************************************************)
InUse(b) == into = b \/ \E t \in Task : mb[t] = b /\ (at[t] # "done" \/ Live(t))
Cancelling == \E c \in Stop : at[c] \in {"locking", "removing"}

Sweep ==
  /\ sweeps < MaxSweeps
  /\ Receives
  /\ sweeps' = sweeps + 1
  /\ active' = IF active # None /\ Finished(active) THEN None ELSE active
  /\ boxed' = IF boxed # None /\ active' = None /\ mail[boxed] = {}
              THEN None ELSE boxed
  /\ locked' = IF active' = None /\ boxed' # None THEN locked ELSE None
  /\ swept' = \/ swept
              \/ active' # active /\ Cancelling
              \/ boxed' # boxed /\ InUse(boxed)
              \/ locked' # locked
  /\ UNCHANGED <<mail, at, mb, victim, agent, token, kernel,
                 overtaken, misfired, escaping, timedOut, late, fumbled, edit>>

\* running_sessions holds the session: its agent in the map is not idle.
\* Leaving, the state mirror reads Idle.
IsRunning == active # None /\ Busy(active)

Delete ==
  /\ DeleteStop # None
  /\ ~deleted
  /\ deleted' = TRUE
  /\ rows' = "waiting"
  /\ late' = {t \in Task : at[t] \in {"spawning", "entering"}}
  /\ UNCHANGED <<maps, mail, at, mb, victim, agent, token, stopping, joined, sweeps,
                 swept, overtaken, misfired, escaping, timedOut, fumbled, edit>>

DeleteRows ==
  /\ rows = "waiting"
  /\ IsRunning => MayDetach
  /\ rows' = "deleted"
  /\ timedOut' = (timedOut \/ IsRunning)
  /\ UNCHANGED <<maps, mail, at, mb, victim, agent, token, deleted, stopping,
                 joined, sweeps, swept, overtaken, misfired, escaping, late, fumbled, edit>>

\* Kernel::stop closes the intake first ...
CloseIntake ==
  /\ MayStop
  /\ stopping = "up"
  /\ stopping' = "closing"
  /\ UNCHANGED <<maps, mail, at, mb, victim, agent, token, deleted, rows,
                 joined, sweeps, history, edit>>

\* ... then takes the agent out of the map, cancelled, to join it ...
ShutdownAgents ==
  /\ stopping = "closing"
  /\ stopping' = "joining"
  /\ joined' = active
  /\ active' = None
  /\ token' = [t \in Task |-> token[t] \/ t = active]
  /\ UNCHANGED <<boxed, locked, mail, at, mb, victim, agent, deleted, rows,
                 sweeps, history, edit>>

\* ... for at most 35 s, and cancels the shutdown token ...
Joined ==
  /\ stopping = "joining"
  /\ \/ joined = None
     \/ joined # None /\ Finished(joined)
     \/ joined # None /\ ~Finished(joined) /\ MayDetach
  /\ stopping' = "arm"
  /\ timedOut' = (timedOut \/ (joined # None /\ ~Finished(joined)))
  /\ UNCHANGED <<maps, mail, at, mb, victim, agent, token, deleted, rows,
                 joined, sweeps, swept, overtaken, misfired, escaping, late, fumbled, edit>>

\* ... whereupon the conductor's loop cancels what is in the map, over and
\* over, until all of it is finished or 5 s have passed.
ArmCancels ==
  /\ stopping = "arm"
  /\ active # None
  /\ ~token[active]
  /\ token' = [token EXCEPT ![active] = TRUE]
  /\ UNCHANGED <<maps, mail, at, mb, victim, agent, kernel, sweeps, history, edit>>

ArmEnds ==
  /\ stopping = "arm"
  /\ \/ active = None
     \/ active # None /\ Finished(active)
     \/ active # None /\ ~Finished(active) /\ MayDetach
  /\ stopping' = "down"
  /\ timedOut' = (timedOut \/ (active # None /\ ~Finished(active)))
  /\ escaping' = {t \in Task : at[t] = "entering"}
  /\ UNCHANGED <<maps, mail, at, mb, victim, agent, token, deleted, rows,
                 joined, sweeps, swept, overtaken, misfired, late, fumbled, edit>>

-----------------------------------------------------------------------------
TaskStep(t) ==
  \/ t \in Msg /\ (Box(t) \/ Push(t))
  \/ Wake(t)
  \/ Spawn(t)
  \/ Enter(t)
  \/ t \in Stop /\ (ClearMail(t) \/ Remove(t) \/ Waited(t))

AgentStep(a) ==
  \/ Pull(a)
  \/ PullSteers(a)
  \/ EndRun(a)
  \/ WoundDown(a)
  \/ Leave(a)
  \/ Finish(a)

StopStep == ShutdownAgents \/ Joined \/ ArmCancels \/ ArmEnds

Next ==
  \/ \E t \in Task : TaskStep(t) \/ AgentStep(t)
  \/ \E m \in Msg : Receive(m) \/ TakeItem(m)
  \/ PutItem \/ Withdraw
  \/ \E c \in Stop : Cancel(c) \/ Detach(c)
  \/ Sweep \/ Delete \/ DeleteRows \/ CloseIntake \/ StopStep

\* Tasks are polled, the btw lock is released, runs end and hooks return.
\* Inputs, ticks, deletion, shutdown and timeouts need not happen.
Fairness ==
  /\ \A t \in Task : WF_vars(TaskStep(t)) /\ WF_vars(AgentStep(t))
  /\ WF_vars(StopStep)
  /\ WF_vars(PutItem)

Spec == Init /\ [][Next]_vars /\ Fairness

-----------------------------------------------------------------------------
TypeOK ==
  /\ active \in Task \cup {None}
  /\ boxed \in Msg \cup {None}
  /\ locked \in Task \cup {None}
  /\ mail \in [Msg -> SUBSET Msg]
  /\ urgent \in SUBSET Msg
  /\ hand \in Msg \cup {None}
  /\ into \in Msg \cup {None}
  /\ hand # None => into # None
  /\ edits \in Nat
  /\ at \in [Task -> TaskStates]
  /\ mb \in [Task -> Msg \cup {None}]
  /\ \A t \in Task : at[t] \in {"pushing", "waking", "spawning", "entering"} => mb[t] # None
  /\ victim \in [Stop -> Task \cup {None}]
  /\ agent \in [Task -> AgentStates]
  /\ token \in [Task -> BOOLEAN]
  /\ deleted \in BOOLEAN
  /\ rows \in {"kept", "waiting", "deleted"}
  /\ stopping \in {"up", "closing", "joining", "arm", "down"}
  /\ joined \in Task \cup {None}
  /\ sweeps \in Nat
  /\ swept \in BOOLEAN
  /\ overtaken \in BOOLEAN
  /\ misfired \subseteq Task
  /\ escaping \subseteq Task
  /\ timedOut \in BOOLEAN
  /\ late \subseteq Task
  /\ fumbled \in BOOLEAN

\* Someone will still look into mailbox b: an agent that comes back to its
\* Idle check uncancelled, or a task that will wake an agent, clear the
\* mailbox, or examine it after its wait.
Attended(b) ==
  \/ \E a \in Task :
       /\ agent[a] \in {"idle", "running", "winding"}
       /\ ~token[a]
       /\ mb[a] = b
  \/ \E t \in Task :
       /\ at[t] \in {"waking", "spawning", "entering", "locking", "removing", "waiting"}
       /\ mb[t] = b

\* A Cancel that came before the session had a mailbox took an agent from the
\* map: it will not look into that agent's mailbox after its wait.
Mailless == \E c \in Stop : victim[c] # None /\ mb[c] = None

\* Pending mail never waits "until yet another message arrives" (comment in
\* the Cancel arm): while the intake is open somebody is still to look at it.
\* The four ways this fails are named: a wake relied on an agent that had
\* already seen its mailbox empty, a cleanup tick pulled the mailbox, lock or
\* map entry from under a task, the agent was taken by a Cancel that holds
\* no mailbox, or the mailbox was given up while a user's edit had an item in
\* its hand, which it put back without a wake.
NoStrandedMail ==
  \A b \in Msg :
    mail[b] # {} /\ Intake =>
      Attended(b) \/ overtaken \/ swept \/ Mailless \/ fumbled

\* An agent nobody has cancelled is the one in the active map, where /stop,
\* shutdown and gc find it: the spawn lock and the look at the map keep spawns
\* from overwriting a live entry.  The exceptions: agents a Cancel took from
\* the map without having cancelled them, and locks lost to a cleanup tick.
UncancelledIsTracked ==
  \A a \in Task : Live(a) /\ ~token[a] => a = active \/ a \in misfired \/ swept

\* Once the conductor's shutdown arm is through without giving up on an agent,
\* none is left and none comes to life any more, although wakes that passed
\* the first look at the intake may still be on their way.  The exceptions:
\* agents in the hands of a Cancel, which Kernel::stop no longer sees, and
\* wakes between their second look and the map just then.
StopIsFinal ==
  stopping = "down" /\ ~timedOut /\ ~swept =>
    \A a \in Task : Live(a) => a \in escaping \/ \E c \in Stop : victim[c] = a

\* What delete_session leaves behind has been told to go: once its own Cancel
\* is through, no agent of the session is uncancelled, since inputs and wakes
\* look at the tombstone.  The exceptions: wakes past their look when it was
\* set, agents a Cancel took uncancelled, and locks lost to a cleanup tick.
DeletedIsToldToGo ==
  deleted /\ at[DeleteStop] = "done" =>
    \A a \in Task : Live(a) => token[a] \/ a \in misfired \cup late \/ swept

\* Mail that was pushed is read by an agent or cleared by a cancel or a
\* deletion, whatever timeouts a Cancel runs into; with the exceptions named
\* in NoStrandedMail, and unless the kernel stops.
EventuallyRead ==
  \A m \in Msg :
    (\E b \in Msg : m \in mail[b])
      ~> \/ \A b \in Msg : m \notin mail[b]
         \/ overtaken \/ swept \/ Mailless \/ fumbled \/ stopping # "up"
=============================================================================
