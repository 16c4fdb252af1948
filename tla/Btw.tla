-------------------------------- MODULE Btw --------------------------------
(***************************************************************************)
(* The side questions ("btw") of one session: kernel/btw.rs with start_btw *)
(* and the Cancel, shutdown and cleanup arms of kernel/conductor.rs.       *)
(*                                                                         *)
(* Every input is handled in a task of its own.  A question freezes a      *)
(* snapshot under the session's lock and then streams its answer in a task *)
(* that races with whoever wants to end it for the handle in the tracker:  *)
(* who removes the handle emits Done.  Snapshots, answers and reasons are  *)
(* left out; so are Delta events, which change nothing here.               *)
(***************************************************************************)
EXTENDS Naturals

CONSTANTS
  Question,   \* Btw inputs of the session, named by their request ids
  Stop,       \* Cancel and Shutdown inputs of the session
  None,
  MaxSweeps   \* bound: ticks of the cleanup interval

Task == Question \cup Stop

ASSUME BtwAssumption ==
  /\ Question \cap Stop = {}
  /\ None \notin Task
  /\ MaxSweeps \in Nat

VARIABLES
  gen,      \* cancel_gens
  handle,   \* the handles map: the question whose stream it can abort
  lock,     \* the start_locks map: the lock, named by the task that made it
  held,     \* [Task -> Task \cup {None}]: who holds each lock
  at,       \* [Task -> ...]: where the task that handles an input stands
  arc,      \* [Task -> Task \cup {None}]: the lock it has cloned
  snap,     \* [Question -> Nat]: the generation it has read
  stream,   \* [Question -> ...]: the task that streams its answer
  down,     \* the conductor's loop has ended
  sweeps,   \* ticks so far
  started,  \* history: questions whose Start was emitted
  dones,    \* history, [Question -> Nat]: Done events emitted
  missed,   \* history: streams that ended before their handle was there
  swept     \* history: a tick dropped a lock that a task had cloned

tracker == <<gen, handle, lock>>
tasks == <<held, at, arc, snap>>
history == <<started, dones, missed, swept>>
vars == <<tracker, tasks, stream, down, sweeps, history>>

Places == {"new", "locking", "preparing", "registering", "done"}
Streams == {"none", "running", "aborted", "finished"}

Init ==
  /\ gen = 0
  /\ handle = None
  /\ lock = None
  /\ held = [t \in Task |-> None]
  /\ at = [t \in Task |-> "new"]
  /\ arc = [t \in Task |-> None]
  /\ snap = [q \in Question |-> 0]
  /\ stream = [q \in Question |-> "none"]
  /\ down = FALSE
  /\ sweeps = 0
  /\ started = {}
  /\ dones = [q \in Question |-> 0]
  /\ missed = {}
  /\ swept = FALSE

Go(t, place) == at' = [at EXCEPT ![t] = place]
Done(q) == dones' = [dones EXCEPT ![q] = @ + 1]

\* BtwTracker::lock, first half: the lock is looked up or created, and cloned.
CloneLock(t) ==
  /\ lock' = IF lock = None THEN t ELSE lock
  /\ arc' = [arc EXCEPT ![t] = lock']
  /\ Go(t, "locking")

\* MUTANT of Free: the lock is not waited for.
FreeAlways(t) == TRUE

\* Second half: its holder, if any, has let go of it.
Free(t) == held[arc[t]] = None

Release(t) == held' = [held EXCEPT ![arc[t]] = None]

\* BtwTracker::abort: the handle is taken out, the stream it belongs to is cut
\* off (one that has finished stays so), and Done is emitted for it.
Abort ==
  /\ handle' = None
  /\ stream' = [q \in Question |->
                  IF q = handle /\ stream[q] = "running" THEN "aborted" ELSE stream[q]]
  /\ dones' = [q \in Question |-> IF q = handle THEN dones[q] + 1 ELSE dones[q]]

-----------------------------------------------------------------------------
(***************************************************************************)
(* start_btw.                                                              *)
(***************************************************************************)
Ask(q) ==
  /\ at[q] = "new"
  /\ ~down
  /\ snap' = [snap EXCEPT ![q] = gen]
  /\ CloneLock(q)
  /\ UNCHANGED <<gen, handle, held, stream, down, sweeps, history>>

\* With the lock: the last question is replaced, and Start is emitted.
Begin(q) ==
  /\ at[q] = "locking"
  /\ Free(q)
  /\ held' = [held EXCEPT ![arc[q]] = q]
  /\ Abort
  /\ started' = started \cup {q}
  /\ Go(q, "preparing")
  /\ UNCHANGED <<gen, lock, arc, snap, down, sweeps, missed, swept>>

\* The model or the request cannot be resolved, or ...
PrepareFails(q) ==
  /\ at[q] = "preparing"
  /\ Done(q)
  /\ Release(q)
  /\ Go(q, "done")
  /\ UNCHANGED <<tracker, arc, snap, stream, down, sweeps, started, missed, swept>>

\* MUTANT of Overtaken: the generation is not compared.
OvertakenNever(q) == FALSE

\* ... a cancellation has come by since the question was asked, or ...
Overtaken(q) == gen # snap[q]

\* MUTANT of GiveUp: it returns as if Start had not been emitted.
GiveUpSilently(q) ==
  /\ at[q] = "preparing"
  /\ Overtaken(q)
  /\ Release(q)
  /\ Go(q, "done")
  /\ UNCHANGED <<tracker, arc, snap, stream, down, sweeps, history>>

GiveUp(q) ==
  /\ at[q] = "preparing"
  /\ Overtaken(q)
  /\ Done(q)
  /\ Release(q)
  /\ Go(q, "done")
  /\ UNCHANGED <<tracker, arc, snap, stream, down, sweeps, started, missed, swept>>

\* ... the stream is spawned, and runs from here on.
Launch(q) ==
  /\ at[q] = "preparing"
  /\ ~Overtaken(q)
  /\ stream' = [stream EXCEPT ![q] = "running"]
  /\ Go(q, "registering")
  /\ UNCHANGED <<tracker, held, arc, snap, down, sweeps, history>>

Register(q) ==
  /\ at[q] = "registering"
  /\ handle' = q
  /\ Release(q)
  /\ Go(q, "done")
  /\ UNCHANGED <<gen, lock, arc, snap, stream, down, sweeps, history>>

-----------------------------------------------------------------------------
(***************************************************************************)
(* The stream and those who end it.                                        *)
(***************************************************************************)

\* MUTANT of Wins: remove by session alone, as abort does.
WinsAny(q) == TRUE

\* remove_if: the handle is still there and is this question's.
Wins(q) == handle = q

\* The answer is through (or the provider failed): BtwTracker::complete.  A
\* stream that has been cut off may be on its way here already.
Complete(q) ==
  /\ stream[q] \in {"running", "aborted"}
  /\ IF Wins(q)
     THEN handle' = None /\ Done(q)
     ELSE UNCHANGED <<handle, dones>>
  /\ missed' = IF stream[q] = "running" /\ ~Wins(q) THEN missed \cup {q} ELSE missed
  /\ stream' = [stream EXCEPT ![q] = "finished"]
  /\ UNCHANGED <<gen, lock, tasks, down, sweeps, started, swept>>

\* Cancel input: the lock is asked for ...
AskCancel(c) ==
  /\ at[c] = "new"
  /\ ~down
  /\ CloneLock(c)
  /\ UNCHANGED <<gen, handle, held, snap, stream, down, sweeps, history>>

\* ... and under it the generation goes up and the stream is cut off.
Cancel(c) ==
  /\ at[c] = "locking"
  /\ Free(c)
  /\ gen' = gen + 1
  /\ Abort
  /\ Go(c, "done")
  /\ UNCHANGED <<lock, held, arc, snap, down, sweeps, started, missed, swept>>

\* The conductor's shutdown arm: abort_all, without the lock.
Shutdown ==
  /\ ~down
  /\ down' = TRUE
  /\ Abort
  /\ UNCHANGED <<gen, lock, tasks, sweeps, started, missed, swept>>

\* The cleanup tick: retain.  keep: the session has an agent or a mailbox.
Sweep(keep) ==
  /\ ~down
  /\ sweeps < MaxSweeps
  /\ sweeps' = sweeps + 1
  /\ handle' = IF \E q \in Question : handle = q /\ stream[q] = "finished"
               THEN None ELSE handle
  /\ lock' = IF lock = None \/ handle' # None \/ keep \/ held[lock] # None
             THEN lock ELSE None
  /\ swept' = (swept \/ (lock' # lock /\ \E t \in Task : at[t] = "locking" /\ arc[t] = lock))
  /\ UNCHANGED <<gen, tasks, stream, down, started, dones, missed>>

-----------------------------------------------------------------------------
Answer(q) ==
  \/ Begin(q)
  \/ PrepareFails(q)
  \/ GiveUp(q)
  \/ Launch(q)
  \/ Register(q)

Next ==
  \/ \E q \in Question : Ask(q) \/ Answer(q) \/ Complete(q)
  \/ \E c \in Stop : AskCancel(c) \/ Cancel(c)
  \/ Shutdown
  \/ \E keep \in BOOLEAN : Sweep(keep)

\* Tasks are polled, what is prepared comes to an end, and so do streams.
\* Inputs, ticks and shutdown need not come.
Fairness ==
  /\ \A q \in Question : WF_vars(Answer(q)) /\ WF_vars(Complete(q))
  /\ \A c \in Stop : WF_vars(Cancel(c))

Spec == Init /\ [][Next]_vars /\ Fairness

-----------------------------------------------------------------------------
TypeOK ==
  /\ gen \in Nat
  /\ handle \in Question \cup {None}
  /\ lock \in Task \cup {None}
  /\ held \in [Task -> Question \cup {None}]
  /\ at \in [Task -> Places]
  /\ arc \in [Task -> Task \cup {None}]
  /\ \A t \in Task : at[t] # "new" => arc[t] # None
  /\ snap \in [Question -> Nat]
  /\ stream \in [Question -> Streams]
  /\ down \in BOOLEAN
  /\ sweeps \in Nat
  /\ started \subseteq Question
  /\ dones \in [Question -> Nat]
  /\ missed \subseteq Question
  /\ swept \in BOOLEAN

\* Each session runs one side question at a time, and the one that runs can be
\* ended: its handle is in the tracker, or is about to be put there by a task
\* that holds the lock.  The exception: locks lost to a cleanup tick.
OneStream ==
  \A q \in Question :
    stream[q] = "running" /\ ~swept =>
      /\ \A p \in Question : stream[p] = "running" => p = q
      /\ handle = q \/ at[q] = "registering"

\* A /stop that is through is final: what runs was asked after it, although
\* its preparation may have begun before.
StopHolds ==
  \A q \in Question : stream[q] = "running" /\ ~swept => snap[q] = gen

\* No question is told Done twice, nor before its Start, whoever races for its
\* handle: the stream, a newer question, a /stop or the shutdown.
DoneOnce ==
  \A q \in Question : dones[q] <= 1 /\ (dones[q] = 1 => q \in started)

\* Whoever heard Start hears Done.  The exception: streams that ended before
\* their handle was put into the tracker.
Told(q) == dones[q] > 0
DoneUnlessMissed ==
  \A q \in Question : q \in started ~> Told(q) \/ q \in missed
=============================================================================
