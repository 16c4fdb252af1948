----------------------------- MODULE KeyedPool -----------------------------
(***************************************************************************)
(* The per-key ordered worker pool of utils/keyed_pool.rs, on which the    *)
(* persistence pool (kernel/persist_pool.rs) and the delivery pool         *)
(* (channels/hub/delivery_pool.rs) are built.  Callers dispatch jobs; one  *)
(* worker task per key handles them in order, removes itself after an idle *)
(* TTL, and on cancellation either drains its channel or leaves at once.   *)
(*                                                                         *)
(* A map entry and the worker it was created with are one identity: the    *)
(* fields of WorkerEntry and the locals of run_worker are functions of the *)
(* worker.  Job contents, the worker state S and logging are left out; a   *)
(* handler that panics settles its job like one that returns               *)
(* (guarded_call).                                                         *)
(***************************************************************************)
EXTENDS Naturals, Sequences, Functions

CONSTANTS
  Key,            \* session ids
  Caller,         \* tasks that call dispatch
  Worker,         \* identities of worker tasks, each born at most once
  KeyOf,          \* [Worker -> Key]: the key a worker would be born for
  NoWorker,
  Capacity,       \* channel_capacity
  ShedRemaining,  \* SHED_REMAINING
  Drains,         \* the keys whose pool has drain_on_cancel (persist)
  Hooked,         \* the keys whose pool has an on_tick hook (delivery)
  MaxJobs,        \* bound: [Caller -> Nat], dispatch calls of each
  MaxDeaths       \* bound: workers that die outside their own loop

ASSUME PoolAssumption ==
  /\ KeyOf \in [Worker -> Key]
  /\ NoWorker \notin Worker
  /\ Capacity \in Nat \ {0}
  /\ ShedRemaining \in Nat
  /\ Drains \subseteq Key
  /\ Hooked \subseteq Key
  /\ MaxJobs \in [Caller -> Nat]
  /\ MaxDeaths \in Nat

VARIABLES
  cancelled,    \* ctx.token.is_cancelled()
  entry,        \* [Key -> Worker \cup {NoWorker}]: the workers map
  lock,         \* [Key -> BOOLEAN]: entry lock held across a respawn
  sending,      \* [Caller -> Worker \cup {NoWorker}]: the caller is between
                \* spawning this worker and sending its job to it
  issued,       \* [Caller -> Nat]: dispatch calls made so far
  pc,           \* [Worker -> Pcs]: where run_worker stands
  closed,       \* [Worker -> BOOLEAN]: the receiver refuses further sends
  chan,         \* [Worker -> Seq(Job)]: the mpsc channel
  job,          \* [Worker -> Job \cup {NoJob}]: the job in the handler
  outstanding,  \* [Worker -> Nat]
  accepted,     \* history, [Key -> SUBSET Job]: enqueued successfully
  settled,      \* history, [Key -> SUBSET Job]: the handler returned
  dropped,      \* history, [Key -> SUBSET Job]: enqueued, then lost
  deaths        \* history: workers that died so far

poolVars == <<cancelled, entry, lock, sending, issued>>
workerVars == <<pc, closed, chan, job, outstanding>>
history == <<accepted, settled, dropped, deaths>>
vars == <<poolVars, workerVars, history>>

\* A job is named by the dispatch call that brought it.
Job == UNION {{c} \X (1 .. MaxJobs[c]) : c \in Caller}
NoJob == <<"none", 0>>
Pcs == {"unborn", "select", "handler", "hook", "expire", "gone"}

-----------------------------------------------------------------------------
Init ==
  /\ cancelled = FALSE
  /\ entry = [k \in Key |-> NoWorker]
  /\ lock = [k \in Key |-> FALSE]
  /\ sending = [c \in Caller |-> NoWorker]
  /\ issued = [c \in Caller |-> 0]
  /\ pc = [w \in Worker |-> "unborn"]
  /\ closed = [w \in Worker |-> FALSE]
  /\ chan = [w \in Worker |-> <<>>]
  /\ job = [w \in Worker |-> NoJob]
  /\ outstanding = [w \in Worker |-> 0]
  /\ accepted = [k \in Key |-> {}]
  /\ settled = [k \in Key |-> {}]
  /\ dropped = [k \in Key |-> {}]
  /\ deaths = 0

-----------------------------------------------------------------------------
(***************************************************************************)
(* Dispatch: one call under the entry lock of the key, except that the     *)
(* send to a worker spawned by this call is a step of its own.             *)
(***************************************************************************)
Remaining(w) == Capacity - Len(chan[w])

\* spawn_entry: the new worker starts at its select! with zero outstanding.
Spare(k) == {w \in Worker : KeyOf[w] = k /\ pc[w] = "unborn"}

Spawn(c, k) ==
  /\ Spare(k) # {}
  /\ LET w == CHOOSE spare \in Spare(k) : TRUE IN
       /\ pc' = [pc EXCEPT ![w] = "select"]
       /\ entry' = [entry EXCEPT ![k] = w]
       /\ sending' = [sending EXCEPT ![c] = w]

\* MUTANT of Enqueue: a refused job is not taken off the account again.
EnqueueLeaky(w, j) ==
  /\ IF ~closed[w] /\ Len(chan[w]) < Capacity
     THEN /\ chan' = [chan EXCEPT ![w] = Append(@, j)]
          /\ accepted' = [accepted EXCEPT ![KeyOf[w]] = @ \cup {j}]
     ELSE UNCHANGED <<chan, accepted>>
  /\ outstanding' = [outstanding EXCEPT ![w] = @ + 1]

\* try_send, with the account entered before and withdrawn when refused:
\* refused when the receiver is closed or the channel is full.
Enqueue(w, j) ==
  IF ~closed[w] /\ Len(chan[w]) < Capacity
  THEN /\ chan' = [chan EXCEPT ![w] = Append(@, j)]
       /\ outstanding' = [outstanding EXCEPT ![w] = @ + 1]
       /\ accepted' = [accepted EXCEPT ![KeyOf[w]] = @ \cup {j}]
  ELSE UNCHANGED <<chan, outstanding, accepted>>

BeginDispatch(c, k) ==
  /\ sending[c] = NoWorker
  /\ ~lock[k]
  /\ issued[c] < MaxJobs[c]
  /\ issued' = [issued EXCEPT ![c] = @ + 1]

DispatchVacant(c, k) ==
  /\ BeginDispatch(c, k)
  /\ entry[k] = NoWorker
  /\ IF cancelled THEN UNCHANGED <<entry, sending, pc>> ELSE Spawn(c, k)
  /\ UNCHANGED <<cancelled, lock, closed, chan, job, outstanding, history>>

DispatchOccupied(c, k, sheddable) ==
  /\ BeginDispatch(c, k)
  /\ entry[k] # NoWorker
  /\ LET w == entry[k] IN
       /\ ~closed[w] \/ (sheddable /\ Remaining(w) < ShedRemaining)
       /\ IF sheddable /\ Remaining(w) < ShedRemaining
          THEN UNCHANGED <<chan, outstanding, accepted>>
          ELSE Enqueue(w, <<c, issued[c] + 1>>)
  /\ UNCHANGED <<cancelled, entry, lock, sending, pc, closed, job, settled, dropped, deaths>>

\* MUTANT of Respawns: a dead worker is replaced even during shutdown.
RespawnsAlways == TRUE

\* The Closed arm replaces the entry in place, still under the lock, but never
\* while shutting down: a closed receiver may then be one that is draining.
Respawns == ~cancelled

DispatchClosed(c, k, sheddable) ==
  /\ BeginDispatch(c, k)
  /\ entry[k] # NoWorker
  /\ closed[entry[k]]
  /\ ~(sheddable /\ Remaining(entry[k]) < ShedRemaining)
  /\ IF Respawns
     THEN /\ Spawn(c, k)
          /\ lock' = [lock EXCEPT ![k] = TRUE]
     ELSE UNCHANGED <<entry, lock, sending, pc>>
  /\ UNCHANGED <<cancelled, closed, chan, job, outstanding, history>>

\* send_accounted to the freshly spawned worker; ends the dispatch call.
SendAccounted(c) ==
  /\ sending[c] # NoWorker
  /\ Enqueue(sending[c], <<c, issued[c]>>)
  /\ LET k == KeyOf[sending[c]] IN
       lock' = IF entry[k] = sending[c] THEN [lock EXCEPT ![k] = FALSE] ELSE lock
  /\ sending' = [sending EXCEPT ![c] = NoWorker]
  /\ UNCHANGED <<cancelled, entry, issued, pc, closed, job, settled, dropped, deaths>>

-----------------------------------------------------------------------------
(***************************************************************************)
(* run_worker: a biased select over cancellation, the tick and the channel.*)
(***************************************************************************)

\* MUTANT of Take: the account counts queued jobs only.
TakeUncounted(w) ==
  /\ pc[w] = "select"
  /\ closed[w] \/ ~cancelled
  /\ chan[w] # <<>>
  /\ pc' = [pc EXCEPT ![w] = "handler"]
  /\ job' = [job EXCEPT ![w] = Head(chan[w])]
  /\ chan' = [chan EXCEPT ![w] = Tail(@)]
  /\ outstanding' = [outstanding EXCEPT ![w] = @ - 1]
  /\ UNCHANGED <<poolVars, closed, history>>

\* MUTANT of Take: the handler is spawned, not awaited.
TakeUnawaited(w) ==
  /\ pc[w] \in {"select", "handler"}
  /\ closed[w] \/ ~cancelled
  /\ chan[w] # <<>>
  /\ pc' = [pc EXCEPT ![w] = "handler"]
  /\ job' = [job EXCEPT ![w] = Head(chan[w])]
  /\ chan' = [chan EXCEPT ![w] = Tail(@)]
  /\ UNCHANGED <<poolVars, closed, outstanding, history>>

\* rx.recv() in the select, or one turn of the drain loop after rx.close().
\* The job stays accounted for in outstanding until the handler returns.
Take(w) ==
  /\ pc[w] = "select"
  /\ closed[w] \/ ~cancelled
  /\ chan[w] # <<>>
  /\ pc' = [pc EXCEPT ![w] = "handler"]
  /\ job' = [job EXCEPT ![w] = Head(chan[w])]
  /\ chan' = [chan EXCEPT ![w] = Tail(@)]
  /\ UNCHANGED <<poolVars, closed, outstanding, history>>

\* The handler future is done, or panicked: OutstandingGuard is dropped.
HandlerDone(w) ==
  /\ pc[w] = "handler"
  /\ pc' = [pc EXCEPT ![w] = "select"]
  /\ job' = [job EXCEPT ![w] = NoJob]
  /\ outstanding' = [outstanding EXCEPT ![w] = @ - 1]
  /\ settled' = [settled EXCEPT ![KeyOf[w]] = @ \cup {job[w]}]
  /\ UNCHANGED <<poolVars, closed, chan, accepted, dropped, deaths>>

\* The tick arm: nothing to do while jobs wait; otherwise the hook runs,
\* accounted for in outstanding, and then the TTL is examined.
Tick(w) ==
  /\ pc[w] = "select"
  /\ ~closed[w]
  /\ ~cancelled
  /\ chan[w] = <<>>
  /\ IF KeyOf[w] \in Hooked
     THEN /\ pc' = [pc EXCEPT ![w] = "hook"]
          /\ outstanding' = [outstanding EXCEPT ![w] = @ + 1]
     ELSE /\ pc' = [pc EXCEPT ![w] = "expire"]
          /\ UNCHANGED outstanding
  /\ UNCHANGED <<poolVars, closed, chan, job, history>>

\* hold: the hook's veto (a reply buffer in flight) skips this tick's expiry.
HookDone(w, hold) ==
  /\ pc[w] = "hook"
  /\ outstanding' = [outstanding EXCEPT ![w] = @ - 1]
  /\ pc' = [pc EXCEPT ![w] = IF hold THEN "select" ELSE "expire"]
  /\ UNCHANGED <<poolVars, closed, chan, job, history>>

\* The worker task ends: its receiver is dropped with whatever it still held.
Exit(w) ==
  /\ pc' = [pc EXCEPT ![w] = "gone"]
  /\ closed' = [closed EXCEPT ![w] = TRUE]
  /\ chan' = [chan EXCEPT ![w] = <<>>]
  /\ dropped' = [dropped EXCEPT ![KeyOf[w]] =
                   @ \cup Range(chan[w]) \cup ({job[w]} \ {NoJob})]
  /\ job' = [job EXCEPT ![w] = NoJob]

\* MUTANT of Expirable: the TTL alone decides.
ExpirableByTtl(w, elapsed) == elapsed

\* try_expire under the entry lock: the entry goes if it is past the TTL with
\* nothing outstanding.  Any amount of time may have passed since the last
\* send, so whether the TTL has elapsed is left open.
Expirable(w, elapsed) == elapsed /\ outstanding[w] = 0

TryExpire(w, elapsed) ==
  /\ pc[w] = "expire"
  /\ LET k == KeyOf[w] IN
       /\ ~lock[k]
       /\ IF entry[k] # NoWorker /\ ~Expirable(entry[k], elapsed)
          THEN /\ pc' = [pc EXCEPT ![w] = "select"]
               /\ UNCHANGED <<entry, closed, chan, job, dropped>>
          ELSE /\ entry' = [entry EXCEPT ![k] = NoWorker]
               /\ Exit(w)
  /\ UNCHANGED <<cancelled, lock, sending, issued, outstanding,
                 accepted, settled, deaths>>

DrainsOnCancel(w) == KeyOf[w] \in Drains

\* The cancelled arm: a draining pool closes the receiver first and then
\* handles what is left; the other kind breaks at once.
SeeCancelled(w) ==
  /\ pc[w] = "select"
  /\ cancelled
  /\ ~closed[w]
  /\ IF DrainsOnCancel(w)
     THEN /\ closed' = [closed EXCEPT ![w] = TRUE]
          /\ UNCHANGED <<pc, chan, job, dropped>>
     ELSE Exit(w)
  /\ UNCHANGED <<poolVars, outstanding, accepted, settled, deaths>>

DrainEnd(w) ==
  /\ pc[w] = "select"
  /\ closed[w]
  /\ chan[w] = <<>>
  /\ Exit(w)
  /\ UNCHANGED <<poolVars, outstanding, accepted, settled, deaths>>

-----------------------------------------------------------------------------
(***************************************************************************)
(* The environment: shutdown, and a worker killed from outside its loop,   *)
(* whose OutstandingGuard (if it holds one) is dropped with it.            *)
(***************************************************************************)
Cancel ==
  /\ ~cancelled
  /\ cancelled' = TRUE
  /\ UNCHANGED <<entry, lock, sending, issued, workerVars, history>>

Die(w) ==
  /\ deaths < MaxDeaths
  /\ pc[w] \notin {"unborn", "gone"}
  /\ deaths' = deaths + 1
  /\ outstanding' = [outstanding EXCEPT ![w] =
                       IF pc[w] \in {"handler", "hook"} THEN @ - 1 ELSE @]
  /\ Exit(w)
  /\ UNCHANGED <<poolVars, accepted, settled>>

-----------------------------------------------------------------------------
Dispatch(c, k) ==
  \/ DispatchVacant(c, k)
  \/ \E sheddable \in BOOLEAN :
       DispatchOccupied(c, k, sheddable) \/ DispatchClosed(c, k, sheddable)

Run(w) ==
  \/ Take(w)
  \/ HandlerDone(w)
  \/ Tick(w)
  \/ \E hold \in BOOLEAN : HookDone(w, hold)
  \/ \E elapsed \in BOOLEAN : TryExpire(w, elapsed)
  \/ SeeCancelled(w)
  \/ DrainEnd(w)

Next ==
  \/ \E c \in Caller : SendAccounted(c) \/ \E k \in Key : Dispatch(c, k)
  \/ \E w \in Worker : Run(w) \/ Die(w)
  \/ Cancel

\* Tasks that can run are polled, and handlers and hooks return: a dispatch
\* call in progress ends and a worker takes every step it can keep taking.
\* Nothing obliges callers to dispatch, the tick or the TTL to fall due, the
\* token to be cancelled or a worker to die.
Fairness ==
  /\ \A c \in Caller : WF_vars(SendAccounted(c))
  /\ \A w \in Worker :
       /\ WF_vars(Take(w))
       /\ WF_vars(HandlerDone(w))
       /\ WF_vars(\E hold \in BOOLEAN : HookDone(w, hold))
       /\ WF_vars(\E elapsed \in BOOLEAN : TryExpire(w, elapsed))
       /\ WF_vars(SeeCancelled(w) \/ DrainEnd(w))

Spec == Init /\ [][Next]_vars /\ Fairness

-----------------------------------------------------------------------------
TypeOK ==
  /\ cancelled \in BOOLEAN
  /\ entry \in [Key -> Worker \cup {NoWorker}]
  /\ lock \in [Key -> BOOLEAN]
  /\ sending \in [Caller -> Worker \cup {NoWorker}]
  /\ issued \in [Caller -> Nat] /\ \A c \in Caller : issued[c] <= MaxJobs[c]
  /\ pc \in [Worker -> Pcs]
  /\ closed \in [Worker -> BOOLEAN]
  /\ chan \in [Worker -> Seq(Job)]
  /\ job \in [Worker -> Job \cup {NoJob}]
  /\ outstanding \in [Worker -> Nat]
  /\ accepted \in [Key -> SUBSET Job]
  /\ settled \in [Key -> SUBSET Job]
  /\ dropped \in [Key -> SUBSET Job]
  /\ deaths \in Nat

\* is_quiet(k): no entry, or an entry with nothing outstanding.
IsQuiet(k) == entry[k] = NoWorker \/ outstanding[entry[k]] = 0

\* A worker that still runs or could still run a job.
Live(w) == pc[w] \notin {"unborn", "gone"}

\* Two worker tasks of one key never coexist, whether one of them is
\* draining, expiring or just spawned.  Two of them would write one session
\* file at the same time (the comment in the Closed arm of dispatch_inner).
OneWorkerPerKey ==
  \A v, w \in Worker : Live(v) /\ Live(w) /\ KeyOf[v] = KeyOf[w] => v = w

\* What wait_idle and wait_all_idle rely on: whenever is_quiet answers true,
\* every job whose dispatch succeeded has been handled, unless it went down
\* with its worker.  Before reading the store back after a run has stopped,
\* the conductor waits for exactly this.
QuietMeansSettled ==
  \A k \in Key : IsQuiet(k) => accepted[k] \subseteq settled[k] \cup dropped[k]

\* No accepted job is lost behind the callers' backs: unless a worker was
\* killed, jobs are dropped only by cancelling a pool that does not drain.  In
\* particular the idle TTL drops nothing, and neither does the shutdown of the
\* persistence pool.
NoSilentDrop ==
  deaths = 0 =>
    \A k \in Key : dropped[k] # {} => cancelled /\ k \notin Drains

\* wait_idle returns: a key that is not quiet becomes quiet, unless its
\* entry is left behind by a worker that is gone with jobs unaccounted.
EventuallyQuiet ==
  \A k \in Key :
    ~IsQuiet(k) ~> (IsQuiet(k) \/ ~Live(entry[k]))

\* The pool implements one FIFO per key with one job at a time.
Queued == [k \in Key |-> IF entry[k] = NoWorker THEN <<>> ELSE chan[entry[k]]]
InHand == [k \in Key |-> IF entry[k] = NoWorker THEN NoJob ELSE job[entry[k]]]
Fifo == INSTANCE KeyedFifo WITH queue <- Queued, running <- InHand
FifoSpec == Fifo!Spec
=============================================================================
