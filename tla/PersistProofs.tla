--------------------------- MODULE PersistProofs ---------------------------
(***************************************************************************)
(* Proofs about the way of a conversation to its file: about KeyedPool,    *)
(* which keeps the jobs of a session in order, for any keys, callers,      *)
(* workers and capacity; and about History, which loses, closes and        *)
(* repairs the conversation, for any batches and bounds.                   *)
(***************************************************************************)
EXTENDS KeyedPool, History, SequenceTheorems, FiniteSetTheorems, WellFoundedInduction, TLAPS

-----------------------------------------------------------------------------
(***************************************************************************)
(* The inductive invariant.                                                *)
(***************************************************************************)

\* An entry belongs to its key and its worker was born.
EntriesOwn ==
  \A k \in Key : entry[k] # NoWorker =>
    /\ KeyOf[entry[k]] = k
    /\ pc[entry[k]] # "unborn"

\* A worker that runs is the one in the map.
LiveIsEntry == \A w \in Worker : Live(w) => entry[KeyOf[w]] = w

\* Nothing is known of a worker before its birth, and nothing is left after
\* its end; in between its receiver closes only for shutdown.
UnbornIsBlank ==
  \A w \in Worker : pc[w] = "unborn" =>
    ~closed[w] /\ chan[w] = <<>> /\ outstanding[w] = 0
GoneIsEmpty ==
  \A w \in Worker : pc[w] = "gone" => closed[w] /\ chan[w] = <<>>
ClosedForShutdown ==
  \A w \in Worker : Live(w) /\ closed[w] => cancelled

\* Callers send to workers that were born, in a dispatch call they made.
SendingToBorn ==
  \A c \in Caller : sending[c] # NoWorker =>
    /\ pc[sending[c]] # "unborn"
    /\ issued[c] > 0

JobInHandler ==
  \A w \in Worker : job[w] # NoJob <=> pc[w] = "handler"

\* The account of a live worker: its queue, and what its guard stands for.
Guarded(w) == IF pc[w] \in {"handler", "hook"} THEN 1 ELSE 0
AccountExact ==
  \A w \in Worker : Live(w) => outstanding[w] = Len(chan[w]) + Guarded(w)

\* An accepted job is settled, dropped, or still with the worker in the map.
Held(k) ==
  IF entry[k] = NoWorker
  THEN {}
  ELSE Range(chan[entry[k]]) \cup {job[entry[k]]}
NothingLost ==
  \A k \in Key : accepted[k] \subseteq settled[k] \cup dropped[k] \cup Held(k)

Inv ==
  /\ TypeOK
  /\ EntriesOwn
  /\ LiveIsEntry
  /\ UnbornIsBlank
  /\ GoneIsEmpty
  /\ ClosedForShutdown
  /\ SendingToBorn
  /\ JobInHandler
  /\ AccountExact
  /\ NothingLost

-----------------------------------------------------------------------------
LEMMA JobFacts ==
  /\ NoJob \notin Job
  /\ \A c \in Caller : \A n \in 1 .. MaxJobs[c] : <<c, n>> \in Job
<1>1. ASSUME NEW c \in Caller, NEW n \in 1 .. MaxJobs[c] PROVE <<c, n>> \in Job
  BY DEF Job
<1>2. ASSUME NoJob \in Job PROVE FALSE
  <2>1. PICK c \in Caller : NoJob \in {c} \X (1 .. MaxJobs[c])
    BY <1>2 DEF Job
  <2>2. 0 \in 1 .. MaxJobs[c]
    BY <2>1 DEF NoJob
  <2>3. MaxJobs[c] \in Nat
    BY PoolAssumption
  <2> QED
    BY <2>2, <2>3
<1> QED
  BY <1>1, <1>2

\* What a queue holds after an element was taken from it or added to it.
LEMMA QueueFacts ==
  ASSUME NEW S, NEW q \in Seq(S)
  PROVE  /\ Len(q) \in Nat
         /\ q = <<>> <=> Len(q) = 0
         /\ q = <<>> => Range(q) = {}
         /\ Range(q) \subseteq S
         /\ q # <<>> => /\ Head(q) \in S
                       /\ Tail(q) \in Seq(S)
                       /\ Len(Tail(q)) = Len(q) - 1
                       /\ Range(q) = Range(Tail(q)) \cup {Head(q)}
         /\ \A e \in S : /\ Append(q, e) \in Seq(S)
                         /\ Len(Append(q, e)) = Len(q) + 1
                         /\ Range(Append(q, e)) = Range(q) \cup {e}
<1>1. Len(q) \in Nat /\ (q = <<>> <=> Len(q) = 0)
  BY EmptySeq
<1>2. q = <<>> => Range(q) = {}
  BY <1>1, LenProperties DEF Range
<1>3. Range(q) \subseteq S
  BY DEF Range
<1>4. ASSUME q # <<>>
      PROVE  /\ Head(q) \in S
             /\ Tail(q) \in Seq(S)
             /\ Len(Tail(q)) = Len(q) - 1
             /\ Range(q) = Range(Tail(q)) \cup {Head(q)}
  <2>1. /\ Head(q) \in S
        /\ Tail(q) \in Seq(S)
        /\ Len(Tail(q)) = Len(q) - 1
        /\ \A i \in 1 .. Len(Tail(q)) : Tail(q)[i] = q[i + 1]
    BY <1>4, HeadTailProperties
  <2>2. Head(q) = q[1] /\ 1 \in DOMAIN q
    BY <1>1, <1>4, LenProperties
  <2>3. \A i \in DOMAIN q : i # 1 => i - 1 \in DOMAIN Tail(q) /\ Tail(q)[i - 1] = q[i]
    BY <1>1, <2>1, LenProperties
  <2>4. \A i \in DOMAIN Tail(q) : i + 1 \in DOMAIN q /\ Tail(q)[i] = q[i + 1]
    BY <1>1, <2>1, LenProperties
  <2>5. Range(q) = Range(Tail(q)) \cup {Head(q)}
    BY <2>2, <2>3, <2>4 DEF Range
  <2> QED
    BY <2>1, <2>5
<1>5. ASSUME NEW e \in S
      PROVE  /\ Append(q, e) \in Seq(S)
             /\ Len(Append(q, e)) = Len(q) + 1
             /\ Range(Append(q, e)) = Range(q) \cup {e}
  <2>1. /\ Append(q, e) \in Seq(S)
        /\ Len(Append(q, e)) = Len(q) + 1
        /\ \A i \in 1 .. Len(q) : Append(q, e)[i] = q[i]
        /\ Append(q, e)[Len(q) + 1] = e
    OBVIOUS
  <2>2. DOMAIN Append(q, e) = 1 .. Len(q) + 1 /\ DOMAIN q = 1 .. Len(q)
    BY <2>1, LenProperties
  <2>3. 1 .. Len(q) + 1 = (1 .. Len(q)) \cup {Len(q) + 1}
    BY <1>1
  <2>4. Range(Append(q, e)) = Range(q) \cup {e}
    BY <2>1, <2>2, <2>3 DEF Range
  <2> QED
    BY <2>1, <2>4
<1> QED
  BY <1>1, <1>2, <1>3, <1>4, <1>5

LEMMA Initially == Init => Inv
<1> SUFFICES ASSUME Init PROVE Inv
  OBVIOUS
<1>1. TypeOK
  <2>1. <<>> \in Seq(Job)
    BY EmptySeq
  <2>2. \A c \in Caller : 0 <= MaxJobs[c]
    BY PoolAssumption
  <2> QED
    BY <2>1, <2>2 DEF Init, TypeOK, Pcs
<1>2. EntriesOwn /\ LiveIsEntry /\ UnbornIsBlank /\ GoneIsEmpty
  BY DEF Init, EntriesOwn, LiveIsEntry, Live, UnbornIsBlank, GoneIsEmpty
<1>3. ClosedForShutdown /\ SendingToBorn /\ JobInHandler
  BY DEF Init, ClosedForShutdown, SendingToBorn, JobInHandler
<1>4. AccountExact /\ NothingLost
  BY DEF Init, AccountExact, NothingLost, Held, Live
<1> QED
  BY <1>1, <1>2, <1>3, <1>4 DEF Inv

LEMMA TakeStep ==
  ASSUME Inv, NEW w \in Worker, Take(w)
  PROVE  Inv'
<1> USE DEF Inv
<1>q. /\ chan[w] \in Seq(Job) /\ chan[w] # <<>>
      /\ chan'[w] = Tail(chan[w]) /\ job'[w] = Head(chan[w])
  BY DEF TypeOK, Take
<1>h. /\ Head(chan[w]) \in Job /\ Head(chan[w]) # NoJob
      /\ Tail(chan[w]) \in Seq(Job)
      /\ Len(Tail(chan[w])) = Len(chan[w]) - 1
      /\ Len(chan[w]) \in Nat
      /\ Range(chan[w]) = Range(chan'[w]) \cup {job'[w]}
  BY <1>q, QueueFacts, JobFacts
<1>1. TypeOK'
  BY <1>h DEF TypeOK, Take, poolVars, history, Pcs
<1>2. EntriesOwn' /\ LiveIsEntry' /\ UnbornIsBlank' /\ GoneIsEmpty'
  BY DEF TypeOK, Take, poolVars, history, EntriesOwn, LiveIsEntry, Live, UnbornIsBlank, GoneIsEmpty
<1>3. ClosedForShutdown' /\ SendingToBorn' /\ JobInHandler'
  BY <1>h DEF TypeOK, Take, poolVars, history, ClosedForShutdown, SendingToBorn, JobInHandler, Live
<1>4. AccountExact'
  <2> SUFFICES ASSUME NEW v \in Worker, Live(v)'
               PROVE  (outstanding[v] = Len(chan[v]) + Guarded(v))'
    BY DEF AccountExact
  <2>1. outstanding[v] = Len(chan[v]) + Guarded(v)
    BY DEF Take, AccountExact, Live, TypeOK
  <2>2. CASE v = w
    BY <1>h, <1>q, <2>1, <2>2 DEF Take, Guarded, TypeOK
  <2>3. CASE v # w
    BY <2>1, <2>3 DEF Take, Guarded, TypeOK
  <2> QED
    BY <2>2, <2>3
<1>5. NothingLost'
  <2> SUFFICES ASSUME NEW k \in Key
               PROVE  Held(k) \subseteq Held(k)' \cup {NoJob}
    BY JobFacts DEF NothingLost, Take, poolVars, history, TypeOK
  <2>1. CASE entry[k] = w
    BY <1>h, <2>1, PoolAssumption DEF Take, poolVars, Held, TypeOK, JobInHandler
  <2>2. CASE entry[k] # w
    BY <2>2 DEF Take, poolVars, Held, TypeOK
  <2> QED
    BY <2>1, <2>2
<1> QED
  BY <1>1, <1>2, <1>3, <1>4, <1>5

LEMMA HandlerDoneStep ==
  ASSUME Inv, NEW w \in Worker, HandlerDone(w)
  PROVE  Inv'
<1> USE DEF Inv
<1>h. /\ job[w] \in Job
      /\ outstanding[w] = Len(chan[w]) + 1
      /\ Len(chan[w]) \in Nat
      /\ outstanding'[w] = Len(chan[w])
  <2>1. Live(w) /\ Guarded(w) = 1 /\ chan[w] \in Seq(Job)
    BY DEF HandlerDone, Live, Guarded, TypeOK
  <2>2. Len(chan[w]) \in Nat
    BY <2>1, QueueFacts
  <2> QED
    BY <2>1, <2>2 DEF HandlerDone, AccountExact, JobInHandler, TypeOK
<1>1. TypeOK'
  <2>1. KeyOf[w] \in Key
    BY PoolAssumption
  <2> QED
    BY <1>h, <2>1 DEF TypeOK, HandlerDone, poolVars, Pcs
<1>2. EntriesOwn' /\ LiveIsEntry' /\ UnbornIsBlank' /\ GoneIsEmpty'
  BY DEF TypeOK, HandlerDone, poolVars, EntriesOwn, LiveIsEntry, Live, UnbornIsBlank, GoneIsEmpty
<1>3. ClosedForShutdown' /\ SendingToBorn' /\ JobInHandler'
  BY DEF TypeOK, HandlerDone, poolVars, ClosedForShutdown, SendingToBorn, JobInHandler, Live
<1>4. AccountExact'
  <2> SUFFICES ASSUME NEW v \in Worker, Live(v)'
               PROVE  (outstanding[v] = Len(chan[v]) + Guarded(v))'
    BY DEF AccountExact
  <2>1. CASE v = w
    BY <1>h, <2>1 DEF HandlerDone, Guarded, TypeOK
  <2>2. CASE v # w
    BY <2>2 DEF HandlerDone, Guarded, TypeOK, AccountExact, Live
  <2> QED
    BY <2>1, <2>2
<1>5. NothingLost'
  <2> SUFFICES ASSUME NEW k \in Key
               PROVE  Held(k) \subseteq Held(k)' \cup settled'[k] \cup {NoJob}
    BY PoolAssumption, JobFacts DEF NothingLost, HandlerDone, poolVars, TypeOK
  <2>1. CASE entry[k] = w
    BY <2>1, PoolAssumption DEF HandlerDone, poolVars, Held, TypeOK, EntriesOwn
  <2>2. CASE entry[k] # w
    BY <2>2 DEF HandlerDone, poolVars, Held, TypeOK
  <2> QED
    BY <2>1, <2>2
<1> QED
  BY <1>1, <1>2, <1>3, <1>4, <1>5

LEMMA TickStep ==
  ASSUME Inv, NEW w \in Worker, Tick(w)
  PROVE  Inv'
<1> USE DEF Inv
<1>p. PICK p \in {"hook", "expire"} :
        /\ pc' = [pc EXCEPT ![w] = p]
        /\ outstanding' = IF p = "hook"
                          THEN [outstanding EXCEPT ![w] = @ + 1]
                          ELSE outstanding
  BY DEF Tick
<1>f. /\ pc[w] = "select"
      /\ UNCHANGED <<cancelled, entry, lock, sending, issued, closed, chan, job,
                     accepted, settled, dropped, deaths>>
  BY DEF Tick, poolVars, history
<1>1. TypeOK'
  BY <1>p, <1>f DEF TypeOK, Pcs
<1>2. EntriesOwn' /\ LiveIsEntry' /\ UnbornIsBlank' /\ GoneIsEmpty'
  BY <1>p, <1>f DEF TypeOK, EntriesOwn, LiveIsEntry, Live, UnbornIsBlank, GoneIsEmpty
<1>3. ClosedForShutdown' /\ SendingToBorn' /\ JobInHandler'
  BY <1>p, <1>f DEF TypeOK, ClosedForShutdown, SendingToBorn, JobInHandler, Live
<1>4. AccountExact'
  <2> SUFFICES ASSUME NEW v \in Worker, Live(v)'
               PROVE  (outstanding[v] = Len(chan[v]) + Guarded(v))'
    BY DEF AccountExact
  <2>1. Live(v)
    BY <1>p, <1>f DEF Live, TypeOK
  <2>2. Len(chan[v]) \in Nat
    BY QueueFacts DEF TypeOK
  <2>3. outstanding[v] = Len(chan[v]) + Guarded(v)
    BY <2>1 DEF AccountExact
  <2> QED
    BY <1>p, <1>f, <2>2, <2>3 DEF Guarded, TypeOK
<1>5. NothingLost'
  BY <1>f DEF NothingLost, Held
<1> QED
  BY <1>1, <1>2, <1>3, <1>4, <1>5

LEMMA HookDoneStep ==
  ASSUME Inv, NEW w \in Worker, NEW hold \in BOOLEAN, HookDone(w, hold)
  PROVE  Inv'
<1> USE DEF Inv
<1>h. /\ outstanding[w] = Len(chan[w]) + 1
      /\ Len(chan[w]) \in Nat
      /\ outstanding'[w] = Len(chan[w])
  <2>1. Live(w) /\ Guarded(w) = 1 /\ chan[w] \in Seq(Job)
    BY DEF HookDone, Live, Guarded, TypeOK
  <2>2. Len(chan[w]) \in Nat
    BY <2>1, QueueFacts
  <2> QED
    BY <2>1, <2>2 DEF HookDone, AccountExact, TypeOK
<1>1. TypeOK'
  BY <1>h DEF TypeOK, HookDone, poolVars, history, Pcs
<1>2. EntriesOwn' /\ LiveIsEntry' /\ UnbornIsBlank' /\ GoneIsEmpty'
  BY DEF TypeOK, HookDone, poolVars, history, EntriesOwn, LiveIsEntry, Live, UnbornIsBlank,
    GoneIsEmpty
<1>3. ClosedForShutdown' /\ SendingToBorn' /\ JobInHandler'
  BY DEF TypeOK, HookDone, poolVars, history, ClosedForShutdown, SendingToBorn, JobInHandler, Live
<1>4. AccountExact'
  <2> SUFFICES ASSUME NEW v \in Worker, Live(v)'
               PROVE  (outstanding[v] = Len(chan[v]) + Guarded(v))'
    BY DEF AccountExact
  <2>1. CASE v = w
    BY <1>h, <2>1 DEF HookDone, Guarded, TypeOK
  <2>2. CASE v # w
    BY <2>2 DEF HookDone, Guarded, TypeOK, AccountExact, Live
  <2> QED
    BY <2>1, <2>2
<1>5. NothingLost'
  BY DEF HookDone, poolVars, history, NothingLost, Held
<1> QED
  BY <1>1, <1>2, <1>3, <1>4, <1>5

\* A worker ends: by itself, by cancellation or from outside.
LEMMA ExitStep ==
  ASSUME Inv, NEW w \in Worker, Live(w), Exit(w),
         entry' = entry \/ entry' = [entry EXCEPT ![KeyOf[w]] = NoWorker],
         outstanding' \in [Worker -> Nat],
         \A v \in Worker : v # w => outstanding'[v] = outstanding[v],
         deaths' \in Nat,
         UNCHANGED <<cancelled, lock, sending, issued, accepted, settled>>
  PROVE  Inv'
<1> USE DEF Inv
<1>w. /\ KeyOf[w] \in Key
      /\ entry[KeyOf[w]] = w
      /\ w # NoWorker
  BY PoolAssumption DEF LiveIsEntry
<1>p. /\ pc' = [pc EXCEPT ![w] = "gone"]
      /\ closed' = [closed EXCEPT ![w] = TRUE]
      /\ chan' = [chan EXCEPT ![w] = <<>>]
      /\ job' = [job EXCEPT ![w] = NoJob]
      /\ dropped' = [dropped EXCEPT ![KeyOf[w]] =
                       @ \cup Range(chan[w]) \cup ({job[w]} \ {NoJob})]
  BY DEF Exit
<1>k. \A k \in Key : \/ entry'[k] = entry[k]
                     \/ entry'[k] = NoWorker /\ k = KeyOf[w]
  BY <1>w DEF TypeOK
<1>1. TypeOK'
  <2>1. Range(chan[w]) \subseteq Job /\ <<>> \in Seq(Job)
    BY QueueFacts, EmptySeq DEF TypeOK
  <2>2. entry' \in [Key -> Worker \cup {NoWorker}]
    BY DEF TypeOK
  <2>3. dropped' \in [Key -> SUBSET Job]
    BY <1>p, <1>w, <2>1 DEF TypeOK
  <2> QED
    BY <1>p, <2>1, <2>2, <2>3 DEF TypeOK, Pcs
<1>2. EntriesOwn'
  BY <1>k, <1>p DEF TypeOK, EntriesOwn
<1>3. LiveIsEntry'
  <2> SUFFICES ASSUME NEW v \in Worker, Live(v)'
               PROVE  entry'[KeyOf[v]] = v
    BY DEF LiveIsEntry
  <2>1. v # w /\ Live(v)
    BY <1>p DEF Live, TypeOK
  <2>2. entry[KeyOf[v]] = v /\ KeyOf[v] \in Key
    BY <2>1, PoolAssumption DEF LiveIsEntry
  <2> QED
    BY <1>k, <1>w, <2>1, <2>2
<1>4. UnbornIsBlank' /\ GoneIsEmpty' /\ ClosedForShutdown'
  BY <1>p DEF TypeOK, UnbornIsBlank, GoneIsEmpty, ClosedForShutdown, Live
<1>5. SendingToBorn'
  BY <1>p DEF TypeOK, SendingToBorn
<1>6. JobInHandler'
  BY <1>p DEF TypeOK, JobInHandler
<1>7. AccountExact'
  BY <1>p DEF TypeOK, AccountExact, Guarded, Live
<1>8. NothingLost'
  <2> SUFFICES ASSUME NEW k \in Key
               PROVE  Held(k) \subseteq Held(k)' \cup dropped'[k] \cup {NoJob}
    BY <1>p, <1>w, JobFacts DEF NothingLost, TypeOK
  <2>1. CASE entry[k] = w
    <3>1. KeyOf[w] = k
      BY <1>w, <2>1 DEF EntriesOwn
    <3> QED
      BY <1>p, <1>w, <2>1, <3>1 DEF Held, TypeOK
  <2>2. CASE entry[k] # w
    <3>1. entry'[k] = entry[k]
      BY <1>k, <1>w, <2>2
    <3> QED
      BY <1>p, <2>2, <3>1 DEF Held, TypeOK
  <2> QED
    BY <2>1, <2>2
<1> QED
  BY <1>1, <1>2, <1>3, <1>4, <1>5, <1>6, <1>7, <1>8

LEMMA TryExpireStep ==
  ASSUME Inv, NEW w \in Worker, NEW elapsed \in BOOLEAN, TryExpire(w, elapsed)
  PROVE  Inv'
<1>1. Live(w)
  BY DEF TryExpire, Live
<1>2. CASE Exit(w) /\ entry' = [entry EXCEPT ![KeyOf[w]] = NoWorker]
  BY <1>1, <1>2, ExitStep DEF TryExpire, Inv, TypeOK
<1>3. CASE /\ pc' = [pc EXCEPT ![w] = "select"]
           /\ UNCHANGED <<entry, closed, chan, job, dropped>>
  <2> USE DEF Inv
  <2>f. /\ pc[w] = "expire"
        /\ UNCHANGED <<cancelled, entry, lock, sending, issued, closed, chan, job,
                       outstanding, accepted, settled, dropped, deaths>>
    BY <1>3 DEF TryExpire
  <2>1. TypeOK'
    BY <1>3, <2>f DEF TypeOK, Pcs
  <2>2. EntriesOwn' /\ LiveIsEntry' /\ UnbornIsBlank' /\ GoneIsEmpty'
    BY <1>3, <2>f DEF TypeOK, EntriesOwn, LiveIsEntry, Live, UnbornIsBlank, GoneIsEmpty
  <2>3. ClosedForShutdown' /\ SendingToBorn' /\ JobInHandler' /\ AccountExact'
    BY <1>3, <2>f DEF TypeOK, ClosedForShutdown, SendingToBorn, JobInHandler,
                      AccountExact, Guarded, Live
  <2>4. NothingLost'
    BY <2>f DEF NothingLost, Held
  <2> QED
    BY <2>1, <2>2, <2>3, <2>4
<1> QED
  BY <1>2, <1>3 DEF TryExpire

LEMMA SeeCancelledStep ==
  ASSUME Inv, NEW w \in Worker, SeeCancelled(w)
  PROVE  Inv'
<1>1. Live(w)
  BY DEF SeeCancelled, Live
<1>2. CASE Exit(w)
  BY <1>1, <1>2, ExitStep DEF SeeCancelled, poolVars, Inv, TypeOK
<1>3. CASE /\ closed' = [closed EXCEPT ![w] = TRUE]
           /\ UNCHANGED <<pc, chan, job, dropped>>
  <2> USE DEF Inv
  <2>f. /\ pc[w] = "select"
        /\ cancelled
        /\ UNCHANGED <<cancelled, entry, lock, sending, issued, pc, chan, job,
                       outstanding, accepted, settled, dropped, deaths>>
    BY <1>3 DEF SeeCancelled, poolVars
  <2>1. TypeOK'
    BY <1>3, <2>f DEF TypeOK
  <2>2. EntriesOwn' /\ LiveIsEntry' /\ UnbornIsBlank' /\ GoneIsEmpty'
    BY <1>3, <2>f DEF TypeOK, EntriesOwn, LiveIsEntry, Live, UnbornIsBlank, GoneIsEmpty
  <2>3. ClosedForShutdown' /\ SendingToBorn' /\ JobInHandler' /\ AccountExact'
    BY <1>3, <2>f DEF TypeOK, ClosedForShutdown, SendingToBorn, JobInHandler,
                      AccountExact, Guarded, Live
  <2>4. NothingLost'
    BY <2>f DEF NothingLost, Held
  <2> QED
    BY <2>1, <2>2, <2>3, <2>4
<1> QED
  BY <1>2, <1>3 DEF SeeCancelled

LEMMA DrainEndStep ==
  ASSUME Inv, NEW w \in Worker, DrainEnd(w)
  PROVE  Inv'
BY ExitStep DEF DrainEnd, poolVars, Live, Inv, TypeOK

LEMMA DieStep ==
  ASSUME Inv, NEW w \in Worker, Die(w)
  PROVE  Inv'
<1>1. Live(w)
  BY DEF Die, Live
<1>2. pc[w] \in {"handler", "hook"} => outstanding[w] - 1 \in Nat
  BY <1>1, QueueFacts DEF Inv, TypeOK, AccountExact, Guarded
<1>3. outstanding' \in [Worker -> Nat]
  BY <1>2 DEF Die, Inv, TypeOK
<1>4. \A v \in Worker : v # w => outstanding'[v] = outstanding[v]
  BY DEF Die, Inv, TypeOK
<1> QED
  BY <1>1, <1>3, <1>4, ExitStep DEF Die, poolVars, Inv, TypeOK

\* A job is offered to a worker that was born, alive or not.
LEMMA EnqueueStep ==
  ASSUME Inv, NEW w \in Worker, NEW j \in Job, pc[w] # "unborn", Enqueue(w, j),
         UNCHANGED <<cancelled, entry, pc, closed, job, settled, dropped, deaths>>,
         sending' \in [Caller -> Worker \cup {NoWorker}],
         \A c \in Caller : sending'[c] \in {sending[c], NoWorker},
         lock' \in [Key -> BOOLEAN],
         issued' \in [Caller -> Nat],
         \A c \in Caller : issued[c] <= issued'[c] /\ issued'[c] <= MaxJobs[c]
  PROVE  Inv'
<1> USE DEF Inv
<1>1. CASE UNCHANGED <<chan, outstanding, accepted>>
  <2>1. TypeOK'
    BY <1>1 DEF TypeOK
  <2>2. EntriesOwn' /\ LiveIsEntry' /\ UnbornIsBlank' /\ GoneIsEmpty'
    BY <1>1 DEF EntriesOwn, LiveIsEntry, Live, UnbornIsBlank, GoneIsEmpty
  <2>3. ClosedForShutdown' /\ SendingToBorn' /\ JobInHandler' /\ AccountExact'
    BY <1>1 DEF TypeOK, ClosedForShutdown, SendingToBorn, JobInHandler, AccountExact, Guarded, Live
  <2>4. NothingLost'
    BY <1>1 DEF NothingLost, Held
  <2> QED
    BY <2>1, <2>2, <2>3, <2>4
<1>2. CASE /\ ~closed[w]
           /\ chan' = [chan EXCEPT ![w] = Append(@, j)]
           /\ outstanding' = [outstanding EXCEPT ![w] = @ + 1]
           /\ accepted' = [accepted EXCEPT ![KeyOf[w]] = @ \cup {j}]
  <2>w. /\ Live(w)
        /\ KeyOf[w] \in Key
        /\ entry[KeyOf[w]] = w
        /\ w # NoWorker
    BY <1>2, PoolAssumption DEF Live, GoneIsEmpty, LiveIsEntry, TypeOK, Pcs
  <2>h. /\ Append(chan[w], j) \in Seq(Job)
        /\ Len(Append(chan[w], j)) = Len(chan[w]) + 1
        /\ Range(Append(chan[w], j)) = Range(chan[w]) \cup {j}
        /\ Len(chan[w]) \in Nat
    BY QueueFacts DEF TypeOK
  <2>1. TypeOK'
    BY <1>2, <2>w, <2>h DEF TypeOK
  <2>2. EntriesOwn' /\ LiveIsEntry' /\ UnbornIsBlank' /\ GoneIsEmpty'
    BY <1>2, <2>w DEF TypeOK, EntriesOwn, LiveIsEntry, Live, UnbornIsBlank, GoneIsEmpty
  <2>3. ClosedForShutdown' /\ SendingToBorn' /\ JobInHandler'
    BY DEF TypeOK, ClosedForShutdown, SendingToBorn, JobInHandler, Live
  <2>4. AccountExact'
    <3> SUFFICES ASSUME NEW v \in Worker, Live(v)'
                 PROVE  (outstanding[v] = Len(chan[v]) + Guarded(v))'
      BY DEF AccountExact
    <3>1. outstanding[v] = Len(chan[v]) + Guarded(v) /\ Guarded(v)' = Guarded(v)
      BY DEF AccountExact, Live, Guarded
    <3>2. Guarded(v) \in Nat
      BY DEF Guarded
    <3>3. CASE v = w
      BY <1>2, <2>h, <3>1, <3>2, <3>3 DEF TypeOK
    <3>4. CASE v # w
      BY <1>2, <3>1, <3>4 DEF TypeOK
    <3> QED
      BY <3>3, <3>4
  <2>5. NothingLost'
    <3> SUFFICES ASSUME NEW k \in Key
                 PROVE  accepted'[k] \subseteq settled[k] \cup dropped[k] \cup Held(k)'
      BY DEF NothingLost
    <3>1. CASE k = KeyOf[w]
      BY <1>2, <2>w, <2>h, <3>1 DEF NothingLost, Held, TypeOK
    <3>2. CASE k # KeyOf[w]
      <4>1. entry[k] # w
        BY <2>w, <3>2 DEF EntriesOwn
      <4> QED
        BY <1>2, <3>2, <4>1 DEF NothingLost, Held, TypeOK
    <3> QED
      BY <3>1, <3>2
  <2> QED
    BY <2>1, <2>2, <2>3, <2>4, <2>5
<1> QED
  BY <1>1, <1>2 DEF Enqueue

\* A worker is born for a key none is alive for.
LEMMA SpawnStep ==
  ASSUME Inv, NEW c \in Caller, NEW k \in Key, Spawn(c, k),
         \A v \in Worker : KeyOf[v] = k => ~Live(v),
         lock' \in [Key -> BOOLEAN],
         issued' \in [Caller -> Nat],
         \A d \in Caller : issued[d] <= issued'[d] /\ issued'[d] <= MaxJobs[d],
         issued'[c] > 0,
         UNCHANGED <<cancelled, closed, chan, job, outstanding,
                     accepted, settled, dropped, deaths>>
  PROVE  Inv'
<1> USE DEF Inv
<1>w. PICK w \in Worker :
        /\ KeyOf[w] = k
        /\ pc[w] = "unborn"
        /\ pc' = [pc EXCEPT ![w] = "select"]
        /\ entry' = [entry EXCEPT ![k] = w]
        /\ sending' = [sending EXCEPT ![c] = w]
  <2> DEFINE w == CHOOSE spare \in Spare(k) : TRUE
  <2>1. w \in Spare(k)
    BY DEF Spawn
  <2> QED
    BY <2>1 DEF Spawn, Spare
<1>b. /\ ~closed[w] /\ chan[w] = <<>> /\ outstanding[w] = 0 /\ job[w] = NoJob
      /\ Len(chan[w]) = 0
      /\ w # NoWorker
  BY <1>w, PoolAssumption, EmptySeq DEF UnbornIsBlank, JobInHandler
<1>1. TypeOK'
  BY <1>w DEF TypeOK, Pcs
<1>2. EntriesOwn' /\ LiveIsEntry'
  BY <1>w DEF TypeOK, EntriesOwn, LiveIsEntry, Live
<1>3. UnbornIsBlank' /\ GoneIsEmpty' /\ ClosedForShutdown'
  BY <1>w, <1>b DEF TypeOK, UnbornIsBlank, GoneIsEmpty, ClosedForShutdown, Live
<1>4. SendingToBorn' /\ JobInHandler'
  BY <1>w DEF TypeOK, SendingToBorn, JobInHandler
<1>5. AccountExact'
  <2> SUFFICES ASSUME NEW v \in Worker, Live(v)'
               PROVE  (outstanding[v] = Len(chan[v]) + Guarded(v))'
    BY DEF AccountExact
  <2>1. CASE v = w
    BY <1>w, <1>b, <2>1 DEF Guarded, TypeOK
  <2>2. CASE v # w
    BY <1>w, <2>2 DEF Guarded, TypeOK, AccountExact, Live
  <2> QED
    BY <2>1, <2>2
<1>6. NothingLost'
  <2> SUFFICES ASSUME NEW m \in Key
               PROVE  Held(m) \subseteq Held(m)' \cup {NoJob}
    BY JobFacts DEF NothingLost, TypeOK
  <2>1. CASE m = k
    <3>1. entry[k] # NoWorker => /\ entry[k] \in Worker
                                 /\ pc[entry[k]] = "gone"
      BY DEF EntriesOwn, Live, TypeOK
    <3>2. entry[k] # NoWorker => chan[entry[k]] = <<>> /\ job[entry[k]] = NoJob
      BY <3>1 DEF GoneIsEmpty, JobInHandler
    <3>3. Range(<<>>) = {}
      BY EmptySeq, QueueFacts
    <3> QED
      BY <2>1, <3>2, <3>3 DEF Held
  <2>2. CASE m # k
    BY <1>w, <2>2 DEF Held, TypeOK
  <2> QED
    BY <2>1, <2>2
<1> QED
  BY <1>1, <1>2, <1>3, <1>4, <1>5, <1>6

\* What a dispatch call does to the count of its caller.
LEMMA BeginDispatchFacts ==
  ASSUME TypeOK, NEW c \in Caller, NEW k \in Key, BeginDispatch(c, k)
  PROVE  /\ issued' \in [Caller -> Nat]
         /\ \A d \in Caller : issued[d] <= issued'[d] /\ issued'[d] <= MaxJobs[d]
         /\ issued'[c] > 0
         /\ <<c, issued[c] + 1>> \in Job
<1>1. issued[c] \in Nat /\ MaxJobs[c] \in Nat /\ issued[c] < MaxJobs[c]
  BY PoolAssumption DEF TypeOK, BeginDispatch
<1>2. issued[c] + 1 \in 1 .. MaxJobs[c]
  BY <1>1
<1> QED
  BY <1>1, <1>2, JobFacts DEF TypeOK, BeginDispatch

\* Steps that touch neither workers nor the map.
LEMMA IdleStep ==
  ASSUME Inv, UNCHANGED <<entry, sending, workerVars, history>>,
         cancelled' \in BOOLEAN, cancelled => cancelled',
         lock' \in [Key -> BOOLEAN],
         issued' \in [Caller -> Nat],
         \A d \in Caller : issued[d] <= issued'[d] /\ issued'[d] <= MaxJobs[d]
  PROVE  Inv'
<1> USE DEF Inv, workerVars, history
<1>1. TypeOK'
  BY DEF TypeOK
<1>2. EntriesOwn' /\ LiveIsEntry' /\ UnbornIsBlank' /\ GoneIsEmpty'
  BY DEF EntriesOwn, LiveIsEntry, Live, UnbornIsBlank, GoneIsEmpty
<1>3. ClosedForShutdown' /\ SendingToBorn' /\ JobInHandler' /\ AccountExact'
  BY DEF TypeOK, ClosedForShutdown, SendingToBorn, JobInHandler, AccountExact, Guarded, Live
<1>4. NothingLost'
  BY DEF NothingLost, Held
<1> QED
  BY <1>1, <1>2, <1>3, <1>4

LEMMA DispatchVacantStep ==
  ASSUME Inv, NEW c \in Caller, NEW k \in Key, DispatchVacant(c, k)
  PROVE  Inv'
<1>1. /\ issued' \in [Caller -> Nat]
      /\ \A d \in Caller : issued[d] <= issued'[d] /\ issued'[d] <= MaxJobs[d]
      /\ issued'[c] > 0
  BY BeginDispatchFacts DEF DispatchVacant, Inv
<1>2. CASE UNCHANGED <<entry, sending, pc>>
  BY <1>1, <1>2, IdleStep DEF DispatchVacant, workerVars, history, Inv, TypeOK
<1>3. CASE Spawn(c, k)
  <2>1. \A v \in Worker : KeyOf[v] = k => ~Live(v)
    BY PoolAssumption DEF DispatchVacant, Inv, LiveIsEntry
  <2> QED
    BY <1>1, <1>3, <2>1, SpawnStep DEF DispatchVacant, history, Inv, TypeOK
<1> QED
  BY <1>2, <1>3 DEF DispatchVacant

LEMMA DispatchOccupiedStep ==
  ASSUME Inv, NEW c \in Caller, NEW k \in Key, NEW sheddable \in BOOLEAN,
         DispatchOccupied(c, k, sheddable)
  PROVE  Inv'
<1>1. /\ issued' \in [Caller -> Nat]
      /\ \A d \in Caller : issued[d] <= issued'[d] /\ issued'[d] <= MaxJobs[d]
      /\ issued'[c] > 0
      /\ <<c, issued[c] + 1>> \in Job
  BY BeginDispatchFacts DEF DispatchOccupied, Inv
<1>2. entry[k] \in Worker /\ pc[entry[k]] # "unborn"
  BY DEF DispatchOccupied, Inv, TypeOK, EntriesOwn
<1>3. CASE UNCHANGED <<chan, outstanding, accepted>>
  BY <1>1, <1>3, IdleStep DEF DispatchOccupied, workerVars, history, Inv, TypeOK
<1>4. CASE Enqueue(entry[k], <<c, issued[c] + 1>>)
  BY <1>1, <1>2, <1>4, EnqueueStep DEF DispatchOccupied, Inv, TypeOK
<1> QED
  BY <1>3, <1>4 DEF DispatchOccupied

LEMMA DispatchClosedStep ==
  ASSUME Inv, NEW c \in Caller, NEW k \in Key, NEW sheddable \in BOOLEAN,
         DispatchClosed(c, k, sheddable)
  PROVE  Inv'
<1>1. /\ issued' \in [Caller -> Nat]
      /\ \A d \in Caller : issued[d] <= issued'[d] /\ issued'[d] <= MaxJobs[d]
      /\ issued'[c] > 0
  BY BeginDispatchFacts DEF DispatchClosed, Inv
<1>2. CASE UNCHANGED <<entry, lock, sending, pc>>
  BY <1>1, <1>2, IdleStep DEF DispatchClosed, workerVars, history, Inv, TypeOK
<1>3. CASE ~cancelled /\ Spawn(c, k) /\ lock' = [lock EXCEPT ![k] = TRUE]
  \* The worker in the map is closed although nothing was cancelled: it is gone.
  <2>1. entry[k] \in Worker /\ ~Live(entry[k])
    BY <1>3 DEF DispatchClosed, Inv, TypeOK, ClosedForShutdown
  <2>2. \A v \in Worker : KeyOf[v] = k => ~Live(v)
    BY <2>1 DEF Inv, LiveIsEntry
  <2> QED
    BY <1>1, <1>3, <2>2, SpawnStep DEF DispatchClosed, history, Inv, TypeOK
<1> QED
  BY <1>2, <1>3 DEF DispatchClosed, Respawns

LEMMA SendAccountedStep ==
  ASSUME Inv, NEW c \in Caller, SendAccounted(c)
  PROVE  Inv'
<1>1. sending[c] \in Worker /\ pc[sending[c]] # "unborn"
  BY DEF SendAccounted, Inv, TypeOK, SendingToBorn
<1>2. <<c, issued[c]>> \in Job
  <2>1. issued[c] \in 1 .. MaxJobs[c]
    BY PoolAssumption DEF SendAccounted, Inv, TypeOK, SendingToBorn
  <2> QED
    BY <2>1, JobFacts
<1>3. /\ sending' \in [Caller -> Worker \cup {NoWorker}]
      /\ \A d \in Caller : sending'[d] \in {sending[d], NoWorker}
      /\ lock' \in [Key -> BOOLEAN]
  BY DEF SendAccounted, Inv, TypeOK
<1>4. \A d \in Caller : issued[d] <= issued'[d] /\ issued'[d] <= MaxJobs[d]
  BY DEF SendAccounted, Inv, TypeOK
<1> QED
  BY <1>1, <1>2, <1>3, <1>4, EnqueueStep DEF SendAccounted, Inv, TypeOK

LEMMA Inductive == Inv /\ [Next]_vars => Inv'
<1> SUFFICES ASSUME Inv, [Next]_vars PROVE Inv'
  OBVIOUS
<1>i. /\ issued \in [Caller -> Nat]
      /\ \A d \in Caller : issued[d] <= issued[d] /\ issued[d] <= MaxJobs[d]
      /\ lock \in [Key -> BOOLEAN]
  BY DEF Inv, TypeOK
<1>1. ASSUME NEW c \in Caller, SendAccounted(c) PROVE Inv'
  BY <1>1, SendAccountedStep
<1>2. ASSUME NEW c \in Caller, NEW k \in Key, Dispatch(c, k) PROVE Inv'
  BY <1>2, DispatchVacantStep, DispatchOccupiedStep, DispatchClosedStep DEF Dispatch
<1>3. ASSUME NEW w \in Worker, Run(w) PROVE Inv'
  BY <1>3, TakeStep, HandlerDoneStep, TickStep, HookDoneStep, TryExpireStep,
     SeeCancelledStep, DrainEndStep DEF Run
<1>4. ASSUME NEW w \in Worker, Die(w) PROVE Inv'
  BY <1>4, DieStep
<1>5. CASE Cancel
  BY <1>5, <1>i, IdleStep DEF Cancel
<1>6. CASE UNCHANGED vars
  BY <1>6, <1>i, IdleStep DEF vars, poolVars, Inv, TypeOK
<1> QED
  BY <1>1, <1>2, <1>3, <1>4, <1>5, <1>6 DEF Next

LEMMA Invariance == Spec => []Inv
BY Initially, Inductive, PTL DEF Spec

-----------------------------------------------------------------------------
(***************************************************************************)
(* The theorems.                                                           *)
(***************************************************************************)

\* Every variable keeps its type; in particular no path through dispatch,
\* handler, hook, expiry or death takes more off an account than was entered.
THEOREM TypeCorrect == Spec => []TypeOK
<1>1. Inv => TypeOK
  BY DEF Inv
<1> QED
  BY <1>1, Invariance, PTL

\* However dispatch, expiry, respawn, shutdown and death interleave, two
\* worker tasks never run for one key.
THEOREM OneWorker == Spec => []OneWorkerPerKey
<1>1. Inv => OneWorkerPerKey
  BY DEF Inv, LiveIsEntry, OneWorkerPerKey
<1> QED
  BY <1>1, Invariance, PTL

\* is_quiet never answers true while a job it was given is neither handled
\* nor lost with its worker: the drain barrier may be trusted.
THEOREM QuietBarrier == Spec => []QuietMeansSettled
<1>1. Inv => QuietMeansSettled
  <2> SUFFICES ASSUME Inv, NEW k \in Key, IsQuiet(k)
               PROVE  accepted[k] \subseteq settled[k] \cup dropped[k]
    BY DEF QuietMeansSettled
  <2>1. Held(k) \subseteq {NoJob}
    <3>1. CASE entry[k] = NoWorker
      BY <3>1 DEF Held
    <3>2. CASE entry[k] # NoWorker
      <4> DEFINE w == entry[k]
      <4>1. w \in Worker /\ outstanding[w] = 0 /\ pc[w] # "unborn"
        BY <3>2 DEF IsQuiet, Inv, TypeOK, EntriesOwn
      <4>2. chan[w] = <<>> /\ job[w] = NoJob
        <5>1. CASE pc[w] = "gone"
          BY <4>1, <5>1 DEF Inv, GoneIsEmpty, JobInHandler
        <5>2. CASE pc[w] # "gone"
          <6>1. outstanding[w] = Len(chan[w]) + Guarded(w) /\ chan[w] \in Seq(Job)
            BY <4>1, <5>2 DEF Inv, AccountExact, Live, TypeOK
          <6>2. Len(chan[w]) \in Nat /\ (chan[w] = <<>> <=> Len(chan[w]) = 0)
            BY <6>1, QueueFacts
          <6>3. Guarded(w) \in {0, 1} /\ (pc[w] = "handler" => Guarded(w) = 1)
            BY DEF Guarded
          <6>4. chan[w] = <<>> /\ Guarded(w) = 0
            BY <4>1, <6>1, <6>2, <6>3
          <6>5. job[w] = NoJob
            BY <4>1, <6>3, <6>4 DEF Inv, JobInHandler
          <6> QED
            BY <6>4, <6>5
        <5> QED
          BY <5>1, <5>2
      <4>3. Range(<<>>) = {}
        BY EmptySeq, QueueFacts
      <4> QED
        BY <3>2, <4>2, <4>3 DEF Held
    <3> QED
      BY <3>1, <3>2
  <2> QED
    BY <2>1, JobFacts DEF Inv, TypeOK, NothingLost
<1> QED
  BY <1>1, Invariance, PTL

\* The idle TTL and the shutdown of a draining pool lose no job.
THEOREM NothingDroppedSilently == Spec => []NoSilentDrop
<1>1. Init => NoSilentDrop
  BY DEF Init, NoSilentDrop
<1>2. Inv /\ NoSilentDrop /\ [Next]_vars => NoSilentDrop'
  <2> SUFFICES ASSUME Inv, NoSilentDrop, [Next]_vars PROVE NoSilentDrop'
    OBVIOUS
  <2>1. CASE dropped' = dropped /\ deaths' = deaths /\ (cancelled => cancelled')
    BY <2>1 DEF NoSilentDrop
  <2>2. ASSUME NEW w \in Worker, Live(w), Exit(w), chan[w] = <<>>, job[w] = NoJob,
               deaths' = deaths, cancelled' = cancelled
        PROVE  NoSilentDrop'
    <3>1. Range(<<>>) = {} /\ KeyOf[w] \in Key
      BY EmptySeq, QueueFacts, PoolAssumption
    <3>2. dropped' = dropped
      BY <2>2, <3>1 DEF Exit, Inv, TypeOK
    <3> QED
      BY <2>2, <3>2 DEF NoSilentDrop
  <2>3. ASSUME NEW w \in Worker, NEW elapsed \in BOOLEAN, TryExpire(w, elapsed)
        PROVE  NoSilentDrop'
    <3>1. Live(w) /\ pc[w] = "expire" /\ Guarded(w) = 0
      BY <2>3 DEF TryExpire, Live, Guarded
    <3>2. entry[KeyOf[w]] = w /\ w # NoWorker
      BY <3>1, PoolAssumption DEF Inv, LiveIsEntry
    <3>3. CASE ~Expirable(w, elapsed)
      BY <2>1, <2>3, <3>2, <3>3 DEF TryExpire
    <3>4. CASE Expirable(w, elapsed)
      <4>1. outstanding[w] = Len(chan[w])
        BY <3>1 DEF Inv, AccountExact, TypeOK
      <4>2. chan[w] = <<>>
        BY <3>4, <4>1, QueueFacts DEF Expirable, Inv, TypeOK
      <4>3. job[w] = NoJob
        BY <3>1 DEF Inv, JobInHandler
      <4>4. Exit(w) /\ deaths' = deaths /\ cancelled' = cancelled
        BY <2>3, <3>2, <3>4 DEF TryExpire
      <4> QED
        BY <2>2, <3>1, <4>2, <4>3, <4>4
    <3> QED
      BY <3>3, <3>4
  <2>4. ASSUME NEW w \in Worker, SeeCancelled(w)
        PROVE  NoSilentDrop'
    <3>1. CASE DrainsOnCancel(w)
      BY <2>1, <2>4, <3>1 DEF SeeCancelled, poolVars
    <3>2. CASE ~DrainsOnCancel(w)
      <4>1. /\ \A k \in Key : k # KeyOf[w] => dropped'[k] = dropped[k]
            /\ cancelled' = cancelled /\ cancelled
            /\ deaths' = deaths
            /\ KeyOf[w] \notin Drains
        BY <2>4, <3>2 DEF SeeCancelled, Exit, poolVars, DrainsOnCancel, Inv, TypeOK
      <4> QED
        BY <4>1 DEF NoSilentDrop
    <3> QED
      BY <3>1, <3>2
  <2>5. ASSUME NEW w \in Worker, DrainEnd(w)
        PROVE  NoSilentDrop'
    <3>1. job[w] = NoJob /\ Live(w)
      BY <2>5 DEF DrainEnd, Inv, JobInHandler, Live
    <3> QED
      BY <2>2, <2>5, <3>1 DEF DrainEnd, poolVars
  <2>6. ASSUME NEW w \in Worker, Die(w)
        PROVE  NoSilentDrop'
    BY <2>6 DEF Die, NoSilentDrop, Inv, TypeOK
  <2>7. ASSUME NEW c \in Caller, SendAccounted(c) \/ \E k \in Key : Dispatch(c, k)
        PROVE  NoSilentDrop'
    BY <2>1, <2>7 DEF SendAccounted, Dispatch, DispatchVacant, DispatchOccupied,
                     DispatchClosed, history
  <2>8. ASSUME NEW w \in Worker, Run(w)
        PROVE  NoSilentDrop'
    BY <2>1, <2>3, <2>4, <2>5, <2>8
       DEF Run, Take, HandlerDone, Tick, HookDone, poolVars, history
  <2>9. CASE Cancel
    BY <2>1, <2>9 DEF Cancel, history
  <2>10. CASE UNCHANGED vars
    BY <2>1, <2>10 DEF vars, poolVars, history
  <2> QED
    BY <2>6, <2>7, <2>8, <2>9, <2>10 DEF Next
<1> QED
  BY <1>1, <1>2, Invariance, PTL DEF Spec

-----------------------------------------------------------------------------
(***************************************************************************)
(* The pool implements KeyedFifo.  A step maps to a step on the queue of   *)
(* one key or to none.                                                     *)
(***************************************************************************)
Stutters == UNCHANGED <<Queued, InHand>>

\* A function that differs from another at one point only.
LEMMA ChangedAt ==
  ASSUME NEW D, NEW f, NEW g, NEW d \in D, NEW e,
         f = [x \in D |-> f[x]],
         g = [x \in D |-> g[x]],
         g[d] = e,
         \A x \in D : x # d => g[x] = f[x]
  PROVE  g = [f EXCEPT ![d] = e]
OBVIOUS

LEMMA Functional ==
  /\ Queued = [k \in Key |-> Queued[k]]
  /\ InHand = [k \in Key |-> InHand[k]]
  /\ Queued' = [k \in Key |-> Queued'[k]]
  /\ InHand' = [k \in Key |-> InHand'[k]]
BY DEF Queued, InHand

LEMMA AtKey ==
  \A k \in Key :
    /\ Queued[k] = IF entry[k] = NoWorker THEN <<>> ELSE chan[entry[k]]
    /\ InHand[k] = IF entry[k] = NoWorker THEN NoJob ELSE job[entry[k]]
    /\ Queued'[k] = IF entry'[k] = NoWorker THEN <<>> ELSE chan'[entry'[k]]
    /\ InHand'[k] = IF entry'[k] = NoWorker THEN NoJob ELSE job'[entry'[k]]
BY DEF Queued, InHand

\* What the abstract variables say of a key, and that a worker that runs is
\* the one they speak of.
LEMMA ViewFacts ==
  ASSUME Inv, NEW w \in Worker, Live(w)
  PROVE  /\ KeyOf[w] \in Key
         /\ entry[KeyOf[w]] = w
         /\ w # NoWorker
         /\ Queued[KeyOf[w]] = chan[w]
         /\ InHand[KeyOf[w]] = job[w]
         /\ \A k \in Key : /\ k # KeyOf[w] => entry[k] # w
                           /\ entry[k] \in Worker \cup {NoWorker}
         /\ chan = [v \in Worker |-> chan[v]] /\ job = [v \in Worker |-> job[v]]
BY PoolAssumption DEF Inv, TypeOK, LiveIsEntry, EntriesOwn, Queued, InHand

LEMMA TakeStarts ==
  ASSUME Inv, NEW w \in Worker, Take(w)
  PROVE  Fifo!Start(KeyOf[w])
<1>1. Live(w) /\ job[w] = NoJob /\ chan[w] # <<>>
  BY DEF Take, Live, Inv, JobInHandler
<1>v. /\ KeyOf[w] \in Key
      /\ entry[KeyOf[w]] = w
      /\ w # NoWorker
      /\ Queued[KeyOf[w]] = chan[w]
      /\ InHand[KeyOf[w]] = job[w]
      /\ \A k \in Key : /\ k # KeyOf[w] => entry[k] # w
                        /\ entry[k] \in Worker \cup {NoWorker}
      /\ chan = [v \in Worker |-> chan[v]] /\ job = [v \in Worker |-> job[v]]
  BY <1>1, ViewFacts
<1>2. /\ entry' = entry
      /\ chan' = [chan EXCEPT ![w] = Tail(@)]
      /\ job' = [job EXCEPT ![w] = Head(chan[w])]
  BY DEF Take, poolVars
<1>3. Queued' = [Queued EXCEPT ![KeyOf[w]] = Tail(@)]
  <2>a. Queued'[KeyOf[w]] = Tail(Queued[KeyOf[w]])
    BY <1>1, <1>2, <1>v, AtKey
  <2>b. \A k \in Key : k # KeyOf[w] => Queued'[k] = Queued[k]
    BY <1>1, <1>2, <1>v, AtKey
  <2> QED
    BY <1>1, <1>2, <2>a, <2>b, <1>v, ChangedAt, Functional
<1>4. InHand' = [InHand EXCEPT ![KeyOf[w]] = Head(Queued[KeyOf[w]])]
  <2>a. InHand'[KeyOf[w]] = Head(Queued[KeyOf[w]])
    BY <1>1, <1>2, <1>v, AtKey
  <2>b. \A k \in Key : k # KeyOf[w] => InHand'[k] = InHand[k]
    BY <1>1, <1>2, <1>v, AtKey
  <2> QED
    BY <1>1, <1>2, <2>a, <2>b, <1>v, ChangedAt, Functional
<1> QED
  BY <1>1, <1>3, <1>4, <1>v DEF Fifo!Start

LEMMA HandlerDoneFinishes ==
  ASSUME Inv, NEW w \in Worker, HandlerDone(w)
  PROVE  Fifo!Finish(KeyOf[w])
<1>1. Live(w) /\ job[w] # NoJob
  BY DEF HandlerDone, Live, Inv, JobInHandler
<1>v. /\ KeyOf[w] \in Key
      /\ entry[KeyOf[w]] = w
      /\ w # NoWorker
      /\ Queued[KeyOf[w]] = chan[w]
      /\ InHand[KeyOf[w]] = job[w]
      /\ \A k \in Key : /\ k # KeyOf[w] => entry[k] # w
                        /\ entry[k] \in Worker \cup {NoWorker}
      /\ chan = [v \in Worker |-> chan[v]] /\ job = [v \in Worker |-> job[v]]
  BY <1>1, ViewFacts
<1>2. /\ entry' = entry
      /\ chan' = chan
      /\ job' = [job EXCEPT ![w] = NoJob]
  BY DEF HandlerDone, poolVars
<1>3. Queued' = Queued
  BY <1>2 DEF Queued
<1>4. InHand' = [InHand EXCEPT ![KeyOf[w]] = NoJob]
  <2>a. InHand'[KeyOf[w]] = NoJob
    BY <1>1, <1>2, <1>v, AtKey
  <2>b. \A k \in Key : k # KeyOf[w] => InHand'[k] = InHand[k]
    BY <1>1, <1>2, <1>v, AtKey
  <2> QED
    BY <1>1, <1>2, <2>a, <2>b, <1>v, ChangedAt, Functional
<1> QED
  BY <1>1, <1>3, <1>4, <1>v DEF Fifo!Finish

LEMMA ExitAbandons ==
  ASSUME Inv, NEW w \in Worker, Live(w), Exit(w),
         entry' = entry \/ entry' = [entry EXCEPT ![KeyOf[w]] = NoWorker]
  PROVE  Fifo!Abandon(KeyOf[w])
<1>v. /\ KeyOf[w] \in Key
      /\ entry[KeyOf[w]] = w
      /\ w # NoWorker
      /\ Queued[KeyOf[w]] = chan[w]
      /\ InHand[KeyOf[w]] = job[w]
      /\ \A k \in Key : /\ k # KeyOf[w] => entry[k] # w
                        /\ entry[k] \in Worker \cup {NoWorker}
      /\ chan = [v \in Worker |-> chan[v]] /\ job = [v \in Worker |-> job[v]]
  BY ViewFacts
<1>1. /\ chan' = [chan EXCEPT ![w] = <<>>]
      /\ job' = [job EXCEPT ![w] = NoJob]
  BY DEF Exit
<1>2. \A k \in Key : /\ k # KeyOf[w] => entry'[k] = entry[k] /\ entry[k] # w
                     /\ k = KeyOf[w] => entry'[k] \in {w, NoWorker}
  BY <1>v DEF Inv, TypeOK
<1>3. Queued' = [Queued EXCEPT ![KeyOf[w]] = <<>>]
  <2>a. Queued'[KeyOf[w]] = <<>>
    BY <1>1, <1>2, <1>v, AtKey
  <2>b. \A k \in Key : k # KeyOf[w] => Queued'[k] = Queued[k]
    BY <1>1, <1>2, <1>v, AtKey
  <2> QED
    BY <1>1, <1>2, <2>a, <2>b, <1>v, ChangedAt, Functional
<1>4. InHand' = [InHand EXCEPT ![KeyOf[w]] = NoJob]
  <2>a. InHand'[KeyOf[w]] = NoJob
    BY <1>1, <1>2, <1>v, AtKey
  <2>b. \A k \in Key : k # KeyOf[w] => InHand'[k] = InHand[k]
    BY <1>1, <1>2, <1>v, AtKey
  <2> QED
    BY <1>1, <1>2, <2>a, <2>b, <1>v, ChangedAt, Functional
<1> QED
  BY <1>3, <1>4 DEF Fifo!Abandon

LEMMA EnqueueAccepts ==
  ASSUME Inv, NEW w \in Worker, NEW j \in Job, pc[w] # "unborn", Enqueue(w, j),
         UNCHANGED <<entry, job>>
  PROVE  Stutters \/ Fifo!Accept(KeyOf[w], j)
<1>1. CASE UNCHANGED <<chan, outstanding, accepted>>
  BY <1>1 DEF Stutters, Queued, InHand
<1>2. CASE ~closed[w] /\ chan' = [chan EXCEPT ![w] = Append(@, j)]
  <2>1. Live(w)
    BY <1>2 DEF Live, Inv, GoneIsEmpty
  <2>v. /\ KeyOf[w] \in Key
        /\ entry[KeyOf[w]] = w
        /\ w # NoWorker
        /\ Queued[KeyOf[w]] = chan[w]
        /\ InHand[KeyOf[w]] = job[w]
        /\ \A k \in Key : /\ k # KeyOf[w] => entry[k] # w
                          /\ entry[k] \in Worker \cup {NoWorker}
        /\ chan = [v \in Worker |-> chan[v]] /\ job = [v \in Worker |-> job[v]]
    BY <2>1, ViewFacts
  <2>2. Queued' = [Queued EXCEPT ![KeyOf[w]] = Append(@, j)]
    <3>a. Queued'[KeyOf[w]] = Append(Queued[KeyOf[w]], j)
      BY <1>2, <2>1, <2>v, AtKey
    <3>b. \A k \in Key : k # KeyOf[w] => Queued'[k] = Queued[k]
      BY <1>2, <2>1, <2>v, AtKey
    <3> QED
      BY <1>2, <2>1, <3>a, <3>b, <2>v, ChangedAt, Functional
  <2>3. InHand' = InHand
    BY DEF InHand
  <2> QED
    BY <2>2, <2>3 DEF Fifo!Accept
<1> QED
  BY <1>1, <1>2 DEF Enqueue

LEMMA SpawnStutters ==
  ASSUME Inv, NEW c \in Caller, NEW k \in Key, Spawn(c, k),
         entry[k] = NoWorker \/ ~Live(entry[k]),
         UNCHANGED <<chan, job>>
  PROVE  Stutters
<1>1. PICK w \in Worker :
        /\ w # NoWorker
        /\ pc[w] = "unborn"
        /\ entry' = [entry EXCEPT ![k] = w]
  <2> DEFINE w == CHOOSE spare \in Spare(k) : TRUE
  <2>1. w \in Spare(k)
    BY DEF Spawn
  <2> QED
    BY <2>1, PoolAssumption DEF Spawn, Spare
<1>2. chan[w] = <<>> /\ job[w] = NoJob
  BY <1>1 DEF Inv, UnbornIsBlank, JobInHandler
<1>3. entry[k] # NoWorker => chan[entry[k]] = <<>> /\ job[entry[k]] = NoJob
  <2>1. entry[k] # NoWorker => entry[k] \in Worker /\ pc[entry[k]] = "gone"
    BY DEF Inv, TypeOK, EntriesOwn, Live
  <2> QED
    BY <2>1 DEF Inv, GoneIsEmpty, JobInHandler
<1>4. Queued' = Queued
  BY <1>1, <1>2, <1>3 DEF Queued, Inv, TypeOK
<1>5. InHand' = InHand
  BY <1>1, <1>2, <1>3 DEF InHand, Inv, TypeOK
<1> QED
  BY <1>4, <1>5 DEF Stutters

\* Every step of the pool is a step of the FIFOs or changes nothing there.
LEMMA FifoSteps == Inv /\ [Next]_vars => [Fifo!Next]_<<Queued, InHand>>
<1> SUFFICES ASSUME Inv, [Next]_vars PROVE Fifo!Next \/ Stutters
  BY DEF Stutters
<1>k. KeyOf \in [Worker -> Key]
  BY PoolAssumption
<1>1. ASSUME NEW c \in Caller, SendAccounted(c)
      PROVE  Fifo!Next \/ Stutters
  <2>1. sending[c] \in Worker /\ pc[sending[c]] # "unborn"
    BY <1>1 DEF SendAccounted, Inv, TypeOK, SendingToBorn
  <2>2. issued[c] \in 1 .. MaxJobs[c]
    BY <1>1, PoolAssumption DEF SendAccounted, Inv, TypeOK, SendingToBorn
  <2>3. <<c, issued[c]>> \in Job
    BY <2>2, JobFacts
  <2> QED
    BY <1>1, <1>k, <2>1, <2>3, EnqueueAccepts DEF SendAccounted, Fifo!Next
<1>2. ASSUME NEW c \in Caller, NEW k \in Key, DispatchVacant(c, k)
      PROVE  Fifo!Next \/ Stutters
  <2>1. CASE Spawn(c, k)
    BY <1>2, <2>1, SpawnStutters DEF DispatchVacant
  <2>2. CASE UNCHANGED <<entry, sending, pc>>
    BY <1>2, <2>2 DEF DispatchVacant, Stutters, Queued, InHand
  <2> QED
    BY <1>2, <2>1, <2>2 DEF DispatchVacant
<1>3. ASSUME NEW c \in Caller, NEW k \in Key, NEW sheddable \in BOOLEAN,
             DispatchOccupied(c, k, sheddable)
      PROVE  Fifo!Next \/ Stutters
  <2>1. entry[k] \in Worker /\ pc[entry[k]] # "unborn"
    BY <1>3 DEF DispatchOccupied, Inv, TypeOK, EntriesOwn
  <2>2. <<c, issued[c] + 1>> \in Job
    BY <1>3, BeginDispatchFacts DEF DispatchOccupied, Inv
  <2>3. CASE UNCHANGED <<chan, outstanding, accepted>>
    BY <1>3, <2>3 DEF DispatchOccupied, Stutters, Queued, InHand
  <2>4. CASE Enqueue(entry[k], <<c, issued[c] + 1>>)
    BY <1>3, <1>k, <2>1, <2>2, <2>4, EnqueueAccepts DEF DispatchOccupied, Fifo!Next
  <2> QED
    BY <1>3, <2>3, <2>4 DEF DispatchOccupied
<1>4. ASSUME NEW c \in Caller, NEW k \in Key, NEW sheddable \in BOOLEAN,
             DispatchClosed(c, k, sheddable)
      PROVE  Fifo!Next \/ Stutters
  <2>1. CASE ~cancelled /\ Spawn(c, k)
    <3>1. ~Live(entry[k])
      BY <1>4, <2>1 DEF DispatchClosed, Inv, TypeOK, ClosedForShutdown
    <3> QED
      BY <1>4, <2>1, <3>1, SpawnStutters DEF DispatchClosed
  <2>2. CASE UNCHANGED <<entry, lock, sending, pc>>
    BY <1>4, <2>2 DEF DispatchClosed, Stutters, Queued, InHand
  <2> QED
    BY <1>4, <2>1, <2>2 DEF DispatchClosed, Respawns
<1>5. ASSUME NEW w \in Worker, Run(w)
      PROVE  Fifo!Next \/ Stutters
  <2>1. CASE Take(w)
    BY <1>k, <2>1, TakeStarts DEF Fifo!Next
  <2>2. CASE HandlerDone(w)
    BY <1>k, <2>2, HandlerDoneFinishes DEF Fifo!Next
  <2>3. CASE Tick(w) \/ \E hold \in BOOLEAN : HookDone(w, hold)
    BY <2>3 DEF Tick, HookDone, poolVars, Stutters, Queued, InHand
  <2>4. ASSUME Live(w), Exit(w),
               entry' = entry \/ entry' = [entry EXCEPT ![KeyOf[w]] = NoWorker]
        PROVE  Fifo!Next
    BY <1>k, <2>4, ExitAbandons DEF Fifo!Next
  <2>5. ASSUME NEW elapsed \in BOOLEAN, TryExpire(w, elapsed)
        PROVE  Fifo!Next \/ Stutters
    BY <2>4, <2>5 DEF TryExpire, Live, Stutters, Queued, InHand
  <2>6. CASE SeeCancelled(w)
    BY <2>4, <2>6 DEF SeeCancelled, poolVars, Live, Stutters, Queued, InHand
  <2>7. CASE DrainEnd(w)
    BY <2>4, <2>7 DEF DrainEnd, poolVars, Live
  <2> QED
    BY <1>5, <2>1, <2>2, <2>3, <2>5, <2>6, <2>7 DEF Run
<1>6. ASSUME NEW w \in Worker, Die(w)
      PROVE  Fifo!Next
  BY <1>6, <1>k, ExitAbandons DEF Die, poolVars, Live, Fifo!Next
<1>7. CASE Cancel
  BY <1>7 DEF Cancel, workerVars, Stutters, Queued, InHand
<1>8. CASE UNCHANGED vars
  BY <1>8 DEF vars, poolVars, workerVars, Stutters, Queued, InHand
<1> QED
  BY <1>1, <1>2, <1>3, <1>4, <1>5, <1>6, <1>7, <1>8 DEF Next, Dispatch

\* The pool is one FIFO per key: jobs are started in the order in which they
\* were accepted, one at a time, and never abandoned from the middle.
THEOREM ImplementsFifo == Spec => FifoSpec
<1>1. Init => Fifo!Init
  BY DEF Init, Fifo!Init, Queued, InHand
<1> QED
  BY <1>1, FifoSteps, Invariance, PTL DEF Spec, FifoSpec, Fifo!Spec, Fifo!fifoVars

-----------------------------------------------------------------------------
(***************************************************************************)
(* The recursive functions of History, step by step.  A recursive function *)
(* on 0..n exists and satisfies its equation, by induction on n.           *)
(***************************************************************************)

\* Of any numbers one is the least.
LEMMA LeastElement ==
  ASSUME NEW S, S \subseteq Nat, S # {}
  PROVE  \E t \in S : \A u \in S : t <= u
<1> DEFINE Less == {ss \in Nat \X Nat : ss[1] < ss[2]}
<1>1. IsWellFoundedOn(Less, Nat)
  BY NatLessThanWellFounded, Zenon DEF OpToRel
<1>2. PICK t \in S : \A u \in S : <<u, t>> \notin Less
  <2> HIDE DEF Less
  <2> QED
    BY <1>1, WFMin
<1>3. ASSUME NEW u \in S PROVE t <= u
  <2>1. <<u, t>> \notin Less
    BY <1>2
  <2>2. u \in Nat /\ t \in Nat /\ <<u, t>>[1] = u /\ <<u, t>>[2] = t
    OBVIOUS
  <2>3. ~(u < t)
    BY <2>1, <2>2
  <2> QED
    BY <2>2, <2>3
<1> QED
  BY <1>3

\* A set that holds zero and successors holds all numbers.
LEMMA ByInduction ==
  ASSUME NEW S, 0 \in S, \A n \in Nat : n \in S => n + 1 \in S
  PROVE  Nat \subseteq S
<1> SUFFICES ASSUME Nat \ S # {} PROVE FALSE
  OBVIOUS
<1>1. PICK n \in Nat \ S : \A m \in Nat \ S : n <= m
  BY LeastElement
<1>2. n # 0
  OBVIOUS
<1>3. n - 1 \in Nat /\ ~(n <= n - 1) /\ (n - 1) + 1 = n
  BY <1>2
<1> QED
  BY <1>1, <1>3

\* The function by which At is defined, and its values step by step.
Picking(g, s, I, n) == g = [i \in 0..n |->
    IF i = 0 THEN <<>> ELSE IF i \in I THEN Append(g[i - 1], s[i]) ELSE g[i - 1]]

\* There is such a function for every length.
LEMMA PickingDefined ==
  ASSUME NEW s, NEW I, NEW n \in Nat
  PROVE  \E g : Picking(g, s, I, n)
<1> DEFINE T == {k \in Nat : \E g : Picking(g, s, I, k)}
<1>1. 0 \in T
  <2> DEFINE g == [i \in 0..0 |-> <<>>]
  <2>1. g = [i \in 0..0 |->
            IF i = 0 THEN <<>> ELSE IF i \in I THEN Append(g[i - 1], s[i]) ELSE g[i - 1]]
    OBVIOUS
  <2>2. Picking(g, s, I, 0)
    BY <2>1 DEF Picking
  <2> HIDE DEF g
  <2> QED
    BY <2>2
<1>2. ASSUME NEW k \in Nat, k \in T PROVE k + 1 \in T
  <2>1. PICK g : Picking(g, s, I, k)
    BY <1>2
  <2>2. \A i \in 0..k :
            g[i] = IF i = 0 THEN <<>> ELSE IF i \in I THEN Append(g[i - 1], s[i]) ELSE g[i - 1]
    BY <2>1 DEF Picking
  <2> DEFINE h == [i \in 0..(k + 1) |->
          IF i = 0 THEN <<>> ELSE IF i \in I THEN Append(g[i - 1], s[i]) ELSE g[i - 1]]
  <2>3. ASSUME NEW i \in 0..(k + 1), i # 0 PROVE h[i - 1] = g[i - 1]
    <3>1. i - 1 \in 0..k /\ i - 1 \in 0..(k + 1)
      BY <2>3
    <3> QED
      BY <2>2, <3>1
  <2>4. h = [i \in 0..(k + 1) |->
            IF i = 0 THEN <<>> ELSE IF i \in I THEN Append(h[i - 1], s[i]) ELSE h[i - 1]]
    <3>1. \A i \in 0..(k + 1) :
            (IF i = 0 THEN <<>> ELSE IF i \in I THEN Append(g[i - 1], s[i]) ELSE g[i - 1])
              = (IF i = 0 THEN <<>> ELSE IF i \in I THEN Append(h[i - 1], s[i]) ELSE h[i - 1])
      <4> HIDE DEF h
      <4> QED
        BY <2>3
    <3> HIDE DEF h
    <3>2. h = [i \in 0..(k + 1) |->
              IF i = 0 THEN <<>> ELSE IF i \in I THEN Append(g[i - 1], s[i]) ELSE g[i - 1]]
      BY DEF h
    <3> QED
      BY <3>1, <3>2
  <2> HIDE DEF h
  <2>5. Picking(h, s, I, k + 1)
    BY <2>4 DEF Picking
  <2> QED
    BY <2>5
<1> HIDE DEF T
<1>3. n \in T
  BY <1>1, <1>2, ByInduction
<1> QED
  BY <1>3 DEF T

\* At is the last of its values.
LEMMA PickingSteps ==
  ASSUME NEW s, NEW I, Len(s) \in Nat
  PROVE  \E g : /\ g[0] = <<>>
                /\ \A i \in 1..Len(s) : g[i] = IF i \in I THEN Append(g[i - 1], s[i]) ELSE g[i - 1]
                /\ At(s, I) = g[Len(s)]
<1> DEFINE g == CHOOSE h : Picking(h, s, I, Len(s))
<1>1. Picking(g, s, I, Len(s))
  BY PickingDefined
<1>2. At(s, I) = g[Len(s)]
  BY DEF At, Picking
<1> HIDE DEF g
<1>3. \A i \in 0..Len(s) :
          g[i] = IF i = 0 THEN <<>> ELSE IF i \in I THEN Append(g[i - 1], s[i]) ELSE g[i - 1]
  BY <1>1 DEF Picking
<1>4. 0 \in 0..Len(s) /\ \A i \in 1..Len(s) : i \in 0..Len(s) /\ i # 0
  OBVIOUS
<1>5. g[0] = <<>> /\ \A i \in 1..Len(s) :
          g[i] = IF i \in I THEN Append(g[i - 1], s[i]) ELSE g[i - 1]
  BY <1>3, <1>4
<1> QED
  BY <1>2, <1>5

\* The function by which CloseBatch is defined, and its values step by step.
Settling(g, msgs, s, n) == g = [i \in 0..n |->
    IF i = 0 THEN s ELSE Settle(msgs, g[i - 1], s.open[i])]

\* There is such a function for every batch.
LEMMA SettlingDefined ==
  ASSUME NEW msgs, NEW s, NEW n \in Nat
  PROVE  \E g : Settling(g, msgs, s, n)
<1> DEFINE T == {k \in Nat : \E g : Settling(g, msgs, s, k)}
<1>1. 0 \in T
  <2> DEFINE g == [i \in 0..0 |-> s]
  <2>1. g = [i \in 0..0 |-> IF i = 0 THEN s ELSE Settle(msgs, g[i - 1], s.open[i])]
    OBVIOUS
  <2>2. Settling(g, msgs, s, 0)
    BY <2>1 DEF Settling
  <2> HIDE DEF g
  <2> QED
    BY <2>2
<1>2. ASSUME NEW k \in Nat, k \in T PROVE k + 1 \in T
  <2>1. PICK g : Settling(g, msgs, s, k)
    BY <1>2
  <2>2. \A i \in 0..k : g[i] = IF i = 0 THEN s ELSE Settle(msgs, g[i - 1], s.open[i])
    BY <2>1 DEF Settling
  <2> DEFINE h == [i \in 0..(k + 1) |-> IF i = 0 THEN s ELSE Settle(msgs, g[i - 1], s.open[i])]
  <2>3. ASSUME NEW i \in 0..(k + 1), i # 0 PROVE h[i - 1] = g[i - 1]
    <3>1. i - 1 \in 0..k /\ i - 1 \in 0..(k + 1)
      BY <2>3
    <3> QED
      BY <2>2, <3>1
  <2>4. h = [i \in 0..(k + 1) |-> IF i = 0 THEN s ELSE Settle(msgs, h[i - 1], s.open[i])]
    <3>1. \A i \in 0..(k + 1) :
            (IF i = 0 THEN s ELSE Settle(msgs, g[i - 1], s.open[i]))
              = (IF i = 0 THEN s ELSE Settle(msgs, h[i - 1], s.open[i]))
      <4> HIDE DEF h
      <4> QED
        BY <2>3
    <3> HIDE DEF h
    <3>2. h = [i \in 0..(k + 1) |-> IF i = 0 THEN s ELSE Settle(msgs, g[i - 1], s.open[i])]
      BY DEF h
    <3> QED
      BY <3>1, <3>2
  <2> HIDE DEF h
  <2>5. Settling(h, msgs, s, k + 1)
    BY <2>4 DEF Settling
  <2> QED
    BY <2>5
<1> HIDE DEF T
<1>3. n \in T
  BY <1>1, <1>2, ByInduction
<1> QED
  BY <1>3 DEF T

\* CloseBatch is the last of its values, with nothing left open.
LEMMA SettlingSteps ==
  ASSUME NEW msgs, NEW s, Len(s.open) \in Nat
  PROVE  \E g : /\ g[0] = s
                /\ \A i \in 1..Len(s.open) : g[i] = Settle(msgs, g[i - 1], s.open[i])
                /\ CloseBatch(msgs, s) = [g[Len(s.open)] EXCEPT !.open = <<>>]
<1> DEFINE g == CHOOSE h : Settling(h, msgs, s, Len(s.open))
<1>1. Settling(g, msgs, s, Len(s.open))
  BY SettlingDefined
<1>2. CloseBatch(msgs, s) = [g[Len(s.open)] EXCEPT !.open = <<>>]
  BY DEF CloseBatch, Settling
<1> HIDE DEF g
<1>3. \A i \in 0..Len(s.open) : g[i] = IF i = 0 THEN s ELSE Settle(msgs, g[i - 1], s.open[i])
  BY <1>1 DEF Settling
<1>4. 0 \in 0..Len(s.open) /\ \A i \in 1..Len(s.open) : i \in 0..Len(s.open) /\ i # 0
  OBVIOUS
<1>5. g[0] = s /\ \A i \in 1..Len(s.open) : g[i] = Settle(msgs, g[i - 1], s.open[i])
  BY <1>3, <1>4
<1> QED
  BY <1>2, <1>5

\* The function by which Walked is defined, and its values step by step.
Walking(g, msgs, n) == g = [i \in 0..n |-> IF i = 0 THEN Start ELSE Pass(msgs, g[i - 1], i)]

\* There is such a function for every history.
LEMMA WalkingDefined ==
  ASSUME NEW msgs, NEW n \in Nat
  PROVE  \E g : Walking(g, msgs, n)
<1> DEFINE T == {k \in Nat : \E g : Walking(g, msgs, k)}
<1>1. 0 \in T
  <2> DEFINE g == [i \in 0..0 |-> Start]
  <2>1. g = [i \in 0..0 |-> IF i = 0 THEN Start ELSE Pass(msgs, g[i - 1], i)]
    OBVIOUS
  <2>2. Walking(g, msgs, 0)
    BY <2>1 DEF Walking
  <2> HIDE DEF g
  <2> QED
    BY <2>2
<1>2. ASSUME NEW k \in Nat, k \in T PROVE k + 1 \in T
  <2>1. PICK g : Walking(g, msgs, k)
    BY <1>2
  <2>2. \A i \in 0..k : g[i] = IF i = 0 THEN Start ELSE Pass(msgs, g[i - 1], i)
    BY <2>1 DEF Walking
  <2> DEFINE h == [i \in 0..(k + 1) |-> IF i = 0 THEN Start ELSE Pass(msgs, g[i - 1], i)]
  <2>3. ASSUME NEW i \in 0..(k + 1), i # 0 PROVE h[i - 1] = g[i - 1]
    <3>1. i - 1 \in 0..k /\ i - 1 \in 0..(k + 1)
      BY <2>3
    <3> QED
      BY <2>2, <3>1
  <2>4. h = [i \in 0..(k + 1) |-> IF i = 0 THEN Start ELSE Pass(msgs, h[i - 1], i)]
    <3>1. \A i \in 0..(k + 1) :
            (IF i = 0 THEN Start ELSE Pass(msgs, g[i - 1], i))
              = (IF i = 0 THEN Start ELSE Pass(msgs, h[i - 1], i))
      <4> HIDE DEF h
      <4> QED
        BY <2>3
    <3> HIDE DEF h
    <3>2. h = [i \in 0..(k + 1) |-> IF i = 0 THEN Start ELSE Pass(msgs, g[i - 1], i)]
      BY DEF h
    <3> QED
      BY <3>1, <3>2
  <2> HIDE DEF h
  <2>5. Walking(h, msgs, k + 1)
    BY <2>4 DEF Walking
  <2> QED
    BY <2>5
<1> HIDE DEF T
<1>3. n \in T
  BY <1>1, <1>2, ByInduction
<1> QED
  BY <1>3 DEF T

\* Walked is the last of its values.
LEMMA WalkingSteps ==
  ASSUME NEW msgs, Len(msgs) \in Nat
  PROVE  \E g : /\ g[0] = Start
                /\ \A i \in 1..Len(msgs) : g[i] = Pass(msgs, g[i - 1], i)
                /\ Walked(msgs) = g[Len(msgs)]
<1> DEFINE g == CHOOSE h : Walking(h, msgs, Len(msgs))
<1>1. Walking(g, msgs, Len(msgs))
  BY WalkingDefined
<1>2. Walked(msgs) = g[Len(msgs)]
  BY DEF Walked, Walking
<1> HIDE DEF g
<1>3. \A i \in 0..Len(msgs) : g[i] = IF i = 0 THEN Start ELSE Pass(msgs, g[i - 1], i)
  BY <1>1 DEF Walking
<1>4. 0 \in 0..Len(msgs) /\ \A i \in 1..Len(msgs) : i \in 0..Len(msgs) /\ i # 0
  OBVIOUS
<1>5. g[0] = Start /\ \A i \in 1..Len(msgs) : g[i] = Pass(msgs, g[i - 1], i)
  BY <1>3, <1>4
<1> QED
  BY <1>2, <1>5

-----------------------------------------------------------------------------
(***************************************************************************)
(* What At takes from a sequence.                                          *)
(***************************************************************************)

\* The positions f from which the elements of t were taken, all in I, in their order.
Chosen(f, t, s, I, k) ==
  /\ f \in Seq(Nat) /\ Len(f) = Len(t)
  /\ \A a \in 1..Len(f) : f[a] \in I /\ f[a] \in 1..k /\ t[a] = s[f[a]]
  /\ \A a, b \in 1..Len(f) : a < b => f[a] < f[b]
  /\ \A i \in I : i \in 1..k => \E a \in 1..Len(f) : f[a] = i

\* One position more is taken, or left.
LEMMA ChosenMore ==
  ASSUME NEW S, NEW s \in Seq(S), NEW I, NEW k \in Nat, k + 1 <= Len(s),
         NEW t \in Seq(S), NEW f, Chosen(f, t, s, I, k)
  PROVE  /\ k + 1 \in I => Chosen(Append(f, k + 1), Append(t, s[k + 1]), s, I, k + 1)
         /\ k + 1 \notin I => Chosen(f, t, s, I, k + 1)
<1>1. f \in Seq(Nat) /\ Len(f) = Len(t) /\ Len(f) \in Nat /\ Len(t) \in Nat
  BY DEF Chosen
<1>2. \A a \in 1..Len(f) : f[a] \in I /\ f[a] \in 1..k /\ t[a] = s[f[a]]
  BY DEF Chosen
<1>3. \A a, b \in 1..Len(f) : a < b => f[a] < f[b]
  BY DEF Chosen
<1>4. \A i \in I : i \in 1..k => \E a \in 1..Len(f) : f[a] = i
  BY DEF Chosen
<1>5. \A i \in 1..(k + 1) : i \in 1..k \/ i = k + 1
  OBVIOUS
<1>6. \A i \in 1..k : i \in 1..(k + 1)
  OBVIOUS
<1>7. ASSUME k + 1 \in I PROVE Chosen(Append(f, k + 1), Append(t, s[k + 1]), s, I, k + 1)
  <2> DEFINE e == Append(f, k + 1)
             u == Append(t, s[k + 1])
  <2>1. /\ e \in Seq(Nat) /\ Len(e) = Len(f) + 1
        /\ \A a \in 1..Len(f) : e[a] = f[a]
        /\ e[Len(f) + 1] = k + 1
    BY <1>1
  <2>2. /\ Len(u) = Len(f) + 1
        /\ \A a \in 1..Len(f) : u[a] = t[a]
        /\ u[Len(f) + 1] = s[k + 1]
    <3>1. s[k + 1] \in S
      OBVIOUS
    <3> QED
      BY <1>1, <3>1
  <2> HIDE DEF e, u
  <2>3. \A a \in 1..Len(e) : a \in 1..Len(f) \/ a = Len(f) + 1
    BY <1>1, <2>1
  <2>4. ASSUME NEW a \in 1..Len(e) PROVE e[a] \in I /\ e[a] \in 1..(k + 1) /\ u[a] = s[e[a]]
    <3>1. CASE a \in 1..Len(f)
      <4>1. e[a] = f[a] /\ u[a] = t[a]
        BY <2>1, <2>2, <3>1
      <4>2. f[a] \in I /\ f[a] \in 1..k /\ t[a] = s[f[a]]
        BY <1>2, <3>1
      <4> QED
        BY <1>6, <4>1, <4>2
    <3>2. CASE a = Len(f) + 1
      BY <1>7, <2>1, <2>2, <3>2
    <3> QED
      BY <2>3, <3>1, <3>2
  <2>5. ASSUME NEW a \in 1..Len(e), NEW b \in 1..Len(e), a < b PROVE e[a] < e[b]
    <3>1. a \in 1..Len(f) /\ f[a] \in 1..k /\ e[a] = f[a]
      <4>1. a \in 1..Len(f)
        BY <1>1, <2>1, <2>5
      <4> QED
        BY <1>2, <2>1, <4>1
    <3>2. CASE b \in 1..Len(f)
      BY <1>3, <2>1, <2>5, <3>1, <3>2
    <3>3. CASE b = Len(f) + 1
      BY <2>1, <3>1, <3>3
    <3> QED
      BY <2>3, <3>2, <3>3
  <2>6. ASSUME NEW i \in I, i \in 1..(k + 1) PROVE \E a \in 1..Len(e) : e[a] = i
    <3>1. CASE i \in 1..k
      <4>1. PICK a \in 1..Len(f) : f[a] = i
        BY <1>4, <3>1
      <4>2. a \in 1..Len(e)
        BY <1>1, <2>1
      <4> QED
        BY <2>1, <4>1, <4>2
    <3>2. CASE i = k + 1
      <4>1. Len(f) + 1 \in 1..Len(e)
        BY <1>1, <2>1
      <4> QED
        BY <2>1, <3>2, <4>1
    <3> QED
      BY <1>5, <2>6, <3>1, <3>2
  <2>7. Chosen(e, u, s, I, k + 1)
    BY <2>1, <2>2, <2>4, <2>5, <2>6 DEF Chosen
  <2> QED
    BY <2>7 DEF e, u
<1>8. ASSUME k + 1 \notin I PROVE Chosen(f, t, s, I, k + 1)
  <2>1. \A i \in I : i \in 1..(k + 1) => \E a \in 1..Len(f) : f[a] = i
    BY <1>4, <1>5, <1>8
  <2> QED
    BY <1>1, <1>2, <1>3, <1>6, <2>1 DEF Chosen
<1> QED
  BY <1>7, <1>8

\* What At takes, and from where.
LEMMA AtChosen ==
  ASSUME NEW S, NEW s \in Seq(S), NEW I
  PROVE  At(s, I) \in Seq(S) /\ \E f : Chosen(f, At(s, I), s, I, Len(s))
<1>0. Len(s) \in Nat
  OBVIOUS
<1>1. PICK g : /\ g[0] = <<>>
               /\ \A i \in 1..Len(s) : g[i] = IF i \in I THEN Append(g[i - 1], s[i]) ELSE g[i - 1]
               /\ At(s, I) = g[Len(s)]
  BY <1>0, PickingSteps
<1> DEFINE Good(k) == g[k] \in Seq(S) /\ \E f : Chosen(f, g[k], s, I, k)
           T == {k \in Nat : k <= Len(s) => Good(k)}
<1>2. 0 \in T
  <2>1. <<>> \in Seq(S) /\ <<>> \in Seq(Nat) /\ Len(<<>>) = 0 /\ 1..0 = {}
    OBVIOUS
  <2>2. Chosen(<<>>, <<>>, s, I, 0)
    BY <2>1 DEF Chosen
  <2>3. Good(0)
    BY <1>1, <2>1, <2>2
  <2> QED
    BY <2>3
<1>3. ASSUME NEW k \in Nat, k \in T PROVE k + 1 \in T
  <2> SUFFICES ASSUME k + 1 <= Len(s) PROVE Good(k + 1)
    OBVIOUS
  <2>1. k <= Len(s) /\ k + 1 \in 1..Len(s) /\ (k + 1) - 1 = k /\ s[k + 1] \in S
    BY <1>0
  <2>2. Good(k)
    BY <1>3, <2>1
  <2>3. g[k + 1] = IF k + 1 \in I THEN Append(g[k], s[k + 1]) ELSE g[k]
    BY <1>1, <2>1
  <2>4. PICK f : Chosen(f, g[k], s, I, k)
    BY <2>2
  <2>5. g[k] \in Seq(S)
    BY <2>2
  <2> HIDE DEF T
  <2>6. /\ k + 1 \in I => Chosen(Append(f, k + 1), Append(g[k], s[k + 1]), s, I, k + 1)
        /\ k + 1 \notin I => Chosen(f, g[k], s, I, k + 1)
    BY <2>4, <2>5, ChosenMore
  <2>7. g[k + 1] \in Seq(S)
    BY <2>1, <2>3, <2>5
  <2>8. \E e : Chosen(e, g[k + 1], s, I, k + 1)
    BY <2>3, <2>6
  <2> QED
    BY <2>7, <2>8
<1> HIDE DEF T
<1>4. Nat \subseteq T
  BY <1>2, <1>3, ByInduction
<1>5. Good(Len(s))
  BY <1>0, <1>4 DEF T
<1> QED
  BY <1>1, <1>5

\* Only the positions of the sequence count, and a last element is taken last.
LEMMA AtAppend ==
  ASSUME NEW S, NEW s \in Seq(S), NEW x \in S, NEW I, NEW J,
         \A i \in 1..Len(s) : i \in I <=> i \in J
  PROVE  /\ Len(s) + 1 \in J => At(Append(s, x), J) = Append(At(s, I), x)
         /\ Len(s) + 1 \notin J => At(Append(s, x), J) = At(s, I)
<1> DEFINE t == Append(s, x)
<1>0. /\ Len(s) \in Nat /\ t \in Seq(S) /\ Len(t) = Len(s) + 1 /\ Len(t) \in Nat
      /\ \A i \in 1..Len(s) : t[i] = s[i]
      /\ t[Len(s) + 1] = x
  OBVIOUS
<1> HIDE DEF t
<1>1. PICK g : /\ g[0] = <<>>
               /\ \A i \in 1..Len(s) : g[i] = IF i \in I THEN Append(g[i - 1], s[i]) ELSE g[i - 1]
               /\ At(s, I) = g[Len(s)]
  BY <1>0, PickingSteps
<1>2. PICK h : /\ h[0] = <<>>
               /\ \A i \in 1..Len(t) : h[i] = IF i \in J THEN Append(h[i - 1], t[i]) ELSE h[i - 1]
               /\ At(t, J) = h[Len(t)]
  BY <1>0, PickingSteps
<1> DEFINE T == {k \in Nat : k <= Len(s) => g[k] = h[k]}
<1>3. 0 \in T
  BY <1>1, <1>2
<1>4. ASSUME NEW k \in Nat, k \in T PROVE k + 1 \in T
  <2> SUFFICES ASSUME k + 1 <= Len(s) PROVE g[k + 1] = h[k + 1]
    OBVIOUS
  <2>1. k <= Len(s) /\ k + 1 \in 1..Len(s) /\ k + 1 \in 1..Len(t) /\ (k + 1) - 1 = k
    BY <1>0
  <2>2. g[k] = h[k]
    BY <1>4, <2>1
  <2>3. g[k + 1] = IF k + 1 \in I THEN Append(g[k], s[k + 1]) ELSE g[k]
    BY <1>1, <2>1
  <2>4. h[k + 1] = IF k + 1 \in J THEN Append(h[k], t[k + 1]) ELSE h[k]
    BY <1>2, <2>1
  <2>5. t[k + 1] = s[k + 1] /\ (k + 1 \in I <=> k + 1 \in J)
    BY <1>0, <2>1
  <2> QED
    BY <2>2, <2>3, <2>4, <2>5
<1> HIDE DEF T
<1>5. Nat \subseteq T
  BY <1>3, <1>4, ByInduction
<1>6. g[Len(s)] = h[Len(s)]
  BY <1>0, <1>5 DEF T
<1>7. Len(t) \in 1..Len(t) /\ Len(t) - 1 = Len(s)
  BY <1>0
<1>8. h[Len(t)] = IF Len(t) \in J THEN Append(h[Len(s)], t[Len(t)]) ELSE h[Len(s)]
  BY <1>2, <1>7
<1> QED
  BY <1>0, <1>1, <1>2, <1>6, <1>8 DEF t

\* Without one element the rest is shorter by one.
LEMMA AtOthers ==
  ASSUME NEW S, NEW s \in Seq(S), NEW I, NEW p \in 1..Len(s),
         \A i \in 1..Len(s) : i \in I <=> i # p
  PROVE  Len(At(s, I)) = Len(s) - 1
<1>0. Len(s) \in Nat /\ p \in Nat /\ p >= 1 /\ p <= Len(s)
  OBVIOUS
<1>1. PICK g : /\ g[0] = <<>>
               /\ \A i \in 1..Len(s) : g[i] = IF i \in I THEN Append(g[i - 1], s[i]) ELSE g[i - 1]
               /\ At(s, I) = g[Len(s)]
  BY <1>0, PickingSteps
<1> DEFINE Good(k) == g[k] \in Seq(S) /\ Len(g[k]) = IF k < p THEN k ELSE k - 1
           T == {k \in Nat : k <= Len(s) => Good(k)}
<1>2. 0 \in T
  <2>1. <<>> \in Seq(S) /\ Len(<<>>) = 0
    OBVIOUS
  <2>2. Good(0)
    BY <1>0, <1>1, <2>1
  <2> QED
    BY <2>2
<1>3. ASSUME NEW k \in Nat, k \in T PROVE k + 1 \in T
  <2> SUFFICES ASSUME k + 1 <= Len(s) PROVE Good(k + 1)
    OBVIOUS
  <2>1. k <= Len(s) /\ k + 1 \in 1..Len(s) /\ (k + 1) - 1 = k /\ s[k + 1] \in S
    BY <1>0
  <2>2. Good(k)
    BY <1>3, <2>1
  <2>3. g[k + 1] = IF k + 1 \in I THEN Append(g[k], s[k + 1]) ELSE g[k]
    BY <1>1, <2>1
  <2>4. k + 1 \in I <=> k + 1 # p
    BY <2>1
  <2>5. CASE k + 1 = p
    BY <1>0, <2>2, <2>3, <2>4, <2>5
  <2>6. CASE k + 1 # p
    <3>1. g[k + 1] = Append(g[k], s[k + 1])
      BY <2>3, <2>4, <2>6
    <3>2. g[k + 1] \in Seq(S) /\ Len(g[k + 1]) = Len(g[k]) + 1
      BY <2>1, <2>2, <3>1
    <3>3. (k < p <=> k + 1 < p)
      BY <1>0, <2>6
    <3> QED
      BY <1>0, <2>2, <3>2, <3>3
  <2> QED
    BY <2>5, <2>6
<1> HIDE DEF T
<1>4. Nat \subseteq T
  BY <1>2, <1>3, ByInduction
<1>5. Good(Len(s))
  BY <1>0, <1>4 DEF T
<1>6. ~(Len(s) < p)
  BY <1>0
<1> QED
  BY <1>1, <1>5, <1>6

-----------------------------------------------------------------------------
(***************************************************************************)
(* Messages, and what one step of closing a history does.                  *)
(***************************************************************************)

CallLists == {<<>>} \cup {Batches[b] : b \in DOMAIN Batches}
Message ==
  [role : {"user"}, id : Nat]
    \cup [role : {"assistant"}, calls : CallLists]
    \cup [role : {"tool"}, call : AllCalls, made : BOOLEAN]
    \cup [role : {"internal"}, call : AllCalls]
WalkState == [out : Seq(Message), made : Seq(AllCalls), consumed : SUBSET Nat, open : Seq(AllCalls)]

\* No call occurs twice.
Distinct(calls) == \A i, j \in DOMAIN calls : calls[i] = calls[j] => i = j

\* A list of calls asked for has each call once.
LEMMA CallListFacts ==
  /\ \A b \in DOMAIN Batches : Batches[b] \in CallLists
  /\ <<>> \in CallLists
  /\ \A l \in CallLists : l \in Seq(AllCalls) /\ Distinct(l)
<1>1. \A b \in DOMAIN Batches : Batches[b] \in Seq(AllCalls) /\ Distinct(Batches[b])
  <2> TAKE b \in DOMAIN Batches
  <2>1. Batches[b] \in Seq(AllCalls)
    BY HistoryAssumption
  <2>2. \A i, j \in DOMAIN Batches[b] : Batches[b][i] = Batches[b][j] => i = j
    BY HistoryAssumption
  <2> QED
    BY <2>1, <2>2 DEF Distinct
<1>2. <<>> \in Seq(AllCalls) /\ Distinct(<<>>)
  BY DEF Distinct
<1> QED
  BY <1>1, <1>2 DEF CallLists

\* What the fields of a message hold.
LEMMA MessageFacts ==
  ASSUME NEW m \in Message
  PROVE  /\ m.role \in {"user", "assistant", "tool", "internal"}
         /\ m.role = "tool" => m.call \in AllCalls
         /\ m.role = "assistant" => m.calls \in Seq(AllCalls) /\ Distinct(m.calls)
<1>1. CASE m \in [role : {"user"}, id : Nat]
  BY <1>1
<1>2. CASE m \in [role : {"assistant"}, calls : CallLists]
  BY <1>2, CallListFacts
<1>3. CASE m \in [role : {"tool"}, call : AllCalls, made : BOOLEAN]
  BY <1>3
<1>4. CASE m \in [role : {"internal"}, call : AllCalls]
  BY <1>4
<1> QED
  BY <1>1, <1>2, <1>3, <1>4 DEF Message

\* The messages the model makes are messages of their kind.
LEMMA Kinds ==
  /\ \A n \in Nat : User(n) \in Message /\ User(n).role = "user"
  /\ \A l \in CallLists : Assistant(l) \in Message /\ Assistant(l).role = "assistant"
         /\ Assistant(l).calls = l
  /\ \A c \in AllCalls, made \in BOOLEAN :
       Result(c, made) \in Message /\ Result(c, made).role = "tool" /\ Result(c, made).call = c
  /\ \A c \in AllCalls : Metadata(c) \in Message /\ Metadata(c).role = "internal"
  BY DEF User, Assistant, Result, Metadata, Message

\* So is the marker of an interruption.
LEMMA MarkerKind == Marker \in Message /\ Marker.role = "user"
  BY Kinds DEF Marker

\* The first of the results.
LEMMA FirstResult ==
  ASSUME NEW msgs \in Seq(Message), NEW c, ResultsOf(msgs, c) # {}
  PROVE  /\ Min(ResultsOf(msgs, c)) \in ResultsOf(msgs, c)
         /\ \A i \in ResultsOf(msgs, c) : Min(ResultsOf(msgs, c)) <= i
<1>1. ResultsOf(msgs, c) \subseteq Nat
  BY DEF ResultsOf
<1>2. \E t \in ResultsOf(msgs, c) : \A u \in ResultsOf(msgs, c) : t <= u
  BY <1>1, LeastElement
<1> QED
  BY <1>2 DEF Min

\* One call of an open batch is answered.
LEMMA SettleStep ==
  ASSUME NEW msgs \in Seq(Message), NEW t \in WalkState, NEW c \in AllCalls
  PROVE  /\ Settle(msgs, t, c) \in WalkState
         /\ Settle(msgs, t, c).open = t.open
         /\ \E m \in Message :
              /\ m.role = "tool" /\ m.call = c
              /\ Settle(msgs, t, c).out = Append(t.out, m)
         /\ \/ /\ \E at \in ResultsOf(msgs, c) :
                    at \notin t.consumed /\ Settle(msgs, t, c).consumed = t.consumed \cup {at}
               /\ Settle(msgs, t, c).made = t.made
            \/ /\ ResultsOf(msgs, c) # {} => \E at \in ResultsOf(msgs, c) : at \in t.consumed
               /\ Settle(msgs, t, c).consumed = t.consumed
               /\ Settle(msgs, t, c).made = Append(t.made, c)
<1> DEFINE at == Min(ResultsOf(msgs, c))
           u == Settle(msgs, t, c)
<1>0. /\ t.out \in Seq(Message) /\ t.made \in Seq(AllCalls)
      /\ t.consumed \in SUBSET Nat /\ t.open \in Seq(AllCalls)
  BY DEF WalkState
<1>1. CASE Found(msgs, t, c)
  <2>1. at \in ResultsOf(msgs, c) /\ at \notin t.consumed
    BY <1>1, FirstResult DEF Found
  <2>2. at \in Nat /\ msgs[at] \in Message /\ msgs[at].role = "tool" /\ msgs[at].call = c
    BY <2>1 DEF ResultsOf
  <2> HIDE DEF at
  <2>3. u = [t EXCEPT !.out = Append(t.out, msgs[at]), !.consumed = t.consumed \cup {at}]
    BY <1>1 DEF Settle, at
  <2>4. Append(t.out, msgs[at]) \in Seq(Message) /\ t.consumed \cup {at} \in SUBSET Nat
    BY <1>0, <2>2
  <2> HIDE DEF u
  <2>5. /\ u \in WalkState /\ u.open = t.open /\ u.made = t.made
        /\ u.out = Append(t.out, msgs[at]) /\ u.consumed = t.consumed \cup {at}
    BY <1>0, <2>3, <2>4 DEF WalkState
  <2> QED
    BY <2>1, <2>2, <2>5 DEF u
<1>2. CASE ~Found(msgs, t, c)
  <2>1. ResultsOf(msgs, c) # {} => \E i \in ResultsOf(msgs, c) : i \in t.consumed
    BY <1>2, FirstResult DEF Found
  <2>2. PICK m \in Message : m.role = "tool" /\ m.call = c /\ m = Result(c, TRUE)
    BY Kinds, Zenon
  <2>3. u = [t EXCEPT !.out = Append(t.out, m), !.made = Append(t.made, c)]
    BY <1>2, <2>2, Zenon DEF Settle
  <2>4. Append(t.out, m) \in Seq(Message) /\ Append(t.made, c) \in Seq(AllCalls)
    BY <1>0
  <2> HIDE DEF u
  <2>5. /\ u \in WalkState /\ u.open = t.open /\ u.made = Append(t.made, c)
        /\ u.out = Append(t.out, m) /\ u.consumed = t.consumed
    BY <1>0, <2>3, <2>4 DEF WalkState
  <2> QED
    BY <2>1, <2>2, <2>5 DEF u
<1> QED
  BY <1>1, <1>2

\* The calls of the open batch are answered one by one.
Settles(g, msgs, s) ==
  /\ g[0] = s
  /\ \A i \in 1..Len(s.open) : g[i] = Settle(msgs, g[i - 1], s.open[i])

\* Closing a batch goes through its calls and ends with none open.
LEMMA CloseSteps ==
  ASSUME NEW msgs \in Seq(Message), NEW s \in WalkState
  PROVE  \E g : /\ Settles(g, msgs, s)
                /\ \A i \in 0..Len(s.open) : g[i] \in WalkState
                /\ CloseBatch(msgs, s) \in WalkState
                /\ CloseBatch(msgs, s).out = g[Len(s.open)].out
                /\ CloseBatch(msgs, s).made = g[Len(s.open)].made
                /\ CloseBatch(msgs, s).consumed = g[Len(s.open)].consumed
                /\ CloseBatch(msgs, s).open = <<>>
<1> DEFINE n == Len(s.open)
<1>0. s.open \in Seq(AllCalls) /\ n \in Nat
  BY DEF WalkState
<1>1. PICK g : /\ g[0] = s
               /\ \A i \in 1..n : g[i] = Settle(msgs, g[i - 1], s.open[i])
               /\ CloseBatch(msgs, s) = [g[n] EXCEPT !.open = <<>>]
  BY <1>0, SettlingSteps
<1> DEFINE T == {k \in Nat : k <= n => g[k] \in WalkState}
<1>2. 0 \in T
  BY <1>1
<1>3. ASSUME NEW k \in Nat, k \in T PROVE k + 1 \in T
  <2> SUFFICES ASSUME k + 1 <= n PROVE g[k + 1] \in WalkState
    OBVIOUS
  <2>1. k <= n /\ k + 1 \in 1..n /\ (k + 1) - 1 = k /\ s.open[k + 1] \in AllCalls
    BY <1>0
  <2>2. g[k] \in WalkState
    BY <1>3, <2>1
  <2>3. g[k + 1] = Settle(msgs, g[k], s.open[k + 1])
    BY <1>1, <2>1
  <2> HIDE DEF T, n
  <2> QED
    BY <2>1, <2>2, <2>3, SettleStep
<1> HIDE DEF T
<1>4. Nat \subseteq T
  BY <1>2, <1>3, ByInduction
<1>5. \A i \in 0..n : g[i] \in WalkState
  BY <1>0, <1>4 DEF T
<1>6. g[n] \in WalkState /\ <<>> \in Seq(AllCalls)
  BY <1>0, <1>5
<1> DEFINE u == CloseBatch(msgs, s)
<1>7. u = [g[n] EXCEPT !.open = <<>>]
  BY <1>1
<1> HIDE DEF u, n
<1>8. u \in WalkState /\ u.out = g[n].out /\ u.made = g[n].made /\ u.consumed = g[n].consumed
          /\ u.open = <<>>
  BY <1>6, <1>7 DEF WalkState
<1>9. Settles(g, msgs, s)
  BY <1>1 DEF Settles, n
<1> QED
  BY <1>5, <1>8, <1>9 DEF u, n

\* What Pass does with a message of each kind.
Passes(msgs, s, i, m, u) ==
  /\ u \in WalkState
  /\ m.role = "internal" =>
       u.out = Append(s.out, m) /\ u.made = s.made /\ u.consumed = s.consumed /\ u.open = s.open
  /\ m.role = "tool" /\ i \in s.consumed => u = s
  /\ m.role = "tool" /\ i \notin s.consumed /\ m.call \in ToSet(s.open) =>
       /\ u.out = Append(s.out, m) /\ u.made = s.made /\ u.consumed = s.consumed \cup {i}
       /\ u.open = At(s.open, {j \in DOMAIN s.open : s.open[j] # m.call})
  /\ m.role = "tool" /\ i \notin s.consumed /\ m.call \notin ToSet(s.open) =>
       IF m.call \in CallsIn(msgs) /\ i = Min(ResultsOf(msgs, m.call))
         THEN u = s
         ELSE u.out = Append(s.out, m) /\ u.made = s.made /\ u.consumed = s.consumed
             /\ u.open = s.open
  /\ m.role \in {"user", "assistant"} =>
       /\ u.out = Append(CloseBatch(msgs, s).out, m)
       /\ u.made = CloseBatch(msgs, s).made /\ u.consumed = CloseBatch(msgs, s).consumed
       /\ u.open = IF m.role = "assistant" THEN m.calls ELSE <<>>

\* One message of the walk, by its kind.
LEMMA PassStep ==
  ASSUME NEW msgs \in Seq(Message), NEW s \in WalkState, NEW i \in 1..Len(msgs),
         NEW m, m = msgs[i], NEW u, u = Pass(msgs, s, i)
  PROVE  Passes(msgs, s, i, m, u)
<1>0. /\ s.out \in Seq(Message) /\ s.made \in Seq(AllCalls)
      /\ s.consumed \in SUBSET Nat /\ s.open \in Seq(AllCalls)
      /\ m \in Message /\ i \in Nat
  BY DEF WalkState
<1>1. m.role \in {"user", "assistant", "tool", "internal"}
  BY <1>0, MessageFacts
<1> DEFINE kept == [s EXCEPT !.out = Append(s.out, m)]
           others == {j \in DOMAIN s.open : s.open[j] # m.call}
           w == CloseBatch(msgs, s)
<1>2. /\ kept \in WalkState /\ kept.out = Append(s.out, m)
      /\ kept.made = s.made /\ kept.consumed = s.consumed /\ kept.open = s.open
  <2>1. Append(s.out, m) \in Seq(Message)
    BY <1>0
  <2> QED
    BY <1>0, <2>1 DEF WalkState
<1>3. CASE m.role = "internal"
  <2>1. u = kept
    BY <1>3 DEF Pass
  <2> HIDE DEF kept, others, w
  <2> QED
    BY <1>2, <1>3, <2>1 DEF Passes
<1>4. CASE m.role = "tool" /\ i \in s.consumed
  <2>1. u = s
    BY <1>4 DEF Pass
  <2> HIDE DEF kept, others, w
  <2> QED
    BY <1>4, <2>1 DEF Passes
<1>5. CASE m.role = "tool" /\ i \notin s.consumed /\ m.call \in ToSet(s.open)
  <2>1. u = [kept EXCEPT !.open = At(kept.open, others), !.consumed = kept.consumed \cup {i}]
    BY <1>5 DEF Pass
  <2>2. At(s.open, others) \in Seq(AllCalls) /\ s.consumed \cup {i} \in SUBSET Nat
    BY <1>0, AtChosen
  <2> HIDE DEF kept, others, w
  <2>3. u \in WalkState /\ u.out = kept.out /\ u.made = kept.made
        /\ u.consumed = s.consumed \cup {i} /\ u.open = At(s.open, others)
    BY <1>2, <2>1, <2>2 DEF WalkState
  <2> QED
    BY <1>2, <1>5, <2>3 DEF others, Passes
<1>6. CASE m.role = "tool" /\ i \notin s.consumed /\ m.call \notin ToSet(s.open)
  <2>1. u = IF m.call \in CallsIn(msgs) /\ i = Min(ResultsOf(msgs, m.call)) THEN s ELSE kept
    BY <1>6 DEF Pass
  <2> HIDE DEF kept, others, w
  <2> QED
    BY <1>2, <1>6, <2>1 DEF Passes
<1>7. CASE m.role \in {"user", "assistant"}
  <2>0. m.role # "internal" /\ m.role # "tool"
    BY <1>7
  <2>1. u = [w EXCEPT !.open = IF m.role = "assistant" THEN m.calls
            ELSE <<>>, !.out = Append(w.out, m)]
    BY <2>0 DEF Pass
  <2>2. w \in WalkState
    BY CloseSteps
  <2>3. (IF m.role = "assistant" THEN m.calls ELSE <<>>) \in Seq(AllCalls)
    BY <1>0, MessageFacts
  <2> HIDE DEF kept, others, w
  <2>4. w.out \in Seq(Message) /\ Append(w.out, m) \in Seq(Message)
    BY <1>0, <2>2 DEF WalkState
  <2>5. u \in WalkState /\ u.out = Append(w.out, m) /\ u.made = w.made
        /\ u.consumed = w.consumed /\ u.open = IF m.role = "assistant" THEN m.calls ELSE <<>>
    BY <2>1, <2>2, <2>3, <2>4 DEF WalkState
  <2> QED
    BY <1>7, <2>5 DEF w, Passes
<1> QED
  BY <1>1, <1>3, <1>4, <1>5, <1>6, <1>7

-----------------------------------------------------------------------------
(***************************************************************************)
(* The walk over a history: types, and how a batch gets answered.          *)
(***************************************************************************)

\* The walk over a history, message by message.
Walks(h, msgs) ==
  /\ h[0] = Start
  /\ \A i \in 1..Len(msgs) : h[i] = Pass(msgs, h[i - 1], i)
  /\ \A i \in 0..Len(msgs) : h[i] \in WalkState

\* The walk goes from state to state.
LEMMA WalkSteps ==
  ASSUME NEW msgs \in Seq(Message)
  PROVE  \E h : /\ Walks(h, msgs)
                /\ Walked(msgs) = h[Len(msgs)]
                /\ Walked(msgs) \in WalkState
<1> DEFINE n == Len(msgs)
<1>0. n \in Nat
  OBVIOUS
<1>1. PICK h : /\ h[0] = Start
               /\ \A i \in 1..n : h[i] = Pass(msgs, h[i - 1], i)
               /\ Walked(msgs) = h[n]
  BY <1>0, WalkingSteps
<1> DEFINE T == {k \in Nat : k <= n => h[k] \in WalkState}
<1>2. 0 \in T
  <2>1. Start \in WalkState
    BY DEF Start, WalkState
  <2> QED
    BY <1>1, <2>1
<1>3. ASSUME NEW k \in Nat, k \in T PROVE k + 1 \in T
  <2> SUFFICES ASSUME k + 1 <= n PROVE h[k + 1] \in WalkState
    OBVIOUS
  <2>1. k <= n /\ k + 1 \in 1..n /\ (k + 1) - 1 = k
    BY <1>0
  <2>2. h[k] \in WalkState
    BY <1>3, <2>1
  <2>3. h[k + 1] = Pass(msgs, h[k], k + 1)
    BY <1>1, <2>1
  <2>4. k + 1 \in 1..Len(msgs)
    BY <2>1
  <2> HIDE DEF T, n
  <2>5. Pass(msgs, h[k], k + 1) \in WalkState
    BY <2>2, <2>4, PassStep DEF Passes
  <2> QED
    BY <2>3, <2>5
<1> HIDE DEF T
<1>4. Nat \subseteq T
  BY <1>2, <1>3, ByInduction
<1>5. \A i \in 0..n : h[i] \in WalkState
  BY <1>0, <1>4 DEF T
<1>6. Walks(h, msgs)
  BY <1>1, <1>5 DEF Walks
<1>7. h[n] \in WalkState
  BY <1>0, <1>5
<1> QED
  BY <1>1, <1>6, <1>7

\* A closed history is a history.
LEMMA CloseTypes ==
  ASSUME NEW msgs \in Seq(Message)
  PROVE  /\ Closed(msgs) \in Seq(Message) /\ Close(msgs).made \in Seq(AllCalls)
         /\ Close(msgs) \in WalkState
<1>1. Walked(msgs) \in WalkState
  BY WalkSteps
<1>2. CloseBatch(msgs, Walked(msgs)) \in WalkState
  BY <1>1, CloseSteps
<1>3. Close(msgs) \in WalkState
  BY <1>2 DEF Close
<1> QED
  BY <1>3 DEF Closed, WalkState

\* Nothing is taken where no position counts.
LEMMA AtNone ==
  ASSUME NEW S, NEW s \in Seq(S), NEW I, \A i \in 1..Len(s) : i \notin I
  PROVE  At(s, I) = <<>>
<1>1. At(s, I) \in Seq(S) /\ \E f : Chosen(f, At(s, I), s, I, Len(s))
  BY AtChosen
<1>2. PICK f : Chosen(f, At(s, I), s, I, Len(s))
  BY <1>1
<1>3. Len(f) = Len(At(s, I)) /\ Len(f) \in Nat /\ \A a \in 1..Len(f) : f[a] \in I
          /\ f[a] \in 1..Len(s)
  BY <1>2 DEF Chosen
<1>4. ~(1 \in 1..Len(f))
  BY <1>3
<1>5. Len(At(s, I)) = 0
  BY <1>3, <1>4
<1> QED
  BY <1>1, <1>5

\* What is behind a position are messages.
LEMMA BehindTypes ==
  ASSUME NEW out \in Seq(Message), NEW k
  PROVE  Behind(out, k) \in Seq(Message)
  BY AtChosen DEF Behind

\* A message that is no metadata comes behind every earlier one.
LEMMA BehindAppend ==
  ASSUME NEW out \in Seq(Message), NEW m \in Message, NEW k \in 1..Len(out)
  PROVE  /\ m.role = "internal" => Behind(Append(out, m), k) = Behind(out, k)
         /\ m.role # "internal" => Behind(Append(out, m), k) = Append(Behind(out, k), m)
<1> DEFINE e == Append(out, m)
           I == {j \in DOMAIN out : j > k /\ out[j].role # "internal"}
           J == {j \in DOMAIN e : j > k /\ e[j].role # "internal"}
<1>1. /\ Len(out) \in Nat /\ DOMAIN out = 1..Len(out) /\ DOMAIN e = 1..(Len(out) + 1)
      /\ \A i \in 1..Len(out) : e[i] = out[i]
      /\ e[Len(out) + 1] = m
  OBVIOUS
<1>2. Behind(out, k) = At(out, I) /\ Behind(e, k) = At(e, J)
  BY DEF Behind
<1>3. ASSUME NEW i \in 1..Len(out) PROVE i \in I <=> i \in J
  <2> HIDE DEF e
  <2>1. i \in DOMAIN out /\ i \in DOMAIN e /\ e[i] = out[i]
    BY <1>1
  <2> QED
    BY <2>1
<1>4. Len(out) + 1 \in J <=> m.role # "internal"
  <2> HIDE DEF e
  <2>1. Len(out) + 1 \in DOMAIN e /\ Len(out) + 1 > k
    BY <1>1
  <2> QED
    BY <1>1, <2>1
<1>5. \A i \in 1..Len(out) : i \in I <=> i \in J
  BY <1>3
<1> HIDE DEF I, J
<1>6. /\ Len(out) + 1 \in J => At(Append(out, m), J) = Append(At(out, I), m)
      /\ Len(out) + 1 \notin J => At(Append(out, m), J) = At(out, I)
  BY <1>5, AtAppend
<1> QED
  BY <1>2, <1>4, <1>6

\* Nothing is behind the last message.
LEMMA BehindLast ==
  ASSUME NEW out \in Seq(Message), NEW k, k = Len(out)
  PROVE  Behind(out, k) = <<>>
<1> DEFINE I == {j \in DOMAIN out : j > k /\ out[j].role # "internal"}
<1>1. \A i \in 1..Len(out) : i \notin I
  OBVIOUS
<1>2. At(out, I) = <<>>
  <2> HIDE DEF I
  <2> QED
    BY <1>1, AtNone
<1> QED
  BY <1>2 DEF Behind

\* The calls of the message at k are answered behind it but for those in open.
Partly(out, k, open) ==
  /\ \A j \in DOMAIN Behind(out, k) : Behind(out, k)[j].role = "tool"
  /\ Len(Behind(out, k)) + Len(open) = Len(out[k].calls)
  /\ {Behind(out, k)[j].call : j \in DOMAIN Behind(out, k)} \cup ToSet(open) = ToSet(out[k].calls)

Traced(out, open) ==
  \A k \in DOMAIN out : out[k].role = "assistant" => Whole(out, k) \/ Partly(out, k, open)
AllWhole(out) == \A k \in DOMAIN out : out[k].role = "assistant" => Whole(out, k)

\* The positions of a history with one message more.
LEMMA AppendMessage ==
  ASSUME NEW out \in Seq(Message), NEW m \in Message
  PROVE  /\ Append(out, m) \in Seq(Message)
         /\ DOMAIN Append(out, m) = 1..(Len(out) + 1) /\ Len(Append(out, m)) = Len(out) + 1
         /\ DOMAIN out = 1..Len(out) /\ Len(out) \in Nat
         /\ \A i \in 1..Len(out) : Append(out, m)[i] = out[i]
         /\ Append(out, m)[Len(out) + 1] = m
         /\ \A i \in DOMAIN Append(out, m) : i \in 1..Len(out) \/ i = Len(out) + 1
  OBVIOUS

\* An answered batch stays answered.
LEMMA WholeAppend ==
  ASSUME NEW out \in Seq(Message), NEW m \in Message, NEW k \in 1..Len(out),
         out[k].role = "assistant", Whole(out, k)
  PROVE  Whole(Append(out, m), k)
<1> DEFINE e == Append(out, m)
           calls == out[k].calls
           next == Behind(out, k)
           after == Behind(e, k)
<1>1. e[k] = out[k]
  BY AppendMessage
<1>2. calls \in Seq(AllCalls)
  <2>1. out[k] \in Message
    OBVIOUS
  <2> QED
    BY <2>1, MessageFacts
<1>3. next \in Seq(Message)
  BY BehindTypes
<1>4. after = next \/ after = Append(next, m)
  BY BehindAppend
<1>5. CASE calls = <<>>
  BY <1>1, <1>5 DEF Whole
<1>6. CASE calls # <<>>
  <2>1. /\ Len(next) >= Len(calls)
        /\ \A j \in DOMAIN calls : next[j].role = "tool"
        /\ {next[j].call : j \in DOMAIN calls} = ToSet(calls)
    BY <1>6 DEF Whole
  <2> HIDE DEF calls, next, after, e
  <2>2. Len(after) >= Len(calls) /\ \A j \in DOMAIN calls : after[j] = next[j]
    BY <1>2, <1>3, <1>4, <2>1
  <2>3. {after[j].call : j \in DOMAIN calls} = {next[j].call : j \in DOMAIN calls}
    BY <2>2
  <2>4. /\ Len(after) >= Len(calls)
        /\ \A j \in DOMAIN calls : after[j].role = "tool"
        /\ {after[j].call : j \in DOMAIN calls} = ToSet(calls)
    BY <2>1, <2>2, <2>3
  <2> QED
    BY <1>1, <2>4 DEF Whole, calls, next, after, e
<1> QED
  BY <1>5, <1>6

\* One more of the calls is answered.
LEMMA PartlyTool ==
  ASSUME NEW out \in Seq(Message), NEW m \in Message, m.role = "tool", NEW k \in 1..Len(out),
         NEW open \in Seq(AllCalls), NEW rest \in Seq(AllCalls),
         Len(rest) = Len(open) - 1, ToSet(open) = ToSet(rest) \cup {m.call},
         Partly(out, k, open)
  PROVE  Partly(Append(out, m), k, rest)
<1> DEFINE e == Append(out, m)
           calls == out[k].calls
           next == Behind(out, k)
           after == Behind(e, k)
<1>1. e[k] = out[k]
  BY AppendMessage
<1>2. next \in Seq(Message)
  BY BehindTypes
<1>3. after = Append(next, m)
  BY BehindAppend
<1>4. /\ \A j \in DOMAIN next : next[j].role = "tool"
      /\ Len(next) + Len(open) = Len(calls)
      /\ {next[j].call : j \in DOMAIN next} \cup ToSet(open) = ToSet(calls)
  BY DEF Partly
<1> HIDE DEF calls, next, after, e
<1>5. /\ DOMAIN after = 1..(Len(next) + 1) /\ DOMAIN next = 1..Len(next) /\ Len(next) \in Nat
      /\ Len(after) = Len(next) + 1
      /\ \A j \in 1..Len(next) : after[j] = next[j]
      /\ after[Len(next) + 1] = m
  BY <1>2, <1>3
<1>6. \A j \in DOMAIN after : j \in DOMAIN next \/ j = Len(next) + 1
  BY <1>5
<1>7. \A j \in DOMAIN after : after[j].role = "tool"
  BY <1>4, <1>5, <1>6
<1>8. Len(after) + Len(rest) = Len(calls)
  <2>1. Len(open) \in Nat /\ Len(rest) \in Nat /\ Len(rest) = Len(open) - 1
    OBVIOUS
  <2>2. Len(next) \in Nat /\ Len(after) = Len(next) + 1
    BY <1>5
  <2>3. Len(next) + Len(open) = Len(calls)
    BY <1>4
  <2>4. PICK a \in Nat, b \in Nat, d \in Nat : a = Len(next) /\ b = Len(open) /\ d = Len(rest)
    BY <2>1, <2>2
  <2>5. a + b = Len(calls) /\ d = b - 1 /\ Len(after) = a + 1
    BY <2>1, <2>2, <2>3, <2>4
  <2>6. (a + 1) + d = a + b
    BY <2>5
  <2> QED
    BY <2>4, <2>5, <2>6
<1>9. {after[j].call : j \in DOMAIN after} = {next[j].call : j \in DOMAIN next} \cup {m.call}
  <2>1. Len(next) + 1 \in DOMAIN after /\ after[Len(next) + 1] = m
    BY <1>5
  <2>2. \A j \in DOMAIN next : j \in DOMAIN after /\ after[j] = next[j]
    BY <1>5
  <2>3. ASSUME NEW j \in DOMAIN after
        PROVE  after[j].call \in {next[i].call : i \in DOMAIN next} \cup {m.call}
    BY <1>6, <2>1, <2>2
  <2>4. ASSUME NEW j \in DOMAIN next PROVE next[j].call \in {after[i].call : i \in DOMAIN after}
    BY <2>2
  <2>5. m.call \in {after[i].call : i \in DOMAIN after}
    BY <2>1
  <2> QED
    BY <2>3, <2>4, <2>5
<1>10. {after[j].call : j \in DOMAIN after} \cup ToSet(rest) = ToSet(calls)
  BY <1>4, <1>9
<1> QED
  BY <1>1, <1>7, <1>8, <1>10 DEF Partly, calls, after, e

\* Metadata answers no call.
LEMMA PartlyInternal ==
  ASSUME NEW out \in Seq(Message), NEW m \in Message, m.role = "internal", NEW k \in 1..Len(out),
         NEW open, Partly(out, k, open)
  PROVE  Partly(Append(out, m), k, open)
<1>1. Append(out, m)[k] = out[k] /\ Behind(Append(out, m), k) = Behind(out, k)
  BY AppendMessage, BehindAppend
<1> QED
  BY <1>1 DEF Partly

\* A batch with no call open is answered.
LEMMA PartlyDone ==
  ASSUME NEW out \in Seq(Message), NEW k \in 1..Len(out), out[k].role = "assistant",
         Partly(out, k, <<>>)
  PROVE  Whole(out, k)
<1> DEFINE calls == out[k].calls
           next == Behind(out, k)
<1>1. next \in Seq(Message)
  BY BehindTypes
<1>2. calls \in Seq(AllCalls)
  <2>1. out[k] \in Message
    OBVIOUS
  <2> QED
    BY <2>1, MessageFacts
<1>3. /\ \A j \in DOMAIN next : next[j].role = "tool"
      /\ Len(next) = Len(calls)
      /\ {next[j].call : j \in DOMAIN next} = ToSet(calls)
  <2>1. Len(next) + Len(<<>>) = Len(calls) /\ ToSet(<<>>) = {} /\ Len(<<>>) = 0 /\ Len(next) \in Nat
    BY <1>1 DEF Partly, ToSet
  <2> QED
    BY <2>1 DEF Partly
<1> HIDE DEF calls, next
<1>4. DOMAIN next = DOMAIN calls /\ Len(next) >= Len(calls)
  BY <1>1, <1>2, <1>3
<1>5. /\ Len(next) >= Len(calls)
      /\ \A j \in DOMAIN calls : next[j].role = "tool"
      /\ {next[j].call : j \in DOMAIN calls} = ToSet(calls)
  BY <1>3, <1>4
<1> QED
  BY <1>5 DEF Whole, calls, next

\* The walk's account when an open call is answered,
LEMMA TracedTool ==
  ASSUME NEW out \in Seq(Message), NEW m \in Message, m.role = "tool",
         NEW open \in Seq(AllCalls), NEW rest \in Seq(AllCalls),
         Len(rest) = Len(open) - 1, ToSet(open) = ToSet(rest) \cup {m.call},
         Traced(out, open)
  PROVE  Traced(Append(out, m), rest)
<1> SUFFICES ASSUME NEW k \in DOMAIN Append(out, m), Append(out, m)[k].role = "assistant"
             PROVE  Whole(Append(out, m), k) \/ Partly(Append(out, m), k, rest)
  BY DEF Traced
<1>1. k \in 1..Len(out)
  BY AppendMessage
<1>2. k \in DOMAIN out /\ out[k].role = "assistant"
  BY <1>1, AppendMessage
<1>3. Whole(out, k) \/ Partly(out, k, open)
  BY <1>2 DEF Traced
<1>4. CASE Whole(out, k)
  BY <1>1, <1>2, <1>4, WholeAppend
<1>5. CASE Partly(out, k, open)
  BY <1>1, <1>5, PartlyTool
<1> QED
  BY <1>3, <1>4, <1>5

\* when metadata passes,
LEMMA TracedInternal ==
  ASSUME NEW out \in Seq(Message), NEW m \in Message, m.role = "internal", NEW open,
         Traced(out, open)
  PROVE  Traced(Append(out, m), open)
<1> SUFFICES ASSUME NEW k \in DOMAIN Append(out, m), Append(out, m)[k].role = "assistant"
             PROVE  Whole(Append(out, m), k) \/ Partly(Append(out, m), k, open)
  BY DEF Traced
<1>1. k \in 1..Len(out)
  BY AppendMessage
<1>2. k \in DOMAIN out /\ out[k].role = "assistant"
  BY <1>1, AppendMessage
<1>3. Whole(out, k) \/ Partly(out, k, open)
  BY <1>2 DEF Traced
<1>4. CASE Whole(out, k)
  BY <1>1, <1>2, <1>4, WholeAppend
<1>5. CASE Partly(out, k, open)
  BY <1>1, <1>5, PartlyInternal
<1> QED
  BY <1>3, <1>4, <1>5

\* and when no call is open any more.
LEMMA TracedDone ==
  ASSUME NEW out \in Seq(Message), Traced(out, <<>>)
  PROVE  AllWhole(out)
<1> SUFFICES ASSUME NEW k \in DOMAIN out, out[k].role = "assistant" PROVE Whole(out, k)
  BY DEF AllWhole
<1>1. k \in 1..Len(out)
  OBVIOUS
<1> QED
  BY <1>1, PartlyDone DEF Traced

\* A batch opens behind batches that are answered.
LEMMA TracedOpen ==
  ASSUME NEW out \in Seq(Message), NEW m \in Message, m.role \in {"user", "assistant"},
         AllWhole(out)
  PROVE  Traced(Append(out, m), IF m.role = "assistant" THEN m.calls ELSE <<>>)
<1> DEFINE open == IF m.role = "assistant" THEN m.calls ELSE <<>>
<1> SUFFICES ASSUME NEW k \in DOMAIN Append(out, m), Append(out, m)[k].role = "assistant"
             PROVE  Whole(Append(out, m), k) \/ Partly(Append(out, m), k, open)
  BY DEF Traced
<1>1. CASE k \in 1..Len(out)
  <2>1. k \in DOMAIN out /\ out[k].role = "assistant"
    BY <1>1, AppendMessage
  <2> QED
    BY <1>1, <2>1, WholeAppend DEF AllWhole
<1>2. CASE k = Len(out) + 1
  <2>1. Append(out, m)[k] = m /\ k = Len(Append(out, m)) /\ Append(out, m) \in Seq(Message)
    BY <1>2, AppendMessage
  <2>2. Behind(Append(out, m), k) = <<>>
    BY <2>1, BehindLast
  <2>3. m.role = "assistant" /\ open = m.calls /\ m.calls \in Seq(AllCalls)
    BY <2>1, MessageFacts
  <2>4. Len(<<>>) = 0 /\ DOMAIN <<>> = {} /\ Len(m.calls) \in Nat
    BY <2>3
  <2>5. {Behind(Append(out, m), k)[j].call : j \in DOMAIN Behind(Append(out, m), k)} = {}
    BY <2>2, <2>4
  <2>6. Len(Behind(Append(out, m), k)) + Len(open) = Len(Append(out, m)[k].calls)
    BY <2>1, <2>2, <2>3, <2>4
  <2>7. \A j \in DOMAIN Behind(Append(out, m), k) : Behind(Append(out, m), k)[j].role = "tool"
    BY <2>2, <2>4
  <2> QED
    BY <2>1, <2>3, <2>5, <2>6, <2>7 DEF Partly
<1> QED
  BY <1>1, <1>2, AppendMessage

\* The calls behind the first of the open ones.
LEMMA RestStep ==
  ASSUME NEW open \in Seq(AllCalls), NEW k \in Nat, k + 1 <= Len(open)
  PROVE  /\ SubSeq(open, k + 1, Len(open)) \in Seq(AllCalls)
         /\ SubSeq(open, (k + 1) + 1, Len(open)) \in Seq(AllCalls)
         /\ Len(SubSeq(open, (k + 1) + 1, Len(open))) = Len(SubSeq(open, k + 1, Len(open))) - 1
         /\ ToSet(SubSeq(open, k + 1, Len(open))) =
              ToSet(SubSeq(open, (k + 1) + 1, Len(open))) \cup {open[k + 1]}
<1> DEFINE n == Len(open)
           s == SubSeq(open, k + 1, n)
           t == SubSeq(open, (k + 1) + 1, n)
<1>1. n \in Nat /\ k + 1 <= n
  OBVIOUS
<1>2. /\ s \in Seq(AllCalls) /\ Len(s) = n - k /\ DOMAIN s = 1..(n - k)
      /\ \A j \in 1..(n - k) : s[j] = open[j + k]
  OBVIOUS
<1>3. /\ t \in Seq(AllCalls) /\ Len(t) = n - (k + 1) /\ DOMAIN t = 1..(n - (k + 1))
      /\ \A j \in 1..(n - (k + 1)) : t[j] = open[j + (k + 1)]
  OBVIOUS
<1> HIDE DEF n, s, t
<1>4. ASSUME NEW c \in ToSet(s) PROVE c \in ToSet(t) \cup {open[k + 1]}
  <2>1. PICK j \in 1..(n - k) : c = open[j + k]
    BY <1>2, <1>4 DEF ToSet
  <2>2. CASE j = 1
    <3>1. j + k = k + 1
      BY <2>2
    <3> QED
      BY <2>1, <3>1
  <2>3. CASE j # 1
    <3>1. j - 1 \in 1..(n - (k + 1)) /\ (j - 1) + (k + 1) = j + k
      BY <1>1, <2>1, <2>3
    <3>2. t[j - 1] = c /\ j - 1 \in DOMAIN t
      BY <1>3, <2>1, <3>1
    <3> QED
      BY <3>2 DEF ToSet
  <2> QED
    BY <2>2, <2>3
<1>5. ASSUME NEW c \in ToSet(t) PROVE c \in ToSet(s)
  <2>1. PICK j \in 1..(n - (k + 1)) : c = open[j + (k + 1)]
    BY <1>3, <1>5 DEF ToSet
  <2>2. j + 1 \in 1..(n - k) /\ (j + 1) + k = j + (k + 1)
    BY <1>1, <2>1
  <2>3. s[j + 1] = c /\ j + 1 \in DOMAIN s
    BY <1>2, <2>1, <2>2
  <2> QED
    BY <2>3 DEF ToSet
<1>6. open[k + 1] \in ToSet(s)
  <2>1. 1 \in 1..(n - k) /\ 1 + k = k + 1
    BY <1>1
  <2>2. s[1] = open[k + 1] /\ 1 \in DOMAIN s
    BY <1>2, <2>1
  <2> QED
    BY <2>2 DEF ToSet
<1>7. Len(t) = Len(s) - 1
  BY <1>1, <1>2, <1>3
<1>8. ToSet(s) = ToSet(t) \cup {open[k + 1]}
  BY <1>4, <1>5, <1>6
<1> QED
  BY <1>2, <1>3, <1>7, <1>8 DEF n, s, t

\* Closing the open batch leaves every batch answered.
LEMMA CloseTraced ==
  ASSUME NEW msgs \in Seq(Message), NEW s \in WalkState, Traced(s.out, s.open)
  PROVE  AllWhole(CloseBatch(msgs, s).out)
<1> DEFINE n == Len(s.open)
           Left(k) == SubSeq(s.open, k + 1, n)
<1>0. s.open \in Seq(AllCalls) /\ n \in Nat
  BY DEF WalkState
<1>1. PICK g : /\ Settles(g, msgs, s)
               /\ \A i \in 0..n : g[i] \in WalkState
               /\ CloseBatch(msgs, s).out = g[n].out
  BY CloseSteps
<1> DEFINE T == {k \in Nat : k <= n => Traced(g[k].out, Left(k))}
<1>2. 0 \in T
  <2>1. g[0] = s
    BY <1>1 DEF Settles
  <2>2. Left(0) = s.open
    BY <1>0
  <2> QED
    BY <2>1, <2>2
<1>3. ASSUME NEW k \in Nat, k \in T PROVE k + 1 \in T
  <2> SUFFICES ASSUME k + 1 <= n PROVE Traced(g[k + 1].out, Left(k + 1))
    OBVIOUS
  <2>1. k <= n /\ k \in 0..n /\ k + 1 \in 1..n /\ (k + 1) - 1 = k /\ s.open[k + 1] \in AllCalls
    BY <1>0
  <2>2. Traced(g[k].out, Left(k))
    BY <1>3, <2>1
  <2>3. g[k + 1] = Settle(msgs, g[k], s.open[k + 1]) /\ g[k] \in WalkState
    BY <1>1, <2>1 DEF Settles
  <2>4. /\ Left(k) \in Seq(AllCalls) /\ Left(k + 1) \in Seq(AllCalls)
        /\ Len(Left(k + 1)) = Len(Left(k)) - 1
        /\ ToSet(Left(k)) = ToSet(Left(k + 1)) \cup {s.open[k + 1]}
    BY <1>0, RestStep
  <2> HIDE DEF T, n, Left
  <2>5. \E m \in Message :
          m.role = "tool" /\ m.call = s.open[k + 1] /\ g[k + 1].out = Append(g[k].out, m)
    BY <2>1, <2>3, SettleStep
  <2>6. PICK m \in Message :
          m.role = "tool" /\ m.call = s.open[k + 1] /\ g[k + 1].out = Append(g[k].out, m)
    BY <2>5
  <2>7. g[k].out \in Seq(Message)
    BY <2>3 DEF WalkState
  <2>8. ToSet(Left(k)) = ToSet(Left(k + 1)) \cup {m.call}
    BY <2>4, <2>6
  <2>9. Traced(Append(g[k].out, m), Left(k + 1))
    BY <2>2, <2>4, <2>6, <2>7, <2>8, TracedTool
  <2> QED
    BY <2>6, <2>9
<1> HIDE DEF T
<1>4. Nat \subseteq T
  BY <1>2, <1>3, ByInduction
<1>5. Traced(g[n].out, Left(n))
  BY <1>0, <1>4 DEF T
<1>6. Left(n) = <<>> /\ g[n].out \in Seq(Message)
  <2>1. Left(n) = <<>>
    BY <1>0
  <2>2. g[n] \in WalkState
    BY <1>0, <1>1
  <2> QED
    BY <2>1, <2>2 DEF WalkState
<1> HIDE DEF Left, n
<1>7. AllWhole(g[n].out)
  BY <1>5, <1>6, TracedDone
<1> QED
  BY <1>1, <1>7

\* What is left of distinct calls when one is answered.
LEMMA OthersLeft ==
  ASSUME NEW open \in Seq(AllCalls), Distinct(open), NEW c \in ToSet(open), NEW rest,
         rest = At(open, {j \in DOMAIN open : open[j] # c})
  PROVE  /\ rest \in Seq(AllCalls) /\ Distinct(rest)
         /\ Len(rest) = Len(open) - 1 /\ ToSet(rest) = ToSet(open) \ {c}
<1> DEFINE I == {j \in DOMAIN open : open[j] # c}
<1>0. Len(open) \in Nat /\ DOMAIN open = 1..Len(open)
  OBVIOUS
<1>1. PICK p \in 1..Len(open) : open[p] = c
  BY <1>0 DEF ToSet
<1>2. \A j \in 1..Len(open) : j \in I <=> j # p
  BY <1>0, <1>1 DEF Distinct
<1>3. \A j \in I : j \in 1..Len(open) /\ open[j] # c
  BY <1>0
<1>4. rest = At(open, I)
  OBVIOUS
<1> HIDE DEF I
<1>5. Len(rest) = Len(open) - 1
  BY <1>2, <1>4, AtOthers
<1>6. rest \in Seq(AllCalls) /\ \E f : Chosen(f, rest, open, I, Len(open))
  BY <1>4, AtChosen
<1>7. PICK f : Chosen(f, rest, open, I, Len(open))
  BY <1>6
<1>8. /\ Len(f) = Len(rest) /\ f \in Seq(Nat)
      /\ \A a \in 1..Len(f) : f[a] \in I /\ f[a] \in 1..Len(open) /\ rest[a] = open[f[a]]
      /\ \A a, b \in 1..Len(f) : a < b => f[a] < f[b]
      /\ \A i \in I : i \in 1..Len(open) => \E a \in 1..Len(f) : f[a] = i
  BY <1>7 DEF Chosen
<1>8a. DOMAIN rest = 1..Len(f) /\ Len(f) \in Nat
  BY <1>6, <1>8
<1>9. Distinct(rest)
  <2> SUFFICES ASSUME NEW a \in 1..Len(f), NEW b \in 1..Len(f), rest[a] = rest[b] PROVE a = b
    BY <1>8a DEF Distinct
  <2>1. f[a] \in 1..Len(open) /\ f[b] \in 1..Len(open) /\ open[f[a]] = open[f[b]]
    BY <1>8
  <2>2. f[a] = f[b] /\ f[a] \in Nat
    BY <1>0, <2>1 DEF Distinct
  <2>3. a < b => f[a] < f[b]
    BY <1>8
  <2>4. b < a => f[b] < f[a]
    BY <1>8
  <2>5. a \in Nat /\ b \in Nat
    BY <1>8a
  <2> QED
    BY <2>2, <2>3, <2>4, <2>5
<1>10. ASSUME NEW d \in ToSet(rest) PROVE d \in ToSet(open) \ {c}
  <2>1. PICK a \in 1..Len(f) : rest[a] = d
    BY <1>8a DEF ToSet
  <2>2. f[a] \in I /\ f[a] \in 1..Len(open) /\ d = open[f[a]]
    BY <1>8, <2>1
  <2> QED
    BY <1>0, <1>3, <2>2 DEF ToSet
<1>11. ASSUME NEW d \in ToSet(open), d # c PROVE d \in ToSet(rest)
  <2>1. PICK i \in 1..Len(open) : open[i] = d
    BY <1>0 DEF ToSet
  <2>2. i \in I
    BY <1>1, <1>2, <1>11, <2>1
  <2>3. PICK a \in 1..Len(f) : f[a] = i
    BY <1>8, <2>2
  <2> QED
    BY <1>8, <1>8a, <2>1, <2>3 DEF ToSet
<1> QED
  BY <1>5, <1>6, <1>9, <1>10, <1>11

-----------------------------------------------------------------------------
(***************************************************************************)
(* TracesKept: without surplus results, every batch of a closed history is *)
(* answered.  While the walk goes, all batches are answered but the open   *)
(* one, and of that all calls but the open ones.                           *)
(***************************************************************************)

\* The walk has answered every batch but the open one, and of that all but what is open.
Tracing(s) == Distinct(s.open) /\ Traced(s.out, s.open)

\* Every message of the walk keeps the account.
LEMMA PassTraced ==
  ASSUME NEW msgs \in Seq(Message), Surplus(msgs) = {}, NEW s \in WalkState, Tracing(s),
         NEW i \in 1..Len(msgs)
  PROVE  Tracing(Pass(msgs, s, i))
<1>1. PICK m \in Message : m = msgs[i]
  OBVIOUS
<1>2. PICK u : u = Pass(msgs, s, i)
  OBVIOUS
<1>2a. Passes(msgs, s, i, m, u)
  BY <1>1, <1>2, PassStep
<1>3. s.out \in Seq(Message) /\ s.open \in Seq(AllCalls) /\ Distinct(s.open)
          /\ Traced(s.out, s.open)
  BY DEF WalkState, Tracing
<1>4. m.role \in {"user", "assistant", "tool", "internal"}
  BY MessageFacts
<1>5. CASE m.role = "internal"
  <2>1. u.out = Append(s.out, m) /\ u.open = s.open
    BY <1>2a, <1>5 DEF Passes
  <2>2. Traced(Append(s.out, m), s.open)
    BY <1>3, <1>5, TracedInternal
  <2> QED
    BY <1>2, <1>3, <2>1, <2>2 DEF Tracing
<1>6. CASE m.role = "tool" /\ i \in s.consumed
  <2>1. u = s
    BY <1>2a, <1>6 DEF Passes
  <2> QED
    BY <1>2, <2>1
<1>7. CASE m.role = "tool" /\ i \notin s.consumed /\ m.call \in ToSet(s.open)
  <2>1. /\ u.out = Append(s.out, m)
        /\ u.open = At(s.open, {j \in DOMAIN s.open : s.open[j] # m.call})
    BY <1>2a, <1>7 DEF Passes
  <2>2. /\ u.open \in Seq(AllCalls) /\ Distinct(u.open)
        /\ Len(u.open) = Len(s.open) - 1 /\ ToSet(u.open) = ToSet(s.open) \ {m.call}
    BY <1>3, <1>7, <2>1, OthersLeft
  <2>3. ToSet(s.open) = ToSet(u.open) \cup {m.call}
    BY <1>7, <2>2
  <2>4. m.role = "tool"
    BY <1>7
  <2>5. Traced(Append(s.out, m), u.open)
    BY <1>3, <2>2, <2>3, <2>4, TracedTool
  <2> QED
    BY <1>2, <2>1, <2>2, <2>5 DEF Tracing
<1>8. CASE m.role = "tool" /\ i \notin s.consumed /\ m.call \notin ToSet(s.open)
  <2>1. i \in DOMAIN msgs /\ i \notin Surplus(msgs)
    OBVIOUS
  <2>2. m.call \in CallsIn(msgs) /\ i = Min(ResultsOf(msgs, m.call))
    BY <1>1, <1>8, <2>1, Zenon DEF Surplus
  <2>3. u = s
    BY <1>2a, <1>8, <2>2 DEF Passes
  <2> QED
    BY <1>2, <2>3
<1>9. CASE m.role \in {"user", "assistant"}
  <2>1. PICK w \in WalkState : w = CloseBatch(msgs, s)
    BY CloseSteps
  <2>2. /\ u.out = Append(w.out, m)
        /\ u.open = IF m.role = "assistant" THEN m.calls ELSE <<>>
    BY <1>2a, <1>9, <2>1 DEF Passes
  <2>3. AllWhole(w.out) /\ w.out \in Seq(Message)
    BY <1>3, <2>1, CloseTraced DEF WalkState
  <2>4. Traced(Append(w.out, m), IF m.role = "assistant" THEN m.calls ELSE <<>>)
    BY <1>9, <2>3, TracedOpen
  <2>5. Distinct(IF m.role = "assistant" THEN m.calls ELSE <<>>)
    BY MessageFacts, CallListFacts
  <2> QED
    BY <1>2, <2>2, <2>4, <2>5 DEF Tracing
<1> QED
  BY <1>4, <1>5, <1>6, <1>7, <1>8, <1>9

\* Without surplus results, every batch of a closed history is answered.
LEMMA ClosedWhole ==
  ASSUME NEW msgs \in Seq(Message), Surplus(msgs) = {}
  PROVE  AllWhole(Closed(msgs))
<1> DEFINE n == Len(msgs)
<1>0. n \in Nat
  OBVIOUS
<1>1. PICK h : Walks(h, msgs) /\ Walked(msgs) = h[n]
  BY WalkSteps
<1> DEFINE T == {k \in Nat : k <= n => Tracing(h[k])}
<1>2. 0 \in T
  <2>1. h[0] = Start
    BY <1>1 DEF Walks
  <2>2. Start.out = <<>> /\ Start.open = <<>> /\ DOMAIN <<>> = {}
    BY DEF Start
  <2>3. Distinct(Start.open) /\ Traced(Start.out, Start.open)
    BY <2>2 DEF Distinct, Traced
  <2> QED
    BY <2>1, <2>3 DEF Tracing
<1>3. ASSUME NEW k \in Nat, k \in T PROVE k + 1 \in T
  <2> SUFFICES ASSUME k + 1 <= n PROVE Tracing(h[k + 1])
    OBVIOUS
  <2>1. k <= n /\ k \in 0..n /\ k + 1 \in 1..n /\ (k + 1) - 1 = k
    BY <1>0
  <2>2. Tracing(h[k])
    BY <1>3, <2>1
  <2>3. h[k + 1] = Pass(msgs, h[k], k + 1) /\ h[k] \in WalkState /\ k + 1 \in 1..Len(msgs)
    BY <1>1, <2>1 DEF Walks
  <2> HIDE DEF T, n
  <2>4. Tracing(Pass(msgs, h[k], k + 1))
    BY <2>2, <2>3, PassTraced
  <2> QED
    BY <2>3, <2>4
<1> HIDE DEF T
<1>4. Nat \subseteq T
  BY <1>2, <1>3, ByInduction
<1>5. Tracing(h[n])
  BY <1>0, <1>4 DEF T
<1>6. Tracing(Walked(msgs)) /\ Walked(msgs) \in WalkState
  BY <1>1, <1>5, WalkSteps
<1>7. AllWhole(CloseBatch(msgs, Walked(msgs)).out)
  BY <1>6, CloseTraced DEF Tracing
<1> QED
  BY <1>7 DEF Closed, Close

(***************************************************************************)
(* What bears on a call: its assistant message (the role "assistant") and  *)
(* its results (the role "tool"), in a history and in the jobs of a queue. *)
(***************************************************************************)
Event == [job : {"append", "metadata", "replace"}, msgs : Seq(Message)]

Bears(m, c, r) ==
  \/ r = "tool" /\ m.role = "tool" /\ m.call = c
  \/ r = "assistant" /\ m.role = "assistant" /\ c \in ToSet(m.calls)
Has(msgs, c, r) == \E i \in DOMAIN msgs : Bears(msgs[i], c, r)
Single(msgs, c, r) ==
  \A i, j \in DOMAIN msgs : Bears(msgs[i], c, r) /\ Bears(msgs[j], c, r) => i = j

\* A job that is no replacement is one message, which for metadata bears on no call.
Proper(e) ==
  /\ e.job # "replace" => Len(e.msgs) = 1
  /\ e.job = "metadata" => e.msgs[1].role = "internal"
OneEach(q) == \A i \in DOMAIN q : Proper(q[i])
Carries(q, c, r) == \E i \in DOMAIN q : Has(q[i].msgs, c, r)
Sends(q, c, r) == \E i \in DOMAIN q : q[i].job # "replace" /\ Has(q[i].msgs, c, r)
Singles(q, c, r) == \A i \in DOMAIN q : Single(q[i].msgs, c, r)
\* No message is sent that an earlier job of the queue holds.
InTurn(q, c, r) ==
  \A i, j \in DOMAIN q :
    i < j /\ q[j].job # "replace" /\ Has(q[j].msgs, c, r) => ~Has(q[i].msgs, c, r)

\* A history whose messages all come from another one, each from a place of its own.
LEMMA FromPlaces ==
  ASSUME NEW t, NEW s, NEW f, NEW c, NEW r,
         \A a \in DOMAIN t : f[a] \in DOMAIN s /\ t[a] = s[f[a]],
         \A a, b \in DOMAIN t : f[a] = f[b] => a = b
  PROVE  /\ Has(t, c, r) => Has(s, c, r)
         /\ Single(s, c, r) => Single(t, c, r)
<1>1. Has(t, c, r) => Has(s, c, r)
  BY DEF Has
<1>2. ASSUME Single(s, c, r) PROVE Single(t, c, r)
  <2> SUFFICES ASSUME NEW a \in DOMAIN t, NEW b \in DOMAIN t, Bears(t[a], c, r), Bears(t[b], c, r)
               PROVE  a = b
    BY DEF Single
  <2>1. f[a] \in DOMAIN s /\ f[b] \in DOMAIN s /\ Bears(s[f[a]], c, r) /\ Bears(s[f[b]], c, r)
    OBVIOUS
  <2>2. f[a] = f[b]
    BY <1>2, <2>1, Zenon DEF Single
  <2> QED
    BY <2>2
<1> QED
  BY <1>1, <1>2

\* What bears on a call in a history with one message more,
LEMMA HasAppend ==
  ASSUME NEW s \in Seq(Message), NEW m \in Message, NEW c, NEW r
  PROVE  /\ Append(s, m) \in Seq(Message)
         /\ Has(Append(s, m), c, r) <=> Has(s, c, r) \/ Bears(m, c, r)
         /\ Single(s, c, r) /\ (Bears(m, c, r) => ~Has(s, c, r)) => Single(Append(s, m), c, r)
<1> DEFINE e == Append(s, m)
<1>1. /\ e \in Seq(Message) /\ DOMAIN e = 1..(Len(s) + 1)
      /\ DOMAIN s = 1..Len(s) /\ Len(s) \in Nat
      /\ \A i \in DOMAIN s : i \in DOMAIN e /\ e[i] = s[i] /\ i # Len(s) + 1
      /\ e[Len(s) + 1] = m /\ Len(s) + 1 \in DOMAIN e
      /\ \A i \in DOMAIN e : i \in DOMAIN s \/ i = Len(s) + 1
  <2>1. \A i \in 1..(Len(s) + 1) : i \in 1..Len(s) \/ i = Len(s) + 1
    OBVIOUS
  <2> QED
    BY <2>1
<1> HIDE DEF e
<1>2. Has(e, c, r) <=> Has(s, c, r) \/ Bears(m, c, r)
  BY <1>1, Zenon DEF Has
<1>3. ASSUME Single(s, c, r), Bears(m, c, r) => ~Has(s, c, r) PROVE Single(e, c, r)
  <2> SUFFICES ASSUME NEW i \in DOMAIN e, NEW j \in DOMAIN e, Bears(e[i], c, r), Bears(e[j], c, r)
               PROVE  i = j
    BY DEF Single
  <2>1. CASE i \in DOMAIN s /\ j \in DOMAIN s
    BY <1>1, <1>3, <2>1, Zenon DEF Single
  <2>2. CASE i \in DOMAIN s /\ j = Len(s) + 1
    BY <1>1, <1>3, <2>2, Zenon DEF Has
  <2>3. CASE i = Len(s) + 1 /\ j \in DOMAIN s
    BY <1>1, <1>3, <2>3, Zenon DEF Has
  <2> QED
    BY <1>1, <2>1, <2>2, <2>3
<1> QED
  BY <1>1, <1>2, <1>3 DEF e

\* in two histories in a row,
LEMMA HasConcat ==
  ASSUME NEW s \in Seq(Message), NEW t \in Seq(Message), NEW c, NEW r
  PROVE  /\ s \o t \in Seq(Message)
         /\ Has(s \o t, c, r) <=> Has(s, c, r) \/ Has(t, c, r)
         /\ Single(s, c, r) /\ Single(t, c, r) /\ (Has(t, c, r) => ~Has(s, c, r))
                => Single(s \o t, c, r)
<1> DEFINE e == s \o t
           n == Len(s)
<1>1. /\ e \in Seq(Message) /\ DOMAIN s = 1..n /\ n \in Nat
      /\ \A i \in DOMAIN s : i \in DOMAIN e /\ e[i] = s[i]
      /\ \A i \in DOMAIN t : n + i \in DOMAIN e /\ e[n + i] = t[i]
  OBVIOUS
<1>2. \A i \in DOMAIN e : i \in DOMAIN s \/ (i - n \in DOMAIN t /\ n + (i - n) = i /\ e[i] = t[i - n])
  OBVIOUS
<1> HIDE DEF e, n
<1>3. Has(e, c, r) <=> Has(s, c, r) \/ Has(t, c, r)
  <2>1. Has(e, c, r) => Has(s, c, r) \/ Has(t, c, r)
    BY <1>1, <1>2, Zenon DEF Has
  <2>2. Has(s, c, r) => Has(e, c, r)
    BY <1>1, Zenon DEF Has
  <2>3. Has(t, c, r) => Has(e, c, r)
    BY <1>1, Zenon DEF Has
  <2> QED
    BY <2>1, <2>2, <2>3
<1>4. ASSUME Single(s, c, r), Single(t, c, r), Has(t, c, r) => ~Has(s, c, r)
      PROVE  Single(e, c, r)
  <2> SUFFICES ASSUME NEW i \in DOMAIN e, NEW j \in DOMAIN e, Bears(e[i], c, r), Bears(e[j], c, r)
               PROVE  i = j
    BY DEF Single
  <2>1. CASE i \in DOMAIN s /\ j \in DOMAIN s
    BY <1>1, <1>4, <2>1, Zenon DEF Single
  <2>2. CASE i \in DOMAIN s /\ j \notin DOMAIN s
    BY <1>1, <1>2, <1>4, <2>2, Zenon DEF Has
  <2>3. CASE i \notin DOMAIN s /\ j \in DOMAIN s
    BY <1>1, <1>2, <1>4, <2>3, Zenon DEF Has
  <2>4. CASE i \notin DOMAIN s /\ j \notin DOMAIN s
    <3>1. i - n \in DOMAIN t /\ j - n \in DOMAIN t /\ Bears(t[i - n], c, r) /\ Bears(t[j - n], c, r)
      BY <1>2, <2>4
    <3>2. i - n = j - n
      BY <1>4, <3>1, Zenon DEF Single
    <3>3. n + (i - n) = i /\ n + (j - n) = j
      BY <1>2, <2>4
    <3> QED
      BY <3>2, <3>3
  <2> QED
    BY <2>1, <2>2, <2>3, <2>4
<1> QED
  BY <1>1, <1>3, <1>4 DEF e

\* in the messages taken from one,
LEMMA HasAt ==
  ASSUME NEW s \in Seq(Message), NEW I, NEW c, NEW r
  PROVE  /\ At(s, I) \in Seq(Message)
         /\ Has(At(s, I), c, r) => Has(s, c, r)
         /\ Single(s, c, r) => Single(At(s, I), c, r)
<1>1. At(s, I) \in Seq(Message) /\ \E f : Chosen(f, At(s, I), s, I, Len(s))
  BY AtChosen
<1>2. PICK f : Chosen(f, At(s, I), s, I, Len(s))
  BY <1>1
<1> DEFINE t == At(s, I)
<1>3. /\ DOMAIN t = 1..Len(f) /\ Len(f) \in Nat /\ DOMAIN s = 1..Len(s)
      /\ \A a \in 1..Len(f) : f[a] \in 1..Len(s) /\ t[a] = s[f[a]]
      /\ \A a, b \in 1..Len(f) : a < b => f[a] < f[b]
  BY <1>1, <1>2 DEF Chosen
<1> HIDE DEF t
<1>4. \A a \in DOMAIN t : f[a] \in DOMAIN s /\ t[a] = s[f[a]]
  BY <1>3
<1>5. ASSUME NEW a \in DOMAIN t, NEW b \in DOMAIN t, f[a] = f[b] PROVE a = b
  <2>1. a \in 1..Len(f) /\ b \in 1..Len(f) /\ a \in Nat /\ b \in Nat /\ f[a] \in Nat
    BY <1>3
  <2>2. (a < b => f[a] < f[b]) /\ (b < a => f[b] < f[a])
    BY <1>3, <2>1
  <2> QED
    BY <1>5, <2>1, <2>2
<1>6. \A a, b \in DOMAIN t : f[a] = f[b] => a = b
  BY <1>5
<1>7. (Has(t, c, r) => Has(s, c, r)) /\ (Single(s, c, r) => Single(t, c, r))
  BY <1>4, <1>6, FromPlaces
<1> QED
  BY <1>1, <1>7 DEF t

\* A beginning of a history.
LEMMA HasPrefix ==
  ASSUME NEW s \in Seq(Message), NEW n \in Int, n <= Len(s), NEW c, NEW r
  PROVE  /\ SubSeq(s, 1, n) \in Seq(Message)
         /\ Has(SubSeq(s, 1, n), c, r) => Has(s, c, r)
         /\ Single(s, c, r) => Single(SubSeq(s, 1, n), c, r)
<1> DEFINE t == SubSeq(s, 1, n)
           f == [a \in Int |-> a]
<1>1. t \in Seq(Message) /\ \A a \in DOMAIN t : a \in Int /\ a \in DOMAIN s /\ t[a] = s[a]
  OBVIOUS
<1>2. \A a \in Int : f[a] = a
  OBVIOUS
<1> HIDE DEF t, f
<1>3. \A a \in DOMAIN t : f[a] \in DOMAIN s /\ t[a] = s[f[a]]
  BY <1>1, <1>2
<1>4. \A a, b \in DOMAIN t : f[a] = f[b] => a = b
  BY <1>1, <1>2
<1>5. (Has(t, c, r) => Has(s, c, r)) /\ (Single(s, c, r) => Single(t, c, r))
  BY <1>3, <1>4, FromPlaces
<1> QED
  BY <1>1, <1>5 DEF t

\* in none,
LEMMA HasNone ==
  ASSUME NEW c, NEW r
  PROVE  /\ <<>> \in Seq(Message) /\ ~Has(<<>>, c, r) /\ Single(<<>>, c, r)
         /\ <<>> \in Seq(Event) /\ OneEach(<<>>)
         /\ ~Carries(<<>>, c, r) /\ ~Sends(<<>>, c, r) /\ Singles(<<>>, c, r) /\ InTurn(<<>>, c, r)
<1>1. DOMAIN <<>> = {} /\ <<>> \in Seq(Message) /\ <<>> \in Seq(Event)
  OBVIOUS
<1> QED
  BY <1>1, Zenon DEF Has, Single, OneEach, Carries, Sends, Singles, InTurn

\* and in one message.
LEMMA HasOne ==
  ASSUME NEW m \in Message, NEW c, NEW r
  PROVE  /\ <<m>> \in Seq(Message) /\ Len(<<m>>) = 1
         /\ Has(<<m>>, c, r) <=> Bears(m, c, r)
         /\ Single(<<m>>, c, r)
<1> DEFINE s == <<m>>
<1>1. s \in Seq(Message) /\ Len(s) = 1 /\ 1 \in DOMAIN s /\ s[1] = m /\ \A i \in DOMAIN s : i = 1
  OBVIOUS
<1> HIDE DEF s
<1>2. (Has(s, c, r) <=> Bears(m, c, r)) /\ Single(s, c, r)
  BY <1>1, Zenon DEF Has, Single
<1> QED
  BY <1>1, <1>2 DEF s

-----------------------------------------------------------------------------
(***************************************************************************)
(* The jobs of a queue.                                                    *)
(***************************************************************************)

\* All that is said of a queue here.
Lined(q) == q \in Seq(Event) /\ OneEach(q)

\* Two queues in a row.
LEMMA EventsConcat ==
  ASSUME NEW q, NEW t, Lined(q), Lined(t)
  PROVE  /\ Lined(q \o t)
         /\ \A c, r :
              /\ Carries(q \o t, c, r) => Carries(q, c, r) \/ Carries(t, c, r)
              /\ Sends(q \o t, c, r) => Sends(q, c, r) \/ Sends(t, c, r)
              /\ Singles(q, c, r) /\ Singles(t, c, r) => Singles(q \o t, c, r)
              /\ InTurn(q, c, r) /\ InTurn(t, c, r) /\ (Sends(t, c, r) => ~Carries(q, c, r))
                   => InTurn(q \o t, c, r)
<1> DEFINE e == q \o t
           n == Len(q)
<1>0. q \in Seq(Event) /\ t \in Seq(Event)
  BY DEF Lined
<1>1. /\ e \in Seq(Event) /\ n \in Nat /\ DOMAIN q = 1..n
      /\ \A i \in DOMAIN q : i \in DOMAIN e /\ e[i] = q[i]
      /\ \A i \in DOMAIN t : n + i \in DOMAIN e /\ e[n + i] = t[i]
  BY <1>0
<1>2. \A i \in DOMAIN e : i \in DOMAIN q \/ (i - n \in DOMAIN t /\ n + (i - n) = i /\ e[i] = t[i - n])
  BY <1>0
<1>3. \A i \in DOMAIN e : i \in Int
  BY <1>0
<1>4. \A i \in DOMAIN t : i \in Int /\ i > 0
  BY <1>0
<1> HIDE DEF e, n
<1>5. Lined(e)
  BY <1>1, <1>2, Zenon DEF Lined, OneEach
<1>6. ASSUME NEW c, NEW r PROVE Carries(e, c, r) => Carries(q, c, r) \/ Carries(t, c, r)
  BY <1>1, <1>2, Zenon DEF Carries
<1>7. ASSUME NEW c, NEW r PROVE Sends(e, c, r) => Sends(q, c, r) \/ Sends(t, c, r)
  <2> SUFFICES ASSUME NEW i \in DOMAIN e, e[i].job # "replace", Has(e[i].msgs, c, r)
               PROVE  Sends(q, c, r) \/ Sends(t, c, r)
    BY DEF Sends
  <2>1. CASE i \in DOMAIN q
    BY <1>1, <2>1, Zenon DEF Sends
  <2>2. CASE i - n \in DOMAIN t /\ e[i] = t[i - n]
    BY <2>2, Zenon DEF Sends
  <2> QED
    BY <1>2, <2>1, <2>2
<1>8. ASSUME NEW c, NEW r, Singles(q, c, r), Singles(t, c, r) PROVE Singles(e, c, r)
  BY <1>1, <1>2, <1>8, Zenon DEF Singles
<1>9. ASSUME NEW c, NEW r, InTurn(q, c, r), InTurn(t, c, r), Sends(t, c, r) => ~Carries(q, c, r)
      PROVE  InTurn(e, c, r)
  <2> SUFFICES ASSUME NEW i \in DOMAIN e, NEW j \in DOMAIN e,
                      i < j, e[j].job # "replace", Has(e[j].msgs, c, r)
               PROVE  ~Has(e[i].msgs, c, r)
    BY DEF InTurn
  <2>1. CASE j \in DOMAIN q
    <3>1. i \in DOMAIN q
      <4>1. i \in Int /\ j \in 1..n
        BY <1>1, <1>3, <2>1
      <4>2. i \notin DOMAIN q => i - n \in Int /\ i - n > 0
        BY <1>2, <1>4
      <4> QED
        BY <1>1, <4>1, <4>2
    <3> QED
      BY <1>1, <1>9, <2>1, <3>1, Zenon DEF InTurn
  <2>2. CASE j \notin DOMAIN q /\ i \in DOMAIN q
    <3>1. Sends(t, c, r)
      BY <1>2, <2>2, Zenon DEF Sends
    <3>2. ~Carries(q, c, r)
      BY <1>9, <3>1
    <3> QED
      BY <1>1, <2>2, <3>2, Zenon DEF Carries
  <2>3. CASE j \notin DOMAIN q /\ i \notin DOMAIN q
    <3>1. /\ i - n \in DOMAIN t /\ e[i] = t[i - n]
          /\ j - n \in DOMAIN t /\ e[j] = t[j - n]
      BY <1>2, <2>3
    <3>2. i - n < j - n
      BY <1>1, <1>3
    <3> QED
      BY <1>9, <3>1, <3>2, Zenon DEF InTurn
  <2> QED
    BY <2>1, <2>2, <2>3
<1>10. \A c, r : /\ Carries(e, c, r) => Carries(q, c, r) \/ Carries(t, c, r)
                 /\ Sends(e, c, r) => Sends(q, c, r) \/ Sends(t, c, r)
                 /\ Singles(q, c, r) /\ Singles(t, c, r) => Singles(e, c, r)
                 /\ InTurn(q, c, r) /\ InTurn(t, c, r) /\ (Sends(t, c, r) => ~Carries(q, c, r))
                      => InTurn(e, c, r)
  <2> TAKE c, r
  <2> QED
    BY <1>6, <1>7, <1>8, <1>9
<1> QED
  BY <1>5, <1>10 DEF e

\* The jobs taken from a queue.
LEMMA EventsAt ==
  ASSUME NEW s, Lined(s), NEW I
  PROVE  /\ Lined(At(s, I))
         /\ \A c, r :
              /\ Carries(At(s, I), c, r) => Carries(s, c, r)
              /\ Sends(At(s, I), c, r) => Sends(s, c, r)
              /\ Singles(s, c, r) => Singles(At(s, I), c, r)
              /\ InTurn(s, c, r) => InTurn(At(s, I), c, r)
<1> DEFINE t == At(s, I)
<1>0. s \in Seq(Event) /\ OneEach(s)
  BY DEF Lined
<1>1. t \in Seq(Event) /\ \E f : Chosen(f, t, s, I, Len(s))
  BY <1>0, AtChosen
<1>2. PICK f : Chosen(f, t, s, I, Len(s))
  BY <1>1
<1> HIDE DEF t
<1>3. /\ DOMAIN t = 1..Len(f) /\ Len(f) \in Nat /\ DOMAIN s = 1..Len(s)
      /\ \A a \in 1..Len(f) : f[a] \in 1..Len(s) /\ t[a] = s[f[a]]
      /\ \A a, b \in 1..Len(f) : a < b => f[a] < f[b]
  BY <1>0, <1>1, <1>2 DEF Chosen
<1>4. \A a \in DOMAIN t : f[a] \in DOMAIN s /\ t[a] = s[f[a]]
  BY <1>3
<1>5. \A a, b \in DOMAIN t : a < b => f[a] < f[b]
  BY <1>3
<1>6. Lined(t)
  BY <1>0, <1>1, <1>4, Zenon DEF Lined, OneEach
<1>7. ASSUME NEW c, NEW r PROVE Carries(t, c, r) => Carries(s, c, r)
  BY <1>4, Zenon DEF Carries
<1>8. ASSUME NEW c, NEW r PROVE Sends(t, c, r) => Sends(s, c, r)
  BY <1>4, Zenon DEF Sends
<1>9. ASSUME NEW c, NEW r, Singles(s, c, r) PROVE Singles(t, c, r)
  BY <1>4, <1>9, Zenon DEF Singles
<1>10. ASSUME NEW c, NEW r, InTurn(s, c, r) PROVE InTurn(t, c, r)
  <2> SUFFICES ASSUME NEW i \in DOMAIN t, NEW j \in DOMAIN t,
                      i < j, t[j].job # "replace", Has(t[j].msgs, c, r)
               PROVE  ~Has(t[i].msgs, c, r)
    BY DEF InTurn
  <2>1. f[i] < f[j] /\ f[i] \in DOMAIN s /\ f[j] \in DOMAIN s /\ t[i] = s[f[i]] /\ t[j] = s[f[j]]
    BY <1>4, <1>5
  <2> QED
    BY <1>10, <2>1, Zenon DEF InTurn
<1>11. \A c, r : /\ Carries(t, c, r) => Carries(s, c, r)
                 /\ Sends(t, c, r) => Sends(s, c, r)
                 /\ Singles(s, c, r) => Singles(t, c, r)
                 /\ InTurn(s, c, r) => InTurn(t, c, r)
  BY <1>7, <1>8, <1>9, <1>10
<1> QED
  BY <1>6, <1>11 DEF t

\* A queue without its head, which was in turn.
LEMMA EventsTail ==
  ASSUME NEW q, Lined(q), q # <<>>
  PROVE  /\ Lined(Tail(q)) /\ Head(q) \in Event
         /\ Proper(Head(q))
         /\ \A c, r :
              /\ Carries(Tail(q), c, r) => Carries(q, c, r)
              /\ Sends(Tail(q), c, r) => Sends(q, c, r)
              /\ Singles(q, c, r) => Singles(Tail(q), c, r) /\ Single(Head(q).msgs, c, r)
              /\ Has(Head(q).msgs, c, r) => Carries(q, c, r)
              /\ Has(Head(q).msgs, c, r) /\ Head(q).job # "replace" => Sends(q, c, r)
              /\ InTurn(q, c, r) => InTurn(Tail(q), c, r)
              /\ InTurn(q, c, r) /\ Has(Head(q).msgs, c, r) => ~Sends(Tail(q), c, r)
<1> DEFINE t == Tail(q)
<1>0. q \in Seq(Event) /\ OneEach(q)
  BY DEF Lined
<1>1. /\ t \in Seq(Event) /\ Head(q) = q[1] /\ Head(q) \in Event /\ 1 \in DOMAIN q
      /\ \A i \in DOMAIN t : i \in Int /\ i > 0 /\ i + 1 \in DOMAIN q /\ t[i] = q[i + 1]
             /\ 1 < i + 1
  BY <1>0
<1> HIDE DEF t
<1>2. Lined(t)
  BY <1>0, <1>1, Zenon DEF Lined, OneEach
<1>3. Proper(Head(q))
  BY <1>0, <1>1, Zenon DEF OneEach
<1>4. ASSUME NEW c, NEW r
      PROVE  /\ Carries(t, c, r) => Carries(q, c, r)
             /\ Sends(t, c, r) => Sends(q, c, r)
             /\ Has(Head(q).msgs, c, r) => Carries(q, c, r)
             /\ Has(Head(q).msgs, c, r) /\ Head(q).job # "replace" => Sends(q, c, r)
  <2>1. Carries(t, c, r) => Carries(q, c, r)
    BY <1>1, Zenon DEF Carries
  <2>2. Sends(t, c, r) => Sends(q, c, r)
    BY <1>1, Zenon DEF Sends
  <2>3. Has(Head(q).msgs, c, r) => Carries(q, c, r)
    BY <1>1, Zenon DEF Carries
  <2>4. Has(Head(q).msgs, c, r) /\ Head(q).job # "replace" => Sends(q, c, r)
    BY <1>1, Zenon DEF Sends
  <2> QED
    BY <2>1, <2>2, <2>3, <2>4
<1>5. ASSUME NEW c, NEW r, Singles(q, c, r) PROVE Singles(t, c, r) /\ Single(Head(q).msgs, c, r)
  BY <1>1, <1>5, Zenon DEF Singles
<1>6. ASSUME NEW c, NEW r, InTurn(q, c, r) PROVE InTurn(t, c, r)
  <2> SUFFICES ASSUME NEW i \in DOMAIN t, NEW j \in DOMAIN t,
                      i < j, t[j].job # "replace", Has(t[j].msgs, c, r)
               PROVE  ~Has(t[i].msgs, c, r)
    BY DEF InTurn
  <2>1. i + 1 < j + 1 /\ i + 1 \in DOMAIN q /\ j + 1 \in DOMAIN q /\ t[i] = q[i + 1]
            /\ t[j] = q[j + 1]
    BY <1>1
  <2> QED
    BY <1>6, <2>1, Zenon DEF InTurn
<1>7. ASSUME NEW c, NEW r, InTurn(q, c, r), Has(Head(q).msgs, c, r) PROVE ~Sends(t, c, r)
  <2> SUFFICES ASSUME NEW j \in DOMAIN t, t[j].job # "replace", Has(t[j].msgs, c, r) PROVE FALSE
    BY DEF Sends
  <2>1. 1 < j + 1 /\ j + 1 \in DOMAIN q /\ t[j] = q[j + 1]
    BY <1>1
  <2> QED
    BY <1>1, <1>7, <2>1, Zenon DEF InTurn
<1>8. \A c, r :
        /\ Carries(t, c, r) => Carries(q, c, r)
        /\ Sends(t, c, r) => Sends(q, c, r)
        /\ Singles(q, c, r) => Singles(t, c, r) /\ Single(Head(q).msgs, c, r)
        /\ Has(Head(q).msgs, c, r) => Carries(q, c, r)
        /\ Has(Head(q).msgs, c, r) /\ Head(q).job # "replace" => Sends(q, c, r)
        /\ InTurn(q, c, r) => InTurn(t, c, r)
        /\ InTurn(q, c, r) /\ Has(Head(q).msgs, c, r) => ~Sends(t, c, r)
  <2> TAKE c, r
  <2> QED
    BY <1>4, <1>5, <1>6, <1>7
<1> QED
  BY <1>1, <1>2, <1>3, <1>8 DEF t

\* A queue of one job.
LEMMA EventsOne ==
  ASSUME NEW e \in Event, Proper(e)
  PROVE  /\ Lined(<<e>>)
         /\ \A c, r :
              /\ Carries(<<e>>, c, r) <=> Has(e.msgs, c, r)
              /\ Sends(<<e>>, c, r) <=> Has(e.msgs, c, r) /\ e.job # "replace"
              /\ Singles(<<e>>, c, r) <=> Single(e.msgs, c, r)
              /\ InTurn(<<e>>, c, r)
<1> DEFINE s == <<e>>
<1>1. s \in Seq(Event) /\ 1 \in DOMAIN s /\ s[1] = e /\ \A i \in DOMAIN s : i = 1
  OBVIOUS
<1>2. ~(1 < 1)
  OBVIOUS
<1> HIDE DEF s
<1>3. Lined(s)
  BY <1>1, Zenon DEF Lined, OneEach
<1>4. ASSUME NEW c, NEW r
      PROVE  /\ Carries(s, c, r) <=> Has(e.msgs, c, r)
             /\ Sends(s, c, r) <=> Has(e.msgs, c, r) /\ e.job # "replace"
             /\ Singles(s, c, r) <=> Single(e.msgs, c, r)
             /\ InTurn(s, c, r)
  <2>1. Carries(s, c, r) <=> Has(e.msgs, c, r)
    BY <1>1, Zenon DEF Carries
  <2>2. Sends(s, c, r) <=> Has(e.msgs, c, r) /\ e.job # "replace"
    BY <1>1, Zenon DEF Sends
  <2>3. Singles(s, c, r) <=> Single(e.msgs, c, r)
    BY <1>1, Zenon DEF Singles
  <2>4. InTurn(s, c, r)
    BY <1>1, <1>2, Zenon DEF InTurn
  <2> QED
    BY <2>1, <2>2, <2>3, <2>4
<1> QED
  BY <1>3, <1>4 DEF s

\* The messages of a list, each sent by a job of its own.
SentOne(msgs) == [i \in DOMAIN msgs |-> Appended(msgs[i])]

\* They carry what the list has.
LEMMA EventsSent ==
  ASSUME NEW msgs \in Seq(Message)
  PROVE  /\ Lined(SentOne(msgs))
         /\ \A c, r :
              /\ Carries(SentOne(msgs), c, r) <=> Has(msgs, c, r)
              /\ Sends(SentOne(msgs), c, r) => Has(msgs, c, r)
              /\ Singles(SentOne(msgs), c, r)
              /\ Single(msgs, c, r) => InTurn(SentOne(msgs), c, r)
<1> DEFINE s == SentOne(msgs)
<1>1. ASSUME NEW m \in Message
      PROVE  /\ Appended(m) \in Event /\ Appended(m).job = "append"
             /\ Appended(m).msgs = <<m>> /\ Proper(Appended(m))
  BY DEF Appended, Event, Proper
<1>2. /\ DOMAIN s = DOMAIN msgs /\ DOMAIN msgs = 1..Len(msgs)
      /\ \A i \in DOMAIN s : msgs[i] \in Message /\ s[i] = Appended(msgs[i])
  BY DEF SentOne
<1>3. s \in Seq(Event)
  <2>1. \A i \in 1..Len(msgs) : Appended(msgs[i]) \in Event
    BY <1>1
  <2> QED
    BY <1>2, <2>1 DEF SentOne
<1> HIDE DEF s
<1>4. Lined(s)
  BY <1>1, <1>2, <1>3, Zenon DEF Lined, OneEach
<1>5. ASSUME NEW c, NEW r, NEW i \in DOMAIN s
      PROVE  (Has(s[i].msgs, c, r) <=> Bears(msgs[i], c, r)) /\ Single(s[i].msgs, c, r)
  <2>1. msgs[i] \in Message /\ s[i].msgs = <<msgs[i]>>
    BY <1>1, <1>2
  <2> QED
    BY <2>1, HasOne
<1>6. ASSUME NEW c, NEW r
      PROVE  /\ Carries(s, c, r) <=> Has(msgs, c, r)
             /\ Sends(s, c, r) => Has(msgs, c, r)
             /\ Singles(s, c, r)
             /\ Single(msgs, c, r) => InTurn(s, c, r)
  <2>1. Carries(s, c, r) <=> Has(msgs, c, r)
    BY <1>2, <1>5, Zenon DEF Carries, Has
  <2>2. Sends(s, c, r) => Carries(s, c, r)
    BY Zenon DEF Sends, Carries
  <2>3. Singles(s, c, r)
    BY <1>5, Zenon DEF Singles
  <2>4. ASSUME Single(msgs, c, r) PROVE InTurn(s, c, r)
    <3> SUFFICES ASSUME NEW i \in DOMAIN s, NEW j \in DOMAIN s, i < j,
                        Has(s[j].msgs, c, r), Has(s[i].msgs, c, r)
                 PROVE  FALSE
      BY DEF InTurn
    <3>1. Bears(msgs[i], c, r) /\ Bears(msgs[j], c, r)
      BY <1>5
    <3>2. i = j
      BY <1>2, <2>4, <3>1, Zenon DEF Single
    <3>3. i \in Nat
      BY <1>2
    <3> QED
      BY <3>2, <3>3
  <2> QED
    BY <2>1, <2>2, <2>3, <2>4
<1>7. \A c, r : /\ Carries(s, c, r) <=> Has(msgs, c, r)
                /\ Sends(s, c, r) => Has(msgs, c, r)
                /\ Singles(s, c, r)
                /\ Single(msgs, c, r) => InTurn(s, c, r)
  BY <1>6
<1> QED
  BY <1>4, <1>7 DEF s

-----------------------------------------------------------------------------
(***************************************************************************)
(* The type invariant, and what it lets the actions say.                   *)
(***************************************************************************)

HistoryTypeOK ==
  /\ file \in Seq(Message) /\ context \in Seq(Message)
  /\ Lined(pool) /\ Lined(queue)
  /\ repairs \in Seq(AllCalls) /\ owed \subseteq AllCalls
  /\ asks \in Nat /\ asked \in 0..Len(Batches)
  /\ tail \in {"clean", "bare", "torn"}
  /\ saved \subseteq [msgs : Seq(Message), tail : {"clean", "bare", "torn"}]
  /\ run \in {"none", "spawning", "idle", "streaming", "tools", "marking", "winding", "parting"}

\* Calls are owed while a batch runs, and they are of the batch asked for last.
Owing == owed # {} => run = "tools" /\ asked # 0 /\ owed \subseteq ToSet(Batches[asked])
\* Made-up results wait for the pool while the agent is spawned.
Mending == repairs # <<>> => run = "spawning"
Typed == HistoryTypeOK /\ Owing /\ Mending

\* Some of s, in its order, has come behind q.
Reaches(q, s, rest) == \E I : rest = q \o At(s, I)

\* What then holds of the queue.
LEMMA ReachesFacts ==
  ASSUME NEW q, NEW s, NEW rest, Lined(q), Lined(s), Reaches(q, s, rest)
  PROVE  /\ Lined(rest)
         /\ \A c, r :
              /\ Carries(rest, c, r) => Carries(q, c, r) \/ Carries(s, c, r)
              /\ Sends(rest, c, r) => Sends(q, c, r) \/ Sends(s, c, r)
              /\ Singles(q, c, r) /\ Singles(s, c, r) => Singles(rest, c, r)
              /\ InTurn(q, c, r) /\ InTurn(s, c, r) /\ (Sends(s, c, r) => ~Carries(q, c, r))
                   => InTurn(rest, c, r)
<1>1. PICK I : rest = q \o At(s, I)
  BY DEF Reaches
<1>2. PICK t : t = At(s, I)
  OBVIOUS
<1>3. /\ Lined(t)
      /\ \A c, r : /\ Carries(t, c, r) => Carries(s, c, r)
                   /\ Sends(t, c, r) => Sends(s, c, r)
                   /\ Singles(s, c, r) => Singles(t, c, r)
                   /\ InTurn(s, c, r) => InTurn(t, c, r)
  BY <1>2, EventsAt
<1>4. /\ Lined(rest)
      /\ \A c, r :
           /\ Carries(rest, c, r) => Carries(q, c, r) \/ Carries(t, c, r)
           /\ Sends(rest, c, r) => Sends(q, c, r) \/ Sends(t, c, r)
           /\ Singles(q, c, r) /\ Singles(t, c, r) => Singles(rest, c, r)
           /\ InTurn(q, c, r) /\ InTurn(t, c, r) /\ (Sends(t, c, r) => ~Carries(q, c, r))
                => InTurn(rest, c, r)
  BY <1>1, <1>2, <1>3, EventsConcat
<1> QED
  BY <1>3, <1>4

\* This is what Enqueued does.
LEMMA EnqueuedReaches ==
  ASSUME NEW q, NEW s, NEW rest, NEW max, Enqueued(q, s, rest, max)
  PROVE  Reaches(q, s, rest)
  BY Zenon DEF Enqueued, Reaches

\* A message said is the context's last, and may be the queue's.
LEMMA SayFacts ==
  ASSUME Typed, NEW base \in Seq(Message), NEW msgs \in Seq(Message), Say(base, msgs)
  PROVE  /\ context' = base \o msgs /\ context' \in Seq(Message)
         /\ Reaches(queue, SentOne(msgs), queue')
         /\ Lined(queue')
<1>1. context' = base \o msgs /\ context' \in Seq(Message)
  BY DEF Say
<1>2. Reaches(queue, SentOne(msgs), queue')
  BY EnqueuedReaches DEF Say, Publish, SentOne
<1>3. Lined(queue)
  BY DEF Typed, HistoryTypeOK
<1>4. Lined(SentOne(msgs))
  BY EventsSent
<1>5. Lined(queue')
  BY <1>2, <1>3, <1>4, ReachesFacts
<1> QED
  BY <1>1, <1>2, <1>5

\* An event published may be the queue's last.
LEMMA PublishFacts ==
  ASSUME Typed, NEW e \in Event, Proper(e), Publish(<<e>>)
  PROVE  Reaches(queue, <<e>>, queue') /\ Lined(queue')
<1>1. Reaches(queue, <<e>>, queue')
  BY EnqueuedReaches DEF Publish
<1>2. Lined(queue) /\ Lined(<<e>>)
  BY EventsOne DEF Typed, HistoryTypeOK
<1>3. Lined(queue')
  BY <1>1, <1>2, ReachesFacts
<1> QED
  BY <1>1, <1>3

\* The events the agent publishes are events.
LEMMA EventKinds ==
  /\ \A msgs \in Seq(Message) : Replaced(msgs) \in Event /\ Proper(Replaced(msgs))
                                /\ Replaced(msgs).msgs = msgs /\ Replaced(msgs).job = "replace"
  /\ \A c \in AllCalls : Noted(c) \in Event /\ Proper(Noted(c)) /\ Noted(c).msgs = <<Metadata(c)>>
<1>1. \A msgs \in Seq(Message) : Replaced(msgs) \in Event /\ Proper(Replaced(msgs))
                                /\ Replaced(msgs).msgs = msgs /\ Replaced(msgs).job = "replace"
  BY DEF Replaced, Event, Proper
<1>2. ASSUME NEW c \in AllCalls
      PROVE  Noted(c) \in Event /\ Proper(Noted(c)) /\ Noted(c).msgs = <<Metadata(c)>>
  <2>1. PICK m \in Message : m = Metadata(c) /\ m.role = "internal"
    BY Kinds
  <2>2. Noted(c) = [job |-> "metadata", msgs |-> <<m>>]
    BY <2>1 DEF Noted
  <2> QED
    BY <2>1, <2>2 DEF Event, Proper
<1> QED
  BY <1>1, <1>2

\* Sanitizing takes some of the messages, in their order.
LEMMA SanitizeAt ==
  ASSUME NEW msgs
  PROVE  \E I : Sanitize(msgs) = At(msgs, I)
  BY Zenon DEF Sanitize

\* So it brings nothing new.
LEMMA SanitizeFacts ==
  ASSUME NEW msgs \in Seq(Message)
  PROVE  /\ Sanitize(msgs) \in Seq(Message)
         /\ \A c, r : /\ Has(Sanitize(msgs), c, r) => Has(msgs, c, r)
                      /\ Single(msgs, c, r) => Single(Sanitize(msgs), c, r)
<1>1. PICK I : Sanitize(msgs) = At(msgs, I)
  BY SanitizeAt
<1>2. ASSUME NEW c, NEW r
      PROVE  /\ At(msgs, I) \in Seq(Message)
             /\ Has(At(msgs, I), c, r) => Has(msgs, c, r)
             /\ Single(msgs, c, r) => Single(At(msgs, I), c, r)
  BY HasAt
<1> QED
  BY <1>1, <1>2

\* The cancelled results answer calls owed, each once.
LEMMA CancelledFacts ==
  ASSUME Typed
  PROVE  /\ Cancelled \in Seq(Message)
         /\ \A c, r : /\ Has(Cancelled, c, r) => r = "tool" /\ c \in owed
                      /\ Single(Cancelled, c, r)
<1>1. PICK calls : calls = IF owed = {} THEN <<>> ELSE Batches[asked]
  OBVIOUS
<1>2. calls \in Seq(AllCalls) /\ Distinct(calls)
  <2>1. CASE owed = {}
    BY <1>1, <2>1, CallListFacts
  <2>2. CASE owed # {}
    <3>1. asked \in 1..Len(Batches)
      BY <2>2 DEF Typed, HistoryTypeOK, Owing
    <3>2. asked \in DOMAIN Batches
      BY <3>1, HistoryAssumption
    <3> QED
      BY <1>1, <2>2, <3>2, CallListFacts
  <2> QED
    BY <2>1, <2>2
<1>3. PICK I : I = {i \in DOMAIN calls : calls[i] \in owed}
  OBVIOUS
<1>4. PICK left : left = At(calls, I)
  OBVIOUS
<1>5. Cancelled = [i \in DOMAIN left |-> Result(left[i], FALSE)]
  BY <1>1, <1>3, <1>4, Zenon DEF Cancelled
<1>6. left \in Seq(AllCalls) /\ \E f : Chosen(f, left, calls, I, Len(calls))
  BY <1>2, <1>4, AtChosen
<1>7. PICK f : Chosen(f, left, calls, I, Len(calls))
  BY <1>6
<1>8. /\ DOMAIN left = 1..Len(left) /\ Len(left) \in Nat /\ Len(f) = Len(left)
      /\ \A a \in 1..Len(left) : f[a] \in I /\ f[a] \in DOMAIN calls /\ left[a] = calls[f[a]]
             /\ f[a] \in Nat
      /\ \A a, b \in 1..Len(left) : a < b => f[a] < f[b]
  BY <1>2, <1>6, <1>7 DEF Chosen
<1>9. PICK none : none = FALSE /\ none \in BOOLEAN
  OBVIOUS
<1>10. \A i \in DOMAIN left : /\ left[i] \in AllCalls /\ left[i] \in owed
                              /\ Cancelled[i] = Result(left[i], none)
                              /\ Cancelled[i] \in Message
  <2> TAKE i \in DOMAIN left
  <2>1. left[i] \in AllCalls /\ left[i] \in owed
    BY <1>3, <1>6, <1>8
  <2>2. Cancelled[i] = Result(left[i], none)
    BY <1>5, <1>9
  <2>3. Result(left[i], none) \in Message
    BY <1>9, <2>1, Kinds
  <2> QED
    BY <2>1, <2>2, <2>3
<1>11. DOMAIN Cancelled = DOMAIN left /\ Cancelled \in Seq(Message)
  <2>1. PICK n \in Nat : n = Len(left) /\ DOMAIN left = 1..n
    BY <1>8
  <2>2. DOMAIN Cancelled = 1..n
    BY <1>5, <2>1
  <2>3. Cancelled = [i \in 1..n |-> Cancelled[i]]
    BY <1>5, <2>1
  <2>4. \A i \in 1..n : Cancelled[i] \in Message
    BY <1>10, <2>1
  <2> HIDE DEF Cancelled
  <2>5. Cancelled \in [1..n -> Message]
    BY <2>3, <2>4, Zenon
  <2> QED
    BY <2>1, <2>2, <2>5
<1>12. \A c, r : \A i \in DOMAIN left : Bears(Cancelled[i], c, r) => r = "tool" /\ c = left[i]
  <2> TAKE c, r
  <2> TAKE i \in DOMAIN left
  <2>1. left[i] \in AllCalls /\ Cancelled[i] = Result(left[i], none)
    BY <1>10
  <2>2. PICK m : m = Result(left[i], none)
    OBVIOUS
  <2>3. m.role = "tool" /\ m.call = left[i]
    BY <1>9, <2>1, <2>2, Kinds
  <2>4. Cancelled[i] = m
    BY <2>1, <2>2
  <2> HIDE DEF Cancelled
  <2> QED
    BY <2>3, <2>4 DEF Bears
<1>13. \A c, r : Has(Cancelled, c, r) => r = "tool" /\ c \in owed
  BY <1>10, <1>11, <1>12, Zenon DEF Has
<1>14. \A c, r : Single(Cancelled, c, r)
  <2> TAKE c, r
  <2> SUFFICES ASSUME NEW a \in DOMAIN left, NEW b \in DOMAIN left,
                      Bears(Cancelled[a], c, r), Bears(Cancelled[b], c, r)
               PROVE  a = b
    BY <1>11 DEF Single
  <2>1. left[a] = left[b]
    BY <1>12, Zenon
  <2>2. /\ a \in 1..Len(left) /\ b \in 1..Len(left) /\ a \in Nat /\ b \in Nat
        /\ f[a] \in DOMAIN calls /\ f[b] \in DOMAIN calls /\ f[a] \in Nat /\ f[b] \in Nat
        /\ calls[f[a]] = calls[f[b]]
    BY <1>8, <2>1
  <2>3. f[a] = f[b]
    BY <1>2, <2>2 DEF Distinct
  <2>4. (a < b => f[a] < f[b]) /\ (b < a => f[b] < f[a])
    BY <1>8, <2>2
  <2> QED
    BY <2>2, <2>3, <2>4
<1> QED
  BY <1>11, <1>13, <1>14

\* A queue that takes in some of a list stays a queue.
LEMMA EnqueuedFacts ==
  ASSUME NEW q, NEW s, NEW rest, NEW max, Lined(q), Lined(s), Enqueued(q, s, rest, max)
  PROVE  Reaches(q, s, rest) /\ Lined(rest)
  BY EnqueuedReaches, ReachesFacts

\* The metadata at the head of the queue, made a message.
LEMMA NoteFacts ==
  ASSUME NEW q, Lined(q), q # <<>>, Head(q).job = "metadata", NEW e,
         e = [Head(q) EXCEPT !.job = "append"]
  PROVE  /\ e \in Event /\ Proper(e) /\ Lined(<<e>>)
         /\ \A c, r : ~Has(e.msgs, c, r)
<1>1. Head(q) \in Event /\ Proper(Head(q))
  BY EventsTail
<1>2. PICK h \in Event : h = Head(q) /\ Proper(h) /\ h.job = "metadata"
               /\ e = [h EXCEPT !.job = "append"]
  BY <1>1
<1>3. e \in Event /\ Proper(e) /\ e.msgs = h.msgs
  BY <1>2 DEF Event, Proper
<1>4. /\ e.msgs \in Seq(Message) /\ Len(e.msgs) = 1 /\ e.msgs[1].role = "internal"
      /\ \A i \in DOMAIN e.msgs : i = 1
  BY <1>2, <1>3 DEF Event, Proper
<1>5. \A c, r : ~Has(e.msgs, c, r)
  BY <1>4 DEF Has, Bears
<1> QED
  BY <1>3, <1>5, EventsOne

\* What the pool's worker finds at its head.
LEMMA HeadFacts ==
  ASSUME NEW q, Lined(q), q # <<>>
  PROVE  /\ Head(q).msgs \in Seq(Message)
         /\ Head(q).job # "replace" =>
              /\ Head(q).msgs[1] \in Message
              /\ \A c, r : Bears(Head(q).msgs[1], c, r) => Has(Head(q).msgs, c, r)
<1>1. PICK h \in Event : h = Head(q) /\ Proper(h)
  BY EventsTail
<1>2. h.msgs \in Seq(Message)
  BY DEF Event
<1>3. ASSUME h.job # "replace" PROVE 1 \in DOMAIN h.msgs /\ h.msgs[1] \in Message
  BY <1>1, <1>2, <1>3 DEF Proper
<1>4. ASSUME h.job # "replace" PROVE \A c, r : Bears(h.msgs[1], c, r) => Has(h.msgs, c, r)
  BY <1>3, <1>4, Zenon DEF Has
<1> QED
  BY <1>1, <1>2, <1>3, <1>4

\* A file never gets longer than by one message; a line glued to a bare tail takes it along.
LEMMA GluedFacts ==
  ASSUME Typed
  PROVE  /\ Glued \in Seq(Message)
         /\ \A c, r : /\ Has(Glued, c, r) => Has(file, c, r)
                      /\ Single(file, c, r) => Single(Glued, c, r)
<1>1. file \in Seq(Message)
  BY DEF Typed, HistoryTypeOK
<1>2. PICK n \in Int : n = Len(file) - 1 /\ n <= Len(file)
  <2>1. Len(file) - 1 \in Int /\ Len(file) - 1 <= Len(file)
    BY <1>1
  <2> QED
    BY <2>1
<1>3. Front(file) = SubSeq(file, 1, n)
  BY <1>2 DEF Front
<1>4. \A c, r : /\ Front(file) \in Seq(Message)
                /\ Has(Front(file), c, r) => Has(file, c, r)
                /\ Single(file, c, r) => Single(Front(file), c, r)
  BY <1>1, <1>2, <1>3, HasPrefix
<1>5. Glued = Front(file) \/ Glued = file
  BY DEF Glued
<1>6. Front(file) \in Seq(Message)
  BY <1>4
<1> QED
  BY <1>1, <1>4, <1>5, <1>6

\* A line appended is at most the one message more.
LEMMA AppendLineFacts ==
  ASSUME Typed, NEW m \in Message, AppendLine(m)
  PROVE  /\ file' \in Seq(Message) /\ tail' = "clean"
         /\ \A c, r : /\ Has(file', c, r) => Has(file, c, r) \/ Bears(m, c, r)
                      /\ Single(file, c, r) /\ (Bears(m, c, r) => ~Has(file, c, r))
                             => Single(file', c, r)
<1>1. file \in Seq(Message)
  BY DEF Typed, HistoryTypeOK
<1>2. tail' = "clean" /\ (file' = Append(file, m) \/ file' = Glued)
  BY DEF AppendLine
<1>3. CASE file' = Append(file, m)
  BY <1>1, <1>2, <1>3, HasAppend
<1>4. CASE file' = Glued
  BY <1>2, <1>4, GluedFacts
<1> QED
  BY <1>2, <1>3, <1>4

\* A snapshot put back brings its own messages.
LEMMA RestoreFacts ==
  ASSUME Typed, NEW snap \in saved, NEW n \in 0..Len(snap.msgs), NEW t, Restore(snap, n, t)
  PROVE  /\ snap.msgs \in Seq(Message)
         /\ file' \in Seq(Message) /\ tail' = t
         /\ \A c, r : /\ Has(file', c, r) => Has(snap.msgs, c, r)
                      /\ Single(snap.msgs, c, r) => Single(file', c, r)
<1>1. snap.msgs \in Seq(Message)
  BY DEF Typed, HistoryTypeOK
<1>2. PICK msgs \in Seq(Message) : msgs = snap.msgs
  BY <1>1
<1>3. n \in Int /\ n <= Len(msgs)
  BY <1>2
<1>4. file' = SubSeq(msgs, 1, n) /\ tail' = t
  BY <1>2 DEF Restore
<1> QED
  BY <1>1, <1>2, <1>3, <1>4, HasPrefix

\* The results a spawn made up, as the messages sent.
LEMMA RepairFacts ==
  ASSUME Typed
  PROVE  \E t \in Seq(Message) :
           /\ DOMAIN t = DOMAIN repairs
           /\ SentOne(t) = [i \in DOMAIN repairs |-> Appended(Result(repairs[i], TRUE))]
           /\ \A i \in DOMAIN t : t[i].role = "tool" /\ t[i].call = repairs[i]
<1>1. repairs \in Seq(AllCalls)
  BY DEF Typed, HistoryTypeOK
<1>2. PICK yes : yes = TRUE /\ yes \in BOOLEAN
  OBVIOUS
<1>3. PICK n \in Nat : DOMAIN repairs = 1..n /\ n = Len(repairs)
  BY <1>1
<1>4. PICK t : t = [i \in DOMAIN repairs |-> Result(repairs[i], yes)]
  OBVIOUS
<1>5. \A i \in DOMAIN repairs :
        /\ t[i] = Result(repairs[i], yes) /\ t[i] \in Message
        /\ t[i].role = "tool" /\ t[i].call = repairs[i]
  <2> TAKE i \in DOMAIN repairs
  <2>1. repairs[i] \in AllCalls
    BY <1>1
  <2>2. t[i] = Result(repairs[i], yes)
    BY <1>4
  <2>3. /\ Result(repairs[i], yes) \in Message /\ Result(repairs[i], yes).role = "tool"
        /\ Result(repairs[i], yes).call = repairs[i]
    BY <1>2, <2>1, Kinds
  <2> QED
    BY <2>2, <2>3
<1>6. DOMAIN t = DOMAIN repairs
  BY <1>4
<1>7. t \in Seq(Message)
  <2>1. t = [i \in 1..n |-> t[i]] /\ \A i \in 1..n : t[i] \in Message
    BY <1>3, <1>4, <1>5
  <2>2. t \in [1..n -> Message]
    BY <2>1, Zenon
  <2> QED
    BY <2>2
<1>8. SentOne(t) = [i \in DOMAIN repairs |-> Appended(Result(repairs[i], TRUE))]
  <2>1. \A i \in DOMAIN repairs : Appended(t[i]) = Appended(Result(repairs[i], TRUE))
    BY <1>2, <1>5
  <2> QED
    BY <1>6, <2>1, Zenon DEF SentOne
<1> QED
  BY <1>5, <1>6, <1>7, <1>8

\* The types hold at the start,
LEMMA TypedInit ==
  ASSUME HistoryInit
  PROVE  Typed
<1>1. <<>> \in Seq(Message) /\ <<>> \in Seq(AllCalls) /\ Lined(<<>>)
  BY HasNone DEF Lined
<1>2. 0 \in Nat /\ 0 \in 0..Len(Batches)
  BY HistoryAssumption
<1>3. HistoryTypeOK
  BY <1>1, <1>2 DEF HistoryInit, HistoryTypeOK
<1>4. Owing /\ Mending
  BY DEF HistoryInit, Owing, Mending
<1> QED
  BY <1>3, <1>4 DEF Typed

\* The messages the agent says in an action are messages.
LEMMA SaidMessages ==
  /\ \A n \in Nat : <<User(n)>> \in Seq(Message)
  /\ \A l \in CallLists : <<Assistant(l)>> \in Seq(Message)
  /\ \A c \in AllCalls : <<Result(c, FALSE)>> \in Seq(Message)
  /\ \A msgs \in Seq(Message) : Append(msgs, Marker) \in Seq(Message)
<1>1. PICK no : no = FALSE /\ no \in BOOLEAN
  OBVIOUS
<1>2. \A n \in Nat : <<User(n)>> \in Seq(Message)
  <2> TAKE n \in Nat
  <2>1. PICK m \in Message : m = User(n)
    BY Kinds
  <2> QED
    BY <2>1
<1>3. \A l \in CallLists : <<Assistant(l)>> \in Seq(Message)
  <2> TAKE l \in CallLists
  <2>1. PICK m \in Message : m = Assistant(l)
    BY Kinds
  <2> QED
    BY <2>1
<1>4. \A c \in AllCalls : <<Result(c, FALSE)>> \in Seq(Message)
  <2> TAKE c \in AllCalls
  <2>1. PICK m \in Message : m = Result(c, no)
    BY <1>1, Kinds
  <2>2. m = Result(c, FALSE)
    BY <1>1, <2>1, Zenon
  <2>3. <<m>> \in Seq(Message)
    BY <2>1
  <2> QED
    BY <2>2, <2>3, Zenon
<1>5. \A msgs \in Seq(Message) : Append(msgs, Marker) \in Seq(Message)
  <2>1. PICK m \in Message : m = Marker
    BY MarkerKind
  <2> QED
    BY <2>1
<1> QED
  BY <1>2, <1>3, <1>4, <1>5

\* are kept by the agent's turns,
LEMMA AgentTypes ==
  ASSUME Typed, Ask \/ Reply \/ Answer \/ Interrupt \/ Shutdown \/ WindDown \/ Leave \/ Clear
  PROVE  Typed'
<1>0. /\ context \in Seq(Message) /\ <<>> \in CallLists
      /\ Sanitize(context) \in Seq(Message)
      /\ Cancelled \in Seq(Message) /\ Append(Cancelled, Marker) \in Seq(Message)
  <2>1. context \in Seq(Message)
    BY DEF Typed, HistoryTypeOK
  <2> QED
    BY <2>1, SanitizeFacts, CancelledFacts, CallListFacts, SaidMessages
<1>1. CASE Ask
  <2>1. asks + 1 \in Nat
    BY DEF Typed, HistoryTypeOK
  <2>2. <<User(asks + 1)>> \in Seq(Message)
    BY <2>1, SaidMessages
  <2>3. Say(context, <<User(asks + 1)>>)
    BY <1>1 DEF Ask
  <2>4. context' \in Seq(Message) /\ Lined(queue')
    BY <1>0, <2>2, <2>3, SayFacts
  <2> QED
    BY <1>1, <2>1, <2>4 DEF Typed, HistoryTypeOK, Owing, Mending, Ask, disk
<1>2. CASE Reply
  <2>1. asked + 1 \in 1..Len(Batches) /\ asked + 1 \in 0..Len(Batches) /\ asked + 1 # 0
    BY <1>2, HistoryAssumption DEF Typed, HistoryTypeOK, Reply
  <2>2. asked + 1 \in DOMAIN Batches
    BY <2>1, HistoryAssumption
  <2>3. Batches[asked + 1] \in CallLists /\ ToSet(Batches[asked + 1]) \subseteq AllCalls
    BY <2>2, CallListFacts DEF AllCalls
  <2>4. <<Assistant(Batches[asked + 1])>> \in Seq(Message)
    BY <2>3, SaidMessages
  <2>5. Say(Sanitize(context), <<Assistant(Batches[asked + 1])>>)
    BY <1>2 DEF Reply
  <2>6. context' \in Seq(Message) /\ Lined(queue')
    BY <1>0, <2>4, <2>5, SayFacts
  <2>7. owed = {}
    BY <1>2 DEF Typed, Owing, Reply
  <2>8. Owing'
    BY <1>2, <2>1, <2>7 DEF Owing, Reply
  <2>9. HistoryTypeOK'
    BY <1>2, <2>1, <2>3, <2>6 DEF Typed, HistoryTypeOK, Reply, disk
  <2>10. Mending'
    BY <1>2 DEF Typed, Mending, Reply
  <2> QED
    BY <2>8, <2>9, <2>10 DEF Typed
<1>3. CASE Answer
  <2>1. Say(Sanitize(context), <<Assistant(<<>>)>>) /\ <<Assistant(<<>>)>> \in Seq(Message)
    BY <1>0, <1>3, SaidMessages DEF Answer
  <2>2. context' \in Seq(Message) /\ Lined(queue')
    BY <1>0, <2>1, SayFacts
  <2> QED
    BY <1>3, <2>2 DEF Typed, HistoryTypeOK, Owing, Mending, Answer, disk
<1>4. CASE Interrupt
  <2>1. Say(context, Append(Cancelled, Marker))
    BY <1>4 DEF Interrupt
  <2>2. context' \in Seq(Message) /\ Lined(queue')
    BY <1>0, <2>1, SayFacts
  <2> QED
    BY <1>4, <2>2 DEF Typed, HistoryTypeOK, Owing, Mending, Interrupt, disk
<1>5. CASE Shutdown
  <2>1. Say(context, Cancelled)
    BY <1>5 DEF Shutdown
  <2>2. context' \in Seq(Message) /\ Lined(queue')
    BY <1>0, <2>1, SayFacts
  <2> QED
    BY <1>5, <2>2 DEF Typed, HistoryTypeOK, Owing, Mending, Shutdown, disk
<1>6. CASE Leave
  BY <1>6 DEF Typed, HistoryTypeOK, Owing, Mending, Leave, disk, counts, accounts
<1>7. CASE Clear
  <2>1. Publish(<<Replaced(<<>>)>>) /\ context' = <<>> /\ <<>> \in Seq(Message)
    BY <1>7 DEF Clear
  <2>2. Lined(queue')
    BY <2>1, EventKinds, PublishFacts
  <2> QED
    BY <1>7, <2>1, <2>2 DEF Typed, HistoryTypeOK, Owing, Mending, Clear, disk
<1>8. CASE WindDown
  <2>1. saved' \subseteq [msgs : Seq(Message), tail : {"clean", "bare", "torn"}]
    BY <1>8 DEF Typed, HistoryTypeOK, WindDown
  <2> QED
    BY <1>8, <2>1 DEF Typed, HistoryTypeOK, Owing, Mending, WindDown, disk, counts, accounts
<1> QED
  BY <1>1, <1>2, <1>3, <1>4, <1>5, <1>6, <1>7, <1>8

\* by its tools,
LEMMA CallTypes ==
  ASSUME Typed, NEW c \in AllCalls, Finish(c) \/ Note(c)
  PROVE  Typed'
<1>1. CASE Finish(c)
  <2>1. Say(context, <<Result(c, FALSE)>>) /\ <<Result(c, FALSE)>> \in Seq(Message)
    BY <1>1, SaidMessages DEF Finish
  <2>2. context' \in Seq(Message) /\ Lined(queue')
    BY <2>1, SayFacts DEF Typed, HistoryTypeOK
  <2>3. HistoryTypeOK'
    BY <1>1, <2>2 DEF Typed, HistoryTypeOK, Finish, disk
  <2>4. Owing'
    BY <1>1 DEF Typed, Owing, Finish
  <2>5. Mending'
    BY <1>1 DEF Typed, Mending, Finish
  <2> QED
    BY <2>3, <2>4, <2>5 DEF Typed
<1>2. CASE Note(c)
  <2>1. Publish(<<Noted(c)>>)
    BY <1>2 DEF Note
  <2>2. Lined(queue')
    BY <2>1, EventKinds, PublishFacts
  <2> QED
    BY <1>2, <2>2 DEF Typed, HistoryTypeOK, Owing, Mending, Note, disk, agent
<1> QED
  BY <1>1, <1>2

\* by a rewind,
LEMMA RewindTypes ==
  ASSUME Typed, NEW i \in 1..(Len(context) + 1), Rewind(i)
  PROVE  Typed'
<1>1. context \in Seq(Message) /\ i - 1 \in Int /\ i - 1 <= Len(context)
  BY DEF Typed, HistoryTypeOK
<1>2. SubSeq(context, 1, i - 1) \in Seq(Message)
  BY <1>1, HasPrefix
<1>3. context' \in Seq(Message) /\ Publish(<<Replaced(context')>>)
  BY <1>2 DEF Rewind
<1>4. Lined(queue')
  BY <1>3, EventKinds, PublishFacts
<1>5. file' \in Seq(Message) /\ tail' \in {"clean", "bare", "torn"}
  <2>1. CASE UNCHANGED <<file, tail, raced>>
    BY <2>1 DEF Typed, HistoryTypeOK
  <2>2. ASSUME NEW snap \in saved, Restore(snap, Len(snap.msgs), snap.tail)
        PROVE  file' \in Seq(Message) /\ tail' \in {"clean", "bare", "torn"}
    <3>1. snap.msgs \in Seq(Message) /\ snap.tail \in {"clean", "bare", "torn"}
      BY DEF Typed, HistoryTypeOK
    <3>2. Len(snap.msgs) \in 0..Len(snap.msgs)
      BY <3>1
    <3> QED
      BY <2>2, <3>1, <3>2, RestoreFacts
  <2> QED
    BY <2>1, <2>2 DEF Rewind
<1> QED
  BY <1>3, <1>4, <1>5 DEF Typed, HistoryTypeOK, Owing, Mending, Rewind

\* by one that breaks off,
LEMMA BreakOffTypes ==
  ASSUME Typed, BreakOff
  PROVE  Typed'
<1>1. PICK snap \in saved : \E n \in 0..Len(snap.msgs), t \in {"clean", "bare", "torn"} :
               Restore(snap, n, t)
  BY DEF BreakOff
<1>2. file' \in Seq(Message) /\ tail' \in {"clean", "bare", "torn"}
  BY <1>1, RestoreFacts
<1> QED
  BY <1>2 DEF Typed, HistoryTypeOK, Owing, Mending, BreakOff, agent

\* and on the path to the file and back.
LEMMA PathTypes ==
  ASSUME Typed, TakeEvent \/ Write \/ Mark \/ Crash \/ Respawn \/ Repair
  PROVE  Typed'
<1>0. /\ file \in Seq(Message) /\ context \in Seq(Message) /\ Lined(pool) /\ Lined(queue)
             /\ Lined(<<>>)
      /\ <<>> \in Seq(Message)
  BY HasNone DEF Typed, HistoryTypeOK, Lined
<1>1. CASE TakeEvent
  <2>1. queue # <<>>
    BY <1>1 DEF TakeEvent
  <2>2. Lined(queue') /\ Lined(pool')
    <3>1. CASE Head(queue).job = "metadata"
      <4>1. PICK e : e = [Head(queue) EXCEPT !.job = "append"]
        OBVIOUS
      <4>2. Enqueued(Tail(queue), <<e>>, queue', MaxQueue) /\ pool' = pool
        BY <1>1, <3>1, <4>1 DEF TakeEvent
      <4>3. Lined(<<e>>) /\ Lined(Tail(queue))
        BY <1>0, <2>1, <3>1, <4>1, NoteFacts, EventsTail
      <4> QED
        BY <1>0, <4>2, <4>3, EnqueuedFacts
    <3>2. CASE Head(queue).job # "metadata"
      <4>1. Enqueued(pool, <<Head(queue)>>, pool', MaxPool) /\ queue' = Tail(queue)
        BY <1>1, <3>2 DEF TakeEvent
      <4>2. Lined(<<Head(queue)>>) /\ Lined(Tail(queue))
        BY <1>0, <2>1, EventsTail, EventsOne
      <4> QED
        BY <1>0, <4>1, <4>2, EnqueuedFacts
    <3> QED
      BY <3>1, <3>2
  <2> QED
    BY <1>1, <2>2 DEF Typed, HistoryTypeOK, Owing, Mending, TakeEvent, agent
<1>2. CASE Write
  <2>1. pool # <<>> /\ pool' = Tail(pool)
    BY <1>2 DEF Write
  <2>2. Lined(pool')
    BY <1>0, <2>1, EventsTail
  <2>3. file' \in Seq(Message) /\ tail' = "clean"
    <3>1. CASE Head(pool).job = "replace"
      BY <1>0, <1>2, <2>1, <3>1, HeadFacts DEF Write
    <3>2. CASE Head(pool).job # "replace"
      <4>1. AppendLine(Head(pool).msgs[1]) /\ Head(pool).msgs[1] \in Message
        BY <1>0, <1>2, <2>1, <3>2, HeadFacts DEF Write
      <4> QED
        BY <4>1, AppendLineFacts
    <3> QED
      BY <3>1, <3>2
  <2> QED
    BY <1>2, <2>2, <2>3 DEF Typed, HistoryTypeOK, Owing, Mending, Write, agent, counts
<1>3. CASE Mark
  <2>1. PICK m \in Message : m = Marker
    BY MarkerKind
  <2>2. context' = Append(context, m)
    BY <1>3, <2>1 DEF Mark
  <2>3. context' \in Seq(Message)
    BY <1>0, <2>2
  <2>4. /\ file' \in Seq(Message) /\ tail' = "clean" /\ Lined(pool')
    <3>1. CASE AppendLine(Marker) /\ pool' = pool
      BY <1>0, <2>1, <3>1, AppendLineFacts
    <3>2. CASE pool # <<>> /\ pool' = Tail(pool) /\ file' = Glued /\ tail' = "clean"
      BY <1>0, <3>2, EventsTail, GluedFacts
    <3> QED
      BY <1>3, <3>1, <3>2 DEF Mark
  <2> QED
    BY <1>3, <2>3, <2>4 DEF Typed, HistoryTypeOK, Owing, Mending, Mark, counts
<1>4. CASE Crash
  <2>1. file' \in Seq(Message) /\ tail' \in {"clean", "bare", "torn"}
    <3>1. CASE UNCHANGED <<file, tail>>
      BY <3>1 DEF Typed, HistoryTypeOK
    <3>2. CASE file' = Glued /\ tail' = "torn"
      BY <3>2, GluedFacts
    <3>3. CASE pool # <<>> /\ Head(pool).job = "append" /\ tail' = "bare"
                   /\ file' = Append(file, Head(pool).msgs[1])
      <4>1. PICK m \in Message : m = Head(pool).msgs[1]
        BY <1>0, <3>3, HeadFacts
      <4>2. file' = Append(file, m)
        BY <3>3, <4>1
      <4> QED
        BY <1>0, <3>3, <4>2
    <3> QED
      BY <1>4, <3>1, <3>2, <3>3 DEF Crash
  <2>2. <<>> \in Seq(AllCalls)
    OBVIOUS
  <2> QED
    BY <1>0, <1>4, <2>1, <2>2 DEF Typed, HistoryTypeOK, Owing, Mending, Crash
<1>5. CASE Respawn
  <2>1. Close(file).out \in Seq(Message) /\ Close(file).made \in Seq(AllCalls)
    BY <1>0, CloseTypes DEF Closed
  <2>2. context' = Close(file).out /\ repairs' = Close(file).made
    BY <1>5, Zenon DEF Respawn
  <2>3. /\ UNCHANGED <<file, tail, saved, pool, queue, owed, asks, asked>>
        /\ run = "none" /\ run' = "spawning"
    BY <1>5 DEF Respawn, disk
  <2>4. HistoryTypeOK'
    BY <2>1, <2>2, <2>3 DEF Typed, HistoryTypeOK
  <2>5. Owing' /\ Mending'
    BY <2>3 DEF Typed, Owing, Mending
  <2> QED
    BY <2>4, <2>5 DEF Typed
<1>6. CASE Repair
  <2>1. PICK t \in Seq(Message) : SentOne(t) = [i \in DOMAIN repairs |->
                 Appended(Result(repairs[i], TRUE))]
    BY RepairFacts
  <2>2. Enqueued(pool, SentOne(t), pool', MaxPool)
    BY <1>6, <2>1 DEF Repair
  <2>3. Lined(pool')
    BY <1>0, <2>2, EventsSent, EnqueuedFacts
  <2>4. repairs' = <<>> /\ <<>> \in Seq(AllCalls)
    BY <1>6 DEF Repair
  <2> QED
    BY <1>6, <2>3, <2>4 DEF Typed, HistoryTypeOK, Owing, Mending, Repair
<1> QED
  BY <1>1, <1>2, <1>3, <1>4, <1>5, <1>6

\* So every step keeps them.
LEMMA TypedStep ==
  ASSUME Typed, [HistoryNext]_conversation
  PROVE  Typed'
<1>1. CASE UNCHANGED conversation
  BY <1>1 DEF Typed, HistoryTypeOK, Owing, Mending, conversation, disk, agent, counts
<1>2. CASE HistoryNext
  BY <1>2, AgentTypes, CallTypes, RewindTypes, BreakOffTypes, PathTypes DEF HistoryNext
<1> QED
  BY <1>1, <1>2

\* Whatever is lost on the way, the file and the context hold messages, the queues hold
\* events of one message each but for replacements, calls are owed only while their batch runs and
\* made-up results wait only while an agent is spawned (conductor.rs, persist_pool.rs).
THEOREM HistoryTypes == HistorySpec => []Typed
<1>1. HistoryInit => Typed
  BY TypedInit
<1>2. Typed /\ [HistoryNext]_conversation => Typed'
  BY TypedStep
<1> QED
  BY <1>1, <1>2, PTL DEF HistorySpec

\* For any batches, capacities, number of faults and respawns: closing the file the next
\* agent reads leaves every batch answered, unless the file holds a surplus result
\* (message_buffer.rs:122, close_dangling_tool_batches).
THEOREM HistoryTraces == HistorySpec => []TracesKept
<1>1. Typed => TracesKept
  <2> SUFFICES ASSUME Typed, Surplus(file) = {}, NEW i \in DOMAIN Closed(file),
                      Closed(file)[i].role = "assistant"
               PROVE  Whole(Closed(file), i)
    BY Zenon DEF TracesKept
  <2>1. file \in Seq(Message)
    BY DEF Typed, HistoryTypeOK
  <2>2. AllWhole(Closed(file))
    BY <2>1, ClosedWhole
  <2> QED
    BY <2>2 DEF AllWhole
<1> QED
  BY <1>1, HistoryTypes, PTL

-----------------------------------------------------------------------------
(***************************************************************************)
(* The inductive invariant behind AnsweredOnce.  For each call and each    *)
(* role, what bears on it is in at most one place of every history, and    *)
(* what is still to be appended is in none of those before it.  A          *)
(* replacement may repeat what the file has, since it takes the file's     *)
(* place.                                                                  *)
(***************************************************************************)

\* What the snapshots hold of the call.
SavedHas(c, r) == \E snap \in saved : Has(snap.msgs, c, r)
SavedSingle(c, r) == \A snap \in saved : Single(snap.msgs, c, r)
\* A made-up result of the call waits for the pool.
Made(c, r) == r = "tool" /\ c \in ToSet(repairs)
\* What bears on the call in one role comes at most once to a reader of the file: what is
\* still to be appended is in no place before it.  An assistant message still to be appended
\* is in no snapshot either; a result may be, since it may have to be made up again.
Lone(c, r) ==
  /\ SavedSingle(c, r)
  /\ r = "assistant" /\ (Sends(pool, c, r) \/ Sends(queue, c, r)) => ~SavedHas(c, r)
  /\ Single(file, c, r) /\ Single(context, c, r)
  /\ Singles(pool, c, r) /\ Singles(queue, c, r)
  /\ InTurn(pool, c, r) /\ InTurn(queue, c, r)
  /\ Made(c, r) \/ Sends(pool, c, r) \/ Sends(queue, c, r) => ~Has(file, c, r)
  /\ Made(c, r) \/ Sends(queue, c, r) => ~Carries(pool, c, r)
  /\ Made(c, r) => ~Sends(queue, c, r)
  /\ r = "tool" => \A i, j \in DOMAIN repairs : repairs[i] = c /\ repairs[j] = c => i = j
Nowhere(c, r) ==
  /\ ~SavedHas(c, r) /\ ~Has(file, c, r) /\ ~Has(context, c, r)
  /\ ~Carries(pool, c, r) /\ ~Carries(queue, c, r) /\ ~Made(c, r)
Requested(c) == \E b \in 1..asked : c \in ToSet(Batches[b])
\* A call owed has no result anywhere, a call not yet asked for has left no trace, and a
\* call that was not answered too early has its results in turn.
CallInv(c) ==
  /\ c \in owed => Nowhere(c, "tool") /\ Requested(c)
  /\ ~Requested(c) => Nowhere(c, "tool") /\ Nowhere(c, "assistant")
  /\ Lone(c, "assistant")
  /\ c \notin raced => Lone(c, "tool")
HistoryInv == Typed /\ \A c \in AllCalls : CallInv(c)

\* What is not carried is neither sent nor repeated.
LEMMA SendsCarried ==
  ASSUME NEW q, NEW c, NEW r
  PROVE  /\ Sends(q, c, r) => Carries(q, c, r)
         /\ ~Carries(q, c, r) => Singles(q, c, r) /\ InTurn(q, c, r)
<1>1. Sends(q, c, r) => Carries(q, c, r)
  BY Zenon DEF Sends, Carries
<1>2. ASSUME ~Carries(q, c, r) PROVE Singles(q, c, r)
  BY <1>2, Zenon DEF Carries, Singles, Has, Single
<1>3. ASSUME ~Carries(q, c, r) PROVE InTurn(q, c, r)
  BY <1>3, Zenon DEF Carries, InTurn
<1> QED
  BY <1>1, <1>2, <1>3

\* What is nowhere is not there twice.
LEMMA NoneSingle ==
  ASSUME NEW msgs, NEW c, NEW r, ~Has(msgs, c, r)
  PROVE  Single(msgs, c, r)
  BY Zenon DEF Has, Single

\* Most steps leave the snapshots alone.
LEMMA SavedSame ==
  ASSUME UNCHANGED saved
  PROVE  \A c, r : (SavedHas(c, r)' <=> SavedHas(c, r)) /\ (SavedSingle(c, r)' <=> SavedSingle(c, r))
  BY DEF SavedHas, SavedSingle
LEMMA SavedNone ==
  ASSUME NEW c, NEW r, ~SavedHas(c, r)
  PROVE  SavedSingle(c, r)
  BY NoneSingle DEF SavedHas, SavedSingle

\* What the agent says of a call: nothing new, or what was nowhere.
LEMMA Telling ==
  ASSUME Typed, NEW c, NEW r, NEW s, Lined(s), Reaches(queue, s, queue'),
         UNCHANGED <<file, saved, pool, repairs>>
  PROVE  /\ Nowhere(c, r) /\ ~Carries(s, c, r) /\ ~Has(context', c, r) => Nowhere(c, r)'
         /\ Lone(c, r) /\ ~Sends(s, c, r) /\ Singles(s, c, r) /\ InTurn(s, c, r)
                /\ Single(context', c, r)
              => Lone(c, r)'
         /\ Nowhere(c, r) /\ Singles(s, c, r) /\ InTurn(s, c, r) /\ Single(context', c, r)
                => Lone(c, r)'
<1>0. /\ Carries(queue', c, r) => Carries(queue, c, r) \/ Carries(s, c, r)
      /\ Sends(queue', c, r) => Sends(queue, c, r) \/ Sends(s, c, r)
      /\ Singles(queue, c, r) /\ Singles(s, c, r) => Singles(queue', c, r)
      /\ InTurn(queue, c, r) /\ InTurn(s, c, r) /\ (Sends(s, c, r) => ~Carries(queue, c, r))
           => InTurn(queue', c, r)
  <2>1. Lined(queue)
    BY DEF Typed, HistoryTypeOK
  <2> QED
    BY <2>1, ReachesFacts
<1>1. Nowhere(c, r) /\ ~Carries(s, c, r) /\ ~Has(context', c, r) => Nowhere(c, r)'
  BY <1>0, SavedSame DEF Nowhere, Made
<1>2. ASSUME Lone(c, r), ~Sends(s, c, r), Singles(s, c, r), InTurn(s, c, r), Single(context', c, r)
      PROVE  Lone(c, r)'
  BY <1>0, <1>2, SavedSame DEF Lone, Made
<1>3. ASSUME Nowhere(c, r), Singles(s, c, r), InTurn(s, c, r), Single(context', c, r)
      PROVE  Lone(c, r)'
  <2>1. /\ Single(file, c, r) /\ Singles(pool, c, r) /\ Singles(queue, c, r)
        /\ InTurn(pool, c, r) /\ InTurn(queue, c, r)
    BY <1>3, SendsCarried, NoneSingle DEF Nowhere
  <2>5. SavedSingle(c, r)' /\ ~SavedHas(c, r)'
    BY <1>3, SavedSame, SavedNone DEF Nowhere
  <2>2. ~Sends(pool, c, r) /\ ~Sends(queue, c, r)
    BY <1>3, SendsCarried DEF Nowhere
  <2>3. r = "tool" => c \notin ToSet(repairs)
    BY <1>3 DEF Nowhere, Made
  <2>4. r = "tool" => \A i \in DOMAIN repairs : repairs[i] # c
    BY <2>3 DEF ToSet
  <2> QED
    BY <1>0, <1>3, <2>1, <2>2, <2>3, <2>4, <2>5 DEF Lone, Made, Nowhere
<1> QED
  BY <1>1, <1>2, <1>3

\* An action that says messages keeps the invariant of a call, if a result said is of a call
\* owed no longer, and an assistant message said is the request for its calls.
LEMMA SayCall ==
  ASSUME Typed, NEW c \in AllCalls, CallInv(c),
         NEW base \in Seq(Message), NEW msgs \in Seq(Message), Say(base, msgs),
         \A r : (Has(base, c, r) => Has(context, c, r))
             /\ (Single(context, c, r) => Single(base, c, r)),
         UNCHANGED <<file, saved, pool, repairs, raced>>,
         Has(msgs, c, "assistant") => ~Requested(c) /\ Requested(c)',
         Has(msgs, c, "tool") => c \in owed /\ c \notin owed',
         \A r : Single(msgs, c, r),
         c \in owed' => (c \in owed \/ ~Requested(c)) /\ Requested(c)',
         Requested(c) => Requested(c)'
  PROVE  CallInv(c)'
<1>1. PICK s : s = SentOne(msgs)
  OBVIOUS
<1>2. /\ context' = base \o msgs /\ Reaches(queue, s, queue') /\ Lined(s)
  BY <1>1, SayFacts, EventsSent
<1>3. \A r : /\ Carries(s, c, r) <=> Has(msgs, c, r)
             /\ Sends(s, c, r) => Has(msgs, c, r)
             /\ Singles(s, c, r)
             /\ InTurn(s, c, r)
  BY <1>1, EventsSent
<1>4. \A r : /\ Has(context', c, r) <=> Has(base, c, r) \/ Has(msgs, c, r)
             /\ Single(base, c, r) /\ (Has(msgs, c, r) => ~Has(base, c, r))
                    => Single(context', c, r)
  BY <1>2, HasConcat
\* What was nowhere and is not said stays nowhere.
<1>5. ASSUME NEW r, Nowhere(c, r), ~Has(msgs, c, r) PROVE Nowhere(c, r)'
  <2>1. ~Carries(s, c, r) /\ ~Has(context', c, r)
    BY <1>3, <1>4, <1>5 DEF Nowhere
  <2> QED
    BY <1>2, <1>5, <2>1, Telling
<1>6. ASSUME NEW r, Lone(c, r), ~Has(msgs, c, r) PROVE Lone(c, r)'
  <2>1. ~Sends(s, c, r) /\ Singles(s, c, r) /\ InTurn(s, c, r) /\ Single(context', c, r)
    BY <1>3, <1>4, <1>6 DEF Lone
  <2> QED
    BY <1>2, <1>6, <2>1, Telling
<1>7. ASSUME NEW r, Nowhere(c, r) PROVE Lone(c, r)'
  <2>1. Single(context, c, r) /\ ~Has(context, c, r)
    BY <1>7, NoneSingle DEF Nowhere
  <2>2. Singles(s, c, r) /\ InTurn(s, c, r) /\ Single(context', c, r)
    BY <1>3, <1>4, <2>1
  <2> QED
    BY <1>2, <1>7, <2>2, Telling
<1>8. Lone(c, "assistant")'
  <2>1. CASE Has(msgs, c, "assistant")
    BY <1>7, <2>1 DEF CallInv
  <2>2. CASE ~Has(msgs, c, "assistant")
    BY <1>6, <2>2 DEF CallInv
  <2> QED
    BY <2>1, <2>2
<1>9. c \notin raced' => Lone(c, "tool")'
  <2>1. CASE Has(msgs, c, "tool")
    BY <1>7, <2>1 DEF CallInv
  <2>2. CASE ~Has(msgs, c, "tool")
    BY <1>6, <2>2 DEF CallInv
  <2> QED
    BY <2>1, <2>2
<1>10. ASSUME c \in owed' PROVE Nowhere(c, "tool")' /\ Requested(c)'
  <2>1. Nowhere(c, "tool") /\ ~Has(msgs, c, "tool")
    BY <1>10 DEF CallInv
  <2> QED
    BY <1>5, <1>10, <2>1
<1>11. ASSUME ~Requested(c)' PROVE Nowhere(c, "tool")' /\ Nowhere(c, "assistant")'
  <2>1. ~Requested(c)
    BY <1>11
  <2>2. Nowhere(c, "tool") /\ Nowhere(c, "assistant")
    BY <2>1 DEF CallInv
  <2>3. ~Has(msgs, c, "tool") /\ ~Has(msgs, c, "assistant")
    BY <1>11, <2>1 DEF CallInv
  <2> QED
    BY <1>5, <2>2, <2>3
<1> QED
  BY <1>8, <1>9, <1>10, <1>11 DEF CallInv

\* What is published without a new message: metadata, a shortened history.
LEMMA PublishCall ==
  ASSUME Typed, NEW c \in AllCalls, CallInv(c), NEW s, Lined(s), Reaches(queue, s, queue'),
         UNCHANGED <<file, saved, pool, repairs, raced, owed, asked>>,
         \A r : /\ ~Sends(s, c, r) /\ InTurn(s, c, r)
                /\ Carries(s, c, r) => Has(context, c, r)
                /\ Has(context', c, r) => Has(context, c, r)
                /\ Single(context, c, r) => Single(context', c, r) /\ Singles(s, c, r)
  PROVE  CallInv(c)'
<1>1. Requested(c)' <=> Requested(c)
  BY DEF Requested
<1>2. ASSUME NEW r, Nowhere(c, r) PROVE Nowhere(c, r)'
  <2>1. ~Carries(s, c, r) /\ ~Has(context', c, r)
    BY <1>2 DEF Nowhere
  <2> QED
    BY <1>2, <2>1, Telling
<1>3. ASSUME NEW r, Lone(c, r) PROVE Lone(c, r)'
  <2>1. ~Sends(s, c, r) /\ Singles(s, c, r) /\ InTurn(s, c, r) /\ Single(context', c, r)
    BY <1>3 DEF Lone
  <2> QED
    BY <1>3, <2>1, Telling
<1> QED
  BY <1>1, <1>2, <1>3 DEF CallInv

-----------------------------------------------------------------------------
(***************************************************************************)
(* The agent's actions keep it.                                            *)
(***************************************************************************)

\* A call is of one batch.
LEMMA BatchCalls ==
  /\ \A b \in DOMAIN Batches : b \in Int /\ ToSet(Batches[b]) \subseteq AllCalls
  /\ \A b, d \in DOMAIN Batches : \A c : c \in ToSet(Batches[b]) /\ c \in ToSet(Batches[d]) => b = d
<1>1. \A b \in DOMAIN Batches : b \in Int /\ ToSet(Batches[b]) \subseteq AllCalls
  BY HistoryAssumption DEF AllCalls
<1>2. \A b, d \in DOMAIN Batches : \A c : c \in ToSet(Batches[b]) /\ c \in ToSet(Batches[d])
          => b = d
  <2> SUFFICES ASSUME NEW b \in DOMAIN Batches, NEW d \in DOMAIN Batches, NEW c,
                      c \in ToSet(Batches[b]), c \in ToSet(Batches[d])
               PROVE  b = d
    OBVIOUS
  <2>1. PICK i \in DOMAIN Batches[b] : Batches[b][i] = c
    BY DEF ToSet
  <2>2. PICK j \in DOMAIN Batches[d] : Batches[d][j] = c
    BY DEF ToSet
  <2> QED
    BY <2>1, <2>2, HistoryAssumption
<1> QED
  BY <1>1, <1>2

\* A user message bears on no call.
LEMMA AskCall ==
  ASSUME Typed, NEW c \in AllCalls, CallInv(c), Ask
  PROVE  CallInv(c)'
<1>1. PICK m \in Message : m = User(asks + 1) /\ m.role = "user"
  <2>1. asks + 1 \in Nat
    BY DEF Typed, HistoryTypeOK
  <2> QED
    BY <2>1, Kinds
<1>2. PICK msgs : msgs = <<m>>
  OBVIOUS
<1>3. msgs \in Seq(Message) /\ \A r : Single(msgs, c, r) /\ ~Has(msgs, c, r)
  BY <1>1, <1>2, HasOne DEF Bears
<1>4. /\ Say(context, msgs) /\ context \in Seq(Message)
      /\ UNCHANGED <<file, saved, pool, repairs, raced, owed, asked>>
  BY <1>1, <1>2 DEF Ask, disk, Typed, HistoryTypeOK
<1>5. (Requested(c)' <=> Requested(c)) /\ (c \in owed => Requested(c))
  BY <1>4 DEF Requested, CallInv
<1> QED
  BY <1>3, <1>4, <1>5, SayCall

\* A plain answer neither.
LEMMA AnswerCall ==
  ASSUME Typed, NEW c \in AllCalls, CallInv(c), Answer
  PROVE  CallInv(c)'
<1>1. PICK m \in Message : m = Assistant(<<>>) /\ m.role = "assistant" /\ m.calls = <<>>
  BY Kinds, CallListFacts
<1>2. PICK msgs : msgs = <<m>>
  OBVIOUS
<1>3. msgs \in Seq(Message) /\ \A r : Single(msgs, c, r) /\ ~Has(msgs, c, r)
  <2>1. ToSet(m.calls) = {}
    BY <1>1 DEF ToSet
  <2> QED
    BY <1>1, <1>2, <2>1, HasOne DEF Bears
<1>4. /\ Say(Sanitize(context), msgs) /\ context \in Seq(Message)
      /\ UNCHANGED <<file, saved, pool, repairs, raced, owed, asked>>
  BY <1>1, <1>2 DEF Answer, disk, Typed, HistoryTypeOK
<1>5. (Requested(c)' <=> Requested(c)) /\ (c \in owed => Requested(c))
  BY <1>4 DEF Requested, CallInv
<1>6. PICK base \in Seq(Message) :
        /\ base = Sanitize(context)
        /\ \A r : (Has(base, c, r) => Has(context, c, r))
               /\ (Single(context, c, r) => Single(base, c, r))
  BY <1>4, SanitizeFacts
<1>7. Say(base, msgs)
  BY <1>4, <1>6
<1> QED
  BY <1>3, <1>4, <1>5, <1>6, <1>7, SayCall

\* A reply asks for calls that left no trace.
LEMMA ReplyCall ==
  ASSUME Typed, NEW c \in AllCalls, CallInv(c), Reply
  PROVE  CallInv(c)'
<1>0. /\ asked \in Nat /\ asked + 1 \in 1..Len(Batches) /\ asked + 1 \in DOMAIN Batches
      /\ 1..asked \subseteq DOMAIN Batches /\ asked' = asked + 1
  BY HistoryAssumption DEF Typed, HistoryTypeOK, Reply
<1>1. PICK l \in CallLists : l = Batches[asked + 1]
  BY <1>0, CallListFacts
<1>2. PICK m \in Message : m = Assistant(l) /\ m.role = "assistant" /\ m.calls = l
  BY Kinds
<1>3. PICK msgs : msgs = <<m>>
  OBVIOUS
<1>4. /\ msgs \in Seq(Message) /\ \A r : Single(msgs, c, r)
      /\ Has(msgs, c, "assistant") <=> c \in ToSet(l)
      /\ ~Has(msgs, c, "tool")
  BY <1>2, <1>3, HasOne DEF Bears
<1>5. /\ Say(Sanitize(context), msgs) /\ context \in Seq(Message)
      /\ UNCHANGED <<file, saved, pool, repairs, raced>>
      /\ owed' = ToSet(l) \/ owed' = owed
  BY <1>1, <1>2, <1>3 DEF Reply, disk, Typed, HistoryTypeOK
<1>6. /\ Requested(c)' <=> Requested(c) \/ c \in ToSet(l)
      /\ c \in ToSet(l) => ~Requested(c)
  <2>1. \A b : b \in 1..(asked + 1) <=> b \in 1..asked \/ b = asked + 1
    BY <1>0
  <2>2. Requested(c)' <=> Requested(c) \/ c \in ToSet(l)
    BY <1>0, <1>1, <2>1 DEF Requested
  <2>3. ASSUME c \in ToSet(l), Requested(c) PROVE FALSE
    <3>1. PICK b \in 1..asked : c \in ToSet(Batches[b])
      BY <2>3 DEF Requested
    <3>2. b = asked + 1
      BY <1>0, <1>1, <2>3, <3>1, BatchCalls
    <3> QED
      BY <1>0, <3>1, <3>2
  <2> QED
    BY <2>2, <2>3
<1>7. PICK base \in Seq(Message) :
        /\ base = Sanitize(context)
        /\ \A r : (Has(base, c, r) => Has(context, c, r))
               /\ (Single(context, c, r) => Single(base, c, r))
  BY <1>5, SanitizeFacts
<1>8. Say(base, msgs)
  BY <1>5, <1>7
<1>9. c \in owed' => (c \in owed \/ ~Requested(c)) /\ Requested(c)'
  BY <1>5, <1>6 DEF CallInv
<1>10. Has(msgs, c, "assistant") => ~Requested(c) /\ Requested(c)'
  BY <1>4, <1>6
<1>11. Requested(c) => Requested(c)'
  BY <1>6
<1> QED
  BY <1>4, <1>5, <1>7, <1>8, <1>9, <1>10, <1>11, SayCall

\* A result is of a call owed.
LEMMA FinishCall ==
  ASSUME Typed, NEW c \in AllCalls, CallInv(c), NEW d \in AllCalls, Finish(d)
  PROVE  CallInv(c)'
<1>0. PICK no : no = FALSE /\ no \in BOOLEAN
  OBVIOUS
<1>1. PICK m \in Message : m = Result(d, no) /\ m.role = "tool" /\ m.call = d
  BY <1>0, Kinds
<1>2. PICK msgs : msgs = <<m>>
  OBVIOUS
<1>3. /\ msgs \in Seq(Message) /\ \A r : Single(msgs, c, r)
      /\ ~Has(msgs, c, "assistant")
      /\ Has(msgs, c, "tool") <=> c = d
  BY <1>1, <1>2, HasOne DEF Bears
<1>4. msgs = <<Result(d, FALSE)>>
  BY <1>0, <1>1, <1>2, Zenon
<1>5. /\ Say(context, msgs) /\ context \in Seq(Message)
      /\ UNCHANGED <<file, saved, pool, repairs, raced, asked>>
      /\ owed' = owed \ {d} /\ d \in owed
  BY <1>4 DEF Finish, disk, Typed, HistoryTypeOK
<1>6. (Requested(c)' <=> Requested(c)) /\ (c \in owed => Requested(c))
  BY <1>5 DEF Requested, CallInv
<1> QED
  BY <1>3, <1>5, <1>6, SayCall

\* An interruption and a shutdown answer what is owed.
LEMMA CancelCall ==
  ASSUME Typed, NEW c \in AllCalls, CallInv(c), Interrupt \/ Shutdown
  PROVE  CallInv(c)'
<1>1. PICK m \in Message : m = Marker /\ m.role = "user"
  BY MarkerKind
<1>2. PICK t \in Seq(Message) :
        /\ t = Cancelled
        /\ \A r : (Has(t, c, r) => r = "tool" /\ c \in owed) /\ Single(t, c, r)
  BY CancelledFacts
<1>3. PICK msgs \in Seq(Message) :
        /\ Say(context, msgs)
        /\ \A r : (Has(msgs, c, r) => r = "tool" /\ c \in owed) /\ Single(msgs, c, r)
  <2>1. CASE Interrupt
    <3>1. Say(context, Append(t, m))
      BY <1>1, <1>2, <2>1 DEF Interrupt
    <3>2. Append(t, m) \in Seq(Message)
      OBVIOUS
    <3>3. \A r : ~Bears(m, c, r)
      BY <1>1 DEF Bears
    <3>4. \A r : (Has(Append(t, m), c, r) => r = "tool" /\ c \in owed) /\ Single(Append(t, m), c, r)
      BY <1>2, <3>3, HasAppend
    <3> QED
      BY <3>1, <3>2, <3>4
  <2>2. CASE Shutdown
    <3>1. Say(context, t)
      BY <1>2, <2>2 DEF Shutdown
    <3> QED
      BY <1>2, <3>1
  <2> QED
    BY <2>1, <2>2
<1>4. /\ context \in Seq(Message) /\ owed' = {}
      /\ UNCHANGED <<file, saved, pool, repairs, raced, asked>>
  BY DEF Interrupt, Shutdown, disk, Typed, HistoryTypeOK
<1>5. Requested(c)' <=> Requested(c)
  BY <1>4 DEF Requested
<1> QED
  BY <1>3, <1>4, <1>5, SayCall

\* Metadata bears on no call.
LEMMA NoteCall ==
  ASSUME Typed, NEW c \in AllCalls, CallInv(c), NEW d \in AllCalls, Note(d)
  PROVE  CallInv(c)'
<1>1. PICK e \in Event : e = Noted(d) /\ Proper(e) /\ e.msgs = <<Metadata(d)>>
  BY EventKinds
<1>2. PICK m \in Message : m = Metadata(d) /\ m.role = "internal"
  BY Kinds
<1>3. \A r : ~Has(e.msgs, c, r) /\ Single(e.msgs, c, r)
  BY <1>1, <1>2, HasOne DEF Bears
<1>4. PICK s : s = <<e>>
  OBVIOUS
<1>5. /\ Publish(s)
      /\ UNCHANGED <<file, saved, pool, repairs, raced, owed, asked, context>>
  BY <1>1, <1>4 DEF Note, disk, agent
<1>6. Lined(s) /\ Reaches(queue, s, queue')
  BY <1>1, <1>4, <1>5, PublishFacts, EventsOne
<1>7. \A r : ~Sends(s, c, r) /\ InTurn(s, c, r) /\ ~Carries(s, c, r) /\ Singles(s, c, r)
  BY <1>1, <1>3, <1>4, EventsOne
<1> QED
  BY <1>5, <1>6, <1>7, PublishCall

\* A shortened history brings nothing new.
LEMMA ReplaceCall ==
  ASSUME Typed, NEW c \in AllCalls, CallInv(c), context' \in Seq(Message),
         Publish(<<Replaced(context')>>),
         \A r : /\ Has(context', c, r) => Has(context, c, r)
                /\ Single(context, c, r) => Single(context', c, r),
         UNCHANGED <<file, saved, pool, repairs, raced, owed, asked>>
  PROVE  CallInv(c)'
<1>1. PICK e \in Event : e = Replaced(context') /\ Proper(e) /\ e.msgs = context'
               /\ e.job = "replace"
  BY EventKinds
<1>2. PICK s : s = <<e>>
  OBVIOUS
<1>3. Publish(s)
  BY <1>1, <1>2
<1>4. Lined(s) /\ Reaches(queue, s, queue')
  BY <1>1, <1>2, <1>3, PublishFacts, EventsOne
<1>5. \A r : /\ ~Sends(s, c, r) /\ InTurn(s, c, r)
             /\ Carries(s, c, r) => Has(context', c, r)
             /\ Single(context', c, r) => Singles(s, c, r)
  BY <1>1, <1>2, EventsOne
<1> QED
  BY <1>4, <1>5, PublishCall

\* Results and assistant messages, by what bears on a call.
LEMMA BearingFacts ==
  ASSUME NEW msgs, NEW c
  PROVE  /\ Has(msgs, c, "tool") <=> ResultsOf(msgs, c) # {}
         /\ Single(msgs, c, "tool") <=> \A i, j \in ResultsOf(msgs, c) : i = j
         /\ Has(msgs, c, "assistant") => c \in CallsIn(msgs)
<1>1. \A m : /\ Bears(m, c, "tool") <=> m.role = "tool" /\ m.call = c
             /\ Bears(m, c, "assistant") <=> m.role = "assistant" /\ c \in ToSet(m.calls)
  BY DEF Bears
<1>2. \A i : i \in ResultsOf(msgs, c) <=> i \in DOMAIN msgs /\ Bears(msgs[i], c, "tool")
  BY <1>1 DEF ResultsOf
<1>3. Has(msgs, c, "tool") <=> ResultsOf(msgs, c) # {}
  BY <1>2, Zenon DEF Has
<1>4. Single(msgs, c, "tool") <=> \A i, j \in ResultsOf(msgs, c) : i = j
  BY <1>2, Zenon DEF Single
<1>5. Has(msgs, c, "assistant") => c \in CallsIn(msgs)
  <2> SUFFICES ASSUME NEW i \in DOMAIN msgs, Bears(msgs[i], c, "assistant")
               PROVE  c \in CallsIn(msgs)
    BY DEF Has
  <2>1. PICK m : m = msgs[i]
    OBVIOUS
  <2>2. m \in ToSet(msgs) /\ m.role = "assistant" /\ c \in ToSet(m.calls)
    BY <1>1, <2>1 DEF ToSet
  <2> QED
    BY <2>2, Zenon DEF CallsIn
<1> QED
  BY <1>3, <1>4, <1>5

\* A call with no result on its way has none in the pool nor the queue.
LEMMA WayFacts ==
  ASSUME Typed, NEW c, ~OnItsWay(c)
  PROVE  ~Carries(pool, c, "tool") /\ ~Carries(queue, c, "tool")
<1>1. pool \in Seq(Event) /\ queue \in Seq(Event)
  BY DEF Typed, HistoryTypeOK, Lined
<1>2. PICK all : all = pool \o queue
  OBVIOUS
<1>3. /\ \A i \in DOMAIN pool : i \in DOMAIN all /\ all[i] = pool[i]
      /\ \A i \in DOMAIN queue : Len(pool) + i \in DOMAIN all /\ all[Len(pool) + i] = queue[i]
  BY <1>1, <1>2
<1>4. \A i \in DOMAIN all : ResultsOf(all[i].msgs, c) = {}
  BY <1>2 DEF OnItsWay, ToSet
<1>5. \A i \in DOMAIN all : ~Has(all[i].msgs, c, "tool")
  BY <1>4, BearingFacts
<1> QED
  BY <1>3, <1>5 DEF Carries

\* A call with no result on its way to be appended sends none.
LEMMA AppendingFacts ==
  ASSUME Typed, NEW c, ~Appending(c)
  PROVE  ~Sends(pool, c, "tool") /\ ~Sends(queue, c, "tool")
<1>1. Lined(pool) /\ Lined(queue)
  BY DEF Typed, HistoryTypeOK
<1>2. PICK all : all = pool \o queue
  OBVIOUS
<1>3. /\ \A i \in DOMAIN pool : i \in DOMAIN all /\ all[i] = pool[i]
      /\ \A i \in DOMAIN queue : Len(pool) + i \in DOMAIN all /\ all[Len(pool) + i] = queue[i]
  BY <1>1, <1>2 DEF Lined
<1>4. ASSUME NEW i \in DOMAIN all, all[i].job = "append" PROVE ~Has(all[i].msgs, c, "tool")
  <2>1. all[i] \in ToSet(pool \o queue)
    BY <1>2, Zenon DEF ToSet
  <2>2. ResultsOf(all[i].msgs, c) = {}
    BY <1>4, <2>1, Zenon DEF Appending
  <2> QED
    BY <2>2, BearingFacts
\* Metadata bears on no call.
<1>5. ASSUME NEW e \in Event, Proper(e), e.job = "metadata" PROVE ~Has(e.msgs, c, "tool")
  <2>1. e.msgs \in Seq(Message) /\ Len(e.msgs) = 1 /\ e.msgs[1].role = "internal"
    BY <1>5 DEF Proper, Event
  <2>2. \A i \in DOMAIN e.msgs : i = 1
    BY <2>1
  <2> QED
    BY <2>1, <2>2 DEF Has, Bears
<1>6. ASSUME NEW q, Lined(q), \A i \in DOMAIN q : q[i].job = "append" => ~Has(q[i].msgs, c, "tool")
      PROVE  ~Sends(q, c, "tool")
  <2>1. \A i \in DOMAIN q : q[i] \in Event /\ Proper(q[i])
    BY <1>6 DEF Lined, OneEach
  <2>2. \A e \in Event : e.job \in {"append", "metadata", "replace"}
    BY DEF Event
  <2> QED
    BY <1>5, <1>6, <2>1, <2>2 DEF Sends
<1> QED
  BY <1>1, <1>3, <1>4, <1>6

\* A snapshot put back brings what it holds, once, and marks the calls whose own result is on
\* its way; what is published meanwhile brings nothing new.
LEMMA RestoreCall ==
  ASSUME Typed, NEW c \in AllCalls, CallInv(c),
         NEW snap \in saved, NEW n \in 0..Len(snap.msgs), NEW t, Restore(snap, n, t),
         NEW s, Lined(s), Reaches(queue, s, queue'), repairs = <<>>,
         UNCHANGED <<saved, pool, repairs, owed, asked>>,
         \A r : /\ ~Sends(s, c, r) /\ InTurn(s, c, r)
                /\ Carries(s, c, r) => Has(context, c, r)
                /\ Has(context', c, r) => Has(context, c, r)
                /\ Single(context, c, r) => Single(context', c, r) /\ Singles(s, c, r)
  PROVE  CallInv(c)'
<1>0. \A r : /\ Carries(queue', c, r) => Carries(queue, c, r) \/ Carries(s, c, r)
             /\ Sends(queue', c, r) => Sends(queue, c, r)
             /\ Singles(queue, c, r) /\ Singles(s, c, r) => Singles(queue', c, r)
             /\ InTurn(queue, c, r) => InTurn(queue', c, r)
  <2>1. Lined(queue)
    BY DEF Typed, HistoryTypeOK
  <2> QED
    BY <2>1, ReachesFacts
<1>1. \A r : /\ Has(file', c, r) => SavedHas(c, r)
             /\ SavedSingle(c, r) => Single(file', c, r)
  BY RestoreFacts DEF SavedHas, SavedSingle
<1>2. Requested(c)' <=> Requested(c)
  BY DEF Requested
<1>3. \A r : ~Made(c, r) /\ ~Made(c, r)'
  BY DEF Made, ToSet
<1>4. DOMAIN repairs' = {}
  OBVIOUS
<1>5. ASSUME NEW r, Nowhere(c, r) PROVE Nowhere(c, r)'
  BY <1>0, <1>1, <1>3, <1>5, SavedSame DEF Nowhere
<1>6. ASSUME NEW r, Lone(c, r), Sends(pool, c, r) \/ Sends(queue, c, r) => ~Has(file', c, r)
      PROVE  Lone(c, r)'
  BY <1>0, <1>1, <1>3, <1>4, <1>6, SavedSame DEF Lone
<1>7. Lone(c, "assistant")'
  <2>1. Lone(c, "assistant")
    BY DEF CallInv
  <2>2. Sends(pool, c, "assistant") \/ Sends(queue, c, "assistant") => ~Has(file', c, "assistant")
    BY <1>1, <2>1 DEF Lone
  <2> QED
    BY <1>6, <2>1, <2>2
<1>8. ASSUME c \notin raced' PROVE Lone(c, "tool")'
  <2>1. c \notin raced /\ (ResultsOf(file', c) = {} \/ ~Appending(c))
    BY <1>8 DEF Restore
  <2>2. Sends(pool, c, "tool") \/ Sends(queue, c, "tool") => ~Has(file', c, "tool")
    BY <2>1, AppendingFacts, BearingFacts
  <2> QED
    BY <1>6, <2>1, <2>2 DEF CallInv
<1> QED
  BY <1>2, <1>5, <1>7, <1>8 DEF CallInv

\* A rewind shortens the context,
LEMMA RewindCall ==
  ASSUME Typed, NEW c \in AllCalls, CallInv(c), NEW i \in 1..(Len(context) + 1), Rewind(i)
  PROVE  CallInv(c)'
<1>1. PICK n \in Int : n = i - 1 /\ n <= Len(context)
  <2>1. i - 1 \in Int /\ i - 1 <= Len(context)
    BY DEF Typed, HistoryTypeOK
  <2> QED
    BY <2>1
<1>2. /\ context' = SubSeq(context, 1, n) /\ Publish(<<Replaced(context')>>)
      /\ UNCHANGED <<saved, pool, repairs, owed, asked>>
      /\ context \in Seq(Message) /\ repairs = <<>>
  BY <1>1 DEF Rewind, Typed, HistoryTypeOK, Mending
<1>3. \A r : /\ context' \in Seq(Message)
             /\ Has(context', c, r) => Has(context, c, r)
             /\ Single(context, c, r) => Single(context', c, r)
  BY <1>1, <1>2, HasPrefix
<1>4. CASE UNCHANGED <<file, tail, raced>>
  BY <1>2, <1>3, <1>4, ReplaceCall
<1>5. ASSUME NEW snap \in saved, Restore(snap, Len(snap.msgs), snap.tail)
      PROVE  CallInv(c)'
  <2>1. PICK e \in Event : e = Replaced(context') /\ Proper(e) /\ e.msgs = context'
               /\ e.job = "replace"
    BY <1>3, EventKinds
  <2>2. PICK s : s = <<e>>
    OBVIOUS
  <2>3. Lined(s) /\ Reaches(queue, s, queue')
    BY <1>2, <2>1, <2>2, PublishFacts, EventsOne
  <2>4. \A r : /\ ~Sends(s, c, r) /\ InTurn(s, c, r)
               /\ Carries(s, c, r) => Has(context', c, r)
               /\ Single(context', c, r) => Singles(s, c, r)
    BY <2>1, <2>2, EventsOne
  <2>5. Len(snap.msgs) \in 0..Len(snap.msgs)
    BY DEF Typed, HistoryTypeOK
  <2> QED
    BY <1>2, <1>3, <1>5, <2>3, <2>4, <2>5, RestoreCall
<1> QED
  BY <1>4, <1>5 DEF Rewind

\* one that breaks off leaves it,
LEMMA BreakOffCall ==
  ASSUME Typed, NEW c \in AllCalls, CallInv(c), BreakOff
  PROVE  CallInv(c)'
<1>1. PICK snap \in saved : \E n \in 0..Len(snap.msgs), t \in {"clean", "bare", "torn"} :
               Restore(snap, n, t)
  BY DEF BreakOff
<1>2. /\ UNCHANGED <<saved, pool, queue, repairs, context, owed, asked>> /\ repairs = <<>>
  BY DEF BreakOff, agent, Typed, Mending
<1>3. PICK s : s = <<>>
  OBVIOUS
<1>4. Lined(s) /\ \A r : /\ ~Sends(s, c, r) /\ InTurn(s, c, r) /\ ~Carries(s, c, r)
                         /\ Singles(s, c, r)
  BY <1>3, HasNone DEF Lined
<1>5. Reaches(queue, s, queue')
  <2>1. queue \in Seq(Event)
    BY DEF Typed, HistoryTypeOK, Lined
  <2>2. At(s, {}) = <<>>
    <3>1. s \in Seq(Event) /\ \A i \in 1..Len(s) : i \notin {}
      BY <1>3
    <3> QED
      BY <3>1, AtNone
  <2>3. queue' = queue \o At(s, {})
    BY <1>2, <2>1, <2>2
  <2> QED
    BY <2>3 DEF Reaches
<1> QED
  BY <1>1, <1>2, <1>4, <1>5, RestoreCall

\* a checkpoint copies what the file holds,
LEMMA WindDownCall ==
  ASSUME Typed, NEW c \in AllCalls, CallInv(c), WindDown
  PROVE  CallInv(c)'
<1>1. UNCHANGED <<file, context, pool, queue, repairs, owed, raced, asked>>
  BY DEF WindDown, disk, counts, accounts
<1>2. \A snap \in saved' : snap \in saved \/ snap.msgs = file
  BY DEF WindDown
<1>3. \A r : /\ SavedHas(c, r)' => SavedHas(c, r) \/ Has(file, c, r)
             /\ SavedSingle(c, r) /\ Single(file, c, r) => SavedSingle(c, r)'
  BY <1>2 DEF SavedHas, SavedSingle
<1>4. \A r : Made(c, r)' <=> Made(c, r)
  BY <1>1 DEF Made
<1>5. ASSUME NEW r, Nowhere(c, r) PROVE Nowhere(c, r)'
  BY <1>1, <1>3, <1>4, <1>5 DEF Nowhere
<1>6. ASSUME NEW r, Lone(c, r) PROVE Lone(c, r)'
  BY <1>1, <1>3, <1>4, <1>6 DEF Lone
<1>7. Requested(c)' <=> Requested(c)
  BY <1>1 DEF Requested
<1> QED
  BY <1>1, <1>5, <1>6, <1>7 DEF CallInv

\* a clear empties it.
LEMMA ClearCall ==
  ASSUME Typed, NEW c \in AllCalls, CallInv(c), Clear
  PROVE  CallInv(c)'
<1>1. /\ context' = <<>> /\ Publish(<<Replaced(context')>>)
      /\ UNCHANGED <<file, saved, pool, repairs, raced, owed, asked>>
  BY DEF Clear, disk
<1>2. \A r : /\ context' \in Seq(Message)
             /\ Has(context', c, r) => Has(context, c, r)
             /\ Single(context, c, r) => Single(context', c, r)
  BY <1>1, HasNone
<1> QED
  BY <1>1, <1>2, ReplaceCall

-----------------------------------------------------------------------------
(***************************************************************************)
(* So do the actions along the path to the file.                           *)
(***************************************************************************)

\* A step that asks for nothing and moves what is there.
LEMMA MoveCall ==
  ASSUME NEW c, CallInv(c), UNCHANGED <<raced, asked>>, owed' \subseteq owed,
         \A r : (Lone(c, r) => Lone(c, r)') /\ (Nowhere(c, r) => Nowhere(c, r)')
  PROVE  CallInv(c)'
<1>1. Requested(c)' <=> Requested(c)
  BY DEF Requested
<1> QED
  BY <1>1 DEF CallInv

\* The pool's worker appends what the file has not, or replaces the file.
LEMMA WriteRole ==
  ASSUME Typed, NEW c, NEW r, Write
  PROVE  (Lone(c, r) => Lone(c, r)') /\ (Nowhere(c, r) => Nowhere(c, r)')
<1>0. /\ Lined(pool) /\ pool # <<>> /\ pool' = Tail(pool)
      /\ UNCHANGED <<queue, repairs, context, saved>>
  BY DEF Typed, HistoryTypeOK, Write, agent
<1>1. PICK h, msgs : h = Head(pool) /\ msgs = h.msgs
  OBVIOUS
<1>2. /\ Carries(pool', c, r) => Carries(pool, c, r)
      /\ Sends(pool', c, r) => Sends(pool, c, r)
      /\ Singles(pool, c, r) => Singles(pool', c, r) /\ Single(msgs, c, r)
      /\ Has(msgs, c, r) => Carries(pool, c, r)
      /\ Has(msgs, c, r) /\ h.job # "replace" => Sends(pool, c, r)
      /\ InTurn(pool, c, r) => InTurn(pool', c, r)
      /\ InTurn(pool, c, r) /\ Has(msgs, c, r) => ~Sends(pool', c, r)
  BY <1>0, <1>1, EventsTail
\* The file has what it had or what is written; what is appended to it was not there.
<1>3. /\ h.job = "replace" => file' = msgs
      /\ Has(file', c, r) => (Has(file, c, r) /\ h.job # "replace") \/ Has(msgs, c, r)
      /\ Single(file, c, r) /\ (Has(msgs, c, r) => ~Has(file, c, r)) /\ h.job # "replace"
             => Single(file', c, r)
  <2>1. CASE h.job = "replace"
    <3>1. file' = msgs
      BY <1>1, <2>1 DEF Write
    <3> QED
      BY <2>1, <3>1
  <2>2. CASE h.job # "replace"
    <3>1. PICK m \in Message : m = msgs[1] /\ (Bears(m, c, r) => Has(msgs, c, r))
      BY <1>0, <1>1, <2>2, HeadFacts
    <3>2. AppendLine(m)
      BY <1>1, <2>2, <3>1 DEF Write
    <3>3. /\ Has(file', c, r) => Has(file, c, r) \/ Bears(m, c, r)
          /\ Single(file, c, r) /\ (Bears(m, c, r) => ~Has(file, c, r)) => Single(file', c, r)
      BY <3>2, AppendLineFacts
    <3> QED
      BY <2>2, <3>1, <3>3
  <2> QED
    BY <2>1, <2>2
<1>4. ASSUME Nowhere(c, r) PROVE Nowhere(c, r)'
  BY <1>0, <1>2, <1>3, <1>4, SavedSame DEF Nowhere, Made
<1>5. ASSUME Lone(c, r) PROVE Lone(c, r)'
  <2>1. Single(file', c, r)
    BY <1>2, <1>3, <1>5 DEF Lone
  <2>2. Made(c, r) \/ Sends(pool', c, r) \/ Sends(queue, c, r) => ~Has(file', c, r)
    BY <1>2, <1>3, <1>5 DEF Lone
  <2>3. Made(c, r)' <=> Made(c, r)
    BY <1>0 DEF Made
  <2> QED
    BY <1>0, <1>2, <1>5, <2>1, <2>2, <2>3, SavedSame DEF Lone
<1> QED
  BY <1>4, <1>5

\* The marker bears on no call.
LEMMA MarkRole ==
  ASSUME Typed, NEW c, NEW r, Mark
  PROVE  (Lone(c, r) => Lone(c, r)') /\ (Nowhere(c, r) => Nowhere(c, r)')
<1>0. Lined(pool) /\ UNCHANGED <<queue, repairs, saved>> /\ context \in Seq(Message)
  BY DEF Typed, HistoryTypeOK, Mark
<1>1. PICK m \in Message : m = Marker /\ ~Bears(m, c, r)
  BY MarkerKind DEF Bears
<1>2. context' = Append(context, m)
  BY <1>1 DEF Mark
<1>3. /\ Has(context', c, r) <=> Has(context, c, r)
      /\ Single(context, c, r) => Single(context', c, r)
  BY <1>0, <1>1, <1>2, HasAppend
<1>4. /\ Has(file', c, r) => Has(file, c, r)
      /\ Single(file, c, r) => Single(file', c, r)
      /\ Carries(pool', c, r) => Carries(pool, c, r)
      /\ Sends(pool', c, r) => Sends(pool, c, r)
      /\ Singles(pool, c, r) => Singles(pool', c, r)
      /\ InTurn(pool, c, r) => InTurn(pool', c, r)
  <2>1. CASE AppendLine(Marker) /\ pool' = pool
    <3>1. AppendLine(m)
      BY <1>1, <2>1
    <3>2. /\ Has(file', c, r) => Has(file, c, r) \/ Bears(m, c, r)
          /\ Single(file, c, r) /\ (Bears(m, c, r) => ~Has(file, c, r)) => Single(file', c, r)
      BY <3>1, AppendLineFacts
    <3> QED
      BY <1>1, <2>1, <3>2
  <2>2. CASE pool # <<>> /\ pool' = Tail(pool) /\ file' = Glued
    <3>1. (Has(Glued, c, r) => Has(file, c, r)) /\ (Single(file, c, r) => Single(Glued, c, r))
      BY GluedFacts
    <3> QED
      BY <1>0, <2>2, <3>1, EventsTail
  <2> QED
    BY <2>1, <2>2 DEF Mark
<1> QED
  BY <1>0, <1>3, <1>4, SavedSame DEF Lone, Nowhere, Made

\* A crash loses what is on its way, but for a line it may leave behind.
LEMMA CrashRole ==
  ASSUME Typed, NEW c, NEW r, Crash
  PROVE  (Lone(c, r) => Lone(c, r)') /\ (Nowhere(c, r) => Nowhere(c, r)')
<1>0. /\ Lined(pool) /\ file \in Seq(Message)
      /\ pool' = <<>> /\ queue' = <<>> /\ repairs' = <<>> /\ context' = <<>> /\ saved' = saved
  BY DEF Typed, HistoryTypeOK, Crash
<1>1. /\ Has(file', c, r) => Has(file, c, r) \/ Sends(pool, c, r)
      /\ Single(file, c, r) /\ (Sends(pool, c, r) => ~Has(file, c, r)) => Single(file', c, r)
  <2>1. CASE file' = file
    BY <2>1
  <2>2. CASE file' = Glued
    <3>1. (Has(Glued, c, r) => Has(file, c, r)) /\ (Single(file, c, r) => Single(Glued, c, r))
      BY GluedFacts
    <3> QED
      BY <2>2, <3>1
  <2>3. CASE pool # <<>> /\ Head(pool).job = "append" /\ file' = Append(file, Head(pool).msgs[1])
    <3>1. PICK h : h = Head(pool)
      OBVIOUS
    <3>2. PICK m \in Message : m = h.msgs[1] /\ (Bears(m, c, r) => Has(h.msgs, c, r))
      BY <1>0, <2>3, <3>1, HeadFacts
    <3>3. Has(h.msgs, c, r) => Sends(pool, c, r)
      BY <1>0, <2>3, <3>1, EventsTail
    <3>4. file' = Append(file, m)
      BY <2>3, <3>1, <3>2
    <3>5. /\ Has(file', c, r) <=> Has(file, c, r) \/ Bears(m, c, r)
          /\ Single(file, c, r) /\ (Bears(m, c, r) => ~Has(file, c, r)) => Single(file', c, r)
      BY <1>0, <3>4, HasAppend
    <3> QED
      BY <3>2, <3>3, <3>5
  <2> QED
    BY <2>1, <2>2, <2>3 DEF Crash
<1>2. /\ ~Has(context', c, r) /\ Single(context', c, r)
      /\ ~Carries(pool', c, r) /\ ~Sends(pool', c, r) /\ Singles(pool', c, r) /\ InTurn(pool', c, r)
      /\ ~Carries(queue', c, r) /\ ~Sends(queue', c, r) /\ Singles(queue', c, r)
             /\ InTurn(queue', c, r)
  BY <1>0, HasNone
<1>3. ~Made(c, r)' /\ DOMAIN repairs' = {}
  BY <1>0 DEF Made, ToSet
<1>4. ASSUME Nowhere(c, r) PROVE Nowhere(c, r)'
  <2>1. ~Has(file', c, r)
    BY <1>1, <1>4, SendsCarried DEF Nowhere
  <2> QED
    BY <1>0, <1>2, <1>3, <1>4, <2>1, SavedSame DEF Nowhere
<1>5. ASSUME Lone(c, r) PROVE Lone(c, r)'
  <2>1. Single(file', c, r)
    BY <1>1, <1>5 DEF Lone
  <2> QED
    BY <1>0, <1>2, <1>3, <1>5, <2>1, SavedSame DEF Lone
<1> QED
  BY <1>4, <1>5

\* An event goes from the queue to the pool.
LEMMA TakeRole ==
  ASSUME Typed, NEW c, NEW r, TakeEvent
  PROVE  (Lone(c, r) => Lone(c, r)') /\ (Nowhere(c, r) => Nowhere(c, r)')
<1>0. /\ Lined(pool) /\ Lined(queue) /\ queue # <<>>
      /\ UNCHANGED <<file, context, repairs, saved>>
      /\ repairs = <<>>
  BY DEF Typed, HistoryTypeOK, Mending, TakeEvent, agent
<1>1. ~Made(c, r) /\ ~Made(c, r)' /\ DOMAIN repairs' = {}
  BY <1>0 DEF Made, ToSet
<1>2. PICK h, q : h = Head(queue) /\ q = Tail(queue)
  OBVIOUS
<1>3. /\ Lined(q) /\ h \in Event /\ Proper(h)
      /\ Carries(q, c, r) => Carries(queue, c, r)
      /\ Sends(q, c, r) => Sends(queue, c, r)
      /\ Singles(queue, c, r) => Singles(q, c, r) /\ Single(h.msgs, c, r)
      /\ Has(h.msgs, c, r) => Carries(queue, c, r)
      /\ Has(h.msgs, c, r) /\ h.job # "replace" => Sends(queue, c, r)
      /\ InTurn(queue, c, r) => InTurn(q, c, r)
      /\ InTurn(queue, c, r) /\ Has(h.msgs, c, r) => ~Sends(q, c, r)
  BY <1>0, <1>2, EventsTail
<1>4. CASE h.job = "metadata"
  <2>1. PICK e : e = [h EXCEPT !.job = "append"]
    OBVIOUS
  <2>2. Enqueued(q, <<e>>, queue', MaxQueue) /\ pool' = pool
    BY <1>2, <1>4, <2>1 DEF TakeEvent
  <2>3. e \in Event /\ Proper(e) /\ Lined(<<e>>) /\ ~Has(e.msgs, c, r)
    BY <1>0, <1>2, <1>4, <2>1, NoteFacts
  <2>4. Reaches(q, <<e>>, queue')
    BY <2>2, EnqueuedReaches
  <2>5. ~Carries(<<e>>, c, r) /\ ~Sends(<<e>>, c, r) /\ Singles(<<e>>, c, r) /\ InTurn(<<e>>, c, r)
    BY <2>3, EventsOne, NoneSingle
  <2>6. /\ Carries(queue', c, r) => Carries(q, c, r)
        /\ Sends(queue', c, r) => Sends(q, c, r)
        /\ Singles(q, c, r) => Singles(queue', c, r)
        /\ InTurn(q, c, r) => InTurn(queue', c, r)
    BY <1>3, <2>3, <2>4, <2>5, ReachesFacts
  <2> QED
    BY <1>0, <1>1, <1>3, <2>2, <2>6, SavedSame DEF Lone, Nowhere
<1>5. CASE h.job # "metadata"
  <2>1. Enqueued(pool, <<h>>, pool', MaxPool) /\ queue' = q
    BY <1>2, <1>5 DEF TakeEvent
  <2>2. Reaches(pool, <<h>>, pool')
    BY <2>1, EnqueuedReaches
  <2>3. /\ Lined(<<h>>)
        /\ Carries(<<h>>, c, r) <=> Has(h.msgs, c, r)
        /\ Sends(<<h>>, c, r) <=> Has(h.msgs, c, r) /\ h.job # "replace"
        /\ Singles(<<h>>, c, r) <=> Single(h.msgs, c, r)
        /\ InTurn(<<h>>, c, r)
    BY <1>3, EventsOne
  <2>4. /\ Carries(pool', c, r) => Carries(pool, c, r) \/ Has(h.msgs, c, r)
        /\ Sends(pool', c, r) => Sends(pool, c, r) \/ (Has(h.msgs, c, r) /\ h.job # "replace")
        /\ Singles(pool, c, r) /\ Single(h.msgs, c, r) => Singles(pool', c, r)
        /\ InTurn(pool, c, r) /\ (Has(h.msgs, c, r) /\ h.job # "replace" => ~Carries(pool, c, r))
             => InTurn(pool', c, r)
    BY <1>0, <2>2, <2>3, ReachesFacts
  <2>5. ASSUME Nowhere(c, r) PROVE Nowhere(c, r)'
    BY <1>0, <1>1, <1>3, <2>1, <2>4, <2>5, SavedSame DEF Nowhere
  <2>6. ASSUME Lone(c, r) PROVE Lone(c, r)'
    <3>1. Singles(pool', c, r) /\ Singles(queue', c, r) /\ InTurn(queue', c, r)
      BY <1>3, <2>1, <2>4, <2>6 DEF Lone
    <3>2. InTurn(pool', c, r)
      BY <1>3, <2>4, <2>6 DEF Lone
    <3>3. Sends(pool', c, r) \/ Sends(queue', c, r) => ~Has(file, c, r)
      BY <1>3, <2>1, <2>4, <2>6 DEF Lone
    <3>4. Sends(queue', c, r) => ~Carries(pool', c, r)
      BY <1>3, <2>1, <2>4, <2>6 DEF Lone
    <3>5. Sends(pool', c, r) \/ Sends(queue', c, r) => Sends(pool, c, r) \/ Sends(queue, c, r)
      BY <1>3, <2>1, <2>4
    <3> QED
      BY <1>0, <1>1, <2>6, <3>1, <3>2, <3>3, <3>4, <3>5, SavedSame DEF Lone
  <2> QED
    BY <2>5, <2>6
<1> QED
  BY <1>4, <1>5

\* The results made up go to the pool.
LEMMA RepairRole ==
  ASSUME Typed, NEW c, NEW r, Repair
  PROVE  (Lone(c, r) => Lone(c, r)') /\ (Nowhere(c, r) => Nowhere(c, r)')
<1>0. Lined(pool) /\ UNCHANGED <<file, saved, context, queue>> /\ repairs' = <<>>
  BY DEF Typed, HistoryTypeOK, Repair
<1>1. PICK t \in Seq(Message) :
        /\ DOMAIN t = DOMAIN repairs
        /\ SentOne(t) = [i \in DOMAIN repairs |-> Appended(Result(repairs[i], TRUE))]
        /\ \A i \in DOMAIN t : t[i].role = "tool" /\ t[i].call = repairs[i]
  BY RepairFacts
<1>2. PICK s : s = SentOne(t)
  OBVIOUS
<1>3. Enqueued(pool, s, pool', MaxPool)
  BY <1>1, <1>2 DEF Repair
<1>4. /\ Lined(s) /\ Reaches(pool, s, pool')
      /\ Carries(s, c, r) <=> Has(t, c, r)
      /\ Sends(s, c, r) => Has(t, c, r)
      /\ Singles(s, c, r)
      /\ Single(t, c, r) => InTurn(s, c, r)
  BY <1>2, <1>3, EventsSent, EnqueuedReaches
<1>5. /\ Carries(pool', c, r) => Carries(pool, c, r) \/ Has(t, c, r)
      /\ Sends(pool', c, r) => Sends(pool, c, r) \/ Has(t, c, r)
      /\ Singles(pool, c, r) => Singles(pool', c, r)
      /\ InTurn(pool, c, r) /\ Single(t, c, r) /\ (Has(t, c, r) => ~Carries(pool, c, r))
             => InTurn(pool', c, r)
  BY <1>0, <1>4, ReachesFacts
<1>6. \A i \in DOMAIN t : Bears(t[i], c, r) => r = "tool" /\ repairs[i] = c
  BY <1>1 DEF Bears
<1>7. Has(t, c, r) => Made(c, r)
  BY <1>1, <1>6 DEF Has, Made, ToSet
<1>8. Lone(c, r) => Single(t, c, r)
  BY <1>1, <1>6 DEF Lone, Single
<1>9. ~Made(c, r)' /\ DOMAIN repairs' = {}
  BY <1>0 DEF Made, ToSet
<1>10. ASSUME Nowhere(c, r) PROVE Nowhere(c, r)'
  BY <1>0, <1>5, <1>7, <1>9, <1>10, SavedSame DEF Nowhere
<1>11. ASSUME Lone(c, r) PROVE Lone(c, r)'
  <2>1. Singles(pool', c, r) /\ InTurn(pool', c, r)
    BY <1>5, <1>7, <1>8, <1>11 DEF Lone
  <2>2. Sends(pool', c, r) \/ Sends(queue, c, r) => ~Has(file, c, r)
    BY <1>5, <1>7, <1>11 DEF Lone
  <2>3. Sends(queue, c, r) => ~Carries(pool', c, r)
    BY <1>5, <1>7, <1>11 DEF Lone
  <2>4. Made(c, r) => r # "assistant"
    BY DEF Made
  <2>5. r = "assistant" /\ Sends(pool', c, r) => Sends(pool, c, r)
    BY <1>5, <1>7, <2>4
  <2> QED
    BY <1>0, <1>9, <1>11, <2>1, <2>2, <2>3, <2>4, <2>5, SavedSame DEF Lone
<1> QED
  BY <1>10, <1>11

\* The steps along the path keep the invariant of a call.
LEMMA PathCall ==
  ASSUME Typed, NEW c, CallInv(c), TakeEvent \/ Write \/ Mark \/ Crash \/ Repair
  PROVE  CallInv(c)'
<1>1. UNCHANGED <<raced, asked>> /\ owed' \subseteq owed
  BY DEF TakeEvent, Write, Mark, Crash, Repair, agent, counts
<1>2. \A r : (Lone(c, r) => Lone(c, r)') /\ (Nowhere(c, r) => Nowhere(c, r)')
  BY WriteRole, MarkRole, CrashRole, TakeRole, RepairRole
<1> QED
  BY <1>1, <1>2, MoveCall

-----------------------------------------------------------------------------
(***************************************************************************)
(* So does a respawn: the walk brings out one result of a call at most.    *)
(***************************************************************************)

\* The elements of a list with one more.
LEMMA ToSetAppend ==
  ASSUME NEW S, NEW s \in Seq(S), NEW x \in S
  PROVE  /\ Append(s, x) \in Seq(S)
         /\ \A c : c \in ToSet(Append(s, x)) <=> c \in ToSet(s) \/ c = x
<1> DEFINE e == Append(s, x)
<1>1. /\ e \in Seq(S) /\ Len(s) + 1 \in DOMAIN e /\ e[Len(s) + 1] = x
      /\ \A i \in DOMAIN s : i \in DOMAIN e /\ e[i] = s[i]
      /\ \A i \in DOMAIN e : i \in DOMAIN s \/ i = Len(s) + 1
  OBVIOUS
<1> HIDE DEF e
<1>2. \A c : c \in ToSet(e) <=> \E i \in DOMAIN e : e[i] = c
  BY DEF ToSet
<1>3. \A c : c \in ToSet(s) <=> \E i \in DOMAIN s : s[i] = c
  BY DEF ToSet
<1>4. \A c : c \in ToSet(e) <=> c \in ToSet(s) \/ c = x
  BY <1>1, <1>2, <1>3
<1> QED
  BY <1>1, <1>4 DEF e

\* The walk has met the assistant message of the call.
Opened(msgs, c, i) == \E j \in 1..i : Bears(msgs[j], c, "assistant")
\* The call occurs once in the list.
Unique(list, c) == \A a, b \in DOMAIN list : list[a] = c /\ list[b] = c => a = b

\* At position i, with the calls of left still open: what the walk's state t knows of a call.
Sourced(msgs, c, i, t, left) ==
  /\ c \in left => Opened(msgs, c, i)
  /\ c \in ToSet(t.made) => Opened(msgs, c, i)
  /\ Has(t.out, c, "tool") => Has(msgs, c, "tool") \/ c \in ToSet(t.made)
  /\ Has(t.out, c, "assistant") => Opened(msgs, c, i)
  /\ Single(msgs, c, "assistant") => Single(t.out, c, "assistant")
\* And what keeps its results single: one comes out only if the call is open no more.
Once(msgs, c, i, t, left) ==
  /\ c \in left =>
       /\ c \notin ToSet(t.made) /\ ~Has(t.out, c, "tool")
       /\ \A at \in ResultsOf(msgs, c) : at \notin t.consumed
  /\ c \in ToSet(t.made) => ResultsOf(msgs, c) = {}
  /\ \A at \in ResultsOf(msgs, c) : at \in t.consumed => Opened(msgs, c, i)
  /\ Single(t.out, c, "tool")
  /\ Has(t.out, c, "tool") =>
       \/ c \in ToSet(t.made)
       \/ \E at \in ResultsOf(msgs, c) : at \in t.consumed \/ (c \notin CallsIn(msgs) /\ at <= i)
  /\ Unique(t.made, c)

\* A call put behind a list that has it not is there once.
LEMMA UniqueAppend ==
  ASSUME NEW S, NEW s \in Seq(S), NEW x \in S, NEW c, Unique(s, c), c = x => c \notin ToSet(s)
  PROVE  Unique(Append(s, x), c)
<1> DEFINE e == Append(s, x)
<1>1. /\ \A i \in DOMAIN s : i \in DOMAIN e /\ e[i] = s[i]
      /\ \A i \in DOMAIN e : i \in DOMAIN s \/ (i = Len(s) + 1 /\ e[i] = x)
  OBVIOUS
<1> HIDE DEF e
<1>2. \A i \in DOMAIN s : s[i] = c => c \in ToSet(s)
  BY DEF ToSet
<1>3. Unique(e, c)
  BY <1>1, <1>2, Zenon DEF Unique
<1> QED
  BY <1>3 DEF e

\* One call of an open batch is answered, by a result found or one made up.
LEMMA SettleOnce ==
  ASSUME NEW msgs \in Seq(Message), NEW t \in WalkState, NEW d \in AllCalls, NEW c, NEW i, NEW left,
         d \in left, Sourced(msgs, c, i, t, left), NEW u, u = Settle(msgs, t, d)
  PROVE  /\ Sourced(msgs, c, i, u, left \ {d})
         /\ Once(msgs, c, i, t, left) => Once(msgs, c, i, u, left \ {d})
<1>0. t.out \in Seq(Message) /\ t.made \in Seq(AllCalls)
  BY DEF WalkState
<1>1. PICK m \in Message : m.role = "tool" /\ m.call = d /\ u.out = Append(t.out, m)
  BY SettleStep
<1>2. /\ Bears(m, c, "tool") <=> c = d
      /\ ~Bears(m, c, "assistant")
  BY <1>1 DEF Bears
<1>3. /\ Has(u.out, c, "tool") <=> Has(t.out, c, "tool") \/ c = d
      /\ Has(u.out, c, "assistant") <=> Has(t.out, c, "assistant")
      /\ Single(t.out, c, "tool") /\ (c = d => ~Has(t.out, c, "tool")) => Single(u.out, c, "tool")
      /\ Single(t.out, c, "assistant") => Single(u.out, c, "assistant")
  BY <1>0, <1>1, <1>2, HasAppend
<1>4. \/ \E at \in ResultsOf(msgs, d) :
           at \notin t.consumed /\ u.consumed = t.consumed \cup {at} /\ u.made = t.made
      \/ /\ ResultsOf(msgs, d) # {} => \E at \in ResultsOf(msgs, d) : at \in t.consumed
         /\ u.consumed = t.consumed /\ u.made = Append(t.made, d)
  BY SettleStep
<1>5. CASE \E at \in ResultsOf(msgs, d) :
             at \notin t.consumed /\ u.consumed = t.consumed \cup {at} /\ u.made = t.made
  <2>1. PICK at \in ResultsOf(msgs, d) : u.consumed = t.consumed \cup {at} /\ u.made = t.made
    BY <1>5
  <2>2. at \in ResultsOf(msgs, c) <=> c = d
    BY <2>1 DEF ResultsOf
  <2>3. Has(msgs, d, "tool")
    BY <2>1, BearingFacts
  <2>4. Sourced(msgs, c, i, u, left \ {d})
    BY <1>3, <2>1, <2>3 DEF Sourced
  <2>5. ASSUME Once(msgs, c, i, t, left) PROVE Once(msgs, c, i, u, left \ {d})
    <3>1. CASE c = d
      <4>1. /\ c \notin ToSet(u.made) /\ ~Has(t.out, c, "tool")
            /\ Opened(msgs, c, i) /\ at \in ResultsOf(msgs, c) /\ at \in u.consumed
        BY <2>1, <2>2, <2>5, <3>1 DEF Once, Sourced
      <4>2. Single(u.out, c, "tool")
        BY <1>3, <2>5, <4>1 DEF Once
      <4> QED
        BY <2>1, <2>5, <3>1, <4>1, <4>2 DEF Once
    <3>2. CASE c # d
      <4>1. \A a \in ResultsOf(msgs, c) : a \in u.consumed <=> a \in t.consumed
        BY <2>1, <2>2, <3>2
      <4> QED
        BY <1>3, <2>1, <2>5, <3>2, <4>1 DEF Once
    <3> QED
      BY <3>1, <3>2
  <2> QED
    BY <2>4, <2>5
<1>6. CASE /\ ResultsOf(msgs, d) # {} => \E at \in ResultsOf(msgs, d) : at \in t.consumed
           /\ u.consumed = t.consumed /\ u.made = Append(t.made, d)
  <2>1. c \in ToSet(u.made) <=> c \in ToSet(t.made) \/ c = d
    BY <1>0, <1>6, ToSetAppend
  <2>2. c = d => Opened(msgs, c, i)
    BY DEF Sourced
  <2>3. Sourced(msgs, c, i, u, left \ {d})
    BY <1>3, <2>1, <2>2 DEF Sourced
  <2>4. ASSUME Once(msgs, c, i, t, left) PROVE Once(msgs, c, i, u, left \ {d})
    <3>1. Unique(u.made, c)
      <4>1. Unique(t.made, c) /\ (c = d => c \notin ToSet(t.made))
        BY <2>4 DEF Once
      <4> QED
        BY <1>0, <1>6, <4>1, UniqueAppend
    <3>2. CASE c = d
      <4>1. ~Has(t.out, c, "tool") /\ \A at \in ResultsOf(msgs, c) : at \notin t.consumed
        BY <2>4, <3>2 DEF Once
      <4>2. ResultsOf(msgs, c) = {}
        BY <1>6, <3>2, <4>1
      <4>3. Single(u.out, c, "tool")
        BY <1>3, <2>4, <4>1 DEF Once
      <4> QED
        BY <2>1, <2>4, <3>1, <3>2, <4>2, <4>3 DEF Once
    <3>3. CASE c # d
      BY <1>3, <1>6, <2>1, <2>4, <3>1, <3>3 DEF Once
    <3> QED
      BY <3>2, <3>3
  <2> QED
    BY <2>3, <2>4
<1> QED
  BY <1>4, <1>5, <1>6

\* The same for every role at once.
LEMMA HasLast ==
  ASSUME NEW t \in Seq(Message), NEW m \in Message, NEW c, NEW o, o = Append(t, m)
  PROVE  \A r : /\ Has(o, c, r) <=> Has(t, c, r) \/ Bears(m, c, r)
                /\ Single(t, c, r) /\ (Bears(m, c, r) => ~Has(t, c, r)) => Single(o, c, r)
  BY HasAppend

\* Closing a batch answers its calls one by one.
LEMMA BatchOnce ==
  ASSUME NEW msgs \in Seq(Message), NEW s \in WalkState, Distinct(s.open), NEW c, NEW i,
         Sourced(msgs, c, i, s, ToSet(s.open)), NEW u, u = CloseBatch(msgs, s)
  PROVE  /\ Sourced(msgs, c, i, u, {})
         /\ Once(msgs, c, i, s, ToSet(s.open)) => Once(msgs, c, i, u, {})
<1> DEFINE n == Len(s.open)
           Left(k) == {s.open[x] : x \in (k + 1)..n}
<1>0. s.open \in Seq(AllCalls) /\ n \in Nat /\ DOMAIN s.open = 1..n
  BY DEF WalkState
<1>1. PICK g : /\ Settles(g, msgs, s)
               /\ \A j \in 0..n : g[j] \in WalkState
               /\ u.out = g[n].out /\ u.made = g[n].made /\ u.consumed = g[n].consumed
  BY CloseSteps
<1> DEFINE Good(k) == /\ Sourced(msgs, c, i, g[k], Left(k))
                      /\ Once(msgs, c, i, s, ToSet(s.open)) => Once(msgs, c, i, g[k], Left(k))
           T == {k \in Nat : k <= n => Good(k)}
<1>2. 0 \in T
  <2>1. Left(0) = ToSet(s.open)
    BY <1>0 DEF ToSet
  <2>2. g[0] = s
    BY <1>1 DEF Settles
  <2> HIDE DEF Left
  <2> QED
    BY <2>1, <2>2
<1>3. ASSUME NEW k \in Nat, k \in T PROVE k + 1 \in T
  <2> SUFFICES ASSUME k + 1 <= n PROVE Good(k + 1)
    BY DEF T
  <2>1. k <= n /\ k \in 0..n /\ k + 1 \in 1..n /\ (k + 1) - 1 = k
    BY <1>0
  <2>2. Good(k)
    BY <1>3, <2>1 DEF T
  <2>3. PICK d \in AllCalls : d = s.open[k + 1]
    BY <1>0, <2>1
  <2>4. g[k + 1] = Settle(msgs, g[k], d) /\ g[k] \in WalkState
    BY <1>1, <2>1, <2>3 DEF Settles
  <2>5. d \in Left(k)
    BY <1>0, <2>1, <2>3
  <2>6. Left(k + 1) = Left(k) \ {d}
    <3>1. \A x \in (k + 1)..n : x \in DOMAIN s.open /\ (x = k + 1 \/ x \in (k + 2)..n)
      BY <1>0, <2>1
    <3>2. \A x \in (k + 2)..n : x \in (k + 1)..n /\ x # k + 1
      BY <1>0, <2>1
    <3>3. \A x \in (k + 2)..n : s.open[x] # d
      BY <2>1, <2>3, <1>0, <3>1, <3>2 DEF Distinct
    <3>4. Left(k + 1) = {s.open[x] : x \in (k + 2)..n}
      BY <2>1
    <3>5. Left(k + 1) \subseteq Left(k) \ {d}
      BY <3>2, <3>3, <3>4
    <3>6. Left(k) \ {d} \subseteq Left(k + 1)
      BY <2>3, <3>1, <3>4
    <3> QED
      BY <3>5, <3>6
  <2>7. /\ Sourced(msgs, c, i, g[k], Left(k))
        /\ Once(msgs, c, i, s, ToSet(s.open)) => Once(msgs, c, i, g[k], Left(k))
    BY <2>2
  <2> HIDE DEF Left, T
  <2>8. /\ Sourced(msgs, c, i, g[k + 1], Left(k) \ {d})
        /\ Once(msgs, c, i, g[k], Left(k)) => Once(msgs, c, i, g[k + 1], Left(k) \ {d})
    BY <2>4, <2>5, <2>7, SettleOnce
  <2> QED
    BY <2>6, <2>7, <2>8
<1> HIDE DEF T
<1>4. Nat \subseteq T
  BY <1>2, <1>3, ByInduction
<1>5. Good(n)
  <2>1. n \in T /\ n <= n
    BY <1>0, <1>4
  <2> HIDE DEF Good, n
  <2> QED
    BY <2>1 DEF T
<1>6. Left(n) = {}
  BY <1>0
<1> HIDE DEF Left
<1>7. /\ Sourced(msgs, c, i, g[n], {})
      /\ Once(msgs, c, i, s, ToSet(s.open)) => Once(msgs, c, i, g[n], {})
  BY <1>5, <1>6
<1>8. Sourced(msgs, c, i, u, {})
  BY <1>1, <1>7 DEF Sourced
<1>9. Once(msgs, c, i, g[n], {}) => Once(msgs, c, i, u, {})
  BY <1>1 DEF Once
<1> QED
  BY <1>7, <1>8, <1>9

\* The walk's state at position i knows of the call what it should.
Knows(msgs, c, i, s) ==
  /\ Distinct(s.open)
  /\ Sourced(msgs, c, i, s, ToSet(s.open))
  /\ Single(msgs, c, "tool") /\ Single(msgs, c, "assistant") => Once(msgs, c, i, s, ToSet(s.open))

\* What is known at a position is known at the next.
LEMMA KnowsMore ==
  ASSUME NEW msgs \in Seq(Message), NEW c, NEW i \in Nat, NEW s, Knows(msgs, c, i, s)
  PROVE  Knows(msgs, c, i + 1, s)
<1>1. Opened(msgs, c, i) => Opened(msgs, c, i + 1)
  <2>1. 1..i \subseteq 1..(i + 1)
    OBVIOUS
  <2> QED
    BY <2>1 DEF Opened
<1>2. Sourced(msgs, c, i + 1, s, ToSet(s.open))
  BY <1>1 DEF Knows, Sourced
<1>3. \A at \in ResultsOf(msgs, c) : at <= i => at <= i + 1
  <2>1. \A at \in ResultsOf(msgs, c) : at \in Nat
    BY DEF ResultsOf
  <2> QED
    BY <2>1
<1>4. Once(msgs, c, i, s, ToSet(s.open)) => Once(msgs, c, i + 1, s, ToSet(s.open))
  BY <1>1, <1>3 DEF Once
<1> QED
  BY <1>2, <1>4 DEF Knows

\* Every message of the walk keeps what is known.
LEMMA PassKnows ==
  ASSUME NEW msgs \in Seq(Message), NEW c, NEW i \in Nat, i + 1 \in 1..Len(msgs),
         NEW s \in WalkState, Knows(msgs, c, i, s), NEW u, u = Pass(msgs, s, i + 1)
  PROVE  Knows(msgs, c, i + 1, u)
<1>0. PICK p : p = i + 1 /\ p \in 1..Len(msgs) /\ p \in DOMAIN msgs /\ p \in Nat
  OBVIOUS
<1>1. PICK m \in Message : m = msgs[p]
  BY <1>0
<1>2. Passes(msgs, s, p, m, u)
  BY <1>0, <1>1, PassStep
<1>3. Knows(msgs, c, p, s)
  BY <1>0, KnowsMore
<1>4. /\ s.out \in Seq(Message) /\ s.open \in Seq(AllCalls) /\ Distinct(s.open)
      /\ Sourced(msgs, c, p, s, ToSet(s.open))
      /\ m.role \in {"user", "assistant", "tool", "internal"}
  BY <1>3, MessageFacts DEF WalkState, Knows
<1>5. CASE m.role = "internal"
  <2>1. /\ u.out = Append(s.out, m) /\ u.made = s.made /\ u.consumed = s.consumed /\ u.open = s.open
    BY <1>2, <1>5 DEF Passes
  <2>2. \A r : ~Bears(m, c, r)
    BY <1>5 DEF Bears
  <2>3. \A r : (Has(u.out, c, r) <=> Has(s.out, c, r))
            /\ (Single(s.out, c, r) => Single(u.out, c, r))
    BY <1>4, <2>1, <2>2, HasAppend
  <2>4. Sourced(msgs, c, p, u, ToSet(u.open))
    BY <1>4, <2>1, <2>3 DEF Sourced
  <2>5. Once(msgs, c, p, s, ToSet(s.open)) => Once(msgs, c, p, u, ToSet(u.open))
    BY <2>1, <2>3 DEF Once
  <2>6. Knows(msgs, c, p, u)
    BY <1>3, <2>1, <2>4, <2>5 DEF Knows
  <2> QED
    BY <1>0, <2>6
<1>6. CASE u = s
  BY <1>0, <1>3, <1>6
<1>7. ASSUME m.role = "tool", p \notin s.consumed, u.out = Append(s.out, m), u.made = s.made,
             /\ m.call \in ToSet(s.open)
             /\ u.consumed = s.consumed \cup {p}
             /\ Distinct(u.open) /\ ToSet(u.open) = ToSet(s.open) \ {m.call}
      PROVE  Knows(msgs, c, p, u)
  <2>1. (Bears(m, c, "tool") <=> c = m.call) /\ ~Bears(m, c, "assistant")
    BY <1>7 DEF Bears
  <2>2. /\ Has(u.out, c, "tool") <=> Has(s.out, c, "tool") \/ c = m.call
        /\ Has(u.out, c, "assistant") <=> Has(s.out, c, "assistant")
        /\ Single(s.out, c, "tool") /\ (c = m.call => ~Has(s.out, c, "tool"))
               => Single(u.out, c, "tool")
        /\ Single(s.out, c, "assistant") => Single(u.out, c, "assistant")
    <3>1. \A r : /\ Has(u.out, c, r) <=> Has(s.out, c, r) \/ Bears(m, c, r)
                 /\ Single(s.out, c, r) /\ (Bears(m, c, r) => ~Has(s.out, c, r))
                        => Single(u.out, c, r)
      BY <1>4, <1>7, HasLast
    <3> QED
      BY <3>1, <2>1
  <2>3. p \in ResultsOf(msgs, c) <=> c = m.call
    BY <1>0, <1>1, <1>7 DEF ResultsOf
  <2>4. c = m.call => Has(msgs, c, "tool") /\ Opened(msgs, c, p)
    BY <1>4, <1>7, <2>3, BearingFacts DEF Sourced
  <2>5. Sourced(msgs, c, p, u, ToSet(u.open))
    BY <1>4, <1>7, <2>2, <2>4 DEF Sourced
  <2>6. ASSUME Once(msgs, c, p, s, ToSet(s.open)) PROVE Once(msgs, c, p, u, ToSet(u.open))
    <3>1. CASE c = m.call
      <4>1. /\ c \notin ToSet(s.made) /\ ~Has(s.out, c, "tool") /\ Single(s.out, c, "tool")
        BY <1>7, <2>6, <3>1 DEF Once
      <4>2. p \in ResultsOf(msgs, c) /\ p \in u.consumed /\ Opened(msgs, c, p)
        BY <1>7, <2>3, <2>4, <3>1
      <4> QED
        BY <1>7, <2>2, <2>6, <3>1, <4>1, <4>2 DEF Once
    <3>2. CASE c # m.call
      <4>1. \A at \in ResultsOf(msgs, c) : at \in u.consumed <=> at \in s.consumed
        BY <1>7, <2>3, <3>2
      <4> QED
        BY <1>7, <2>2, <2>6, <3>2, <4>1 DEF Once
    <3> QED
      BY <3>1, <3>2
  <2> QED
    BY <1>3, <1>7, <2>5, <2>6 DEF Knows
<1>8. CASE m.role = "tool" /\ p \notin s.consumed /\ m.call \in ToSet(s.open)
  <2>1. /\ u.out = Append(s.out, m) /\ u.made = s.made /\ u.consumed = s.consumed \cup {p}
        /\ u.open = At(s.open, {j \in DOMAIN s.open : s.open[j] # m.call})
    BY <1>2, <1>8 DEF Passes
  <2>2. PICK d \in ToSet(s.open) : d = m.call
    BY <1>8
  <2>3. Distinct(u.open) /\ ToSet(u.open) = ToSet(s.open) \ {d}
    BY <1>4, <2>1, <2>2, OthersLeft
  <2> QED
    BY <1>0, <1>7, <1>8, <2>1, <2>2, <2>3
\* An orphan stays where it is: no call of a batch asked for it.
<1>9. ASSUME m.role = "tool", p \notin s.consumed, m.call \notin ToSet(s.open),
             ~(m.call \in CallsIn(msgs) /\ p = Min(ResultsOf(msgs, m.call))),
             /\ u.out = Append(s.out, m) /\ u.made = s.made
             /\ u.consumed = s.consumed /\ u.open = s.open
      PROVE  Knows(msgs, c, p, u)
  <2>1. (Bears(m, c, "tool") <=> c = m.call) /\ ~Bears(m, c, "assistant")
    BY <1>9 DEF Bears
  <2>2. /\ Has(u.out, c, "tool") <=> Has(s.out, c, "tool") \/ c = m.call
        /\ Has(u.out, c, "assistant") <=> Has(s.out, c, "assistant")
        /\ Single(s.out, c, "tool") /\ (c = m.call => ~Has(s.out, c, "tool"))
               => Single(u.out, c, "tool")
        /\ Single(s.out, c, "assistant") => Single(u.out, c, "assistant")
    <3>1. \A r : /\ Has(u.out, c, r) <=> Has(s.out, c, r) \/ Bears(m, c, r)
                 /\ Single(s.out, c, r) /\ (Bears(m, c, r) => ~Has(s.out, c, r))
                        => Single(u.out, c, r)
      BY <1>4, <1>9, HasLast
    <3> QED
      BY <3>1, <2>1
  <2>3. p \in ResultsOf(msgs, c) <=> c = m.call
    BY <1>0, <1>1, <1>9 DEF ResultsOf
  <2>4. c = m.call => Has(msgs, c, "tool")
    BY <2>3, BearingFacts
  <2>5. Sourced(msgs, c, p, u, ToSet(u.open))
    BY <1>4, <1>9, <2>2, <2>4 DEF Sourced
  <2>6. ASSUME Single(msgs, c, "tool"), Single(msgs, c, "assistant")
        PROVE  Once(msgs, c, p, u, ToSet(u.open))
    <3>1. Once(msgs, c, i, s, ToSet(s.open)) /\ Once(msgs, c, p, s, ToSet(s.open))
      BY <1>3, <2>6 DEF Knows
    <3>2. CASE c = m.call
      <4>1. \A at \in ResultsOf(msgs, c) : at = p
        BY <2>3, <2>6, <3>2, BearingFacts
      <4>2. p \in ResultsOf(msgs, c)
        BY <2>3, <3>2
      <4>3. Min(ResultsOf(msgs, c)) = p
        BY <4>1, <4>2, FirstResult
      <4>4. c \notin CallsIn(msgs)
        BY <1>9, <3>2, <4>3
      <4>5. c \notin ToSet(s.made)
        BY <3>1, <4>2 DEF Once
      <4>6. ~(p <= i)
        BY <1>0
      <4>7. ~Has(s.out, c, "tool")
        BY <1>9, <3>1, <4>1, <4>5, <4>6 DEF Once
      <4>8. Single(u.out, c, "tool")
        BY <2>2, <3>1, <4>7 DEF Once
      <4>9. p <= p
        BY <1>0
      <4> QED
        BY <1>9, <3>1, <3>2, <4>2, <4>4, <4>8, <4>9 DEF Once
    <3>3. CASE c # m.call
      BY <1>9, <2>2, <3>1, <3>3 DEF Once
    <3> QED
      BY <3>2, <3>3
  <2> QED
    BY <1>4, <1>9, <2>5, <2>6 DEF Knows
<1>10. CASE m.role = "tool" /\ p \notin s.consumed /\ m.call \notin ToSet(s.open)
  <2>1. CASE m.call \in CallsIn(msgs) /\ p = Min(ResultsOf(msgs, m.call))
    BY <1>2, <1>6, <1>10, <2>1 DEF Passes
  <2>2. CASE ~(m.call \in CallsIn(msgs) /\ p = Min(ResultsOf(msgs, m.call)))
    <3>1. u.out = Append(s.out, m) /\ u.made = s.made /\ u.consumed = s.consumed /\ u.open = s.open
      BY <1>2, <1>10, <2>2 DEF Passes
    <3> QED
      BY <1>0, <1>9, <1>10, <2>2, <3>1
  <2> QED
    BY <2>1, <2>2
\* A new batch opens: its assistant message is the first to bear on its calls.
<1>11. ASSUME m.role \in {"user", "assistant"} PROVE Knows(msgs, c, p, u)
  <2>1. PICK w \in WalkState : w = CloseBatch(msgs, s)
    BY CloseSteps
  <2>2. PICK l : l = IF m.role = "assistant" THEN m.calls ELSE <<>>
    OBVIOUS
  <2>3. u.out = Append(w.out, m) /\ u.made = w.made /\ u.consumed = w.consumed /\ u.open = l
    BY <1>2, <1>11, <2>1, <2>2 DEF Passes
  <2>4. Distinct(l)
    BY <2>2, MessageFacts, CallListFacts
  <2>5. /\ Bears(m, c, "assistant") <=> c \in ToSet(l)
        /\ ~Bears(m, c, "tool")
    <3>1. c \notin ToSet(<<>>)
      BY DEF ToSet
    <3> QED
      BY <1>11, <2>2, <3>1 DEF Bears
  <2>6. w.out \in Seq(Message)
    BY DEF WalkState
  <2>7. /\ Has(u.out, c, "tool") <=> Has(w.out, c, "tool")
        /\ Has(u.out, c, "assistant") <=> Has(w.out, c, "assistant") \/ c \in ToSet(l)
        /\ Single(w.out, c, "tool") => Single(u.out, c, "tool")
        /\ Single(w.out, c, "assistant") /\ (c \in ToSet(l) => ~Has(w.out, c, "assistant"))
             => Single(u.out, c, "assistant")
    <3>1. \A r : /\ Has(u.out, c, r) <=> Has(w.out, c, r) \/ Bears(m, c, r)
                 /\ Single(w.out, c, r) /\ (Bears(m, c, r) => ~Has(w.out, c, r))
                        => Single(u.out, c, r)
      BY <2>3, <2>6, HasLast
    <3> QED
      BY <3>1, <2>5
  <2>8. /\ Sourced(msgs, c, i, w, {})
        /\ Once(msgs, c, i, s, ToSet(s.open)) => Once(msgs, c, i, w, {})
    BY <1>4, <2>1, BatchOnce DEF Knows
  <2>9. c \in ToSet(l) => Opened(msgs, c, p) /\ c \in CallsIn(msgs)
    <3>1. ASSUME c \in ToSet(l) PROVE Opened(msgs, c, p) /\ Has(msgs, c, "assistant")
      <4>1. Bears(msgs[p], c, "assistant") /\ p \in 1..p
        BY <1>0, <1>1, <2>5, <3>1
      <4> QED
        BY <1>0, <4>1, Zenon DEF Opened, Has
    <3> QED
      BY <3>1, BearingFacts
  <2>10. Opened(msgs, c, i) => Opened(msgs, c, p)
    <3>1. 1..i \subseteq 1..p
      BY <1>0
    <3> QED
      BY <3>1 DEF Opened
  <2>11. ASSUME Single(msgs, c, "assistant"), c \in ToSet(l) PROVE ~Opened(msgs, c, i)
    <3> SUFFICES ASSUME NEW j \in 1..i, Bears(msgs[j], c, "assistant") PROVE FALSE
      BY DEF Opened
    <3>1. j \in DOMAIN msgs /\ j # p
      BY <1>0
    <3>2. Bears(msgs[p], c, "assistant")
      BY <1>1, <2>5, <2>11
    <3> QED
      BY <1>0, <2>11, <3>1, <3>2, Zenon DEF Single
  <2>12. Sourced(msgs, c, p, u, ToSet(u.open))
    BY <2>3, <2>7, <2>8, <2>9, <2>10, <2>11 DEF Sourced
  <2>13. ASSUME Single(msgs, c, "tool"), Single(msgs, c, "assistant")
         PROVE  Once(msgs, c, p, u, ToSet(u.open))
    <3>1. Once(msgs, c, i, w, {})
      BY <2>8, <2>13 DEF Knows
    <3>2. \A at \in ResultsOf(msgs, c) : at <= i => at <= p
      <4>1. \A at \in ResultsOf(msgs, c) : at \in Nat
        BY DEF ResultsOf
      <4> QED
        BY <1>0, <4>1
    <3>3. ASSUME c \in ToSet(l)
          PROVE  /\ c \notin ToSet(w.made) /\ ~Has(w.out, c, "tool")
                 /\ \A at \in ResultsOf(msgs, c) : at \notin w.consumed
      <4>1. ~Opened(msgs, c, i) /\ c \in CallsIn(msgs)
        BY <2>9, <2>11, <2>13, <3>3
      <4>2. c \notin ToSet(w.made)
        BY <2>8, <4>1 DEF Sourced
      <4>3. \A at \in ResultsOf(msgs, c) : at \notin w.consumed
        BY <3>1, <4>1 DEF Once
      <4> QED
        BY <3>1, <4>1, <4>2, <4>3 DEF Once
    <3> QED
      BY <2>3, <2>7, <2>10, <3>1, <3>2, <3>3 DEF Once
  <2> QED
    BY <2>3, <2>4, <2>12, <2>13 DEF Knows
<1>12. CASE m.role = "tool" /\ p \in s.consumed
  BY <1>2, <1>6, <1>12 DEF Passes
<1>13. CASE m.role \in {"user", "assistant"}
  BY <1>0, <1>11, <1>13
<1> QED
  BY <1>4, <1>5, <1>8, <1>10, <1>12, <1>13

-----------------------------------------------------------------------------
(***************************************************************************)
(* What holds of the whole walk, and the theorems.                         *)
(***************************************************************************)

\* So it is known at the end of the walk.
LEMMA WalkedKnows ==
  ASSUME NEW msgs \in Seq(Message), NEW c
  PROVE  Knows(msgs, c, Len(msgs), Walked(msgs))
<1> DEFINE n == Len(msgs)
<1>0. n \in Nat
  OBVIOUS
<1>1. PICK h : Walks(h, msgs) /\ Walked(msgs) = h[n]
  BY WalkSteps
<1> DEFINE T == {k \in Nat : k <= n => Knows(msgs, c, k, h[k])}
<1>2. 0 \in T
  <2>1. h[0] = Start
    BY <1>1 DEF Walks
  <2>2. Start.out = <<>> /\ Start.made = <<>> /\ Start.consumed = {} /\ Start.open = <<>>
    BY DEF Start
  <2>3. Distinct(<<>>) /\ Unique(<<>>, c) /\ ToSet(<<>>) = {}
    BY CallListFacts DEF Unique, ToSet
  <2>4. \A r : ~Has(<<>>, c, r) /\ Single(<<>>, c, r)
    BY HasNone
  <2>5. Sourced(msgs, c, 0, Start, {}) /\ Once(msgs, c, 0, Start, {})
    BY <2>2, <2>3, <2>4 DEF Sourced, Once
  <2>6. Knows(msgs, c, 0, Start)
    BY <2>2, <2>3, <2>5 DEF Knows
  <2> QED
    BY <2>1, <2>6
<1>3. ASSUME NEW k \in Nat, k \in T PROVE k + 1 \in T
  <2> SUFFICES ASSUME k + 1 <= n PROVE Knows(msgs, c, k + 1, h[k + 1])
    OBVIOUS
  <2>1. k <= n /\ k \in 0..n /\ k + 1 \in 1..n /\ (k + 1) - 1 = k
    BY <1>0
  <2>2. Knows(msgs, c, k, h[k])
    BY <1>3, <2>1
  <2>3. h[k + 1] = Pass(msgs, h[k], k + 1) /\ h[k] \in WalkState /\ k + 1 \in 1..Len(msgs)
    BY <1>1, <2>1 DEF Walks
  <2> HIDE DEF T, n
  <2> QED
    BY <2>2, <2>3, PassKnows
<1> HIDE DEF T
<1>4. Nat \subseteq T
  BY <1>2, <1>3, ByInduction
<1>5. Knows(msgs, c, n, h[n])
  <2>1. n \in T /\ n <= n
    BY <1>0, <1>4
  <2> HIDE DEF n
  <2> QED
    BY <2>1 DEF T
<1> QED
  BY <1>1, <1>5

\* What closing a history does to a call: its results come from the history or are made up,
\* and if the history has one of each, the closed one has no more.
LEMMA ClosedOnce ==
  ASSUME NEW msgs \in Seq(Message), NEW c, NEW done, NEW made,
         done = Closed(msgs), made = Close(msgs).made
  PROVE  /\ Has(done, c, "tool") => Has(msgs, c, "tool") \/ c \in ToSet(made)
         /\ Has(done, c, "assistant") => Has(msgs, c, "assistant")
         /\ c \in ToSet(made) => Has(msgs, c, "assistant")
         /\ Single(msgs, c, "assistant") => Single(done, c, "assistant")
         /\ Single(msgs, c, "tool") /\ Single(msgs, c, "assistant") =>
              /\ Single(done, c, "tool")
              /\ c \in ToSet(made) => ~Has(msgs, c, "tool")
              /\ Unique(made, c)
<1>1. PICK s \in WalkState : s = Walked(msgs)
  BY WalkSteps
<1>2. PICK n \in Nat : n = Len(msgs) /\ DOMAIN msgs = 1..n
  OBVIOUS
<1>3. Knows(msgs, c, n, s)
  BY <1>1, <1>2, WalkedKnows
<1>4. PICK u : u = CloseBatch(msgs, s) /\ u.out = done /\ u.made = made
  BY <1>1 DEF Closed, Close
<1>5. Distinct(s.open) /\ Sourced(msgs, c, n, s, ToSet(s.open))
  BY <1>3 DEF Knows
<1>6. /\ Sourced(msgs, c, n, u, {})
      /\ Once(msgs, c, n, s, ToSet(s.open)) => Once(msgs, c, n, u, {})
  BY <1>4, <1>5, BatchOnce
<1>7. Opened(msgs, c, n) => Has(msgs, c, "assistant")
  BY <1>2 DEF Opened, Has
<1>8. /\ Has(done, c, "tool") => Has(msgs, c, "tool") \/ c \in ToSet(made)
      /\ Has(done, c, "assistant") => Has(msgs, c, "assistant")
      /\ c \in ToSet(made) => Has(msgs, c, "assistant")
      /\ Single(msgs, c, "assistant") => Single(done, c, "assistant")
  BY <1>4, <1>6, <1>7 DEF Sourced
<1>9. ASSUME Single(msgs, c, "tool"), Single(msgs, c, "assistant")
      PROVE  Single(done, c, "tool") /\ (c \in ToSet(made) => ~Has(msgs, c, "tool"))
                 /\ Unique(made, c)
  <2>1. Once(msgs, c, n, u, {})
    BY <1>3, <1>6, <1>9 DEF Knows
  <2> QED
    BY <1>4, <2>1, BearingFacts DEF Once
<1> QED
  BY <1>8, <1>9

\* A respawn makes up a result only where the history has none, and marks the calls whose own
\* result is on its way.
LEMMA RespawnCall ==
  ASSUME Typed, NEW c \in AllCalls, CallInv(c), Respawn
  PROVE  CallInv(c)'
<1>0. /\ file \in Seq(Message) /\ run = "none"
      /\ UNCHANGED <<file, tail, saved, pool, queue, owed, asked>>
  BY DEF Typed, HistoryTypeOK, Respawn, disk
<1>1. PICK done, made : done = Closed(file) /\ made = Close(file).made
  OBVIOUS
<1>2. /\ context' = done /\ repairs' = made
      /\ raced' = raced \cup {d \in ToSet(made) : OnItsWay(d)}
  BY <1>1, Zenon DEF Respawn, Closed
<1>3. /\ Has(done, c, "tool") => Has(file, c, "tool") \/ c \in ToSet(made)
      /\ Has(done, c, "assistant") => Has(file, c, "assistant")
      /\ c \in ToSet(made) => Has(file, c, "assistant")
      /\ Single(file, c, "assistant") => Single(done, c, "assistant")
      /\ Single(file, c, "tool") /\ Single(file, c, "assistant") =>
           /\ Single(done, c, "tool")
           /\ c \in ToSet(made) => ~Has(file, c, "tool")
           /\ Unique(made, c)
  BY <1>0, <1>1, ClosedOnce
<1>4. (Made(c, "tool")' <=> c \in ToSet(made)) /\ ~Made(c, "assistant")'
  BY <1>2 DEF Made
<1>5. c \notin owed' /\ (Requested(c)' <=> Requested(c))
  BY <1>0 DEF Typed, Owing, Requested
<1>6. Lone(c, "assistant")'
  BY <1>0, <1>2, <1>3, <1>4, SavedSame DEF CallInv, Lone
<1>7. ASSUME c \notin raced' PROVE Lone(c, "tool")'
  <2>1. Lone(c, "tool") /\ Single(file, c, "tool") /\ Single(file, c, "assistant")
    BY <1>2, <1>7 DEF CallInv, Lone
  <2>2. c \in ToSet(made) => ~Carries(pool, c, "tool") /\ ~Carries(queue, c, "tool")
    BY <1>2, <1>7, WayFacts
  <2>3. c \in ToSet(made) => ~Sends(queue, c, "tool") /\ ~Has(file, c, "tool")
    BY <1>3, <2>1, <2>2, SendsCarried
  <2>4. Sends(queue, c, "tool") => ~Carries(pool, c, "tool")
    BY <2>1 DEF Lone
  <2>5. \A i, j \in DOMAIN repairs' : repairs'[i] = c /\ repairs'[j] = c => i = j
    BY <1>2, <1>3, <2>1 DEF Unique
  <2>6. Single(context', c, "tool")
    BY <1>2, <1>3, <2>1
  <2> QED
    BY <1>0, <1>4, <2>1, <2>2, <2>3, <2>4, <2>5, <2>6, SavedSame DEF Lone
<1>8. ASSUME ~Requested(c)' PROVE Nowhere(c, "tool")' /\ Nowhere(c, "assistant")'
  <2>1. Nowhere(c, "tool") /\ Nowhere(c, "assistant")
    BY <1>5, <1>8 DEF CallInv
  <2>2. c \notin ToSet(made)
    BY <1>3, <2>1 DEF Nowhere
  <2> QED
    BY <1>0, <1>2, <1>3, <1>4, <2>1, <2>2, SavedSame DEF Nowhere
<1> QED
  BY <1>5, <1>6, <1>7, <1>8 DEF CallInv

\* The invariant holds at the start,
LEMMA HistoryInvInit ==
  ASSUME HistoryInit
  PROVE  HistoryInv
<1>1. Typed
  BY TypedInit
<1>2. ASSUME NEW c \in AllCalls, NEW r PROVE Nowhere(c, r) /\ Lone(c, r)
  <2>1. /\ file = <<>> /\ context = <<>> /\ pool = <<>> /\ queue = <<>> /\ repairs = <<>>
        /\ saved = {}
    BY DEF HistoryInit
  <2>2. ~Made(c, r) /\ DOMAIN repairs = {}
    BY <2>1 DEF Made, ToSet
  <2> QED
    BY <2>1, <2>2, HasNone DEF Nowhere, Lone, SavedHas, SavedSingle
<1>3. ASSUME NEW c \in AllCalls PROVE CallInv(c)
  BY <1>2 DEF CallInv, HistoryInit
<1> QED
  BY <1>1, <1>3 DEF HistoryInv

\* and every step keeps it.
LEMMA HistoryInvStep ==
  ASSUME HistoryInv, [HistoryNext]_conversation
  PROVE  HistoryInv'
<1>0. Typed /\ Typed'
  BY TypedStep DEF HistoryInv
<1>1. ASSUME NEW c \in AllCalls PROVE CallInv(c)'
  <2>0. CallInv(c)
    BY DEF HistoryInv
  <2>1. CASE UNCHANGED conversation
    <3>1. UNCHANGED <<file, saved, context, pool, queue, repairs, owed, raced, asked>>
      BY <2>1 DEF conversation, disk, agent, counts, accounts
    <3> QED
      BY <2>0, <3>1, SavedSame DEF CallInv, Nowhere, Lone, Made, Requested
  <2>2. CASE Leave
    <3>1. UNCHANGED <<file, saved, context, pool, queue, repairs, owed, raced, asked>>
      BY <2>2 DEF Leave, disk, counts, accounts
    <3> QED
      BY <2>0, <3>1, SavedSame DEF CallInv, Nowhere, Lone, Made, Requested
  <2>3. CASE Ask \/ Reply \/ Answer \/ Interrupt \/ Shutdown \/ Clear
    BY <1>0, <2>0, <2>3, AskCall, ReplyCall, AnswerCall, CancelCall, ClearCall
  <2>4. CASE \E d \in AllCalls : Finish(d) \/ Note(d)
    BY <1>0, <2>0, <2>4, FinishCall, NoteCall
  <2>5. CASE \E i \in 1..(Len(context) + 1) : Rewind(i)
    BY <1>0, <2>0, <2>5, RewindCall
  <2>8. CASE WindDown \/ BreakOff
    BY <1>0, <2>0, <2>8, WindDownCall, BreakOffCall
  <2>6. CASE TakeEvent \/ Write \/ Mark \/ Crash \/ Repair
    BY <1>0, <2>0, <2>6, PathCall
  <2>7. CASE Respawn
    BY <1>0, <2>0, <2>7, RespawnCall
  <2> QED
    BY <2>1, <2>2, <2>3, <2>4, <2>5, <2>6, <2>7, <2>8 DEF HistoryNext
<1> QED
  BY <1>0, <1>1 DEF HistoryInv

\* The inductive invariant: for every call, what bears on it is told once and in turn.
THEOREM HistoryInvariant == HistorySpec => []HistoryInv
<1>1. HistoryInit => HistoryInv
  BY HistoryInvInit
<1>2. HistoryInv /\ [HistoryNext]_conversation => HistoryInv'
  BY HistoryInvStep
<1> QED
  BY <1>1, <1>2, PTL DEF HistorySpec

\* What is single is one at most.
LEMMA FewResults ==
  ASSUME NEW msgs \in Seq(Message), NEW c, Single(msgs, c, "tool")
  PROVE  Cardinality(ResultsOf(msgs, c)) <= 1
<1>1. \A i, j \in ResultsOf(msgs, c) : i = j
  BY BearingFacts
<1>2. CASE ResultsOf(msgs, c) = {}
  BY <1>2, FS_EmptySet
<1>3. CASE ResultsOf(msgs, c) # {}
  <2>1. PICK i : ResultsOf(msgs, c) = {i}
    BY <1>1, <1>3
  <2>2. Cardinality({i}) = 1
    BY FS_Singleton
  <2> QED
    BY <2>1, <2>2
<1> QED
  BY <1>2, <1>3

\* For any batches, capacities, number of faults and respawns: a call has at most one result
\* in the file, unless it was answered, by a spawn or by a snapshot put back, while its own
\* result was on its way (message_buffer.rs:346: a result that lies elsewhere is moved, not
\* made again).
THEOREM HistoryAnswers == HistorySpec => []AnsweredOnce
<1>1. HistoryInv => AnsweredOnce
  <2> SUFFICES ASSUME HistoryInv, NEW c \in AllCalls, c \notin raced
               PROVE  Cardinality(ResultsOf(file, c)) <= 1
    BY DEF AnsweredOnce
  <2>1. file \in Seq(Message) /\ Single(file, c, "tool")
    BY DEF HistoryInv, Typed, HistoryTypeOK, CallInv, Lone
  <2> QED
    BY <2>1, FewResults
<1> QED
  BY <1>1, HistoryInvariant, PTL
=============================================================================
