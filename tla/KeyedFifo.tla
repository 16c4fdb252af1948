----------------------------- MODULE KeyedFifo -----------------------------
(***************************************************************************)
(* What a keyed pool promises its callers, without workers, locks, tokens  *)
(* or counters: for every key a FIFO of accepted jobs of which at most one *)
(* is being handled at any time.  Jobs of different keys are independent.  *)
(* Jobs are only ever abandoned for a whole key at once (the worker of the *)
(* key is gone), never from the middle of the queue.                       *)
(***************************************************************************)
EXTENDS Sequences

CONSTANTS Key, Job,
          NoJob      \* the value of running[k] when nothing is being handled

VARIABLES
  queue,     \* [Key -> Seq(Job)]: accepted, not yet started
  running    \* [Key -> Job \cup {NoJob}]

fifoVars == <<queue, running>>

Init ==
  /\ queue = [k \in Key |-> <<>>]
  /\ running = [k \in Key |-> NoJob]

Accept(k, j) ==
  /\ queue' = [queue EXCEPT ![k] = Append(@, j)]
  /\ UNCHANGED running

Start(k) ==
  /\ running[k] = NoJob
  /\ queue[k] # <<>>
  /\ running' = [running EXCEPT ![k] = Head(queue[k])]
  /\ queue' = [queue EXCEPT ![k] = Tail(@)]

Finish(k) ==
  /\ running[k] # NoJob
  /\ running' = [running EXCEPT ![k] = NoJob]
  /\ UNCHANGED queue

Abandon(k) ==
  /\ queue' = [queue EXCEPT ![k] = <<>>]
  /\ running' = [running EXCEPT ![k] = NoJob]

Next == \E k \in Key :
  \/ \E j \in Job : Accept(k, j)
  \/ Start(k)
  \/ Finish(k)
  \/ Abandon(k)

Spec == Init /\ [][Next]_fifoVars
=============================================================================
