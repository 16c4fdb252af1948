------------------------------ MODULE History ------------------------------
(***************************************************************************)
(* How one session's conversation reaches its file and comes back.         *)
(*                                                                         *)
(* A running agent keeps the conversation in its context and publishes     *)
(* every message it adds.  The conductor's loop takes the events one by    *)
(* one and hands them to the persist pool, whose worker for the session    *)
(* appends them to a JSON-lines file.  Each of the three hops may lose     *)
(* what it holds: a full bus queue, a full pool queue, a crash.  The next  *)
(* agent of the session starts from the file: the conductor reads it,      *)
(* closes the batches of tool calls left without results and persists the  *)
(* results it made up.  Before a model request the context is sanitized:   *)
(* an assistant message whose calls are not answered right behind it goes, *)
(* with its results.                                                       *)
(*                                                                         *)
(* A turn that ends copies the file into its checkpoint, whatever has      *)
(* reached the file by then.  A rewind of the files copies such a snapshot *)
(* onto the live file, past the queue and the pool, and only a rewind that *)
(* gets to its end then has the file replaced by the context.  Which       *)
(* message a snapshot belongs to is left out: a rewind may take any of     *)
(* them, and none is removed.                                              *)
(*                                                                         *)
(* src/crates/kernel/src: agent/message_buffer.rs, agent/agent.rs,         *)
(* agent/agent/tool_exec.rs, agent/turn.rs, checkpoint/store.rs,           *)
(* kernel/conductor.rs, kernel/persist_pool.rs, storage/message/jsonl.rs   *)
(***************************************************************************)
EXTENDS Integers, SequencesExt

CONSTANTS
  Batches,     \* the calls of each batch the model may ask for, in order
  Noting,      \* the calls whose tool sends metadata (a subagent does)
  MaxAsks,     \* bound: user messages
  MaxSpawns,   \* bound: agents spawned
  MaxQueue,    \* bound: what the conductor's queue holds
  MaxPool,     \* bound: what the pool holds
  MaxSaved,     \* bound: snapshots kept in checkpoints
  MaxFaults    \* bound: messages dropped by a full queue, daemon deaths, rewinds broken off

VARIABLES
  file,     \* the messages a reader of the file gets
  tail,     \* how the file ends: "clean", "bare" (the last line has no newline), "torn"
  pool,     \* the persist pool's queue for the session
  queue,    \* the conductor's event queue, the events of this session
  repairs,  \* the results a spawn made up and has not yet handed to the pool
  saved,    \* the snapshots of the file that checkpoints hold, each with its tail
  run,      \* the agent: "none", "spawning", "idle", "streaming", "tools", "marking", or
            \* at the end of a turn: "winding", and "parting" if it leaves after it
  context,  \* the agent's message buffer
  owed,     \* calls of the current batch without a result
  stopping, \* the daemon is shutting down
  spawns,   \* agents spawned so far
  asks,     \* user messages so far
  asked,    \* batches the model has asked for
  faults,   \* messages lost to a full queue, deaths of the daemon, rewinds broken off
  noted,    \* calls whose tool has sent metadata
  raced,    \* history: calls answered, by a spawn or by a snapshot that was put back, while
            \* a result of theirs was on its way
  unrun,    \* history: calls of a batch refused for its finish reason
  faithful  \* history: the file has been told all the agent knows since it was spawned, and
            \* no rewind broke off

disk == <<file, tail, pool>>
agent == <<run, context, owed>>
counts == <<stopping, spawns, asks, asked, faults, noted>>
accounts == <<raced, unrun, faithful>>
conversation == <<disk, queue, repairs, saved, agent, counts, accounts>>

---------------------------------------------------------------------------
\* Messages.  The marker of an interruption is a user message of its own.
User(n) == [role |-> "user", id |-> n]
Marker == User(0)
Assistant(calls) == [role |-> "assistant", calls |-> calls]
Result(c, made) == [role |-> "tool", call |-> c, made |-> made]
Metadata(c) == [role |-> "internal", call |-> c]

\* What travels to the file: a message, a whole new history, or a tool's metadata,
\* which the conductor turns into a message it publishes itself.
Appended(m) == [job |-> "append", msgs |-> <<m>>]
Replaced(msgs) == [job |-> "replace", msgs |-> msgs]
Noted(c) == [job |-> "metadata", msgs |-> <<Metadata(c)>>]

AllCalls == UNION {ToSet(Batches[b]) : b \in DOMAIN Batches}

\* The provider gives every call an id of its own.
ASSUME HistoryAssumption ==
  /\ Batches \in Seq(Seq(AllCalls))
  /\ \A b, d \in DOMAIN Batches : \A i \in DOMAIN Batches[b], j \in DOMAIN Batches[d] :
       Batches[b][i] = Batches[d][j] => b = d /\ i = j

\* The elements of s at the positions in I, in their order.
At(s, I) ==
  LET upTo[i \in 0..Len(s)] ==
        IF i = 0 THEN <<>>
        ELSE IF i \in I THEN Append(upTo[i - 1], s[i]) ELSE upTo[i - 1]
  IN upTo[Len(s)]

CallsIn(msgs) == UNION {ToSet(m.calls) : m \in {x \in ToSet(msgs) : x.role = "assistant"}}
ResultsOf(msgs, c) == {i \in DOMAIN msgs : msgs[i].role = "tool" /\ msgs[i].call = c}

---------------------------------------------------------------------------
\* MUTANT of Found: every missing result is made up, none moves in.
FoundNever(msgs, t, c) == FALSE

\* A result of the call lies elsewhere in the history and is not yet spoken for.
Found(msgs, t, c) == LET at == ResultsOf(msgs, c) IN at # {} /\ Min(at) \notin t.consumed

\* One call of an open batch: a result found elsewhere moves in, a missing one is made up.
Settle(msgs, t, c) ==
  LET at == Min(ResultsOf(msgs, c))
  IN IF Found(msgs, t, c)
       THEN [t EXCEPT !.out = Append(@, msgs[at]), !.consumed = @ \cup {at}]
       ELSE [t EXCEPT !.out = Append(@, Result(c, TRUE)), !.made = Append(@, c)]

\* close_open_batch: its calls in order.
CloseBatch(msgs, s) ==
  LET after[i \in 0..Len(s.open)] ==
        IF i = 0 THEN s ELSE Settle(msgs, after[i - 1], s.open[i])
  IN [after[Len(s.open)] EXCEPT !.open = <<>>]

\* One message of the second pass.  Metadata is transparent; a result pairs with the open
\* batch, waits for the end of its own batch, or is an orphan and stays where it is.
Pass(msgs, s, i) ==
  LET m == msgs[i]
      kept == [s EXCEPT !.out = Append(@, m)]
      first == m.call \in CallsIn(msgs) /\ i = Min(ResultsOf(msgs, m.call))
      over == CloseBatch(msgs, s)
      others == {j \in DOMAIN s.open : s.open[j] # m.call}
  IN CASE m.role = "internal" -> kept
       [] m.role = "tool" /\ i \in s.consumed -> s
       [] m.role = "tool" /\ i \notin s.consumed ->
            IF m.call \in ToSet(s.open)
              THEN [kept EXCEPT !.open = At(@, others), !.consumed = @ \cup {i}]
              ELSE IF first THEN s ELSE kept
       [] OTHER ->
            [over EXCEPT !.open = IF m.role = "assistant" THEN m.calls ELSE <<>>,
                           !.out = Append(@, m)]

Start == [out |-> <<>>, made |-> <<>>, consumed |-> {}, open |-> <<>>]

\* The second pass, before the batch open at its end is closed.
Walked(msgs) ==
  LET after[i \in 0..Len(msgs)] == IF i = 0 THEN Start ELSE Pass(msgs, after[i - 1], i)
  IN after[Len(msgs)]

\* MUTANT of Close: a batch still open at the end of the history is left open.
CloseInside(msgs) == Walked(msgs)

\* close_dangling_tool_batches: the closed history and the calls answered with a made-up result.
Close(msgs) == CloseBatch(msgs, Walked(msgs))

Closed(msgs) == Close(msgs).out

\* The messages behind position i that a chain from i may consist of.
Behind(msgs, i) == At(msgs, {j \in DOMAIN msgs : j > i /\ msgs[j].role # "internal"})

\* The assistant message at i is answered: its results follow it, each once, in any order.
Whole(msgs, i) ==
  LET next == Behind(msgs, i)
      calls == msgs[i].calls
  IN \/ calls = <<>>
     \/ /\ Len(next) >= Len(calls)
        /\ \A j \in DOMAIN calls : next[j].role = "tool"
        /\ {next[j].call : j \in DOMAIN calls} = ToSet(calls)

\* The result at j belongs to an answered assistant message.
Paired(msgs, j) ==
  \E i \in 1..(j - 1) :
    /\ msgs[i].role = "assistant"
    /\ msgs[j].call \in ToSet(msgs[i].calls)
    /\ Whole(msgs, i)
    /\ Cardinality({k \in (i + 1)..j : msgs[k].role # "internal"}) <= Len(msgs[i].calls)

Sanitize(msgs) ==
  LET Kept(i) == CASE msgs[i].role = "assistant" -> Whole(msgs, i)
                   [] msgs[i].role = "tool" -> Paired(msgs, i)
                   [] OTHER -> TRUE
  IN At(msgs, {i \in DOMAIN msgs : Kept(i)})

---------------------------------------------------------------------------
HistoryInit ==
  /\ file = <<>> /\ tail = "clean" /\ pool = <<>> /\ queue = <<>> /\ repairs = <<>>
  /\ saved = {}
  /\ run = "none" /\ context = <<>> /\ owed = {} /\ noted = {}
  /\ stopping = FALSE /\ spawns = 0 /\ asks = 0 /\ asked = 0 /\ faults = 0
  /\ raced = {} /\ unrun = {} /\ faithful = TRUE

\* Some of s is dropped by a full queue: the rest goes behind q.
Enqueued(q, s, rest, max) ==
  \E lost \in SUBSET DOMAIN s :
    /\ faults + Cardinality(lost) <= MaxFaults
    /\ faults' = faults + Cardinality(lost)
    /\ faithful' = (faithful /\ lost = {})
    /\ rest = q \o At(s, DOMAIN s \ lost)
    /\ Len(rest) <= max

\* push_message: into the context, and onto the bus.
Publish(events) == Enqueued(queue, events, queue', MaxQueue)
Say(base, msgs) ==
  /\ context' = base \o msgs
  /\ Publish([i \in DOMAIN msgs |-> Appended(msgs[i])])

Ask ==
  /\ run \in {"idle", "streaming"} /\ asks < MaxAsks
  /\ asks' = asks + 1
  /\ Say(context, <<User(asks + 1)>>)
  /\ run' = "streaming"
  /\ UNCHANGED <<disk, saved, repairs, owed, stopping, spawns, asked, noted, raced, unrun>>

\* A model round: the buffer is sanitized first, the reply pushed.  A finish reason that does
\* not fit the calls ends the turn with the batch neither run nor answered.
Reply ==
  /\ run = "streaming" /\ asked < Len(Batches)
  /\ asked' = asked + 1
  /\ Say(Sanitize(context), <<Assistant(Batches[asked + 1])>>)
  /\ \/ run' = "tools" /\ owed' = ToSet(Batches[asked + 1]) /\ unrun' = unrun
     \/ run' = "winding" /\ owed' = owed /\ unrun' = unrun \cup ToSet(Batches[asked + 1])
  /\ UNCHANGED <<disk, saved, repairs, stopping, spawns, asks, noted, raced>>

Answer ==
  /\ run = "streaming"
  /\ Say(Sanitize(context), <<Assistant(<<>>)>>)
  /\ run' = "winding"
  /\ UNCHANGED <<disk, saved, repairs, owed, stopping, spawns, asks, asked, noted, raced, unrun>>

\* run_parallel: results come in any order, a tool may send metadata while it runs.
Finish(c) ==
  /\ run = "tools" /\ c \in owed
  /\ Say(context, <<Result(c, FALSE)>>)
  /\ owed' = owed \ {c}
  /\ run' = IF owed = {c} THEN "streaming" ELSE run
  /\ UNCHANGED <<disk, saved, repairs, stopping, spawns, asks, asked, noted, raced, unrun>>

Note(c) ==
  /\ run = "tools" /\ c \in (owed \cap Noting) \ noted
  /\ noted' = noted \cup {c}
  /\ Publish(<<Noted(c)>>)
  /\ UNCHANGED <<disk, saved, repairs, agent, stopping, spawns, asks, asked, raced, unrun>>

\* The cancelled results of the calls still owed, in call order.
Cancelled ==
  LET calls == IF owed = {} THEN <<>> ELSE Batches[asked]
      left == At(calls, {i \in DOMAIN calls : calls[i] \in owed})
  IN [i \in DOMAIN left |-> Result(left[i], FALSE)]

\* handle_cancel: the marker follows the cancelled results on the bus.
Interrupt ==
  /\ run \in {"streaming", "tools"}
  /\ Say(context, Append(Cancelled, Marker))
  /\ run' = "parting" /\ owed' = {}
  /\ UNCHANGED <<disk, saved, repairs, stopping, spawns, asks, asked, noted, raced, unrun>>

\* On a shutdown the marker waits for the pool and goes to the file itself.
Shutdown ==
  /\ ~stopping /\ run # "spawning"
  /\ stopping' = TRUE
  /\ Say(context, Cancelled)
  /\ run' = CASE run \in {"streaming", "tools"} -> "marking"
             [] run \in {"winding", "parting"} -> "parting"
             [] OTHER -> "none"
  /\ owed' = {}
  /\ UNCHANGED <<disk, saved, repairs, spawns, asks, asked, noted, raced, unrun>>

Leave ==
  /\ run = "idle" /\ run' = "none"
  /\ UNCHANGED <<disk, saved, queue, repairs, context, owed, counts, accounts>>

\* A result of the call is on its way to the file, or on its way to be appended there.
OnItsWay(c) == \E e \in ToSet(pool \o queue) : ResultsOf(e.msgs, c) # {}
Appending(c) ==
  \E e \in ToSet(pool \o queue) : e.job = "append" /\ ResultsOf(e.msgs, c) # {}

\* finish_turn_wind_down: the checkpoint copies the file as the pool has left it.  A copy that
\* fails is passed over.
WindDown ==
  /\ run \in {"winding", "parting"}
  /\ run' = IF run = "winding" THEN "idle" ELSE "none"
  /\ \/ saved' = saved
     \/ /\ Cardinality(saved) < MaxSaved
        /\ saved' = saved \cup {[msgs |-> file, tail |-> tail]}
  /\ UNCHANGED <<disk, queue, repairs, context, owed, counts, accounts>>

\* copy_file of the snapshot onto the live file: n of its messages, all unless the copy broke.
\* What the pool holds still comes behind it.
Restore(snap, n, t) ==
  /\ file' = SubSeq(snap.msgs, 1, n)
  /\ tail' = t
  /\ raced' = raced \cup {c \in AllCalls : ResultsOf(file', c) # {} /\ Appending(c)}

\* The places a rewind cuts at: before a user message, or nowhere, for a rewind of files only
\* or to a checkpoint the buffer no longer holds.
Cuts == {j \in DOMAIN context : context[j].role = "user"} \cup {Len(context) + 1}

\* MUTANT of Rewind: the file is told only if the context was cut.
RewindQuietly(i) ==
  /\ run = "idle" /\ i \in Cuts
  /\ context' = SubSeq(context, 1, i - 1)
  /\ \/ UNCHANGED <<file, tail, raced>>
     \/ \E snap \in saved : Restore(snap, Len(snap.msgs), snap.tail)
  /\ IF context' = context THEN UNCHANGED <<queue, faults, faithful>>
     ELSE Publish(<<Replaced(context')>>)
  /\ UNCHANGED <<pool, saved, repairs, run, owed, stopping, spawns, asks, asked, noted, unrun>>

\* process_rewind: unless it is of the conversation only, a checkpoint's snapshot is put back
\* first; then the file is told the context.  The task has no other step in between, and what
\* the pool writes meanwhile goes behind the snapshot too.
Rewind(i) ==
  /\ run = "idle" /\ i \in Cuts
  /\ context' = SubSeq(context, 1, i - 1)
  /\ \/ UNCHANGED <<file, tail, raced>>
     \/ \E snap \in saved : Restore(snap, Len(snap.msgs), snap.tail)
  /\ Publish(<<Replaced(context')>>)
  /\ UNCHANGED <<pool, saved, repairs, run, owed, stopping, spawns, asks, asked, noted, unrun>>

\* A rewind that fails in or after this copy: the buffer stays as it is and the file is told
\* nothing of it.
BreakOff ==
  /\ run = "idle" /\ faults < MaxFaults
  /\ faults' = faults + 1 /\ faithful' = FALSE
  /\ \E snap \in saved : \E n \in 0..Len(snap.msgs), t \in {"clean", "bare", "torn"} :
       /\ t = "bare" => n # 0
       /\ Restore(snap, n, t)
  /\ UNCHANGED <<pool, saved, queue, repairs, agent, stopping, spawns, asks, asked, noted, unrun>>

Clear ==
  /\ run = "idle"
  /\ context' = <<>>
  /\ Publish(<<Replaced(<<>>)>>)
  /\ UNCHANGED <<disk, saved, repairs, run, owed, stopping, spawns, asks, asked, noted, raced, unrun>>

---------------------------------------------------------------------------
\* One event of the conductor's loop, which is busy while it spawns an agent.
TakeEvent ==
  /\ queue # <<>> /\ run # "spawning"
  /\ IF Head(queue).job = "metadata"
       THEN LET note == <<[Head(queue) EXCEPT !.job = "append"]>>
            IN /\ Enqueued(Tail(queue), note, queue', MaxQueue)
               /\ pool' = pool
       ELSE /\ Enqueued(pool, <<Head(queue)>>, pool', MaxPool)
            /\ queue' = Tail(queue)
  /\ UNCHANGED <<file, tail, saved, repairs, agent, stopping, spawns, asks, asked, noted, raced, unrun>>

\* A line written behind a tail without newline is glued to it: neither can be parsed.
Glued == IF tail = "bare" THEN Front(file) ELSE file
AppendLine(m) ==
  /\ file' = IF tail = "clean" THEN Append(file, m) ELSE Glued
  /\ tail' = "clean"

\* The pool's worker: an append, or a new file renamed over the old one.
Write ==
  /\ pool # <<>>
  /\ pool' = Tail(pool)
  /\ IF Head(pool).job = "replace"
       THEN file' = Head(pool).msgs /\ tail' = "clean" /\ UNCHANGED faithful
       ELSE AppendLine(Head(pool).msgs[1]) /\ faithful' = (faithful /\ tail = "clean")
  /\ UNCHANGED <<saved, queue, repairs, agent, counts, raced, unrun>>

\* The marker written past the queue and the pool.  The wait for the pool is bounded and does
\* not cover the queue: the marker may overtake what they hold, or meet a write on its line.
Mark ==
  /\ run = "marking"
  /\ run' = "parting" /\ context' = Append(context, Marker)
  /\ faithful' = (faithful /\ queue = <<>> /\ pool = <<>> /\ tail = "clean")
  /\ \/ AppendLine(Marker) /\ pool' = pool
     \/ /\ pool # <<>> /\ Head(pool).job = "append"
        /\ pool' = Tail(pool)
        /\ file' = Glued /\ tail' = "clean"
  /\ UNCHANGED <<saved, queue, repairs, owed, counts, raced, unrun>>

\* The daemon dies, perhaps with a line half written, or whole but for its newline.
Crash ==
  /\ faults < MaxFaults
  /\ faults' = faults + 1
  /\ \/ UNCHANGED <<file, tail>>
     \/ /\ pool # <<>> /\ Head(pool).job = "append"
        /\ \/ file' = Glued /\ tail' = "torn"
           \/ tail = "clean" /\ tail' = "bare" /\ file' = Append(file, Head(pool).msgs[1])
  /\ pool' = <<>> /\ queue' = <<>> /\ repairs' = <<>>
  /\ run' = "none" /\ context' = <<>> /\ owed' = {} /\ stopping' = FALSE
  /\ faithful' = FALSE
  /\ UNCHANGED <<saved, spawns, asks, asked, noted, raced, unrun>>

---------------------------------------------------------------------------
\* resolve_session_context: read the file and close it.  The spawn waits one second for the
\* pool, then reads, and does not wait for the queue.
Respawn ==
  /\ run = "none" /\ ~stopping /\ spawns < MaxSpawns
  /\ spawns' = spawns + 1
  /\ run' = "spawning"
  /\ LET found == Close(file) IN
       /\ context' = found.out
       /\ repairs' = found.made
       /\ raced' = raced \cup {c \in ToSet(found.made) : OnItsWay(c)}
  /\ faithful' = (queue = <<>> /\ pool = <<>>)
  /\ UNCHANGED <<disk, saved, queue, owed, stopping, asks, asked, faults, noted, unrun>>

\* wake_agent: hand the results made up to the pool, start the agent.
Repair ==
  /\ run = "spawning"
  /\ run' = "idle" /\ repairs' = <<>>
  /\ Enqueued(pool, [i \in DOMAIN repairs |-> Appended(Result(repairs[i], TRUE))], pool', MaxPool)
  /\ UNCHANGED <<file, tail, saved, queue, context, owed, stopping, spawns, asks, asked, noted, raced, unrun>>

HistoryNext ==
  \/ Ask \/ Reply \/ Answer \/ Interrupt \/ Shutdown \/ WindDown \/ Leave \/ Clear \/ BreakOff
  \/ \E c \in AllCalls : Finish(c) \/ Note(c)
  \/ \E i \in 1..(Len(context) + 1) : Rewind(i)
  \/ TakeEvent \/ Write \/ Mark \/ Crash \/ Respawn \/ Repair

HistorySpec == HistoryInit /\ [][HistoryNext]_conversation

---------------------------------------------------------------------------
\* Results no batch takes: a second result of a call, or one whose assistant message was lost.
Surplus(msgs) ==
  {i \in DOMAIN msgs :
     /\ msgs[i].role = "tool"
     /\ msgs[i].call \in CallsIn(msgs) => i # Min(ResultsOf(msgs, msgs[i].call))}

\* Wherever faults and late writes leave the file, the next agent sees every batch
\* it holds, answered: closing the history (message_buffer.rs:122) leaves nothing for
\* sanitize to drop.  Excepted is a file with a surplus result, which stays where it lies and
\* may lie inside a batch.
TracesKept ==
  LET done == Closed(file)
  IN Surplus(file) = {} =>
       \A i \in DOMAIN done : done[i].role = "assistant" => Whole(done, i)

\* Over any number of respawns a call gets one result in the file: one that lies anywhere in it
\* is moved, not made again (message_buffer.rs:346).  Excepted is a call answered, by a spawn
\* or by a snapshot that was put back, while its own result was on its way.
AnsweredOnce == \A c \in AllCalls \ raced : Cardinality(ResultsOf(file, c)) <= 1

\* What a model is shown of a history, the refused batches aside.
Shown(msgs) ==
  LET Refused(m) == m.role = "assistant" /\ m.calls # <<>> /\ ToSet(m.calls) \subseteq unrun
      Aside(m) == m.role = "internal" \/ Refused(m) \/ (m.role = "tool" /\ m.call \in unrun)
  IN SelectSeq(Sanitize(msgs), LAMBDA m : ~Aside(m))

\* If nothing was lost since the agent was spawned and no rewind broke off, an agent spawned
\* now would be shown what the running one is: order, rewinds, interruptions and repairs come
\* back from the file as they went, and of a snapshot that a rewind put back nothing is left
\* (agent.rs:509, agent.rs:923, conductor.rs:708).
ReadsBack ==
  faithful /\ queue = <<>> /\ pool = <<>> =>
    Shown(Closed(file)) = Shown(Closed(context))
=============================================================================
