# Formal models of the yomi kernel

TLA+ models of the concurrent core of yomi (`src/crates/kernel`), checked with
TLC and, where it says so, proved with TLAPS. Paths below are relative to
`src/crates/kernel/src/`. `PROJECT.json` lists, definition by definition, the
lines each one stands for, the runs, the mutants that show that every property
can fail, the hazards the properties are for, and the theorems.

## The system

yomi is a coding assistant. A kernel holds sessions; each session has at most
one agent that runs a loop (ask the model, execute tools, wind down); clients
(CLI, TUI, GUI, chat channels) send inputs and read events. Everything is a
tokio task; tasks meet in concurrent maps, bounded channels and cancel tokens.

### Inventory

| Component | State | Operations | Meets | What is hard, what must hold |
|---|---|---|---|---|
| Keyed worker pool, `utils/keyed_pool.rs` | map key → worker entry (channel, outstanding count, join handle), pool token | dispatch, dispatch_sheddable, spawn/respawn, run_worker (recv, tick, cancelled, drain), try_expire, is_quiet, wait_idle | under the persist pool and the delivery pool | expiry and shutdown against dispatch, worker death, full channels. One worker per key, order kept, nothing accepted lost silently, quiet means done |
| Persist pool, `kernel/persist_pool.rs` | an instance of the pool | append rows of one session in order, drain at shutdown | bus → jsonl store; `wait_idle` before history is read back | as above: it drains on cancellation |
| Conductor, `kernel/conductor.rs` | active agents, mailboxes, spawn locks, tombstones, side questions | one task per input; wake/spawn, Cancel arm, cleanup tick, shutdown arm | input bus, agents, kernel stop/delete | tasks interleave at every await. Pending mail is attended to, a live agent is tracked, a stop is final, a deleted session's agents are told to go |
| Kernel stop / delete_session, `kernel/mod.rs` | intake gate, shutdown token | close intake, cancel, bounded join, retry; tombstone, Cancel, wait, delete rows | conductor maps | ordering against tasks under way |
| Mailbox, `comms/mailbox.rs` | queue, steer lane, wake-up flag | push, push_steer, recv, clear, take, steer, drop by id | conductor tasks, users' edits and agent | two-step edits, lost wake-ups |
| Agent loop, `agent/agent.rs`, `agent/agent/tool_exec.rs` | state, iteration count, turn, stop reason, buffer, flags | start_loop: idle, streaming with retries, tools, compaction, wind-down | mailbox, cancel token, hooks, provider, tools | cancellation at any await. Turns open, close and are announced once, in order, with the right reason; a cancelled agent leaves |
| Cancel token, `agent/cancel.rs` | token, shutdown mark, run guard | cancel, cancel_for_shutdown, take mark, child tokens | agent, conductor, subagents | mark and token are two steps |
| Side questions, `kernel/btw.rs`, `start_btw` | handle per session, start lock, cancel generation, half-written text | start, complete, abort, abort_all, retain, observe | conductor arms, provider, event bus | stream against newer question, /stop, shutdown, cleanup. One stream, Done once |
| Message history, `agent/message_buffer.rs`, `loop_detect.rs` | message list over an append-only file | push, close dangling tool batches, sanitize, replace, mark an interruption | agent, respawn, persist pool | losses and crashes between buffer and file. The next agent sees what was said, each call answered once |
| Event bus, `comms/bus.rs` | bounded queue per listener | publish, subscribe, shutdown | everybody | full queues drop |
| Server, `server/` | event buffers, subscriptions | replay after a cursor, fan-out, requests | remote client | replay against live events. Nothing skipped, order kept |
| Remote client, `client/remote/` | routers, receivers, connection | subscribe, read, reconnect, resubscribe | server | receivers outlive connections and get their stream back |
| Cron, `cron/` | queue, job cache, running set | reload, fire, finish, complete | worker, store, kernel | reload and completion while firing |
| Channel hub, `channels/` | reply buffer, status card, patch locks, receipts, routes | forward, handle, tick, heartbeat, sweep, settle | delivery pool, platforms | four tasks write one chat message. No text lost or sent twice |
| Permissions, `permission/` and the prompt of the terminal | level and approvals per agent, level in the row, one prompt slot | check, prompt, answer, time out, set level | tool execution, terminal, conductor | answer against timeout and cancellation; level against spawn |
| Subagents, `tools/subagent.rs`, `tools/post_message.rs` | claims, child tokens, forwarding tasks | launch, wait, give up, post, forward | conductor, parent's agent | who reports a child's answer, whom a stop reaches |
| Checkpoints, `checkpoint/`, `agent/turn.rs` | backups per message, manifest | track, checkpoint, trim, rewind | tools, agent | failures between file operations. A rewind brings the files back |
| Compactor, `compactor/` | | summarize | agent, provider | a choice of the agent loop |
| Storage, gc, `storage/` | SQLite tables, jsonl files | append, read, delete, migrate, collect | all | |
| Locks, `daemon_lock.rs`, `utils/g_lock.rs` | OS lock, keyed locks | acquire, release | daemon start, tools | stale owners |
| Providers, transport, wire, hooks, skills, extensions, config, prompts, interfaces | connections, files | conversions and I/O | | not control logic of the kernel |

### How a message travels

A client publishes an input; the conductor's loop takes it and starts a task,
which puts it into the session's mailbox and wakes the agent, spawning one if
the active map has none that still runs. The agent takes it in its Idle state,
opens a turn, and loops. Its messages go out as events; the persist pool writes
them in order. `Stopped` closes the run; whoever reads the history back waits
for the pool to be quiet first. `/stop` cancels the agent's token, clears the
mailbox, takes the agent from the map and waits for it, within bounds.

### Who meets whom

Events go one way and inputs the other. The bus has a bounded queue per
listener: the conductor's loop (which stores messages and forwards the answers
of subagents), the server's forwarder, the channel hub. What a full queue drops
is gone, so every listener has to live with gaps. A remote client sees events
through the server's buffer and its subscriptions; a chat sees them through the
hub's cards. Permission prompts travel as events and their answers as inputs. A
subagent is a session of its own whose token derives from its parent's; the tool
that started it waits for its events.

## Modules

| Module | Models | Composes |
|---|---|---|
| `KeyedFifo` | what the pool promises: one FIFO per key, one job at a time | |
| `KeyedPool` | `utils/keyed_pool.rs` | `Fifo == INSTANCE KeyedFifo` |
| `TurnContract` | what listeners may rely on: turn_start, turn_end, Stopped | |
| `AgentLoop` | `agent/agent.rs`, parts of `tool_exec.rs`, `cancel.rs`, `mailbox.rs` | `Contract == INSTANCE TurnContract` |
| `Conductor` | `kernel/conductor.rs`, `Kernel::stop`, `delete_session`, the outer states of the agent loop, the mailbox and its edits | |
| `Btw` | `kernel/btw.rs`, `start_btw`, the Cancel, shutdown and cleanup arms as far as they touch side questions | |
| `Cron` | `cron/scheduler.rs`, `cron/worker.rs`, the rows of `cron/store.rs`, the editing calls of `kernel/mod.rs` | |
| `Permission` | `permission/checker.rs`, the terminal's prompt (`tui/src/app`), `set_permission_level` and the level of an agent under construction | |
| `Subagent` | `tools/subagent.rs`, `tools/post_message.rs`, child tokens, claims and orphan forwarding of `kernel/conductor.rs` | extends `Permission` and implements it: `P == INSTANCE Permission` |
| `History` | `agent/message_buffer.rs`, what `agent.rs` and `tool_exec.rs` push, the conductor's way to the persist pool, `storage/message/jsonl.rs` | |
| `Feed` | `server/event_buffer.rs`, the forwarder, subscriptions of `server/dispatcher.rs`, `client/remote` | |
| `Hub` | the channel hub's delivery of one session: `channels/hub`, `channels/render/obs.rs` | |
| `Rewind` | `checkpoint/store.rs`, `agent/turn.rs`, `process_rewind` | |
| `PersistProofs`, `AgentLoopProofs`, `ConductorProofs`, `CronProofs`, `SubagentProofs`, `FeedProofs`, `HubProofs`, `SessionProofs` | theorems | extend the module they are named after; `PersistProofs` holds those about `KeyedPool` and `History`, `SubagentProofs` those about `Permission` too, `SessionProofs` those about `Btw` and `Rewind` |
| `MC*` | constants for TLC | extend the above |

### KeyedPool

A map entry and the worker it was created with are one identity, so the fields
of `WorkerEntry` and the locals of `run_worker` are functions of the worker:
`pc`, `closed` (the receiver refuses), `chan`, `job`, `outstanding`. A dispatch
call holds the entry lock of its key, so it is one step (`DispatchVacant`,
`DispatchOccupied`, `DispatchClosed`), except that the send to a worker spawned
by the call (`SendAccounted`) happens after the lock has been given up; across a
respawn of a closed entry the lock is held (`lock`). A worker's select arms are
`Take`, `Tick`/`HookDone`/`TryExpire` and `SeeCancelled`/`DrainEnd`. `Die` is a
task that is torn down from outside (`abort_worker` in the tests, a dropped
runtime); a handler that panics is caught and settles its job like one that
returns. `accepted`, `settled` and `dropped` are history.

### AgentLoop

A step is one pass of `start_loop`, or one part of a pass at whose end the agent
awaits something at which it can be cancelled: the model (`at = "model"`), the
abort of running tools, a forced compaction, a hook. `state` is `AgentState`,
`turn` is `current_turn.is_some()`, `reason` is `last_stop_reason`. The message
buffer is reduced to `anchor`: does it hold a user message a turn can start
from? `iter` counts passes as `iteration_count` does, and not model rounds,
which is why `RoundsBounded` halves it. `heard`, `turns`, `unsaid`, `rounds`,
`marks` and `by` are history. The configuration's `max_iterations` is capped by
the constant itself, inputs by `MaxInputs`. The kernel marks an agent (`ShutdownMark`)
and then cancels its token (`ShutdownCancel`); the token of a subagent hangs from its
parent's, so with `HasParent` the cancellation may come first, by way of the parent
(`ParentShutdown`), and find no mark.

### Conductor

One session. Every input is a task; a step of a task is what it does between
two awaits at which another task can change what it reads next. Agents are named
by the task that spawned them, mailboxes by the task that created them, so
orphaned mailboxes and agents outside the map are visible. The agent is reduced
to `idle`, `running`, `winding`, `leaving`, `finished`: `MayLeave` and `Leave`
are the idle timeout with the gap between its last look at the mailbox and its
return, which is where a wake can rely on an agent that will not come back.
`Detach` is the bounded wait that gives up. `Spawn` and `Enter` are the second
look at the intake and the insertion into the map: no await lies between them,
but the runtime has several threads, and a wake that stands there while the
whole shutdown passes enters its agent afterwards. The comment at
`kernel/conductor.rs:1196` rules that out ("insert must come before the arm");
the model lets it happen, and `StopIsFinal` names it (`escaping`). The four
`retain` calls of the cleanup tick are one step. A user's edit of what is pending
is `TakeItem` and, when it promotes the item to a steer, `PutItem`: between the
two the item is in no lane (`hand`), and a clear that comes then misses it
(`fumbled`). `Kernel::stop` is `CloseIntake`, `ShutdownAgents`,
`Joined`, `ArmCancels`, `ArmEnds`; `delete_session` is `Delete` and
`DeleteRows`, with `DeleteStop` as the Cancel it publishes.

### Btw

One session. `lock` is the start lock in the tracker's map, `arc` what a task
has cloned of it, `held` who holds it: a cleanup tick can drop a lock that has
been cloned and not yet asked for. The mutex is taken in any order, although
tokio's is first come, first served. `stream` is the task that produces the
answer; one that has been aborted may still run to its end if it was being
polled. A late `Delta` of such a stream, the mirror of half-written text and the
snapshot are left out.

### Cron

The loop is one process (`Loop`), each run with its winding up another (a slot;
`Slot` bounds how many there are at once). `at` is where each is, `on` the job it
has in hand. `load_jobs` is `Load` (the rows and the time are read) and `Merge`
(both locks are held to the end); the select is `Look` and then `LoopExit`,
`Collect`, `Reload` or `Wake`; `fire_due_jobs` is `Collect` (under three read
locks, into `due` and `stale`), `Drop`, and per due job `Take`, `FireUnqueue`,
`Send` or `SendFails` and `Retry`; `complete_job` is three steps wherever it is
called from; `job_finished` is `Release`, `Unqueue`, one of the `Read` steps,
`Persist`, `Requeue`. The cache keeps what is decided upon, the `run_count` of
the copy; limits and expiry are constants, and a schedule is a period (`Every`).
A user's edit is the row first (`Create`, `Update`, `Delete`) and `reload` later
(`Notify`); one edit is under way at a time. Every call to the store may fail,
`MaxTroubles` times together with restarts, except those of the user, which
then change nothing. Manual triggers touch none of this.

Two history variables hold the exceptions the code leaves open. `astray`, until
the next reload: a job that a load queues while `complete_job` is between its
queue and its cache (a queued job without a cached copy is neither fired nor
dropped, and the loop does not sleep as long as it is due); a load whose rows
are older than a completion, a pause or a deletion served meanwhile; a
`job_finished` that queues a job paused since it read the row; a job dropped as
stale by its timestamp after its run had queued it under that very time, or
with nobody left to queue it (see Known windows); a failed call to the store.
`outrun`: a job cached with a `run_count` the store had passed, or collected
between `running.remove` and `remove_job` of an earlier run.

### Permission

One terminal with one prompt slot (`pending`) shows a session `Root` and, through
the tasks that wait for them, its child sessions. A check (`check_permission`) is
`Request`, then `Answered`, `TimesOut` or `Cancelled`; the guard that publishes
the ack is part of each end (`Settle`). `Show` handles the next event of the
terminal's stream and denies a prompt it displaces; `Yolo`, `Toggle` and `Choose`
are the user's. `set_permission_level` is `SetLevel` (the row) and `SpawnUpdate`
(a task for the live agent), whose tasks run in any order (`StoreLevel`); an agent
takes its level from the row in `Prepare` and comes to life in `Enter`. `Tool`
names do not matter to any property, so one stands for all. `Listen`, `Relay`,
`Unlisten` and the comings and goings of agents are left as free as the code
around could make them: `Subagent` fills them in.

### Subagent

A parent and its children. A call of the tool is `Launch`, `Begin` (claim, subscribe,
send the task), then `Finish` at the child's first Stopped or `GiveUp` when the parent
is stopped; a synchronous call is aborted with its tool batch and its claim stays.
What a child says (`Say`, messages with a text or without) and the ends of its runs
form one stream, `log`, which the conductor follows (`Observe`, up to `seen`): a
message is stored (`Store`), whatever run it is of and however that run ends, a
Stopped consumes the claim or spawns `Forward` (`Stops`). `Forward` looks at the last
message in the store (`last`) and gives up if it has no text; the waiting task sends
the last text it heard, or else the last message in the store (`TellHeard`). `told`
names what the parent was sent message by message, so that an answer is told from one
of another run. `ChildPrepares` derives the child's token from the parent's entry in
the active map as it is at that moment. The prompts are those of `Permission`:
`PermissionHolds` says that what this module does to them is allowed there, so its
invariants hold here too.

### History

One session's conversation in four places: the agent's buffer (`context`), the
conductor's event queue, the persist pool's queue, the file. `Close` and `Sanitize`
are the functions of `message_buffer.rs` over whole messages, written with recursive
functions over the positions of the history: `Walked` is the second pass, `Pass` one
message of it, `Settle` one call of a batch that is closed. `Reply` and `Answer`
sanitize before they push; a batch refused for its finish reason is asked for and
never run. A full queue drops what it likes (`Enqueued`, within `MaxFaults`), a crash
empties everything but the file and may leave its last line torn or without a newline.
`TakeEvent` is one turn of the conductor's loop, `Write` one job of the pool's worker.
`Respawn` reads the file and closes it, `Repair` hands the made-up results to the
pool. The shutdown marker goes to the file past both queues (`Mark`). A turn's end
copies the file into its checkpoint (`WindDown`, into `saved`, of which `MaxSaved` are
kept), without waiting for the pool. A rewind cuts the buffer and publishes the
replacement (`Rewind`); one that restores files first puts such a copy back onto the
live file, past queue and pool, and if it fails after that it leaves the buffer as it
was and publishes nothing (`BreakOff`). Which message a snapshot belongs to is left
out: any of them may be put back.

### Feed

The forwarder is `Take` (buffer) and `Publish` (fan-out); a subscription task is
`Replay`, `Drain`, `Follow`, `Forward`; a client's call is `Ask`, `Serve`, `Read`,
`Attach`; a lost connection is `Cut`, `Notice`, `Reconnect`, `Resubscribe`. Events are
numbered as they are published, but the code compares their ids, which do not grow
that way: every thread has its generator, and the event of a closed permission prompt
has had its id since the prompt opened. `stamp` therefore gives each event any free
place in the order of ids, and `Before` is that order. There are two routers, the
session's and the one of all events, and the reader gives an event to both, whichever
subscription brought it; `got` is what their receivers were ever given, from which a
cursor is chosen, `brought` what came by the router's own subscription. The buffer
drops its oldest event when it is full (`Keep`), and a replay begins at any place
where a binary search for the cursor may end (`Starts`). It owes what is buffered
behind the cursor's event in the order of publication, wherever the search ends, but
for what lies up to an event whose id is before the cursor's (`Astray`). A receiver
that lags while its task replays or drains ends the drain early (`lagged`): `try_recv`
answers `Lagged`, the loop that removes repeats is over, and the live loop sends what
is left, repeats included.

### Hub

The agent, reduced to its events, fills the forwarder's queue; `Forward` moves
them to the worker. The worker's handlers are split where they await: `Pull`
(and `Handle`), `SendCard`, `Update` and `PatchCard`, `Settle`, `Flush`, `Ask`,
`Take`, `Land`, `Refuge`. The heartbeat (`BeatPick`, `BeatLock`, `BeatPatch`) and
the sweep (`SweepLook` to `SweepLand`) are processes of their own; the card's
patch lock orders all three. The lock belongs to the card a task saw before it
waited, the state it takes is the one it finds afterwards: `Frozen` tells whether
the sweep's two agree. A message of the chat is what was last written to it.
`misses` counts what goes wrong. A call to the platform that fails may have been
carried out all the same (`Fails`): the caller goes on as if it had not, and the chat
has the message, of kind "unanswered" if it is a reply. `SendReply` tries a card and then
plain text. A call takes effect before its answer or failure; one that is carried out after
its caller has given up is not modelled.

### Rewind

The agent does all of this in one task, so the difficulty is the disk: a turn writes
files (`Edit`, with the backup that comes before the first write), its end is
`WriteMeta`, `Trim`, `Save`, a rewind `Restore` for each file, `RemoveDir` for each
directory, `Land`; each of them can be the last thing that happens (`TurnFails`,
`RewindFails`, `DropFails`). A turn backs up a file once; later edits of the same file
add nothing. The manifest is a set of lines, each a sequence number and a message, as
the code keeps it: a message anchored twice has two lines and one directory, a new
line is numbered above the highest there is (`Now`, counted anew at each load), and
removing a message takes all its lines. `base` remembers the files as the turn of each
message found them; `lost` collects, step by step, for which message and file the code
gives up the account it would need. `RewindUndoes` says that for all others the store
still leads back.

## Runs

| Run | Shows |
|---|---|
| `MCKeyedPool` | Two callers (two calls and one), a key that drains without a hook and a key with a hook that does not drain, two generations of workers each, channel of two, one death. `OneWorkerPerKey`, `QuietMeansSettled`, `NoSilentDrop`, the refinement `FifoSpec`, and `EventuallyQuiet` |
| `MCAgentLoop` | Three inputs of any kind, five iterations, two retries, cancellation by user, kernel and parent at any moment: `RestIsQuiet`, `RightlyBlamed`, `RoundsBounded`, the refinement `ContractSpec`, and `CancelledLeaves` |
| `MCConductor` | A message, a steer, a /stop, a deletion, a cleanup tick, kernel stop, waits that give up, a user's edit: `NoStrandedMail`, `UncancelledIsTracked`, `StopIsFinal`, `DeletedIsToldToGo` |
| `MCConductorLive` | A message, a steer, a /stop, two edits of what is pending: `EventuallyRead` |
| `MCBtw` | Two questions, two /stops, a cleanup tick, shutdown: `OneStream`, `StopHolds`, `DoneOnce`, `DoneUnlessMissed` |
| `MCCron` | Two jobs (every tick with one run; every second tick, expiring), two edits, two ticks, two slots, a channel of one, one restart or failing call: `OneRunAtATime`, `QueuedOnce`, `WithinLimit`, `MemoryMatchesStore`, `SleepsNoLonger` |
| `permission` (`MCPermission`) | A parent and a child, two requests, two changes of level: `PromptsTracked`, `AnswerCounts`, `LevelFollows` |
| `subagent` (`MCSubagent`) | A parent with two agents, one after the other, a child with two runs and a follow-up, a stream of four messages and Stopped, one permission request: `TextsReportedOnce`, `StopReachesChildren`, the refinement `PermissionHolds` |
| `history` (`MCHistory`) | Two user messages, a batch of two calls of which one sends metadata, two agents, queues of two, one snapshot, one fault: `TracesKept`, `AnsweredOnce`, `ReadsBack` |
| `feed` (`MCFeed`) | Three events of four kinds with ids in any order, queues and a buffer of two, two calls or lost connections, both routers: `NothingSkipped`, `OrderKept`, `StreamsResume` |
| `hub` (`MCHub`) | Three runs or compactions, queues of two, two misses, carried out or not: `TextsReachChat`, `SettledStays` |
| `rewind` (`MCRewind`) | Two messages, two files of two contents, two checkpoints kept, four sequence numbers, one fault: `RewindUndoes`, `RewindLands` |

Several properties name exceptions in their text (`overtaken`, `swept`,
`Mailless`, `misfired`, `escaping`, `late`, `fumbled`, `missed`, `timedOut`,
`astray`, `outrun`, `unheard`, `crossed`, `excused`, `swallowed`, `mixed`,
`adrift`, `raced`, `unrun`, `faithful`, `strayed`, `late` of `Feed`, `Astray`, `lost`, a
cancellation by "parent", "unanswered" messages). Each is a history
variable or a state predicate for one real window of the code; the property says
that there is no other. The windows that look like mistakes are listed below.

### Why the bounds are enough

`MCKeyedPool`: the pool's races are between one dispatch and one worker's exit;
two callers give two dispatches in different places of their call, three jobs
over a channel of two give full, shed and refused sends, two generations a
respawn with the old worker in sight.

`MCConductor`: every race found involves at most two messages and two stops; a
second agent and a second mailbox need two messages, and one tick suffices to
drop each map entry once. Every property of the run excepts what follows a tick
that took something from under a task, so such a tick ends the behaviour
(constraint `Unswept`); without the constraint the run, less its edit, holds as
well (11.2 million states). An edit meets everything but the tick and the
shutdown (`EditsApart`), which it touches only through tasks that are there
without it. In `MCConductorLive`, two /stops without edits and two /stops with one
edit (1.8 million states) hold as well, and so does `EventuallyRead` for a
message, a steer, a /stop, a deletion and an edit (1.2 million).

`MCAgentLoop`: five iterations allow two tool rounds and the limit to be hit in
every state; three inputs allow a turn, a control input and a turn again; two
retries allow first, middle and last.

`MCBtw`: a race for the handle has two questions at most, as each new one
replaces the last under the lock, and a second /stop raises the generation past
what a waiting question has read. Three questions with one /stop (449,748
states) hold as well.

`MCCron`: every race is between the loop, a run of one job and one edit with its
reload; the second job makes due lists of two and fills the channel; two ticks
let a job run and be due again. In the run the second job expires when it first
comes due, which leads it through `complete_job` by the loop. Larger instances
hold as well: both jobs running (16.9 million states), one job with three edits
and two troubles (17.1 million), one job with three edits and three ticks in one
slot (4.0 million).

`MCPermission`: a prompt is displaced by one other; an answer can be late for one
request while the next is open; two changes of level can overtake each other.
`MCSubagent`: the claim is decided between the first two runs of a child; a
second agent of the parent meets a child of the first. A stream of four holds two
runs with a message each, which is what one answer needs to be taken for another.
Its one request exercises the refinement; the prompts' own races are
`MCPermission`'s, and an instance that has asked has no follow-up and a stream of
two (`AsksOrPosts`).

`MCHistory`: a batch of two calls has a first, a last and a missing result; with
queues of two an interruption that owes both calls needs room for three messages
and waits for a message to be taken. A snapshot is too old when what was on its way
at the time has arrived since, for which one is enough. The queues hold three events
together, two after a fault, and one each, none of them metadata, with a snapshot in
hand (`FewOnTheWay`); without the shorter queues after a fault the run holds as well
(4.2 million states). The view `WhatMatters` hides snapshots no agent will read.

`MCFeed`: a replay meets an event before it, one in the forwarder's hand and one
behind it, with their ids in any order. Two subscriptions share nothing but the
connection's queue, which two events fill (`TwoForTwo`). The view `WhatMatters` hides
what nothing reads any more, so a state stands for all that differ in this only: the
accounts of a subscription that has ended, a cursor after its replay, the order of ids
after the last search, what the receivers of all events were given. Three calls or
lost connections (6.2 million states) and four events (14.1 million) hold as well.
`MCHub`: the worker is at one card while heartbeat and sweep may be a card behind, and
the third run makes a card for a sweep that set out for the first; that run has
neither posts nor a heartbeat (`LastRunPlain`), which two runs have in full.
`MCRewind`: a target, a later checkpoint and the retention of both need two messages
and two lines, and a message anchored twice between others a fourth sequence number
(`MaxSeq`); files are independent but for the order in which they are restored. With
one file, three messages and four lines hold as well (14.5 million states), and the
inductive invariant of the proofs with them.

`CHECK_DEADLOCK FALSE` is set everywhere: inputs are bounded, so a run may end
with nothing left to do; what must not get stuck is stated as liveness.

### Fairness

Weak fairness only, and only of what the runtime must do: tasks that can run are
polled, handlers, hooks, preparations, streams and compactions return (the code
bounds each with a timeout or the provider's connection ends), a biased select
sees a cancelled token. Inputs, ticks, expiry, timeouts, deaths, deletions, edits
and shutdown get no fairness: they may never come; only the second half of an
edit under way (`PutItem`) is fair. `StreamCancelled` and `ToolsCancelled` are
weakly fair on their own because those selects are biased towards the token.
`Permission`, `Subagent`, `History`, `Feed`, `Hub` and `Rewind` state safety only:
their progress hangs on users, platforms and connections, or repeats that of the
agent loop.

### Known windows

What the exceptions stand for, where the code's own comments or its neighbours
say otherwise, and what modelling it brought to light. None of them is a claim
that the behaviour is wrong for users.

Agents and the conductor:

- A shutdown during auto-compaction is attributed twice, the second time to the
  user (`agent/agent.rs:1430`, against `agent/cancel.rs:15` and `:51`).
- The kernel stops agent by agent (`kernel/conductor.rs:138-140`, `:334-338`), and a
  subagent's token is a child of its parent's with a mark of its own
  (`kernel/conductor.rs:1144-1153`). If the parent comes first, the subagent announces a
  cancellation by the user, although only the kernel cancelled (against
  `agent/cancel.rs:80-82`; `"parent" \in by` in `RightlyBlamed`).
- A message that arrives while a /stop waits starts a second run next to the
  first (`kernel/conductor.rs:439`, against the comment at 447).
- A /stop that waited for the side-question lock takes an agent from the map
  that it has not cancelled (`kernel/conductor.rs:439`, against 309; `misfired`).
- A wake that has looked at the tombstone enters its agent after it was set
  (`late`); `delete_session`'s wait ends when its own Cancel has taken the agent
  from the map, before the run is over (`kernel/mod.rs:2021`, against 2009).
- `steer_mailbox_item` is documented as an "atomic server-side move"
  (`kernel/mod.rs:1794`), but takes the item and then pushes it, and wakes
  nobody (`fumbled`).
- `Done` of a side question is lost when its stream ends before its handle is
  registered (`kernel/conductor.rs:1077`, against `kernel/btw.rs:234`; `missed`).
- A cron job that completed itself stays in `running`; once a user resumes it,
  its due entries are dropped until the daemon restarts (`cron/worker.rs:152`,
  against the comment at `cron/scheduler.rs:275`; part of `astray`).

Subagents and permissions:

- The claim of a synchronous call that was aborted swallows a later answer of
  the child (`swallowed`).
- `forward_orphan_reply` takes the last message of the store when it comes to it. If the
  child has begun another run by then, the first run's answer is lost and the other's is
  sent early, and again at its own end; or nothing is sent, if the other's message has no
  text yet. A run without a message has an older text sent again. The comment at
  `kernel/conductor.rs:588-596` asserts that what is read there is the final answer
  (`mixed`).
- A call that was cancelled when the child's Stopped was already in its queue, and the
  conductor had left that run to it, reports nothing (`excused`; asynchronous calls and
  synchronous ones alike).
- `permission/checker.rs:117-121` says that agents share a `PermissionState`;
  the conductor builds one per agent (`kernel/conductor.rs:1164-1171`).
- Two changes of level may overtake each other on their way to a live agent, and
  one made while the agent is built misses it (`crossed`).

History:

- The torn or newline-less tail that a crash leaves swallows the next line.
- The shutdown marker may overtake messages still queued, or share their line.
- A result that lies inside another batch can still make `sanitize` drop that
  batch (against `kernel/conductor.rs`, about 724-731).
- A batch refused for its finish reason is dropped by the live agent but shown
  as cancelled by the next one (`unrun`).
- A rewind of files puts the checkpoint's copy of the history onto the live file
  (`checkpoint/store.rs:427-432`) before it touches anything else. If a later step fails,
  `process_rewind` returns without a replacement (`agent/agent.rs:911-915`): the file is an
  old copy under a full buffer, and the next agent is shown that, against the comment at
  `agent/agent.rs:900-901` ("on failure nothing has been mutated yet"; `faithful`).
- Such a copy may hold a made-up result whose real one is still on its way to the file,
  which then has both (`raced`).

Server and remote client:

- An event that is buffered and not yet fanned out is replayed and then sent
  again by the live loop (`server/dispatcher.rs:853`, `:899`, `server/mod.rs:51`,
  `:63`). A merged chunk carries the id of its last part only.
- Ids come from a generator per thread (`types/mod.rs:50-54`), and a permission prompt's
  PermissionAck takes its id when the prompt opens (`permission/checker.rs:266-272`,
  `comms/bus.rs:250-281`). The binary search for a cursor (`server/event_buffer.rs:49`) runs
  over a buffer that need not be sorted, and may pass over events that were published after
  the cursor's (`Astray`).
- `wire/mod.rs:113-115` says that a cursor that is not in the buffer replays all of it. It
  replays what is behind the id's place: a client whose last event was a side question's,
  which is never buffered, gets what its id does not precede.
- Events between a subscription's reply and the client's receiver reach nobody
  (`client/remote/mod.rs:596`; `excused`).
- `ensure_connected` subscribes the router of all events with `Subscribe`
  (`client/remote/mod.rs:420-429`), so that stream is silent after a reconnect;
  a receiver made for a reply of the previous connection is not subscribed at
  all (`strayed`).
- A stop or a persisted message empties the buffer, so older events that are
  still queued follow newer ones that are replayed (`late`).

Channel hub:

- The tick looks at the worker's queue only, and may settle a run whose last
  events wait in the forwarder's (`channels/hub/mod.rs:728-735`).
- The sweep's verdict may be stale when it takes the card, and freeze the card
  of a live run (`channels/render/obs.rs:751-757`).
- A post that comes while the run ends is noted after the receipts were cleared
  (`channels/hub/context.rs:777-779`).
- A failed patch leaves a card that looks live, and the reply below it.
- A call that fails may have been carried out, only its answer lost. The code takes
  every failure for a call that never arrived: a card that was settled hands its reply
  back (`channels/render/obs.rs:984-1003`), the reply goes out as a message
  (`channels/hub/deliver.rs:640-646`), and a card that fails is followed by plain text
  (`:300-346`), so the chat can have the text two or three times ("unanswered"), or a
  card of which nobody knows the number.
- `take_state_locked` (`channels/render/obs.rs:917-929`) takes whatever state it
  finds once it has the lock it had read before. A sweep that waited while the
  worker settled its card, and the next run made another, takes the new card
  without its lock, and a patch in flight may cover the receipt: against the
  comment at 911-916, by which the terminal rendering is always the last on the
  card (`Frozen`).

Rewind:

- A second turn with the same anchor (Continue) writes over the account of the
  first and puts its own before those of later checkpoints
  (`agent/agent.rs:988`).
- Retention may delete the directory just written, when a message is anchored
  twice (`checkpoint/store.rs:183-195`, against the comment at 301-303).
- A rewind that breaks off among the directories, which go oldest first while
  the manifest goes last (`checkpoint/store.rs:576-597`), leaves listed
  checkpoints without backups, so that a retry may restore later versions. One
  that breaks off while it restores files can be repeated.
- A conversation-only rewind drops backups that earlier targets need.

## Proofs

`PersistProofs` proves of `KeyedPool`, for every set of keys, callers and workers, every
capacity and any number of jobs and deaths (assumption: `PoolAssumption`, the
types of the constants and a capacity of at least one):

- `TypeCorrect`, `OneWorker`, `QuietBarrier`, `NothingDroppedSilently`: the
  invariants of `MCKeyedPool`;
- `ImplementsFifo`: the refinement `Spec => Fifo!Spec`.

None of them is inductive alone. `OneWorkerPerKey` needs that every live worker
is its key's entry (`LiveIsEntry`), which needs that a spawn happens only where
the entry is vacant or its worker gone, and during shutdown only after the token
check (`ClosedForShutdown`: a receiver that is closed while its worker lives was
closed by cancellation). `QuietMeansSettled` needs the exact account
(`AccountExact`: `outstanding` is the length of the channel plus the job in the
handler plus a hook under way) and that an accepted job is queued, in hand,
settled or dropped (`NothingLost`). Respawns need that an unborn worker is blank
and one that is gone holds nothing (`UnbornIsBlank`, `GoneIsEmpty`), and the
send after a spawn that its worker is born (`SendingToBorn`). The conjunction
`Inv` is inductive; one lemma per action shows it is preserved, and the theorems
follow from it by temporal induction.

Of `History`, `PersistProofs` proves `HistoryTypes`, `HistoryTraces` (`TracesKept`),
`HistoryInvariant` and `HistoryAnswers` (`AnsweredOnce`) for any batches, queues,
faults and number of respawns. The assumption, `HistoryAssumption`, says that no two
calls share an id: the provider gives every call its own, and two batches with one id
would be one batch to `close_dangling_tool_batches`.

- `HistoryTraces` is about what the code computes: `ClosedWhole` holds of every
  history of well-formed messages. Along the walk, what has been put out
  consists of answered batches, but for the one that is open, of which all calls
  are answered but those still open (`Traced`). A message that would break the
  chain comes after `CloseBatch`, so it finds no open call; a result either
  takes a call off the open batch or, as there is no surplus, waits for the end
  of its own.
- `HistoryAnswers` is about all actors together, and one call at a time.
  `HistoryInv` says of a call and a role, assistant or tool, that every history,
  on its way or at rest, holds at most one such message (`Single`, `Singles`),
  and that what is still to be appended is in none of the places before it:
  neither in the file nor earlier in the pool, nor in the pool when it is in the
  conductor's queue (`InTurn`, `Lone`). A replacement may repeat what the file
  has, because it takes its place. So does a snapshot put back, but what is to be appended
  comes behind it: a call it has a result for, while another is on its way, is in `raced`
  (`RestoreCall`, `BreakOffCall`, `AppendingFacts`), and the snapshots themselves are
  histories the file once was (`WindDownCall`). A call owed or not yet asked for is nowhere
  (`Nowhere`), so that its message, when it comes, is the first. For a respawn
  the walk is followed again with one call in view (`Once`, `ClosedOnce`): one
  result comes out, and it is made up only if none lies in the file. Unless one
  was on its way, which puts the call in `raced`, the new result is the only
  one. That assistant messages are single too is needed there: an assistant
  message that came back twice would open its batch twice, and the second time
  its results would be made up again.

TLC checked `HistoryInv` on the instance of `MCHistory` before it was proved.
The recursive functions of the model are unfolded once each (`PickingSteps`,
`SettlingSteps`, `WalkingSteps`), and what holds at every position follows by
`ByInduction`, which is induction as a statement about a set of numbers.

`SessionProofs` proves of `Btw` `TypeCorrect`, `OneAtATime` (`OneStream`), `StopsForGood`
(`StopHolds`) and `DoneAtMostOnce` (`DoneOnce`) for any number of questions,
/stops and ticks (assumption: `BtwAssumption`, the names are distinct).
`DoneOnce` is about the handle alone: it becomes inductive with
`DoneOutstanding` (a question in the tracker is through with start_btw and has
not heard Done) and `LifeOfQuestion`. The other two are about the lock: who
prepares or registers holds what it has cloned (`HolderHolds`); without an ill
timed cleanup tick everybody has cloned the same lock (`SameLock`), so there is
one such question, and the tracker is empty meanwhile (`Replaced`). A /stop that
has the lock therefore finds what runs in the tracker and cuts it off.

`CronProofs` proves `TypeCorrect`, `NeverTwiceAtOnce` (`OneRunAtATime`),
`NeverQueuedTwice` (`QueuedOnce`), `NeverOversleeps` (`SleepsNoLonger`),
`NeverTooOften` (`WithinLimit`) and `KeepsInStep` (`MemoryMatchesStore`) for any jobs,
schedules, limits, number of runs, edits, restarts and failing calls (assumption:
`CronAssumption`). A job is carried from the mark to its removal: by the loop, the
channel, the task of the run. All that is carried is marked (`Marked`) and each job
has one carrier (`OneCarrier`), so lifting one mark leaves the others in place, and
marking asks whether there is one. `QueuedOnce` needs that sends fail only after the
shutdown has begun (`FailsLate`), as that path queues without looking.
`SleepsNoLonger` is inductive with the types: whoever adds an entry leaves a wake-up.
For the limit the count that is checked may be old: what holds of a job outside
`outrun` is that it is due, handed over or run in one place (`Solo`), and that it is
so, or queued, only while its row is below the limit or the count it will be checked
by is not (`Counted`). Memory and store agree at rest because in between, until the
next load, a job that is not astray is queued if its row is active, or on its way back
to the queue (`Returns`), and what is queued besides is about to be found by
complete_job (`Forgotten`, `Kept`).

`ConductorProofs` proves `TypeCorrect`, `StrandsNoMail` (`NoStrandedMail`),
`TracksUncancelled` (`UncancelledIsTracked`), `StopsForGood` (`StopIsFinal`) and
`TellsDeletedToGo` (`DeletedIsToldToGo`) for any number of inputs, /stops, edits
and ticks (assumption: `ConductorAssumption`, the names are distinct). Only
`UncancelledIsTracked` is inductive with the others. Mail attended to is too
weak: a Cancel that has not yet waited attends, but if there is no agent to take
it ends without another look. `WantedIsSecured` therefore lets it count only
while the map holds an agent, and counts an item in a user's hand as mail of the
box it goes back to. A wake may rely on the agent in the map being either
uncancelled or followed by a Cancel that holds the mailbox (`Chased`); that all
of them mean the same mailbox is `OneBox`, and that one task at a time spawns,
into a map still vacant when it enters, is `LockHeld`. All three hold until a tick
takes something from under a task. `Shutdown` keeps the account of live agents: in
the map, in the hands of `Kernel::stop`, or in those of a Cancel. `Deletion` says
that after the tombstone only wakes that had looked before it still spawn, and
that its Cancel, once handled, has left no other agent uncancelled.

`SubagentProofs` proves of `Permission` `PromptTypes`, `PromptsFollowed` (`PromptsTracked`),
`AnswersCount` (`AnswerCounts`) and `LevelInStep` (`LevelFollows`) for any
sessions, requests and changes of level (assumption: `PermissionAssumption`).
`LevelFollows` needs `Agreed`: what the live agent has, or will have once the
tasks under way have run, is the row's level. The other two follow from the life
of a request (`Lives`): its ask is followed by its ack in the same lane
(`InOrder`, `AskedOnce`, `OwnLane`), the terminal's slot holds a request whose
ask has passed and whose ack has not (`Followed`, `Untold`, `Unacked`), and what
an agent waits for and remembers goes back to an answer (`Waits`, `Remembers`,
`Counts`).

Of `Subagent` it proves `TypeCorrect`, `ReportsOnce` (`TextsReportedOnce`),
`ReachesChildren` (`StopReachesChildren`) and `PromptsRefined` (`PermissionHolds`) for
any sessions, runs, follow-ups and agents of the parent (assumptions:
`SubagentAssumption`, `PermissionAssumption`). The first is an account of each child's
stream (`Accounts`), which has its runs in order, each up to its Stopped (`InLine`);
the conductor has seen the part up to `seen`, a run's end with it if it is `Noted`,
and the store has the last message of that part (`Stored`). A claim is there until the
first run is seen to stop (`Claimed`), and the first Stopped that the waiting task
hears is that of the first run (`HearsFirst`): so what it reports unseen is the run
whose claim keeps the conductor silent (`Reported`), and what the conductor forwards
nobody reported (`Forwarding`). The answer of a run that was seen to stop is therefore
reported, or in one of the named places (`Owed`); a message of another run in its
place puts both runs in `mixed`. The second theorem needs to know which calls and
children belong to the parent's agent in the map (`Ties`). The refinement maps the
queue of a waiting task to the prompts in it, a fold that is unfolded by induction
(`KeptSoFar`): a prompt that is published or passed on is so there (`PromptsAppend`,
`PromptsTail`), a Stopped is not there at all. That an agent which leaves has no check
open, as `Permission` asks, is for a child an invariant of its own (`Resting`): it
asks in a run, and its run ends when its check has.

`AgentLoopProofs` proves `TypeCorrect`, `QuietAtRest` (`RestIsQuiet`), `BlamesRightly`
(`RightlyBlamed`), `BoundsRounds` (`RoundsBounded`) and `ImplementsContract` (`Spec =>
ContractSpec`) for any limits (assumption: `LoopAssumption`). None is inductive alone:
while the agent works there is no reason yet (`Named`), every way out of work notes
one (`Wound`), so a wind-down always has something to announce and leaves nothing
behind (`Quiet`). Blame needs the shutdown mark: it is there from the kernel's first
step until some interruption takes it, so an interruption of work that finds no mark
was the user's, or came through the parent (`Marked`). The bound on rounds counts
passes: a round costs one and the tool batch that leads to the next another
(`Counted`).

`FeedProofs` proves `TypeCorrect`, `SkipsNothing` (`NothingSkipped`), `KeepsOrder`
(`OrderKept`) and `ResumesStreams` (`StreamsResume`) for any kinds and number of
events, queues and buffers of any length, any number of calls and lost connections
(assumption: `FeedAssumption`). What a replay contains is a fold over the buffer whose
envelopes are flattened again. Both are defined by recursive functions, and the
library's induction theorems cannot be instantiated; `ByInduction` is the same as a
statement about a set of numbers, and follows from the order on the numbers being
well-founded. With it `FoldSteps` and `ContentsSteps` unfold the two, and
`FoldContents` says that a replay contains the ids of the buffer from the place the
search found on, in their order. That this place is right is `SearchFinds`: wherever
the search ends, in whatever order the ids are, no event published after the cursor's
lies before it unless it is `Astray`. The invariant says of every id where it may be:
past the forwarder's queue (`Passed`), in order in queue, buffer and receivers
(`Stream`, `Received`). An event that waits in a receiver may then be sent next
(`MayFollow`): whatever newer was sent before came out of a replay, which either had
this event too, or is excused by `late`. Nothing is skipped because an id leaves one
of the places the property names only for another; a repeat that the drain passes over
was sent or its envelope dropped (`Drained`), and a persisted message is owed to
nobody (`Owed`). Streams resume because a router with a receiver is on the list until
the server's reply for it is on the wire (`Resumed`).

`HubProofs` proves `TypeCorrect`, `LocksGuard` (`LockInv`), `SettledForGood`
(`SettledStays`) and `TextsArrive` (`TextsReachChat`) for any number of runs and
misses and queues of any length (assumption: `HubAssumption`, the bounds are numbers
and `None` is neither a card state nor a set of runs). A settled card stays because a
patch lock has one holder (`LocksHeld`), who is known by the card state it works on
(`WorkersCard`, `Owners`: a sweep may hold the lock of an older one), and because
whoever may still write a message writes one that is open (`StillOpen`). A text is not
sent again once a call that sent it was answered: what the chat has from calls that
were not is kept apart ("unanswered"), and for the rest it waits once in the stream
(`FreshTexts`), a run's stage only grows (`Stages`), and buffer, hand and replies are
disjoint (`OnePlace`). That one miss loses none takes more: without a miss the stream,
the worker's queue followed by the forwarder's, is in order (`NoMiss`, `InOrder`), so
that the texts of the run under way are in its card's trace; a reply that failed below
the card stays there (`Kept`), and what is in neither has been delivered (`Delivered`,
`Covered`).

Of `Rewind`, `SessionProofs` proves `RewindTypes`, `UndoesAll` (`RewindUndoes`) and
`LandsBack` (`RewindLands`) for any files, contents, messages, faults and any size of
the manifest (assumption: `RewindAssumption`, the stand-ins are distinct and no
content). The inductive invariant says of each message and file that is not lost
that there is a way back (`Path`): either no checkpoint from the message on knows the
file, and it is as it was (`Still`), or the earliest account leads (`Leads`). A
checkpoint that goes takes only accounts that lead nowhere else, or the pair is lost
(`LeadLost`). A message anchored twice is the hard part, as its second account
replaces the first: that no foreign account lies between its two lines (`Alone`) holds
because a message between two lines of another has been cut from the conversation
(`Between`), which follows from the order of messages and lines (`Anchored`). During a
turn the way is for the files as they will be accounted for (`Found`), and from the
meta.json to the manifest it is kept for both the old and the new list of lines
(`Extended`). In a rewind, what is not to do any more is as the target's earliest
account says (`Returned`); once directories go, checkpoints before the target have
their account before it or the file back (`Halfway`), and those behind it a way as
ever (`Removing`).

Only model-checked: `EventuallyRead` of `Conductor`; `ReadsBack` of `History`;
`DoneUnlessMissed` of `Btw`; and all liveness (fairness and ENABLED are out of the
prover's reach). `ReadsBack` compares two whole histories, each closed, sanitized and
filtered with `SelectSeq`, about which the prover has no facts. Its invariant would
have to say of every job on its way what the histories before and after it are shown
as, message by message and in order; `TracesKept` and `AnsweredOnce` only need what
bears on one batch or one call. `Cron` has no liveness run: without a signal lost
(`SleepsNoLonger`) the loop comes to every due entry, if it is polled and the worker
takes from the channel, and its runs end.

## Not modelled, and the plan

The control logic of the kernel that several tasks share is modelled. What is
left falls into these groups:

- Interfaces: `crates/tui`, `crates/gui`, `crates/cli` and the settings cards of
  the channels. More than half of the repository's lines; they hold no state the
  kernel relies on, except the terminal's prompt slot, which is in `Permission`.
- Adapters and conversions: chat platforms, providers, transport, wire format,
  rendering. Their failures are choices of the modules that call them.
- Storage and files: SQLite, migrations, gc, configuration, prompts, skills,
  memory, hooks. One call each, with the guarantees of the database or the
  operating system.
- Single-task algorithms on text: loop detection, the stream collector, the
  compactor's summary, diffs, the syntax of schedules. Unit tests reach them.
- In modelled components: several sessions in one conductor (they share nothing
  but the maps), commands, routing and watched sessions of the hub, throttling and
  breakers, manual cron triggers, limits edited under way, the mirror of
  half-written text of side questions, forks of a session's checkpoints.

Next, in this order: gc against the live set it must spare; watched
sessions in `Hub`; a fork that copies checkpoints while its source rewinds;
a proof of `ReadsBack` of `History`.
