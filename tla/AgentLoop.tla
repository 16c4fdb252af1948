----------------------------- MODULE AgentLoop -----------------------------
(***************************************************************************)
(* The main loop of one agent (agent/agent.rs, start_loop) with the parts  *)
(* of streaming, tool execution (agent/agent/tool_exec.rs) and compaction  *)
(* that decide how a turn ends, and the cancel token of agent/cancel.rs.   *)
(*                                                                         *)
(* A step is one pass of the loop, or one part of it where the agent waits *)
(* for the model, the tools, a compaction or a hook and can be cancelled.  *)
(* Of the message buffer only whether it holds a message a turn can be     *)
(* anchored to is kept.  Rewind's closing of an open turn, the shutdown    *)
(* branch of the loop and control inputs read from the mailbox that the    *)
(* conductor never puts there are left out: RestIsQuiet shows the first    *)
(* has nothing to close.                                                   *)
(***************************************************************************)
EXTENDS Naturals, Sequences

CONSTANTS
  MaxIterations,  \* max_iterations; 0 is no limit
  MaxRetries,     \* STREAM_MAX_RETRIES
  MaxInputs,      \* bound: inputs sent to the mailbox
  HasParent       \* the agent is a subagent: its token hangs from its parent's

ASSUME LoopAssumption ==
  /\ MaxIterations \in Nat
  /\ MaxRetries \in Nat \ {0}
  /\ MaxInputs \in Nat
  /\ HasParent \in BOOLEAN

VARIABLES
  state,      \* AgentState
  at,         \* where in the pass the agent waits
  iter,       \* iteration_count
  turn,       \* current_turn.is_some()
  reason,     \* last_stop_reason, or None
  anchor,     \* the buffer has a user message that is not an interruption
  autoUsed,   \* auto_continue_used
  attempt,    \* retries of the stream so far
  recovered,  \* context_recovery_attempted
  steers,     \* number of steers in the mailbox
  queue,      \* the normal queue of the mailbox
  sent,       \* inputs sent so far
  token,      \* the cancel token is cancelled
  flag,       \* its for_shutdown mark
  by,         \* history: who has cancelled, a subset of Cancellers
  heard,      \* history: last of turn_start, turn_end, Stopped sent out
  turns,      \* history: turns started so far
  unsaid,     \* history: Running was sent out, Stopped not yet
  rounds,     \* history: model rounds since the agent was last idle
  marks       \* history: interruption markers written in this turn

loopVars == <<state, at, iter, turn, reason, anchor, autoUsed, attempt, recovered>>
mailbox == <<steers, queue, sent>>
tokenVars == <<token, flag, by>>
history == <<heard, turns, unsaid, rounds, marks>>
vars == <<loopVars, mailbox, tokenVars, history>>

States == {"idle", "streaming", "executing_tool", "compacting", "winding_down"}
Places == {"top", "model", "aborting", "recovering", "compact", "hook", "gone"}
Inputs == {"user", "continue", "compact", "clear", "rewind"}
None == "none"
Cancellers == {"user", "kernel"} \cup (IF HasParent THEN {"parent"} ELSE {})
Reasons == {"completed", "failed", "cancelled", "shutdown", "max_iterations", "tool_loop"}
Announcements ==
  {<<"nothing">>, <<"turn_start">>} \cup ({"turn_end", "stopped"} \X Reasons)

Init ==
  /\ state = "idle"
  /\ at = "top"
  /\ iter = 0
  /\ turn = FALSE
  /\ reason = None
  /\ anchor \in BOOLEAN      \* the loaded history may hold user messages
  /\ autoUsed = FALSE
  /\ attempt = 0
  /\ recovered = FALSE
  /\ steers = 0
  /\ queue = <<>>
  /\ sent = 0
  /\ token = FALSE
  /\ flag = FALSE
  /\ by = {}
  /\ heard = <<"nothing">>
  /\ turns = 0
  /\ unsaid = FALSE
  /\ rounds = 0
  /\ marks = {}

-----------------------------------------------------------------------------
\* MUTANT of Noted: the last reason wins.
NotedLast(r) == r

\* note_stopped: the first reason of a turn stands.
Noted(r) == IF reason = None THEN r ELSE reason

\* Back to the top of the loop after a full pass.
EndPass(s) ==
  /\ state' = s
  /\ at' = "top"
  /\ iter' = iter + 1

EmitStopped(r) ==
  /\ heard' = <<"stopped", r>>
  /\ unsaid' = FALSE

\* What a cancellation leaves behind, from handle_cancel or from a cancelled
\* compaction: the shutdown mark is taken, a marker is written, a reason noted.
Interrupt ==
  /\ flag' = FALSE
  /\ marks' = marks \cup {IF flag THEN "shutdown" ELSE "cancelled"}
  /\ reason' = Noted(IF flag THEN "shutdown" ELSE "cancelled")

-----------------------------------------------------------------------------
(***************************************************************************)
(* Idle.                                                                   *)
(***************************************************************************)
AtTop(s) == at = "top" /\ state = s

\* MUTANT of Leaves: the check for cancellation at the top of Idle is lost.
LeavesOnTimeout == steers = 0 /\ queue = <<>>

\* A cancelled agent leaves; so does one that has been idle for two minutes.
Leaves == token \/ (steers = 0 /\ queue = <<>>)

IdleLeave ==
  /\ AtTop("idle")
  /\ Leaves
  /\ at' = "gone"
  /\ UNCHANGED <<state, iter, turn, reason, anchor, autoUsed, attempt, recovered,
                 mailbox, tokenVars, history>>

\* All pending steers start a run; the pass is cut short.
IdleSteer ==
  /\ AtTop("idle")
  /\ ~token
  /\ steers > 0
  /\ steers' = 0
  /\ anchor' = TRUE
  /\ state' = "streaming"
  /\ iter' = 0
  /\ rounds' = 0
  /\ UNCHANGED <<at, turn, reason, autoUsed, attempt, recovered, queue, sent,
                 tokenVars, heard, turns, unsaid, marks>>

IdleTake(input) ==
  /\ AtTop("idle")
  /\ ~token
  /\ steers = 0
  /\ queue # <<>>
  /\ Head(queue) = input
  /\ queue' = Tail(queue)
  /\ rounds' = 0
  /\ UNCHANGED <<turn, reason, attempt, recovered, steers, sent, tokenVars,
                 heard, turns, unsaid, marks>>

\* One input that is dealt with at once; iteration_count is reset and counted.
IdleInput ==
  \/ /\ IdleTake("user")
     /\ anchor' = TRUE
     /\ autoUsed' = FALSE
     /\ state' = "streaming" /\ at' = "top" /\ iter' = 1
  \/ /\ IdleTake("continue")
     /\ state' = "streaming" /\ at' = "top" /\ iter' = 1
     /\ UNCHANGED <<anchor, autoUsed>>
  \/ /\ IdleTake("clear")
     /\ anchor' = FALSE
     /\ iter' = 1
     /\ UNCHANGED <<state, at, autoUsed>>
  \/ /\ IdleTake("rewind")          \* it may cut any message off, or fail
     /\ anchor' \in {anchor, FALSE}
     /\ iter' = 1
     /\ UNCHANGED <<state, at, autoUsed>>
  \/ /\ IdleTake("compact")
     /\ state' = "compacting" /\ at' = "compact" /\ iter' = 0
     /\ UNCHANGED <<anchor, autoUsed>>

\* A standalone compaction ends.  If it was cancelled, the reason it noted is
\* announced at the bottom of the pass.
CompactDone ==
  /\ at = "compact"
  /\ EndPass("idle")
  /\ UNCHANGED <<turn, reason, anchor, autoUsed, attempt, recovered, mailbox,
                 tokenVars, history>>

CompactCancelled ==
  /\ at = "compact"
  /\ token
  /\ flag' = FALSE
  /\ EmitStopped(IF flag THEN "shutdown" ELSE "cancelled")
  /\ EndPass("idle")
  /\ UNCHANGED <<turn, reason, anchor, autoUsed, attempt, recovered, mailbox,
                 token, by, turns, rounds, marks>>

-----------------------------------------------------------------------------
(***************************************************************************)
(* Streaming.                                                              *)
(***************************************************************************)

\* MUTANT of MaxedOut: off by one.
MaxedOutLate == MaxIterations > 0 /\ iter > MaxIterations

\* The check at the top of the loop.
MaxedOut == MaxIterations > 0 /\ iter >= MaxIterations

MaxIterationsReached ==
  /\ AtTop("streaming")
  /\ MaxedOut
  /\ reason' = Noted("max_iterations")
  /\ state' = "winding_down"
  /\ UNCHANGED <<at, iter, turn, anchor, autoUsed, attempt, recovered,
                 mailbox, tokenVars, history>>

\* MUTANT of StartsTurn: a turn that is open is started again.
StartsTurnAgain == anchor

StartsTurn == ~turn /\ anchor

\* start_turn_if_needed, Running, and the steers that came in meanwhile.
BeginStream ==
  /\ AtTop("streaming")
  /\ ~MaxedOut
  /\ IF StartsTurn
     THEN /\ turn' = TRUE
          /\ reason' = None
          /\ heard' = <<"turn_start">>
          /\ turns' = turns + 1
          /\ marks' = {}
     ELSE UNCHANGED <<turn, reason, heard, turns, marks>>
  /\ unsaid' = TRUE
  /\ rounds' = rounds + 1
  /\ anchor' = (anchor \/ steers > 0)
  /\ steers' = 0
  /\ at' = "model"
  /\ attempt' = 0
  /\ recovered' = FALSE
  /\ UNCHANGED <<state, iter, autoUsed, queue, sent, tokenVars>>

\* An auto-compaction before the request is cancelled.  Its error is swallowed,
\* so the request goes out, and the first select on it is cancelled again.
AutoCompactCancelled ==
  /\ at = "model"
  /\ token
  /\ Interrupt
  /\ at' = "aborting"
  /\ UNCHANGED <<state, iter, turn, anchor, autoUsed, attempt, recovered,
                 mailbox, token, by, heard, turns, unsaid, rounds>>

\* AgentError::Cancelled from streaming or the wait for a retry: handle_cancel.
StreamCancelled ==
  /\ at \in {"model", "aborting"}
  /\ token
  /\ Interrupt
  /\ EndPass("winding_down")
  /\ UNCHANGED <<turn, anchor, autoUsed, attempt, recovered, mailbox, token, by,
                 heard, turns, unsaid, rounds>>

\* MUTANT of AfterError: an error ends the run at once.
AfterErrorIdle(r) == "idle"

\* The next pass after an error that is not a cancellation.
AfterError(r) == IF turn \/ r # None THEN "winding_down" ELSE "idle"

\* What the selects of a stream yield only while the token is not cancelled.
Answered == at = "model" /\ ~token

\* fail_agent: overflow again after a recovery, or a later error that is not
\* retryable or finds the retries used up; the first error is always retried.
\* A model that cannot be resolved fails whether or not the token is cancelled.
StreamFail ==
  /\ at \in {"model", "aborting"}
  /\ attempt > 0 \/ (recovered /\ Answered)
  /\ reason' = Noted("failed")
  /\ EndPass(AfterError(reason'))
  /\ UNCHANGED <<turn, anchor, autoUsed, attempt, recovered, mailbox, tokenVars, history>>

RetriesLeft == attempt < MaxRetries

StreamRetry(retryable) ==
  /\ Answered
  /\ RetriesLeft
  /\ retryable \/ attempt = 0
  /\ attempt' = attempt + 1
  /\ UNCHANGED <<state, at, iter, turn, reason, anchor, autoUsed, recovered,
                 mailbox, tokenVars, history>>

\* The provider says the context is too large: one forced compaction.
Overflow ==
  /\ Answered
  /\ ~recovered
  /\ recovered' = TRUE
  /\ at' = "recovering"
  /\ state' = "compacting"
  /\ UNCHANGED <<iter, turn, reason, anchor, autoUsed, attempt, mailbox, tokenVars, history>>

Recovered ==
  /\ at = "recovering"
  /\ at' = "model"
  /\ state' = "streaming"
  /\ UNCHANGED <<iter, turn, reason, anchor, autoUsed, attempt, recovered, mailbox,
                 tokenVars, history>>

\* The compaction fails, or is cancelled and has noted so: fail_agent either way.
RecoveryFails ==
  /\ at = "recovering"
  /\ reason' = Noted("failed")
  /\ EndPass("winding_down")
  /\ UNCHANGED <<turn, anchor, autoUsed, attempt, recovered, mailbox, tokenVars, history>>

RecoveryCancelled ==
  /\ at = "recovering"
  /\ token
  /\ Interrupt
  /\ EndPass("winding_down")
  /\ UNCHANGED <<turn, anchor, autoUsed, attempt, recovered, mailbox, token, by,
                 heard, turns, unsaid, rounds>>

\* The stream completes: transition_after_streaming.
StreamEnd(finish) ==
  /\ Answered
  /\ \/ /\ finish \in {"completed", "failed"}
        /\ reason' = Noted(finish)
        /\ EndPass("winding_down")
        /\ UNCHANGED autoUsed
     \/ /\ finish = "tool_calls"
        /\ EndPass("executing_tool")
        /\ UNCHANGED <<reason, autoUsed>>
     \/ /\ finish = "max_tokens" /\ ~autoUsed
        /\ autoUsed' = TRUE
        /\ EndPass("streaming")
        /\ UNCHANGED reason
     \/ /\ finish = "max_tokens" /\ autoUsed
        /\ reason' = Noted("completed")
        /\ EndPass("winding_down")
        /\ UNCHANGED autoUsed
  /\ anchor' = (anchor \/ (finish = "max_tokens" /\ ~autoUsed))
  /\ UNCHANGED <<turn, attempt, recovered, mailbox, tokenVars, history>>

-----------------------------------------------------------------------------
(***************************************************************************)
(* ExecutingTool and WindingDown.                                          *)
(***************************************************************************)

\* The batch is through: finish_tool_batch asks the loop guard.
ToolsDone(signal) ==
  /\ AtTop("executing_tool")
  /\ \/ /\ signal = "break"
        /\ reason' = Noted("tool_loop")
        /\ EndPass("winding_down")
     \/ /\ signal # "break"
        /\ EndPass("streaming")
        /\ UNCHANGED reason
  /\ anchor' = (anchor \/ signal = "warn")
  /\ UNCHANGED <<turn, autoUsed, attempt, recovered, mailbox, tokenVars, history>>

\* Before or during the batch, whose calls all get results first.
ToolsCancelled ==
  /\ AtTop("executing_tool")
  /\ token
  /\ Interrupt
  /\ EndPass("winding_down")
  /\ UNCHANGED <<turn, anchor, autoUsed, attempt, recovered, mailbox, token, by,
                 heard, turns, unsaid, rounds>>

\* finish_turn_wind_down: take the reason; with no turn to close announce it.
WindDownNoTurn ==
  /\ AtTop("winding_down")
  /\ ~turn
  /\ IF reason # None THEN EmitStopped(reason) ELSE UNCHANGED <<heard, unsaid>>
  /\ reason' = None
  /\ EndPass("idle")
  /\ UNCHANGED <<turn, anchor, autoUsed, attempt, recovered, mailbox, tokenVars,
                 turns, rounds, marks>>

\* Otherwise close the turn and run the turn_end hooks ...
WindDown ==
  /\ AtTop("winding_down")
  /\ turn
  /\ turn' = FALSE
  /\ heard' = <<"turn_end", IF reason = None THEN "failed" ELSE reason>>
  /\ reason' = None
  /\ at' = "hook"
  /\ UNCHANGED <<state, iter, anchor, autoUsed, attempt, recovered, mailbox,
                 tokenVars, turns, unsaid, rounds, marks>>

\* ... and announce it once they are through.
HooksDone ==
  /\ at = "hook"
  /\ EmitStopped(heard[2])
  /\ EndPass("idle")
  /\ UNCHANGED <<turn, reason, anchor, autoUsed, attempt, recovered, mailbox,
                 tokenVars, turns, rounds, marks>>

-----------------------------------------------------------------------------
(***************************************************************************)
(* The world around the agent.                                             *)
(***************************************************************************)
Send ==
  /\ sent < MaxInputs
  /\ sent' = sent + 1
  /\ \/ steers' = steers + 1 /\ UNCHANGED queue
     \/ \E input \in Inputs : queue' = Append(queue, input) /\ UNCHANGED steers
  /\ UNCHANGED <<loopVars, tokenVars, history>>

\* A user cancels the agent, or a parent whose token this one hangs from.
UserCancel ==
  /\ "user" \notin by
  /\ token' = TRUE
  /\ by' = by \cup {"user"}
  /\ UNCHANGED <<loopVars, mailbox, flag, history>>

\* cancel_for_shutdown: the mark is set first, then the token is cancelled.  The
\* conductor's shutdown loop does it again until the agent has left.
ShutdownMark ==
  /\ flag' = TRUE
  /\ by' = by \cup {"kernel"}
  /\ UNCHANGED <<loopVars, mailbox, token, history>>

ShutdownCancel ==
  /\ "kernel" \in by
  /\ ~token
  /\ token' = TRUE
  /\ UNCHANGED <<loopVars, mailbox, flag, by, history>>

\* The shutdown goes agent by agent and comes to the parent first: its token
\* takes the subagent's along, whose own mark is not set.
ParentShutdown ==
  /\ HasParent
  /\ ~token
  /\ token' = TRUE
  /\ by' = by \cup {"parent"}
  /\ UNCHANGED <<loopVars, mailbox, flag, history>>

-----------------------------------------------------------------------------
Stream ==
  \/ MaxIterationsReached
  \/ BeginStream
  \/ AutoCompactCancelled
  \/ StreamCancelled
  \/ StreamFail
  \/ \E retryable \in BOOLEAN : StreamRetry(retryable)
  \/ Overflow
  \/ Recovered
  \/ RecoveryFails
  \/ RecoveryCancelled
  \/ \E finish \in {"completed", "failed", "tool_calls", "max_tokens"} : StreamEnd(finish)

Loop ==
  \/ IdleLeave
  \/ IdleSteer
  \/ IdleInput
  \/ CompactDone
  \/ CompactCancelled
  \/ Stream
  \/ \E signal \in {"none", "warn", "break"} : ToolsDone(signal)
  \/ ToolsCancelled
  \/ WindDownNoTurn
  \/ WindDown
  \/ HooksDone

Next ==
  Loop \/ Send \/ UserCancel \/ ShutdownMark \/ ShutdownCancel \/ ParentShutdown

\* The agent's task is polled; the model, tools, compactions and hooks answer
\* or time out; what is cancelled notices (a biased select looks at the token
\* first).  cancel_for_shutdown runs to its end.
Fairness ==
  /\ WF_vars(Loop)
  /\ WF_vars(ShutdownCancel)
  /\ WF_vars(StreamCancelled)
  /\ WF_vars(ToolsCancelled)

Spec == Init /\ [][Next]_vars /\ Fairness

-----------------------------------------------------------------------------
LoopOK ==
  /\ state \in States
  /\ at \in Places
  /\ iter \in Nat
  /\ turn \in BOOLEAN
  /\ reason \in Reasons \cup {None}
  /\ anchor \in BOOLEAN
  /\ autoUsed \in BOOLEAN
  /\ attempt \in 0 .. MaxRetries
  /\ recovered \in BOOLEAN

MailboxOK ==
  /\ steers \in Nat
  /\ queue \in Seq(Inputs)
  /\ sent \in 0 .. MaxInputs

TokenOK ==
  /\ token \in BOOLEAN
  /\ flag \in BOOLEAN
  /\ by \subseteq Cancellers

HistoryOK ==
  /\ heard \in Announcements
  /\ turns \in Nat
  /\ unsaid \in BOOLEAN
  /\ rounds \in Nat
  /\ marks \subseteq {"cancelled", "shutdown"}

TypeOK == LoopOK /\ MailboxOK /\ TokenOK /\ HistoryOK

\* turn_start, turn_end and Stopped come in the order TurnContract demands.
Contract == INSTANCE TurnContract WITH Reason <- Reasons, open <- turn
ContractSpec == Contract!Spec

\* An agent that is waiting for input or has left owes nobody anything: no
\* turn is open, no reason is left over for the next one, and the Running it
\* sent out has been answered by a Stopped.
RestIsQuiet ==
  AtTop("idle") \/ at = "gone" => ~turn /\ reason = None /\ ~unsaid

\* A turn is not announced as stopped by the user when only the kernel
\* cancelled it, nor the other way round, and an interruption that was acted
\* upon is the reason the turn ends with.  The exception: a subagent whose
\* parent was shut down before it was marked itself says it was cancelled.
RightlyBlamed ==
  /\ heard = <<"stopped", "cancelled">> => "user" \in by \/ "parent" \in by
  /\ heard = <<"stopped", "shutdown">> => "kernel" \in by
  /\ marks # {} /\ turn => reason \in {"cancelled", "shutdown"}

\* max_iterations bounds what one run costs.  It counts passes of the loop, so
\* between two idle phases the model is asked once for every second pass (each
\* further round needs a tool batch first) and once more for the auto-continue,
\* whatever loop warnings and steers come in between.
RoundsBounded == MaxIterations > 0 => rounds <= 1 + MaxIterations \div 2

\* A cancelled agent leaves, whatever it was doing.
CancelledLeaves == token ~> at = "gone"
=============================================================================
