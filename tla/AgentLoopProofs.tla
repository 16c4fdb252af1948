--------------------------- MODULE AgentLoopProofs ---------------------------
(***************************************************************************)
(* Proofs about AgentLoop, for any limits of iterations, retries and       *)
(* inputs.                                                                 *)
(***************************************************************************)
EXTENDS AgentLoop, TLAPS

-----------------------------------------------------------------------------
(***************************************************************************)
(* The inductive invariant.                                                *)
(***************************************************************************)

\* Where the agent waits goes with its state.
Shape ==
  /\ at = "top" => state # "compacting"
  /\ at \in {"model", "aborting"} => state = "streaming"
  /\ at \in {"recovering", "compact"} => state = "compacting"
  /\ at = "hook" => state = "winding_down"
  /\ at = "gone" => state = "idle"

\* RestIsQuiet, and a standalone compaction counts as rest.
Quiet ==
  AtTop("idle") \/ at \in {"compact", "gone"} => ~turn /\ reason = None /\ ~unsaid

\* A run winds down with a reason, and announces the one it has closed the
\* turn with.
Wound ==
  /\ AtTop("winding_down") => reason # None
  /\ at = "hook" => /\ ~turn /\ reason = None
                    /\ \E r \in Reasons : heard = <<"turn_end", r>>
  /\ heard[1] = "turn_end" => at = "hook"

\* The agent works.
Working ==
  \/ at \in {"model", "recovering"}
  \/ AtTop("streaming")
  \/ AtTop("executing_tool")

\* While the agent works nothing has ended its turn, and what has interrupted
\* it becomes the reason.
Named ==
  /\ Working => reason = None /\ (turn => marks = {})
  /\ at = "aborting" => reason \in {"cancelled", "shutdown"}
  /\ marks # {} /\ turn => reason \in {"cancelled", "shutdown"}

Says(r) == reason = r \/ heard = <<"turn_end", r>> \/ heard = <<"stopped", r>>

\* Whom a turn blames has cancelled.
Blamed ==
  /\ Says("cancelled") => "user" \in by \/ "parent" \in by
  /\ Says("shutdown") => "kernel" \in by

\* A cancellation has been acted upon.
Acted == at \in {"aborting", "hook", "gone"} \/ AtTop("winding_down") \/ AtTop("idle")

\* The shutdown mark is there from the kernel's first step until a cancellation
\* is acted upon.
Marked ==
  /\ flag => "kernel" \in by
  /\ ~token /\ "kernel" \in by => flag
  /\ token /\ ~flag => "user" \in by \/ "parent" \in by \/ Acted

\* An auto-continue makes up for one pass.
Extra == IF autoUsed THEN 1 ELSE 0

\* A round of the model takes two passes, of which the second may still come.
Counted ==
  MaxIterations > 0 =>
    /\ 2 * rounds <= MaxIterations + 2
    /\ AtTop("streaming") => 2 * rounds <= iter + Extra
    /\ AtTop("executing_tool") => 2 * rounds <= iter + Extra + 1
    /\ at \in {"model", "aborting", "recovering"} => 2 * rounds <= iter + Extra + 2

Inv ==
  /\ TypeOK
  /\ Shape
  /\ Quiet
  /\ Wound
  /\ Named
  /\ Blamed
  /\ Marked
  /\ Counted

-----------------------------------------------------------------------------
(***************************************************************************)
(* What the parts of an action do.                                         *)
(***************************************************************************)

\* An input leads from Idle into a run, a compaction, or back.
LEMMA IdleInputEffect ==
  ASSUME IdleInput
  PROVE  /\ at = "top" /\ state = "idle" /\ ~token
         /\ UNCHANGED <<turn, reason, attempt, recovered, steers, sent, tokenVars,
                        heard, turns, unsaid, marks>>
         /\ rounds' = 0
         /\ \/ state' = "streaming" /\ at' = "top" /\ iter' = 1
            \/ state' = "idle" /\ at' = "top" /\ iter' = 1
            \/ state' = "compacting" /\ at' = "compact" /\ iter' = 0
         /\ anchor' \in {anchor, TRUE, FALSE}
         /\ autoUsed' \in {autoUsed, FALSE}
         /\ queue # <<>> /\ queue' = Tail(queue)
  BY Zenon DEF IdleInput, IdleTake, AtTop

\* There is a reason after one was noted.
LEMMA NotedReason ==
  ASSUME LoopOK, NEW r \in Reasons
  PROVE  Noted(r) \in Reasons
  BY DEF Noted, LoopOK

\* An interruption leaves a reason.
LEMMA InterruptReason ==
  ASSUME LoopOK, Interrupt
  PROVE  reason' \in Reasons
<1>1. Noted("cancelled") \in Reasons /\ Noted("shutdown") \in Reasons
  BY NotedReason DEF Reasons
<1> QED
  BY <1>1 DEF Interrupt

\* What is sent out about a reason.
LEMMA Announced ==
  ASSUME NEW r \in Reasons
  PROVE  <<"turn_end", r>> \in Announcements /\ <<"stopped", r>> \in Announcements
  BY DEF Announcements

\* What has been sent out at the start, and with a turn.
LEMMA StartAnnounced ==
  <<"nothing">> \in Announcements /\ <<"turn_start">> \in Announcements
  BY DEF Announcements

\* An announcement of a reason is neither of these two.
LEMMA Pairs ==
  \A k, r : /\ <<k, r>> # <<"turn_start">> /\ <<k, r>> # <<"nothing">>
            /\ <<k, r>>[1] = k /\ <<k, r>>[2] = r
  OBVIOUS

-----------------------------------------------------------------------------
(***************************************************************************)
(* One lemma per part of the invariant.                                    *)
(***************************************************************************)
\* It holds at the start.
LEMMA InitInv == Init => Inv
<1> SUFFICES ASSUME Init PROVE Inv
  OBVIOUS
<1>1. TypeOK
  <2>1. LoopOK
    <3>1. 0 \in 0 .. MaxRetries
      BY LoopAssumption
    <3>2. anchor \in BOOLEAN
      BY Zenon DEF Init
    <3> QED
      BY <3>1, <3>2, Zenon DEF Init, LoopOK, States, Places
  <2>2. MailboxOK
    BY LoopAssumption DEF Init, MailboxOK
  <2>3. TokenOK
    BY DEF Init, TokenOK
  <2>4. HistoryOK
    BY StartAnnounced DEF Init, HistoryOK
  <2> QED
    BY <2>1, <2>2, <2>3, <2>4 DEF TypeOK
<1>2. Shape /\ Quiet /\ Wound /\ Named /\ Marked /\ Counted
  BY LoopAssumption DEF Init, Shape, Quiet, Wound, Named, Working, Marked, Acted,
     Counted, Extra, AtTop, None
<1>3. Blamed
  BY DEF Init, Blamed, Says, None
<1> QED
  BY <1>1, <1>2, <1>3 DEF Inv

\* The loop's flags.
LEMMA LoopBooleans ==
  LoopOK /\ [Next]_vars =>
    /\ turn' \in BOOLEAN /\ anchor' \in BOOLEAN
    /\ recovered' \in BOOLEAN /\ autoUsed' \in BOOLEAN
<1> SUFFICES ASSUME LoopOK, [Next]_vars
             PROVE  /\ turn' \in BOOLEAN /\ anchor' \in BOOLEAN
                    /\ recovered' \in BOOLEAN /\ autoUsed' \in BOOLEAN
  OBVIOUS
<1>1. CASE Stream
  BY <1>1, Zenon DEF
     LoopOK, Stream, MaxIterationsReached, BeginStream, AutoCompactCancelled,
     StreamCancelled, StreamFail, StreamRetry, Overflow, Recovered,
     RecoveryFails, RecoveryCancelled, StreamEnd, Interrupt
<1>2. CASE Loop /\ ~Stream
  BY <1>2, Zenon DEF
     LoopOK, Loop, IdleLeave, IdleSteer, IdleInput, IdleTake, CompactDone,
     CompactCancelled, ToolsDone, ToolsCancelled, WindDownNoTurn, WindDown,
     HooksDone
<1>3. CASE \/ Send \/ UserCancel \/ ShutdownMark \/ ShutdownCancel \/ ParentShutdown
           \/ UNCHANGED vars
  BY <1>3, Zenon DEF
     LoopOK, Send, UserCancel, ShutdownMark, ShutdownCancel, ParentShutdown, vars, loopVars
<1> QED
  BY <1>1, <1>2, <1>3 DEF Next

\* The reason is one a turn can end with.
LEMMA ReasonNext == LoopOK /\ [Next]_vars =>
    reason' \in Reasons \cup {None}
<1> SUFFICES ASSUME LoopOK, [Next]_vars
             PROVE  reason' \in Reasons \cup {None}
  OBVIOUS
<1>1. \A r \in {"completed", "failed", "max_iterations", "tool_loop"} : Noted(r) \in Reasons
  BY NotedReason DEF Reasons
<1>2. CASE \/ AutoCompactCancelled \/ StreamCancelled \/ RecoveryCancelled
           \/ ToolsCancelled
  BY <1>2, InterruptReason DEF
     AutoCompactCancelled, StreamCancelled, RecoveryCancelled, ToolsCancelled
<1>3. ASSUME NEW finish \in
               {"completed", "failed", "tool_calls", "max_tokens"},
             StreamEnd(finish)
      PROVE  reason' \in Reasons \cup {None}
  BY <1>1, <1>3 DEF LoopOK, StreamEnd
<1>4. ASSUME NEW signal \in {"none", "warn", "break"}, ToolsDone(signal)
      PROVE  reason' \in Reasons \cup {None}
  BY <1>1, <1>4 DEF LoopOK, ToolsDone
<1>5. CASE StreamFail \/ RecoveryFails \/ MaxIterationsReached
  BY <1>1, <1>5 DEF LoopOK, StreamFail, RecoveryFails, MaxIterationsReached
<1>6. ASSUME reason' = reason \/ reason' = None PROVE reason' \in Reasons \cup {None}
  BY <1>6 DEF LoopOK
<1>7. CASE BeginStream \/ \E retryable \in BOOLEAN : StreamRetry(retryable)
  BY <1>6, <1>7 DEF BeginStream, StreamRetry
<1>71. CASE Overflow \/ Recovered
  BY <1>6, <1>71 DEF  Overflow, Recovered
<1>8. CASE \/ IdleLeave \/ IdleSteer \/ IdleInput \/ CompactDone
           \/ CompactCancelled \/ WindDownNoTurn \/ WindDown \/ HooksDone
  BY <1>6, <1>8, IdleInputEffect DEF
     IdleLeave, IdleSteer, CompactDone, CompactCancelled, WindDownNoTurn,
     WindDown, HooksDone
<1>9. CASE \/ Send \/ UserCancel \/ ShutdownMark \/ ShutdownCancel \/ ParentShutdown
           \/ UNCHANGED vars
  BY <1>6, <1>9 DEF
     Send, UserCancel, ShutdownMark, ShutdownCancel, ParentShutdown, vars, loopVars
<1> QED
  BY <1>2, <1>3, <1>4, <1>5, <1>7, <1>71, <1>8, <1>9 DEF Next, Loop, Stream

PlacesOK ==
  /\ state \in States
  /\ at \in Places
  /\ iter \in Nat
  /\ attempt \in 0 .. MaxRetries

\* The loop's states, places and counters.
LEMMA PlacesNext == LoopOK /\ [Next]_vars => PlacesOK'
<1> SUFFICES ASSUME LoopOK, [Next]_vars
             PROVE  PlacesOK'
  OBVIOUS
<1>1. CASE Stream
  <2>1. CASE StreamFail
     BY <2>1 DEF
        LoopOK, PlacesOK, StreamFail, AfterError, EndPass, States, Places
  <2>2. CASE \/ MaxIterationsReached \/ BeginStream \/ AutoCompactCancelled
             \/ StreamCancelled \/ Overflow \/ Recovered \/ RecoveryFails
             \/ RecoveryCancelled
     BY <2>2, LoopAssumption DEF
        LoopOK, PlacesOK, MaxIterationsReached, BeginStream,
        AutoCompactCancelled, StreamCancelled, Overflow, Recovered,
        RecoveryFails, RecoveryCancelled, EndPass, States, Places
  <2>3. CASE \E retryable \in BOOLEAN : StreamRetry(retryable)
     BY <2>3, LoopAssumption DEF LoopOK, PlacesOK, StreamRetry, RetriesLeft
  <2>4. CASE \E finish \in
             {"completed", "failed", "tool_calls", "max_tokens"} :
             StreamEnd(finish)
     BY <2>4 DEF LoopOK, PlacesOK, StreamEnd, EndPass, States, Places
  <2> QED
    BY <1>1, <2>1, <2>2, <2>3, <2>4 DEF Stream
<1>2. CASE IdleInput
  <2>1. state' \in States /\ at' \in Places /\ iter' \in Nat /\ attempt' = attempt
    BY <1>2, IdleInputEffect DEF States, Places
  <2> QED
    BY <2>1 DEF LoopOK, PlacesOK
<1>3. CASE IdleLeave \/ IdleSteer \/ CompactDone \/ CompactCancelled
  BY <1>3 DEF
     LoopOK, PlacesOK, States, Places, EndPass, IdleLeave, IdleSteer,
     CompactDone, CompactCancelled
<1>4. CASE WindDownNoTurn \/ WindDown \/ HooksDone \/ ToolsCancelled
  BY <1>4 DEF
     LoopOK, PlacesOK, States, Places, EndPass, WindDownNoTurn, WindDown,
     HooksDone, ToolsCancelled
<1>5. CASE \E signal \in {"none", "warn", "break"} : ToolsDone(signal)
  BY <1>5 DEF LoopOK, PlacesOK, States, Places, EndPass, ToolsDone
<1>9. CASE \/ Send \/ UserCancel \/ ShutdownMark \/ ShutdownCancel \/ ParentShutdown
           \/ UNCHANGED vars
  BY <1>9 DEF
     LoopOK, PlacesOK, Send, UserCancel, ShutdownMark, ShutdownCancel, ParentShutdown, vars,
     loopVars
<1> QED
  BY <1>1, <1>2, <1>3, <1>4, <1>5, <1>9 DEF Next, Loop

\* The loop's fields together.
LEMMA LoopTypes == LoopOK /\ [Next]_vars => LoopOK'
  BY LoopBooleans, ReasonNext, PlacesNext DEF LoopOK, PlacesOK

\* The mailbox.
LEMMA MailboxTypes == MailboxOK /\ [Next]_vars => MailboxOK'
<1> SUFFICES ASSUME MailboxOK, [Next]_vars PROVE MailboxOK'
  OBVIOUS
<1>1. CASE IdleSteer
  BY <1>1, LoopAssumption DEF
     IdleSteer, AtTop, MailboxOK, Inputs, mailbox, tokenVars, history,
     loopVars
<1>2. CASE IdleInput
  BY <1>2, IdleInputEffect, LoopAssumption DEF
     AtTop, MailboxOK, Inputs, mailbox, tokenVars, history, loopVars
<1>3. CASE BeginStream
  BY <1>3, LoopAssumption DEF
     BeginStream, AtTop, StartsTurn, MailboxOK, Inputs, mailbox, tokenVars,
     history, loopVars
<1>4. CASE Send
  BY <1>4, LoopAssumption DEF
     Send, MailboxOK, Inputs, mailbox, tokenVars, history, loopVars
<1>5. ASSUME NEW retryable \in BOOLEAN,
              StreamRetry(retryable)
       PROVE  MailboxOK'
  BY <1>5, LoopAssumption DEF
     StreamRetry, Answered, RetriesLeft, MailboxOK, Inputs, mailbox,
     tokenVars, history, loopVars
<1>6. ASSUME NEW finish \in {"completed", "failed", "tool_calls", "max_tokens"},
              StreamEnd(finish)
       PROVE  MailboxOK'
  BY <1>6, LoopAssumption DEF
     StreamEnd, Answered, Noted, EndPass, MailboxOK, Inputs, mailbox,
     tokenVars, history, loopVars
<1>7. ASSUME NEW signal \in {"none", "warn", "break"},
              ToolsDone(signal)
       PROVE  MailboxOK'
  BY <1>7, LoopAssumption DEF
     ToolsDone, AtTop, Noted, EndPass, MailboxOK, Inputs, mailbox, tokenVars,
     history, loopVars
<1>8. CASE \/ IdleLeave \/ CompactDone \/ CompactCancelled
           \/ MaxIterationsReached \/ AutoCompactCancelled
  BY <1>8, LoopAssumption DEF
     IdleLeave, AtTop, CompactDone, EndPass, CompactCancelled, EmitStopped,
     MaxIterationsReached, Noted, AutoCompactCancelled, Interrupt, MailboxOK,
     Inputs, mailbox, tokenVars, history, loopVars
<1>9. CASE \/ StreamCancelled \/ StreamFail \/ Overflow \/ Recovered
           \/ RecoveryFails
  BY <1>9, LoopAssumption DEF
     StreamCancelled, Interrupt, Noted, EndPass, StreamFail, AfterError,
     Overflow, Answered, Recovered, RecoveryFails, MailboxOK, Inputs,
     mailbox, tokenVars, history, loopVars
<1>10. CASE \/ RecoveryCancelled \/ ToolsCancelled \/ WindDownNoTurn
            \/ WindDown \/ HooksDone
  BY <1>10, LoopAssumption DEF
     RecoveryCancelled, Interrupt, Noted, EndPass, ToolsCancelled, AtTop,
     WindDownNoTurn, EmitStopped, WindDown, HooksDone, MailboxOK, Inputs,
     mailbox, tokenVars, history, loopVars
<1>11. CASE UserCancel \/ ShutdownMark \/ ShutdownCancel \/ ParentShutdown
  BY <1>11, LoopAssumption DEF
     UserCancel, ShutdownMark, ShutdownCancel, ParentShutdown, MailboxOK, Inputs, mailbox,
     tokenVars, history, loopVars
<1>12. CASE UNCHANGED vars
  BY <1>12, LoopAssumption DEF
     vars, MailboxOK, Inputs, mailbox, tokenVars, history, loopVars
<1> QED
  BY <1>1, <1>2, <1>3, <1>4, <1>5, <1>6, <1>7, <1>8, <1>9, <1>10, <1>11, <1>12
     DEF Next, Loop, Stream

\* The cancel token.
LEMMA TokenTypes == TokenOK /\ [Next]_vars => TokenOK'
<1> SUFFICES ASSUME TokenOK, [Next]_vars PROVE TokenOK'
  OBVIOUS
<1>1. ASSUME NEW retryable \in BOOLEAN,
              StreamRetry(retryable)
       PROVE  TokenOK'
  BY <1>1 DEF
     StreamRetry, Answered, RetriesLeft, TokenOK, mailbox, tokenVars,
     history, loopVars
<1>2. ASSUME NEW finish \in {"completed", "failed", "tool_calls", "max_tokens"},
              StreamEnd(finish)
       PROVE  TokenOK'
  BY <1>2 DEF
     StreamEnd, Answered, Noted, EndPass, TokenOK, mailbox, tokenVars,
     history, loopVars
<1>3. ASSUME NEW signal \in {"none", "warn", "break"},
              ToolsDone(signal)
       PROVE  TokenOK'
  BY <1>3 DEF
     ToolsDone, AtTop, Noted, EndPass, TokenOK, mailbox, tokenVars, history,
     loopVars
<1>4. CASE \/ IdleLeave \/ IdleSteer \/ IdleInput \/ CompactDone
           \/ CompactCancelled
  BY <1>4, IdleInputEffect DEF
     IdleLeave, AtTop, IdleSteer, CompactDone, EndPass, CompactCancelled,
     EmitStopped, TokenOK, mailbox, tokenVars, history, loopVars
<1>5. CASE \/ MaxIterationsReached \/ BeginStream \/ AutoCompactCancelled
           \/ StreamCancelled \/ StreamFail
  BY <1>5 DEF
     MaxIterationsReached, AtTop, Noted, BeginStream, StartsTurn,
     AutoCompactCancelled, Interrupt, StreamCancelled, EndPass, StreamFail,
     AfterError, TokenOK, mailbox, tokenVars, history, loopVars
<1>6. CASE \/ Overflow \/ Recovered \/ RecoveryFails \/ RecoveryCancelled
           \/ ToolsCancelled
  BY <1>6 DEF
     Overflow, Answered, Recovered, RecoveryFails, Noted, EndPass,
     RecoveryCancelled, Interrupt, ToolsCancelled, AtTop, TokenOK, mailbox,
     tokenVars, history, loopVars
<1>7. CASE WindDownNoTurn \/ WindDown \/ HooksDone \/ Send \/ UserCancel
  BY <1>7 DEF
     WindDownNoTurn, AtTop, EmitStopped, EndPass, WindDown, HooksDone, Send,
     UserCancel, Cancellers, TokenOK, mailbox, tokenVars, history, loopVars
<1>8. CASE ShutdownMark \/ ShutdownCancel \/ ParentShutdown
  BY <1>8 DEF
     ShutdownMark, ShutdownCancel, ParentShutdown, Cancellers, TokenOK, mailbox, tokenVars, history,
     loopVars
<1>9. CASE UNCHANGED vars
  BY <1>9 DEF
     vars, TokenOK, mailbox, tokenVars, history, loopVars
<1> QED
  BY <1>1, <1>2, <1>3, <1>4, <1>5, <1>6, <1>7, <1>8, <1>9 DEF Next, Loop, Stream

\* What is sent out; HooksDone repeats the reason of WindDown.
LEMMA HeardNext == Inv /\ [Next]_vars => heard' \in Announcements
<1> SUFFICES ASSUME Inv, [Next]_vars
             PROVE  heard' \in Announcements
  OBVIOUS
<1>1. CASE UNCHANGED heard
  BY <1>1 DEF Inv, TypeOK, HistoryOK
<1>2. CASE CompactCancelled
  BY <1>2, Announced DEF CompactCancelled, EmitStopped, Reasons
<1>3. CASE BeginStream
  BY <1>1, <1>3, StartAnnounced DEF BeginStream
<1>4. CASE WindDownNoTurn
  BY <1>1, <1>4, Announced DEF
     WindDownNoTurn, EmitStopped, Inv, TypeOK, LoopOK, HistoryOK
<1>5. CASE WindDown
  <2>1. (IF reason = None THEN "failed" ELSE reason) \in Reasons
    BY DEF Inv, TypeOK, LoopOK, Reasons
  <2>2. PICK r \in Reasons : r = (IF reason = None THEN "failed" ELSE reason)
    BY <2>1
  <2>3. heard' = <<"turn_end", r>>
    BY <1>5, <2>2, Zenon DEF WindDown
  <2> QED
    BY <2>3, Announced
<1>6. CASE HooksDone
  <2>1. heard[2] \in Reasons
    BY <1>6, Pairs DEF HooksDone, Inv, Wound
  <2> QED
    BY <1>6, <2>1, Announced DEF HooksDone, EmitStopped
<1>7. CASE \/ IdleLeave \/ IdleSteer \/ CompactDone \/ ToolsCancelled \/ Send
           \/ UserCancel \/ ShutdownMark \/ ShutdownCancel \/ ParentShutdown \/ UNCHANGED vars
  BY <1>7, <1>1 DEF
     IdleLeave, IdleSteer, CompactDone, ToolsCancelled, Send, UserCancel,
     ShutdownMark, ShutdownCancel, ParentShutdown, vars, history
<1>8. CASE IdleInput
  BY <1>8, <1>1, IdleInputEffect
<1>9. CASE \/ MaxIterationsReached \/ AutoCompactCancelled \/ StreamCancelled
           \/ StreamFail \/ Overflow
  BY <1>9, <1>1 DEF
     MaxIterationsReached, AutoCompactCancelled, StreamCancelled, StreamFail,
     Overflow, history
<1>10. CASE Recovered \/ RecoveryFails \/ RecoveryCancelled
  BY <1>10, <1>1 DEF Recovered, RecoveryFails, RecoveryCancelled, history
<1>11. CASE \E retryable \in BOOLEAN : StreamRetry(retryable)
  BY <1>11, <1>1 DEF StreamRetry, history
<1>12. CASE \E finish \in
             {"completed", "failed", "tool_calls", "max_tokens"} :
             StreamEnd(finish)
  BY <1>12, <1>1 DEF StreamEnd, history
<1>13. CASE \E signal \in {"none", "warn", "break"} : ToolsDone(signal)
  BY <1>13, <1>1 DEF ToolsDone, history
<1> QED
  BY <1>2, <1>3, <1>4, <1>5, <1>6, <1>7, <1>8, <1>9, <1>10, <1>11, <1>12, <1>13 DEF
     Next, Loop, Stream

\* The counters of the history.
LEMMA CountersNext == HistoryOK /\ [Next]_vars =>
    turns' \in Nat /\ rounds' \in Nat
<1> SUFFICES ASSUME HistoryOK, [Next]_vars
             PROVE  turns' \in Nat /\ rounds' \in Nat
  OBVIOUS
<1>0. turns \in Nat /\ rounds \in Nat
  BY DEF HistoryOK
<1>1. CASE BeginStream
  BY <1>0, <1>1 DEF BeginStream
<1>2. CASE IdleSteer
  BY <1>0, <1>2 DEF IdleSteer
<1>21. CASE IdleInput
  BY <1>0, <1>21, IdleInputEffect
<1>3. CASE UNCHANGED <<turns, rounds>>
  BY <1>0, <1>3
<1>4. CASE \/ IdleLeave \/ CompactDone \/ CompactCancelled \/ WindDownNoTurn
           \/ WindDown \/ HooksDone \/ ToolsCancelled \/ Send \/ UserCancel
           \/ ShutdownMark \/ ShutdownCancel \/ ParentShutdown \/ UNCHANGED vars
  BY <1>4, <1>3 DEF
     IdleLeave, CompactDone, CompactCancelled, WindDownNoTurn, WindDown,
     HooksDone, ToolsCancelled, Send, UserCancel, ShutdownMark,
     ShutdownCancel, ParentShutdown, vars, history
<1>5. CASE \/ MaxIterationsReached \/ AutoCompactCancelled \/ StreamCancelled
           \/ StreamFail \/ Overflow \/ Recovered \/ RecoveryFails
           \/ RecoveryCancelled
  BY <1>5, <1>3 DEF
     MaxIterationsReached, AutoCompactCancelled, StreamCancelled, StreamFail,
     Overflow, Recovered, RecoveryFails, RecoveryCancelled, history
<1>11. CASE \E retryable \in BOOLEAN : StreamRetry(retryable)
  BY <1>11, <1>3 DEF StreamRetry, history
<1>12. CASE \E finish \in
             {"completed", "failed", "tool_calls", "max_tokens"} :
             StreamEnd(finish)
  BY <1>12, <1>3 DEF StreamEnd, history
<1>13. CASE \E signal \in {"none", "warn", "break"} : ToolsDone(signal)
  BY <1>13, <1>3 DEF ToolsDone, history
<1> QED
  BY <1>1, <1>2, <1>21, <1>4, <1>5, <1>11, <1>12, <1>13 DEF Next, Loop, Stream

\* Running and Stopped.
LEMMA UnsaidNext == HistoryOK /\ [Next]_vars => unsaid' \in BOOLEAN
<1> SUFFICES ASSUME HistoryOK, [Next]_vars
             PROVE  unsaid' \in BOOLEAN
  OBVIOUS
<1>0. unsaid \in BOOLEAN
  BY DEF HistoryOK
<1>1. CASE unsaid' \in {unsaid, TRUE, FALSE}
  BY <1>0, <1>1, Zenon
<1>2. CASE IdleInput
  BY <1>1, <1>2, IdleInputEffect, Zenon
<1>4. CASE Loop /\ ~Stream /\ ~IdleInput
  BY <1>1, <1>4, Zenon DEF
     Loop, EmitStopped, IdleLeave, IdleSteer, CompactDone, CompactCancelled,
     WindDownNoTurn, WindDown, HooksDone, ToolsDone, ToolsCancelled, history
<1>5. CASE Stream
  BY <1>1, <1>5, Zenon DEF
     Stream, MaxIterationsReached, BeginStream, AutoCompactCancelled,
     StreamCancelled, StreamFail, StreamRetry, StreamEnd, Overflow, Recovered,
     RecoveryFails, RecoveryCancelled, history
<1>6. CASE \/ Send \/ UserCancel \/ ShutdownMark \/ ShutdownCancel \/ ParentShutdown
           \/ UNCHANGED vars
  BY <1>1, <1>6, Zenon DEF
     Send, UserCancel, ShutdownMark, ShutdownCancel, ParentShutdown, vars, history
<1> QED
  BY <1>2, <1>4, <1>5, <1>6 DEF Next

\* The markers.
LEMMA MarksNext == HistoryOK /\ [Next]_vars =>
    marks' \subseteq {"cancelled", "shutdown"}
<1> SUFFICES ASSUME HistoryOK, [Next]_vars
             PROVE  marks' \subseteq {"cancelled", "shutdown"}
  OBVIOUS
<1>0. marks \subseteq {"cancelled", "shutdown"}
  BY DEF HistoryOK
<1>1. CASE BeginStream
  BY <1>0, <1>1 DEF BeginStream
<1>2. CASE IdleInput
  BY <1>0, <1>2, IdleInputEffect
<1>3. CASE Interrupt
  BY <1>0, <1>3 DEF Interrupt
<1>31. CASE UNCHANGED marks
  BY <1>0, <1>31
<1>4. CASE \/ IdleLeave \/ IdleSteer \/ CompactDone \/ CompactCancelled
           \/ WindDownNoTurn \/ WindDown \/ HooksDone \/ Send \/ UserCancel
           \/ ShutdownMark \/ ShutdownCancel \/ ParentShutdown \/ UNCHANGED vars
  BY <1>4, <1>31 DEF
     IdleLeave, IdleSteer, CompactDone, CompactCancelled, WindDownNoTurn,
     WindDown, HooksDone, Send, UserCancel, ShutdownMark, ShutdownCancel, ParentShutdown,
     vars, history
<1>5. CASE \/ MaxIterationsReached \/ StreamFail \/ Overflow \/ Recovered
           \/ RecoveryFails
  BY <1>5, <1>31 DEF
     MaxIterationsReached, StreamFail, Overflow, Recovered, RecoveryFails,
     history
<1>6. CASE \/ ToolsCancelled \/ AutoCompactCancelled \/ StreamCancelled
           \/ RecoveryCancelled
  BY <1>3, <1>6 DEF
     ToolsCancelled, AutoCompactCancelled, StreamCancelled, RecoveryCancelled
<1>11. CASE \E retryable \in BOOLEAN : StreamRetry(retryable)
  BY <1>11, <1>31 DEF StreamRetry, history
<1>12. CASE \E finish \in
             {"completed", "failed", "tool_calls", "max_tokens"} :
             StreamEnd(finish)
  BY <1>12, <1>31 DEF StreamEnd, history
<1>13. CASE \E signal \in {"none", "warn", "break"} : ToolsDone(signal)
  BY <1>13, <1>31 DEF ToolsDone, history
<1> QED
  BY <1>1, <1>2, <1>4, <1>5, <1>6, <1>11, <1>12, <1>13 DEF Next, Loop, Stream
\* The history together.
LEMMA HistoryTypes == Inv /\ [Next]_vars => HistoryOK'
<1>1. Inv => HistoryOK
  BY DEF Inv, TypeOK
<1> QED
  BY <1>1, HeardNext, CountersNext, UnsaidNext, MarksNext DEF HistoryOK

\* Shape is inductive by itself.
LEMMA ShapeNext == Shape /\ [Next]_vars => Shape'
<1> SUFFICES ASSUME Shape, [Next]_vars PROVE Shape'
  OBVIOUS
<1>1. ASSUME NEW retryable \in BOOLEAN,
              StreamRetry(retryable)
       PROVE  Shape'
  BY <1>1 DEF
     StreamRetry, Answered, RetriesLeft, Shape, AtTop, mailbox, tokenVars,
     history, loopVars
<1>2. ASSUME NEW finish \in {"completed", "failed", "tool_calls", "max_tokens"},
              StreamEnd(finish)
       PROVE  Shape'
  BY <1>2 DEF
     StreamEnd, Answered, Noted, EndPass, Shape, AtTop, mailbox, tokenVars,
     history, loopVars
<1>3. ASSUME NEW signal \in {"none", "warn", "break"},
              ToolsDone(signal)
       PROVE  Shape'
  BY <1>3 DEF
     ToolsDone, AtTop, Noted, EndPass, Shape, mailbox, tokenVars, history,
     loopVars
<1>4. CASE \/ IdleLeave \/ IdleSteer \/ IdleInput \/ CompactDone
           \/ CompactCancelled
  BY <1>4, IdleInputEffect DEF
     IdleLeave, AtTop, IdleSteer, CompactDone, EndPass, CompactCancelled,
     EmitStopped, Shape, mailbox, tokenVars, history, loopVars
<1>5. CASE \/ MaxIterationsReached \/ BeginStream \/ AutoCompactCancelled
           \/ StreamCancelled \/ StreamFail
  BY <1>5 DEF
     MaxIterationsReached, AtTop, Noted, BeginStream, StartsTurn,
     AutoCompactCancelled, Interrupt, StreamCancelled, EndPass, StreamFail,
     AfterError, Shape, mailbox, tokenVars, history, loopVars
<1>6. CASE \/ Overflow \/ Recovered \/ RecoveryFails \/ RecoveryCancelled
           \/ ToolsCancelled
  BY <1>6 DEF
     Overflow, Answered, Recovered, RecoveryFails, Noted, EndPass,
     RecoveryCancelled, Interrupt, ToolsCancelled, AtTop, Shape, mailbox,
     tokenVars, history, loopVars
<1>7. CASE WindDownNoTurn \/ WindDown \/ HooksDone \/ Send \/ UserCancel
  BY <1>7 DEF
     WindDownNoTurn, AtTop, EmitStopped, EndPass, WindDown, HooksDone, Send,
     UserCancel, Shape, mailbox, tokenVars, history, loopVars
<1>8. CASE ShutdownMark \/ ShutdownCancel \/ ParentShutdown
  BY <1>8 DEF
     ShutdownMark, ShutdownCancel, ParentShutdown, Shape, AtTop, mailbox, tokenVars, history,
     loopVars
<1>9. CASE UNCHANGED vars
  BY <1>9 DEF
     vars, Shape, AtTop, mailbox, tokenVars, history, loopVars
<1> QED
  BY <1>1, <1>2, <1>3, <1>4, <1>5, <1>6, <1>7, <1>8, <1>9 DEF Next, Loop, Stream

\* A failure has noted its reason, so the run winds down.
LEMMA StreamFailQuiet == Inv /\ StreamFail => Quiet'
<1> SUFFICES ASSUME Inv, StreamFail
             PROVE  Quiet'
  OBVIOUS
<1>1. reason' # None
  BY DEF StreamFail, Noted, Inv, TypeOK, LoopOK, None
<1>2. at' = "top" /\ state' = "winding_down"
  BY <1>1 DEF StreamFail, EndPass, AfterError
<1> QED
  BY <1>2 DEF Quiet, AtTop

\* The turn ends with the reason there is.
LEMMA WindDownWound == Inv /\ WindDown => Wound'
<1> SUFFICES ASSUME Inv, WindDown
             PROVE  Wound'
  OBVIOUS
<1>1. reason # None /\ reason \in Reasons
  BY DEF WindDown, Inv, TypeOK, LoopOK, Wound
<1>2. heard' = <<"turn_end", reason>>
  BY <1>1 DEF WindDown
<1>3. heard'[1] = "turn_end"
  BY <1>2
<1>4. at' = "hook" /\ ~turn' /\ reason' = None
  BY DEF WindDown
<1> QED
  BY <1>1, <1>2, <1>3, <1>4 DEF Wound, AtTop

\* A cancellation that is the first to be noted comes from the model's wait,
\* where the shutdown mark tells the two cancellers apart.
LEMMA StreamCancelledBlamed == Inv /\ StreamCancelled => Blamed'
<1> SUFFICES ASSUME Inv, StreamCancelled
             PROVE  Blamed'
  OBVIOUS
<1>1. UNCHANGED <<by, heard>>
  BY DEF StreamCancelled
<1>2. CASE reason # None
  BY <1>1, <1>2 DEF StreamCancelled, Interrupt, Noted, Inv, Blamed, Says
<1>3. CASE reason = None
  <2>1. at = "model"
    BY <1>3 DEF StreamCancelled, Inv, Named, None
  <2>2. token /\ (flag => "kernel" \in by) /\ (~flag => "user" \in by \/ "parent" \in by)
    BY <2>1 DEF StreamCancelled, Inv, Marked, Acted, AtTop
  <2>3. CASE flag
    <3>1. reason' = "shutdown"
      BY <1>3, <2>3 DEF StreamCancelled, Interrupt, Noted
    <3> QED
      BY <1>1, <2>2, <2>3, <3>1 DEF Inv, Blamed, Says
  <2>4. CASE ~flag
    <3>1. reason' = "cancelled"
      BY <1>3, <2>4 DEF StreamCancelled, Interrupt, Noted
    <3> QED
      BY <1>1, <2>2, <2>4, <3>1 DEF Inv, Blamed, Says
  <2> QED
    BY <2>3, <2>4
<1> QED
  BY <1>2, <1>3

\* Rest follows a Stopped, or a wind-down that had nothing to say.
LEMMA QuietNext == Inv /\ [Next]_vars => Quiet'
<1> SUFFICES ASSUME Inv, [Next]_vars PROVE Quiet'
  OBVIOUS
<1>1. CASE IdleInput
  BY <1>1, IdleInputEffect DEF
     AtTop, Inv, Shape, Quiet, Wound, mailbox, tokenVars, history, loopVars
<1>2. CASE StreamFail
  BY <1>2, StreamFailQuiet
<1>3. ASSUME NEW retryable \in BOOLEAN,
              StreamRetry(retryable)
       PROVE  Quiet'
  BY <1>3 DEF
     StreamRetry, Answered, RetriesLeft, Inv, Shape, Quiet, Wound, AtTop,
     mailbox, tokenVars, history, loopVars
<1>4. ASSUME NEW finish \in {"completed", "failed", "tool_calls", "max_tokens"},
              StreamEnd(finish)
       PROVE  Quiet'
  BY <1>4 DEF
     StreamEnd, Answered, Noted, EndPass, Inv, Shape, Quiet, Wound, AtTop,
     mailbox, tokenVars, history, loopVars
<1>5. ASSUME NEW signal \in {"none", "warn", "break"},
              ToolsDone(signal)
       PROVE  Quiet'
  BY <1>5 DEF
     ToolsDone, AtTop, Noted, EndPass, Inv, Shape, Quiet, Wound, mailbox,
     tokenVars, history, loopVars
<1>6. CASE \/ IdleLeave \/ IdleSteer \/ CompactDone \/ CompactCancelled
           \/ MaxIterationsReached
  BY <1>6 DEF
     IdleLeave, AtTop, IdleSteer, CompactDone, EndPass, CompactCancelled,
     EmitStopped, MaxIterationsReached, Noted, Inv, Shape, Quiet, Wound,
     mailbox, tokenVars, history, loopVars
<1>7. CASE \/ BeginStream \/ AutoCompactCancelled \/ StreamCancelled
           \/ Overflow \/ Recovered
  BY <1>7 DEF
     BeginStream, AtTop, StartsTurn, AutoCompactCancelled, Interrupt, Noted,
     StreamCancelled, EndPass, Overflow, Answered, Recovered, Inv, Shape,
     Quiet, Wound, mailbox, tokenVars, history, loopVars
<1>8. CASE \/ RecoveryFails \/ RecoveryCancelled \/ ToolsCancelled
           \/ WindDownNoTurn \/ WindDown
  BY <1>8 DEF
     RecoveryFails, Noted, EndPass, RecoveryCancelled, Interrupt,
     ToolsCancelled, AtTop, WindDownNoTurn, EmitStopped, WindDown, Inv,
     Shape, Quiet, Wound, mailbox, tokenVars, history, loopVars
<1>9. CASE HooksDone \/ Send \/ UserCancel \/ ShutdownMark \/ ShutdownCancel \/ ParentShutdown
  BY <1>9 DEF
     HooksDone, EmitStopped, EndPass, Send, UserCancel, ShutdownMark,
     ShutdownCancel, ParentShutdown, Inv, Shape, Quiet, Wound, AtTop, mailbox, tokenVars,
     history, loopVars
<1>10. CASE UNCHANGED vars
  BY <1>10 DEF
     vars, Inv, Shape, Quiet, Wound, AtTop, mailbox, tokenVars, history,
     loopVars
<1> QED
  BY <1>1, <1>2, <1>3, <1>4, <1>5, <1>6, <1>7, <1>8, <1>9, <1>10 DEF Next, Loop, Stream

\* Every way into the wind-down notes a reason.
LEMMA WoundNext == Inv /\ [Next]_vars => Wound'
<1> SUFFICES ASSUME Inv, [Next]_vars PROVE Wound'
  OBVIOUS
<1>1. CASE IdleInput
  BY <1>1, IdleInputEffect DEF
     AtTop, Inv, Shape, Quiet, Wound, Named, Working, None, mailbox,
     tokenVars, history, loopVars
<1>2. CASE WindDown
  BY <1>2, WindDownWound
<1>3. ASSUME NEW retryable \in BOOLEAN,
              StreamRetry(retryable)
       PROVE  Wound'
  BY <1>3 DEF
     StreamRetry, Answered, RetriesLeft, Inv, Shape, Quiet, Wound, Named,
     Working, AtTop, None, mailbox, tokenVars, history, loopVars
<1>4. ASSUME NEW finish \in {"completed", "failed", "tool_calls", "max_tokens"},
              StreamEnd(finish)
       PROVE  Wound'
  BY <1>4 DEF
     StreamEnd, Answered, Noted, EndPass, Inv, Shape, Quiet, Wound, Named,
     Working, AtTop, None, mailbox, tokenVars, history, loopVars
<1>5. ASSUME NEW signal \in {"none", "warn", "break"},
              ToolsDone(signal)
       PROVE  Wound'
  BY <1>5 DEF
     ToolsDone, AtTop, Noted, EndPass, Inv, Shape, Quiet, Wound, Named,
     Working, None, mailbox, tokenVars, history, loopVars
<1>6. CASE \/ IdleLeave \/ IdleSteer \/ CompactDone \/ CompactCancelled
           \/ MaxIterationsReached
  BY <1>6 DEF
     IdleLeave, AtTop, IdleSteer, CompactDone, EndPass, CompactCancelled,
     EmitStopped, MaxIterationsReached, Noted, Inv, Shape, Quiet, Wound,
     Named, Working, None, mailbox, tokenVars, history, loopVars
<1>7. CASE \/ BeginStream \/ AutoCompactCancelled \/ StreamCancelled
           \/ StreamFail \/ Overflow
  BY <1>7 DEF
     BeginStream, AtTop, StartsTurn, AutoCompactCancelled, Interrupt, Noted,
     StreamCancelled, EndPass, StreamFail, AfterError, Overflow, Answered,
     Inv, Shape, Quiet, Wound, Named, Working, None, mailbox, tokenVars,
     history, loopVars
<1>8. CASE \/ Recovered \/ RecoveryFails \/ RecoveryCancelled
           \/ ToolsCancelled \/ WindDownNoTurn
  BY <1>8 DEF
     Recovered, RecoveryFails, Noted, EndPass, RecoveryCancelled, Interrupt,
     ToolsCancelled, AtTop, WindDownNoTurn, EmitStopped, Inv, Shape, Quiet,
     Wound, Named, Working, None, mailbox, tokenVars, history, loopVars
<1>9. CASE HooksDone \/ Send \/ UserCancel \/ ShutdownMark \/ ShutdownCancel \/ ParentShutdown
  BY <1>9 DEF
     HooksDone, EmitStopped, EndPass, Send, UserCancel, ShutdownMark,
     ShutdownCancel, ParentShutdown, Inv, Shape, Quiet, Wound, Named, Working, AtTop, None,
     mailbox, tokenVars, history, loopVars
<1>10. CASE UNCHANGED vars
  BY <1>10 DEF
     vars, Inv, Shape, Quiet, Wound, Named, Working, AtTop, None, mailbox,
     tokenVars, history, loopVars
<1> QED
  BY <1>1, <1>2, <1>3, <1>4, <1>5, <1>6, <1>7, <1>8, <1>9, <1>10 DEF Next, Loop, Stream

\* Every interruption ends the work.
LEMMA NamedNext == Inv /\ [Next]_vars => Named'
<1> SUFFICES ASSUME Inv, [Next]_vars PROVE Named'
  OBVIOUS
<1>1. CASE IdleInput
  BY <1>1, IdleInputEffect DEF
     AtTop, Inv, Shape, Quiet, Named, Working, None, mailbox, tokenVars,
     history, loopVars
<1>2. CASE StreamFail
  BY <1>2 DEF
     StreamFail, Noted, EndPass, AfterError, Inv, Shape, Quiet, Named,
     Working, AtTop, None, mailbox, tokenVars, history, loopVars
<1>3. ASSUME NEW retryable \in BOOLEAN,
              StreamRetry(retryable)
       PROVE  Named'
  BY <1>3 DEF
     StreamRetry, Answered, RetriesLeft, Inv, Shape, Quiet, Named, Working,
     AtTop, None, mailbox, tokenVars, history, loopVars
<1>4. ASSUME NEW finish \in {"completed", "failed", "tool_calls", "max_tokens"},
              StreamEnd(finish)
       PROVE  Named'
  BY <1>4 DEF
     StreamEnd, Answered, Noted, EndPass, Inv, Shape, Quiet, Named, Working,
     AtTop, None, mailbox, tokenVars, history, loopVars
<1>5. ASSUME NEW signal \in {"none", "warn", "break"},
              ToolsDone(signal)
       PROVE  Named'
  BY <1>5 DEF
     ToolsDone, AtTop, Noted, EndPass, Inv, Shape, Quiet, Named, Working,
     None, mailbox, tokenVars, history, loopVars
<1>6. CASE \/ IdleLeave \/ IdleSteer \/ CompactDone \/ CompactCancelled
           \/ MaxIterationsReached
  BY <1>6 DEF
     IdleLeave, AtTop, IdleSteer, CompactDone, EndPass, CompactCancelled,
     EmitStopped, MaxIterationsReached, Noted, Inv, Shape, Quiet, Named,
     Working, None, mailbox, tokenVars, history, loopVars
<1>7. CASE \/ BeginStream \/ AutoCompactCancelled \/ StreamCancelled
           \/ Overflow \/ Recovered
  BY <1>7 DEF
     BeginStream, AtTop, StartsTurn, AutoCompactCancelled, Interrupt, Noted,
     StreamCancelled, EndPass, Overflow, Answered, Recovered, Inv, Shape,
     Quiet, Named, Working, None, mailbox, tokenVars, history, loopVars
<1>8. CASE \/ RecoveryFails \/ RecoveryCancelled \/ ToolsCancelled
           \/ WindDownNoTurn \/ WindDown
  BY <1>8 DEF
     RecoveryFails, Noted, EndPass, RecoveryCancelled, Interrupt,
     ToolsCancelled, AtTop, WindDownNoTurn, EmitStopped, WindDown, Inv,
     Shape, Quiet, Named, Working, None, mailbox, tokenVars, history,
     loopVars
<1>9. CASE HooksDone \/ Send \/ UserCancel \/ ShutdownMark \/ ShutdownCancel \/ ParentShutdown
  BY <1>9 DEF
     HooksDone, EmitStopped, EndPass, Send, UserCancel, ShutdownMark,
     ShutdownCancel, ParentShutdown, Inv, Shape, Quiet, Named, Working, AtTop, None, mailbox,
     tokenVars, history, loopVars
<1>10. CASE UNCHANGED vars
  BY <1>10 DEF
     vars, Inv, Shape, Quiet, Named, Working, AtTop, None, mailbox,
     tokenVars, history, loopVars
<1> QED
  BY <1>1, <1>2, <1>3, <1>4, <1>5, <1>6, <1>7, <1>8, <1>9, <1>10 DEF Next, Loop, Stream

\* A reason names a canceller only where Marked knows him to have cancelled.
LEMMA BlamedNext == Inv /\ [Next]_vars => Blamed'
<1> SUFFICES ASSUME Inv, [Next]_vars PROVE Blamed'
  OBVIOUS
<1>1. CASE StreamCancelled
  BY <1>1, StreamCancelledBlamed
<1>2. CASE RecoveryCancelled
  BY <1>2 DEF
     RecoveryCancelled, Interrupt, Noted, EndPass, Inv, TypeOK, LoopOK,
     TokenOK, HistoryOK, Shape, Quiet, Wound, Blamed, Says, Marked, Acted,
     Reasons, AtTop, None, mailbox, tokenVars, history, loopVars
<1>3. CASE AutoCompactCancelled
  BY <1>3 DEF
     AutoCompactCancelled, Interrupt, Noted, Inv, TypeOK, LoopOK, TokenOK,
     HistoryOK, Shape, Quiet, Wound, Blamed, Says, Marked, Acted, Reasons,
     AtTop, None, mailbox, tokenVars, history, loopVars
<1>4. CASE ToolsCancelled
  BY <1>4 DEF
     ToolsCancelled, AtTop, Interrupt, Noted, EndPass, Inv, TypeOK, LoopOK,
     TokenOK, HistoryOK, Shape, Quiet, Wound, Blamed, Says, Marked, Acted,
     Reasons, None, mailbox, tokenVars, history, loopVars
<1>5. CASE CompactCancelled
  BY <1>5 DEF
     CompactCancelled, EndPass, EmitStopped, Inv, TypeOK, LoopOK, TokenOK,
     HistoryOK, Shape, Quiet, Wound, Blamed, Says, Marked, Acted, Reasons,
     AtTop, None, mailbox, tokenVars, history, loopVars
<1>6. CASE HooksDone
  BY <1>6 DEF
     HooksDone, EmitStopped, EndPass, Inv, TypeOK, LoopOK, TokenOK,
     HistoryOK, Shape, Quiet, Wound, Blamed, Says, Marked, Acted, Reasons,
     AtTop, None, mailbox, tokenVars, history, loopVars
<1>7. CASE WindDown
  BY <1>7 DEF
     WindDown, AtTop, Inv, TypeOK, LoopOK, TokenOK, HistoryOK, Shape, Quiet,
     Wound, Blamed, Says, Marked, Acted, Reasons, None, mailbox, tokenVars,
     history, loopVars
<1>8. ASSUME NEW retryable \in BOOLEAN,
              StreamRetry(retryable)
       PROVE  Blamed'
  BY <1>8 DEF
     StreamRetry, Answered, RetriesLeft, Inv, TypeOK, LoopOK, TokenOK,
     HistoryOK, Shape, Quiet, Wound, Blamed, Says, Marked, Acted, Reasons,
     AtTop, None, mailbox, tokenVars, history, loopVars
<1>9. ASSUME NEW finish \in {"completed", "failed", "tool_calls", "max_tokens"},
              StreamEnd(finish)
       PROVE  Blamed'
  BY <1>9 DEF
     StreamEnd, Answered, Noted, EndPass, Inv, TypeOK, LoopOK, TokenOK,
     HistoryOK, Shape, Quiet, Wound, Blamed, Says, Marked, Acted, Reasons,
     AtTop, None, mailbox, tokenVars, history, loopVars
<1>10. ASSUME NEW signal \in {"none", "warn", "break"},
              ToolsDone(signal)
       PROVE  Blamed'
  BY <1>10 DEF
     ToolsDone, AtTop, Noted, EndPass, Inv, TypeOK, LoopOK, TokenOK,
     HistoryOK, Shape, Quiet, Wound, Blamed, Says, Marked, Acted, Reasons,
     None, mailbox, tokenVars, history, loopVars
<1>11. CASE \/ IdleLeave \/ IdleSteer \/ IdleInput \/ CompactDone
            \/ MaxIterationsReached
  BY <1>11, IdleInputEffect DEF
     IdleLeave, AtTop, IdleSteer, CompactDone, EndPass, MaxIterationsReached,
     Noted, Inv, TypeOK, LoopOK, TokenOK, HistoryOK, Shape, Quiet, Wound,
     Blamed, Says, Marked, Acted, Reasons, None, mailbox, tokenVars, history,
     loopVars
<1>12. CASE \/ BeginStream \/ StreamFail \/ Overflow \/ Recovered
            \/ RecoveryFails
  BY <1>12 DEF
     BeginStream, AtTop, StartsTurn, StreamFail, Noted, EndPass, AfterError,
     Overflow, Answered, Recovered, RecoveryFails, Inv, TypeOK, LoopOK,
     TokenOK, HistoryOK, Shape, Quiet, Wound, Blamed, Says, Marked, Acted,
     Reasons, None, mailbox, tokenVars, history, loopVars
<1>13. CASE \/ WindDownNoTurn \/ Send \/ UserCancel \/ ShutdownMark
            \/ ShutdownCancel \/ ParentShutdown
  BY <1>13 DEF
     WindDownNoTurn, AtTop, EmitStopped, EndPass, Send, UserCancel,
     ShutdownMark, ShutdownCancel, ParentShutdown, Inv, TypeOK, LoopOK, TokenOK, HistoryOK,
     Shape, Quiet, Wound, Blamed, Says, Marked, Acted, Reasons, None,
     mailbox, tokenVars, history, loopVars
<1>14. CASE UNCHANGED vars
  BY <1>14 DEF
     vars, Inv, TypeOK, LoopOK, TokenOK, HistoryOK, Shape, Quiet, Wound,
     Blamed, Says, Marked, Acted, Reasons, AtTop, None, mailbox, tokenVars,
     history, loopVars
<1> QED
  BY <1>1, <1>2, <1>3, <1>4, <1>5, <1>6, <1>7, <1>8, <1>9, <1>10, <1>11, <1>12, <1>13, <1>14
     DEF Next, Loop, Stream

\* The mark outlives everything but an interruption.
LEMMA MarkedNext == Inv /\ [Next]_vars => Marked'
<1> SUFFICES ASSUME Inv, [Next]_vars PROVE Marked'
  OBVIOUS
<1>1. CASE IdleInput
  BY <1>1, IdleInputEffect DEF
     AtTop, Inv, TypeOK, LoopOK, TokenOK, Shape, Marked, Acted, mailbox,
     tokenVars, history, loopVars
<1>2. ASSUME NEW retryable \in BOOLEAN,
              StreamRetry(retryable)
       PROVE  Marked'
  BY <1>2 DEF
     StreamRetry, Answered, RetriesLeft, Inv, TypeOK, LoopOK, TokenOK, Shape,
     Marked, Acted, AtTop, mailbox, tokenVars, history, loopVars
<1>3. ASSUME NEW finish \in {"completed", "failed", "tool_calls", "max_tokens"},
              StreamEnd(finish)
       PROVE  Marked'
  BY <1>3 DEF
     StreamEnd, Answered, Noted, EndPass, Inv, TypeOK, LoopOK, TokenOK,
     Shape, Marked, Acted, AtTop, mailbox, tokenVars, history, loopVars
<1>4. ASSUME NEW signal \in {"none", "warn", "break"},
              ToolsDone(signal)
       PROVE  Marked'
  BY <1>4 DEF
     ToolsDone, AtTop, Noted, EndPass, Inv, TypeOK, LoopOK, TokenOK, Shape,
     Marked, Acted, mailbox, tokenVars, history, loopVars
<1>5. CASE \/ IdleLeave \/ IdleSteer \/ CompactDone \/ CompactCancelled
           \/ MaxIterationsReached
  BY <1>5 DEF
     IdleLeave, AtTop, IdleSteer, CompactDone, EndPass, CompactCancelled,
     EmitStopped, MaxIterationsReached, Noted, Inv, TypeOK, LoopOK, TokenOK,
     Shape, Marked, Acted, mailbox, tokenVars, history, loopVars
<1>6. CASE \/ BeginStream \/ AutoCompactCancelled \/ StreamCancelled
           \/ StreamFail \/ Overflow
  BY <1>6 DEF
     BeginStream, AtTop, StartsTurn, AutoCompactCancelled, Interrupt, Noted,
     StreamCancelled, EndPass, StreamFail, AfterError, Overflow, Answered,
     Inv, TypeOK, LoopOK, TokenOK, Shape, Marked, Acted, mailbox, tokenVars,
     history, loopVars
<1>7. CASE \/ Recovered \/ RecoveryFails \/ RecoveryCancelled
           \/ ToolsCancelled \/ WindDownNoTurn
  BY <1>7 DEF
     Recovered, RecoveryFails, Noted, EndPass, RecoveryCancelled, Interrupt,
     ToolsCancelled, AtTop, WindDownNoTurn, EmitStopped, Inv, TypeOK, LoopOK,
     TokenOK, Shape, Marked, Acted, mailbox, tokenVars, history, loopVars
<1>8. CASE WindDown \/ HooksDone \/ Send \/ UserCancel \/ ShutdownMark
  BY <1>8 DEF
     WindDown, AtTop, HooksDone, EmitStopped, EndPass, Send, UserCancel,
     ShutdownMark, Inv, TypeOK, LoopOK, TokenOK, Shape, Marked, Acted,
     mailbox, tokenVars, history, loopVars
<1>9. CASE ShutdownCancel \/ ParentShutdown
  BY <1>9 DEF
     ShutdownCancel, ParentShutdown, Inv, TypeOK, LoopOK, TokenOK, Shape, Marked, Acted,
     AtTop, mailbox, tokenVars, history, loopVars
<1>10. CASE UNCHANGED vars
  BY <1>10 DEF
     vars, Inv, TypeOK, LoopOK, TokenOK, Shape, Marked, Acted, AtTop,
     mailbox, tokenVars, history, loopVars
<1> QED
  BY <1>1, <1>2, <1>3, <1>4, <1>5, <1>6, <1>7, <1>8, <1>9, <1>10 DEF Next, Loop, Stream

\* A round and the tool batch after it cost a pass each.
LEMMA CountedNext == Inv /\ [Next]_vars => Counted'
<1> SUFFICES ASSUME Inv, [Next]_vars PROVE Counted'
  OBVIOUS
<1>1. CASE IdleInput
  BY <1>1, IdleInputEffect, LoopAssumption DEF
     AtTop, Inv, TypeOK, LoopOK, HistoryOK, Shape, Counted, Extra, MaxedOut,
     mailbox, tokenVars, history, loopVars
<1>2. ASSUME NEW retryable \in BOOLEAN,
              StreamRetry(retryable)
       PROVE  Counted'
  BY <1>2, LoopAssumption DEF
     StreamRetry, Answered, RetriesLeft, Inv, TypeOK, LoopOK, HistoryOK,
     Shape, Counted, Extra, AtTop, MaxedOut, mailbox, tokenVars, history,
     loopVars
<1>3. ASSUME NEW finish \in {"completed", "failed", "tool_calls", "max_tokens"},
              StreamEnd(finish)
       PROVE  Counted'
  BY <1>3, LoopAssumption DEF
     StreamEnd, Answered, Noted, EndPass, Inv, TypeOK, LoopOK, HistoryOK,
     Shape, Counted, Extra, AtTop, MaxedOut, mailbox, tokenVars, history,
     loopVars
<1>4. ASSUME NEW signal \in {"none", "warn", "break"},
              ToolsDone(signal)
       PROVE  Counted'
  BY <1>4, LoopAssumption DEF
     ToolsDone, AtTop, Noted, EndPass, Inv, TypeOK, LoopOK, HistoryOK, Shape,
     Counted, Extra, MaxedOut, mailbox, tokenVars, history, loopVars
<1>5. CASE \/ IdleLeave \/ IdleSteer \/ CompactDone \/ CompactCancelled
           \/ MaxIterationsReached
  BY <1>5, LoopAssumption DEF
     IdleLeave, AtTop, IdleSteer, CompactDone, EndPass, CompactCancelled,
     EmitStopped, MaxIterationsReached, Noted, Inv, TypeOK, LoopOK,
     HistoryOK, Shape, Counted, Extra, MaxedOut, mailbox, tokenVars, history,
     loopVars
<1>6. CASE \/ BeginStream \/ AutoCompactCancelled \/ StreamCancelled
           \/ StreamFail \/ Overflow
  BY <1>6, LoopAssumption DEF
     BeginStream, AtTop, StartsTurn, AutoCompactCancelled, Interrupt, Noted,
     StreamCancelled, EndPass, StreamFail, AfterError, Overflow, Answered,
     Inv, TypeOK, LoopOK, HistoryOK, Shape, Counted, Extra, MaxedOut,
     mailbox, tokenVars, history, loopVars
<1>7. CASE \/ Recovered \/ RecoveryFails \/ RecoveryCancelled
           \/ ToolsCancelled \/ WindDownNoTurn
  BY <1>7, LoopAssumption DEF
     Recovered, RecoveryFails, Noted, EndPass, RecoveryCancelled, Interrupt,
     ToolsCancelled, AtTop, WindDownNoTurn, EmitStopped, Inv, TypeOK, LoopOK,
     HistoryOK, Shape, Counted, Extra, MaxedOut, mailbox, tokenVars, history,
     loopVars
<1>8. CASE WindDown \/ HooksDone \/ Send \/ UserCancel \/ ShutdownMark
  BY <1>8, LoopAssumption DEF
     WindDown, AtTop, HooksDone, EmitStopped, EndPass, Send, UserCancel,
     ShutdownMark, Inv, TypeOK, LoopOK, HistoryOK, Shape, Counted, Extra,
     MaxedOut, mailbox, tokenVars, history, loopVars
<1>9. CASE ShutdownCancel \/ ParentShutdown
  BY <1>9, LoopAssumption DEF
     ShutdownCancel, ParentShutdown, Inv, TypeOK, LoopOK, HistoryOK, Shape, Counted, Extra,
     AtTop, MaxedOut, mailbox, tokenVars, history, loopVars
<1>10. CASE UNCHANGED vars
  BY <1>10, LoopAssumption DEF
     vars, Inv, TypeOK, LoopOK, HistoryOK, Shape, Counted, Extra, AtTop,
     MaxedOut, mailbox, tokenVars, history, loopVars
<1> QED
  BY <1>1, <1>2, <1>3, <1>4, <1>5, <1>6, <1>7, <1>8, <1>9, <1>10 DEF Next, Loop, Stream
\* Every step keeps the invariant.
LEMMA InvNext == Inv /\ [Next]_vars => Inv'
<1> SUFFICES ASSUME Inv, [Next]_vars PROVE Inv'
  OBVIOUS
<1>1. LoopOK /\ MailboxOK /\ TokenOK /\ HistoryOK /\ Shape
  BY DEF Inv, TypeOK
<1>2. TypeOK'
  BY <1>1, LoopTypes, MailboxTypes, TokenTypes, HistoryTypes DEF TypeOK
<1>3. Shape' /\ Quiet' /\ Wound' /\ Named'
  BY <1>1, ShapeNext, QuietNext, WoundNext, NamedNext
<1>4. Blamed' /\ Marked' /\ Counted'
  BY BlamedNext, MarkedNext, CountedNext
<1> QED
  BY <1>2, <1>3, <1>4 DEF Inv

\* So it always holds.
LEMMA InvAlways == Spec => []Inv
  BY InitInv, InvNext, PTL DEF Spec

-----------------------------------------------------------------------------
(***************************************************************************)
(* The theorems.                                                           *)
(***************************************************************************)

\* The loop's fields stay within their types, whatever the limits.
THEOREM TypeCorrect == Spec => []TypeOK
<1>1. Inv => TypeOK
  BY DEF Inv
<1> QED
  BY <1>1, InvAlways, PTL

\* An agent at rest owes nobody anything: no turn is open, no reason is left
\* over, and every Running was answered.
THEOREM QuietAtRest == Spec => []RestIsQuiet
<1>1. Inv => RestIsQuiet
  BY DEF Inv, Quiet, RestIsQuiet
<1> QED
  BY <1>1, InvAlways, PTL

\* A turn blames the user or the kernel only for what they have done, and an
\* interruption that was acted upon is what it ends with.
THEOREM BlamesRightly == Spec => []RightlyBlamed
<1>1. Inv => RightlyBlamed
  BY DEF Inv, Blamed, Says, Named, RightlyBlamed
<1> QED
  BY <1>1, InvAlways, PTL

\* max_iterations bounds the rounds of the model in one run.
THEOREM BoundsRounds == Spec => []RoundsBounded
<1>1. Inv => RoundsBounded
  <2> SUFFICES ASSUME Inv, MaxIterations > 0
               PROVE  rounds <= 1 + MaxIterations \div 2
    BY DEF RoundsBounded
  <2>1. rounds \in Nat /\ 2 * rounds <= MaxIterations + 2
    BY DEF Inv, TypeOK, HistoryOK, Counted
  <2> QED
    BY <2>1, LoopAssumption
<1> QED
  BY <1>1, InvAlways, PTL

-----------------------------------------------------------------------------
(***************************************************************************)
(* The contract of a turn.                                                 *)
(***************************************************************************)
\* Every step of the loop is a step of the contract, or none.
LEMMA StepImplements ==
  Inv /\ [Next]_vars => [Contract!Next]_<<turn, turns, heard>>
<1> SUFFICES ASSUME Inv, [Next]_vars
             PROVE  Contract!Next \/ UNCHANGED <<turn, turns, heard>>
  OBVIOUS
<1>1. CASE BeginStream
  <2>1. CASE StartsTurn
    <3>1. ~turn /\ heard[1] # "turn_end"
      BY <1>1, <2>1 DEF BeginStream, StartsTurn, AtTop, Inv, Wound
    <3>2. turn' = TRUE /\ turns' = turns + 1 /\ heard' = <<"turn_start">>
      BY <1>1, <2>1 DEF BeginStream
    <3>3. Contract!TurnStart
      BY <3>1, <3>2 DEF Contract!TurnStart, Contract!Owing
    <3> QED
      BY <3>3 DEF Contract!Next
  <2>2. CASE ~StartsTurn
    BY <1>1, <2>2 DEF BeginStream
  <2> QED
    BY <2>1, <2>2
<1>2. CASE CompactCancelled
  <2>1. ~turn /\ heard[1] # "turn_end"
    BY <1>2 DEF CompactCancelled, Inv, Quiet, Wound
  <2>2. PICK r \in Reasons : r = (IF flag THEN "shutdown" ELSE "cancelled")
    BY DEF Reasons
  <2>3. heard' = <<"stopped", r>> /\ UNCHANGED <<turn, turns>>
    BY <1>2, <2>2 DEF CompactCancelled, EmitStopped
  <2>4. Contract!Stopped(r)
    BY <2>1, <2>3 DEF Contract!Stopped, Contract!Owing
  <2> QED
    BY <2>4 DEF Contract!Next
<1>3. CASE WindDownNoTurn
  <2>1. ~turn /\ heard[1] # "turn_end" /\ reason \in Reasons
    BY <1>3 DEF WindDownNoTurn, AtTop, Inv, Wound, TypeOK, LoopOK
  <2>2. heard' = <<"stopped", reason>> /\ UNCHANGED <<turn, turns>>
    BY <1>3, <2>1 DEF WindDownNoTurn, EmitStopped, Reasons, None
  <2>3. Contract!Stopped(reason)
    BY <2>1, <2>2 DEF Contract!Stopped, Contract!Owing
  <2> QED
    BY <2>1, <2>3 DEF Contract!Next
<1>4. CASE WindDown
  <2>1. turn /\ reason # None /\ reason \in Reasons
    BY <1>4 DEF WindDown, Inv, Wound, TypeOK, LoopOK
  <2>2. heard' = <<"turn_end", reason>> /\ turn' = FALSE /\ turns' = turns
    BY <1>4, <2>1 DEF WindDown
  <2>3. Contract!TurnEnd(reason)
    BY <2>1, <2>2 DEF Contract!TurnEnd
  <2> QED
    BY <2>1, <2>3 DEF Contract!Next
<1>5. CASE HooksDone
  <2>1. ~turn
    BY <1>5 DEF HooksDone, Inv, Wound
  <2>2. PICK r \in Reasons : r = heard[2]
    BY <1>5, Pairs DEF HooksDone, Inv, Wound
  <2>3. heard' = <<"stopped", r>> /\ UNCHANGED <<turn, turns>>
    BY <1>5, <2>2 DEF HooksDone, EmitStopped
  <2>4. Contract!Stopped(r)
    BY <2>1, <2>2, <2>3 DEF Contract!Stopped
  <2> QED
    BY <2>4 DEF Contract!Next
<1>6. CASE \/ IdleLeave \/ IdleSteer \/ CompactDone \/ ToolsCancelled \/ Send
           \/ UserCancel \/ ShutdownMark \/ ShutdownCancel \/ ParentShutdown \/ UNCHANGED vars
  BY <1>6 DEF
     IdleLeave, IdleSteer, CompactDone, ToolsCancelled, Send, UserCancel,
     ShutdownMark, ShutdownCancel, ParentShutdown, vars, loopVars, history
<1>7. CASE IdleInput
  BY <1>7, IdleInputEffect
<1>8. CASE \/ MaxIterationsReached \/ AutoCompactCancelled \/ StreamCancelled
           \/ StreamFail \/ Overflow
  BY <1>8 DEF
     MaxIterationsReached, AutoCompactCancelled, StreamCancelled, StreamFail,
     Overflow, history
<1>9. CASE Recovered \/ RecoveryFails \/ RecoveryCancelled
  BY <1>9 DEF Recovered, RecoveryFails, RecoveryCancelled, history
<1>10. ASSUME NEW retryable \in BOOLEAN, StreamRetry(retryable)
       PROVE  UNCHANGED <<turn, turns, heard>>
  BY <1>10 DEF StreamRetry, history
<1>11. ASSUME NEW finish \in {"completed", "failed", "tool_calls", "max_tokens"},
              StreamEnd(finish)
       PROVE  UNCHANGED <<turn, turns, heard>>
  BY <1>11 DEF StreamEnd, history
<1>12. ASSUME NEW signal \in {"none", "warn", "break"}, ToolsDone(signal)
       PROVE  UNCHANGED <<turn, turns, heard>>
  BY <1>12 DEF ToolsDone, history
<1> QED
  BY <1>1, <1>2, <1>3, <1>4, <1>5, <1>6, <1>7, <1>8, <1>9, <1>10, <1>11, <1>12
     DEF Next, Loop, Stream

\* What is sent out about a turn comes in the order TurnContract demands.
THEOREM ImplementsContract == Spec => ContractSpec
<1>1. Init => Contract!Init
  BY DEF Init, Contract!Init
<1> QED
  BY <1>1, StepImplements, InvAlways, PTL DEF Spec, ContractSpec, Contract!Spec

=============================================================================
