------------------------------ MODULE Subagent ------------------------------
(***************************************************************************)
(* A session delegates a task to child sessions: tools/subagent.rs, the    *)
(* follow-ups of tools/post_message.rs, the claims, the child tokens and   *)
(* the orphan forwarding of kernel/conductor.rs, with the permission       *)
(* prompts of module Permission, which reach the terminal through the task *)
(* that waits for the child.                                               *)
(*                                                                         *)
(* Who tells the parent the result of a run?  The task that waits, for the *)
(* first run to stop; the conductor for the later ones.  A claim on the    *)
(* child tells the conductor to leave the next Stopped to that task.       *)
(*                                                                         *)
(* A child's assistant messages and its Stopped events are on one stream,  *)
(* in order.  The conductor reads it at its own pace and stores every      *)
(* message; its queue of writes (module KeyedPool), which it drains at a   *)
(* Stopped, is part of that pace.  The task that waits listens from before *)
(* the first run; of the messages it only keeps the last text, and its     *)
(* queue here holds Stopped events and prompts.                            *)
(*                                                                         *)
(* Agents are as in module Conductor, with their exit and the sweep of     *)
(* their map entry in one step.  Publishing a steer does not fail here,    *)
(* and a child's history is not compacted or rewound.                      *)
(***************************************************************************)
EXTENDS Permission, SequencesExt

CONSTANTS
  MaxRuns,  \* bound: runs of a child
  MaxPosts, \* bound: follow-ups to a child
  MaxTurns, \* bound: agents of the parent
  MaxLog    \* bound: a child adds no message once its stream has that many

ASSUME SubagentAssumption ==
  /\ MaxRuns \in Nat
  /\ MaxPosts \in Nat
  /\ MaxTurns \in Nat
  /\ MaxLog \in Nat

Child == Session \ {Root}
Run == 1..MaxRuns

VARIABLES
  stopped,   \* the token of the parent's agent is cancelled
  turns,     \* agents the parent has had
  waiter,    \* [Child -> ...]: the call of the subagent tool for a child
  mode,      \* [Child -> {"sync", "async"}]: wait_for_completion
  tied,      \* SUBSET Child: the call has the token of the agent in the map
  struck,    \* SUBSET Child: that token was cancelled while the call waited
  claims,    \* subagent_claims
  mail,      \* SUBSET Child: children with a steer in their mailbox
  posts,     \* [Child -> Nat]: follow-ups sent
  busy,      \* SUBSET Child: children in a run
  runs,      \* [Child -> Nat]: runs begun
  bound,     \* SUBSET Child: their token derives from the agent in the map
  token,     \* SUBSET Child: the token of their agent is cancelled
  log,       \* [Child -> Seq]: the stream, assistant messages and Stopped events
  seen,      \* [Child -> Nat]: how much of it the conductor has taken in
  last,      \* [Child -> Nat]: the last assistant message in the store, or 0
  relays,    \* spawned forward_orphan_reply tasks: <<child, run>>
  ends,      \* [Child -> [Run -> ...]]: how a run ended
  told,      \* <<child, message>>: texts the parent was sent
  again,     \* history: texts it was sent more than once
  excused,   \* history: runs whose Stopped was in the queue of a call that was
             \* cancelled when the conductor had already left it to that call
  swallowed, \* history: runs whose Stopped met a claim nobody waited under
  mixed,     \* history: runs for which a message of another run was found in
             \* the store, and those whose text was sent for another
  adrift     \* history: children whose agent was built while the parent's
             \* agent that launched them was no longer in the map

parent == <<stopped, turns>>
calls == <<waiter, mode, tied, struck, claims>>
agents == <<mail, posts, busy, runs, bound, token>>
reports == <<log, seen, last, relays, ends, told>>
history == <<again, excused, swallowed, mixed, adrift>>
vars == <<permission, parent, calls, agents, reports, history>>

Init ==
  /\ PermissionInit
  /\ stopped = FALSE
  /\ turns = 1
  /\ waiter = [c \in Child |-> "none"]
  /\ mode = [c \in Child |-> "sync"]
  /\ tied = {}
  /\ struck = {}
  /\ claims = {}
  /\ mail = {}
  /\ posts = [c \in Child |-> 0]
  /\ busy = {}
  /\ runs = [c \in Child |-> 0]
  /\ bound = {}
  /\ token = {}
  /\ log = [c \in Child |-> <<>>]
  /\ seen = [c \in Child |-> 0]
  /\ last = [c \in Child |-> 0]
  /\ relays = {}
  /\ ends = [c \in Child |-> [k \in Run |-> "none"]]
  /\ told = {}
  /\ again = {}
  /\ excused = {}
  /\ swallowed = {}
  /\ mixed = {}
  /\ adrift = {}

Stopped(k) == [kind |-> "stopped", run |-> k]
Added(k, t) == [kind |-> "added", run |-> k, text |-> t]  \* with a text, or none
Calling(c) == waiter[c] \in {"starting", "waiting"}

\* MUTANT of AtRest: a run may be over before its permission check is.
AtRestAlways(s) == TRUE

\* The agent's loop is not in a check: it awaits the checks of a batch.
AtRest(s) == ask[s] = None

\* The parent's agent is in a run that may call tools: a synchronous call
\* keeps it from calling more.
Free ==
  /\ place[Root] = "in" /\ ~stopped /\ ask[Root] = None
  /\ ~\E c \in Child : mode[c] = "sync" /\ Calling(c)

-----------------------------------------------------------------------------
(***************************************************************************)
(* The subagent tool, in the parent's agent or in a task of its own.       *)
(***************************************************************************)
Launch(c, m) ==
  /\ Free
  /\ waiter[c] = "none"
  /\ waiter' = [waiter EXCEPT ![c] = "starting"]
  /\ mode' = [mode EXCEPT ![c] = m]
  /\ tied' = tied \cup {c}
  /\ Create(c)
  /\ UNCHANGED <<parent, struck, claims, agents, reports, history>>

Claims(c) == claims \cup {c}

\* run_subagent: claim, subscribe, send the task.
Begin(c) ==
  /\ waiter[c] = "starting"
  /\ c \notin struck
  /\ waiter' = [waiter EXCEPT ![c] = "waiting"]
  /\ claims' = Claims(c)
  /\ Listen(c)
  /\ mail' = mail \cup {c}
  /\ UNCHANGED <<parent, mode, tied, struck, posts, busy, runs, bound, token, reports, history>>

Speaks(e) == e.kind = "added" /\ e.text

\* The parent is sent message m for run k, if it has a text; m = 0: none.
Tell(c, k, m) ==
  LET texts == IF m # 0 /\ Speaks(log[c][m]) THEN {<<c, m>>} ELSE {}
      mix == {<<c, k>>} \cup {<<c, log[c][n[2]].run>> : n \in texts}
  IN /\ told' = told \cup texts
     /\ again' = again \cup (told \cap texts)
     /\ mixed' = IF m = 0 \/ log[c][m].run = k THEN mixed ELSE mixed \cup mix

\* last_answer: the last text heard, of run k, the first that stops; where it
\* has none, the last message in the store.
TellHeard(c, k) ==
  LET texts == {i \in DOMAIN log[c] : Speaks(log[c][i]) /\ log[c][i].run = k} IN
    \/ \E m \in texts : (\A i \in texts : i <= m) /\ Tell(c, k, m)
    \/ texts = {} /\ Tell(c, k, last[c])

\* The first Stopped ends the wait; an asynchronous call looks for its
\* cancellation first.
Finish(c) ==
  /\ waiter[c] = "waiting"
  /\ mode[c] = "async" => c \notin struck
  /\ heard[c] # <<>>
  /\ Head(heard[c]).kind = "stopped"
  /\ TellHeard(c, Head(heard[c]).run)
  /\ waiter' = [waiter EXCEPT ![c] = "over"]
  /\ Unlisten(c)
  /\ UNCHANGED <<parent, mode, tied, struck, claims, agents, log, seen, last, relays,
                 ends, excused, swallowed, adrift>>

\* MUTANT of Withdrawn: the claim stays, as it does for a synchronous call.
WithdrawnNever(c) == claims

\* The claim of an asynchronous call is taken back; a synchronous one is
\* aborted with the tool batch, and leaves its claim to the child's Stopped.
Withdrawn(c) == IF mode[c] = "async" THEN claims \ {c} ELSE claims

\* The parent is stopped: it is told that the task was cancelled.
GiveUp(c) ==
  /\ Calling(c)
  /\ c \in struck
  /\ waiter' = [waiter EXCEPT ![c] = "over"]
  /\ claims' = Withdrawn(c)
  /\ excused' = excused \cup {<<c, k>> : k \in {j \in Run :
       c \notin claims /\ \E i \in DOMAIN heard[c] : heard[c][i] = Stopped(j)}}
  /\ Unlisten(c)
  /\ UNCHANGED <<parent, mode, tied, struck, agents, reports, again, swallowed, mixed,
                 adrift>>

\* post_message: a steer for a child launched in an earlier round, whose task
\* has been sent by now.
Post(c) ==
  /\ Free
  /\ waiter[c] \in {"waiting", "over"}
  /\ posts[c] < MaxPosts
  /\ posts' = [posts EXCEPT ![c] = @ + 1]
  /\ mail' = mail \cup {c}
  /\ UNCHANGED <<permission, parent, calls, busy, runs, bound, token, reports, history>>

-----------------------------------------------------------------------------
(***************************************************************************)
(* The parent's agent: asked to stop, gone, back.                          *)
(***************************************************************************)

\* A Cancel input cancels its token, and with it that of every child bound to
\* it and that of every call it has under way ...
StopParent ==
  /\ place[Root] = "in"
  /\ ~stopped
  /\ stopped' = TRUE
  /\ token' = token \cup bound
  /\ struck' = struck \cup {c \in tied : Calling(c)}
  /\ UNCHANGED <<permission, turns, waiter, mode, tied, claims, mail, posts, busy, runs,
                 bound, reports, history>>

\* ... and takes the agent out of the map; or the agent leaves on its own, idle.
ParentLeaves ==
  /\ AtRest(Root)
  /\ ~\E c \in Child : mode[c] = "sync" /\ Calling(c)
  /\ Leave(Root)
  /\ bound' = {}
  /\ tied' = {}
  /\ UNCHANGED <<parent, waiter, mode, struck, claims, mail, posts, busy, runs, token,
                 reports, history>>

ParentPrepares ==
  /\ turns < MaxTurns
  /\ Prepare(Root)
  /\ turns' = turns + 1
  /\ UNCHANGED <<stopped, calls, agents, reports, history>>

ParentEnters ==
  /\ Enter(Root)
  /\ stopped' = FALSE
  /\ UNCHANGED <<turns, calls, agents, reports, history>>

-----------------------------------------------------------------------------
(***************************************************************************)
(* A child's agent.                                                        *)
(***************************************************************************)

\* MUTANT of Reached: a child's token stands alone.
ReachedNever == FALSE

\* The parent has an entry in the map, from whose token the child's derives.
Reached == place[Root] = "in"

\* A wake draws the token when it builds the agent.
ChildPrepares(c) ==
  /\ c \in mail
  /\ Prepare(c)
  /\ bound' = IF Reached THEN bound \cup {c} ELSE bound \ {c}
  /\ token' = IF Reached /\ stopped THEN token \cup {c} ELSE token \ {c}
  /\ adrift' = IF place[Root] = "in" /\ c \in tied THEN adrift ELSE adrift \cup {c}
  /\ UNCHANGED <<parent, calls, mail, posts, busy, runs, reports, again, excused,
                 swallowed, mixed>>

ChildEnters(c) ==
  /\ Enter(c)
  /\ UNCHANGED <<parent, calls, agents, reports, history>>

\* Idle, it takes all steers into a run; in a run, into its next round.
Pull(c) ==
  /\ place[c] = "in"
  /\ c \in mail
  /\ mail' = mail \ {c}
  /\ \/ /\ c \notin busy
        /\ c \notin token
        /\ runs[c] < MaxRuns
        /\ busy' = busy \cup {c}
        /\ runs' = [runs EXCEPT ![c] = @ + 1]
     \/ /\ c \in busy
        /\ UNCHANGED <<busy, runs>>
  /\ UNCHANGED <<permission, parent, calls, posts, bound, token, reports, history>>

\* It adds an assistant message, with or without a text: tool calls only.
Say(c, t) ==
  /\ c \in busy
  /\ AtRest(c)
  /\ Len(log[c]) < MaxLog
  /\ log' = [log EXCEPT ![c] = Append(@, Added(runs[c], t))]
  /\ UNCHANGED <<permission, parent, calls, agents, seen, last, relays, ends, told, history>>

\* A run stops, after whatever it has said.
EndRun(c, end) ==
  /\ c \in busy
  /\ AtRest(c)
  /\ c \notin token => end # "cancelled"
  /\ busy' = busy \ {c}
  /\ ends' = [ends EXCEPT ![c][runs[c]] = end]
  /\ log' = [log EXCEPT ![c] = Append(@, Stopped(runs[c]))]
  /\ Emit(c, Stopped(runs[c]))
  /\ UNCHANGED <<place, prompts, listening, levels, unheard, parent, calls, mail, posts,
                 runs, bound, token, seen, last, relays, told, history>>

\* Cancelled between runs, or before the first, it leaves without a Stopped
\* and with its mail; else it leaves after two idle minutes.
ChildLeaves(c) ==
  /\ c \notin busy
  /\ c \in token \/ c \notin mail
  /\ Leave(c)
  /\ bound' = bound \ {c}
  /\ UNCHANGED <<parent, calls, mail, posts, busy, runs, token, reports, history>>

-----------------------------------------------------------------------------
(***************************************************************************)
(* The conductor.                                                          *)
(***************************************************************************)

\* A message is stored, whatever run it is of and however that run ends ...
Store(c) ==
  /\ last' = [last EXCEPT ![c] = seen[c] + 1]
  /\ UNCHANGED <<claims, relays, swallowed>>

\* ... and at a Stopped the claim is consumed, or a task spawned to forward the
\* reply.
Stops(c, k) ==
  /\ \/ /\ c \in claims
        /\ claims' = claims \ {c}
        /\ swallowed' = IF waiter[c] = "over" THEN swallowed \cup {<<c, k>>} ELSE swallowed
        /\ UNCHANGED relays
     \/ /\ c \notin claims
        /\ relays' = relays \cup {<<c, k>>}
        /\ UNCHANGED <<claims, swallowed>>
  /\ UNCHANGED last

Observe(c) ==
  /\ seen[c] < Len(log[c])
  /\ seen' = [seen EXCEPT ![c] = @ + 1]
  /\ LET e == log[c][seen[c] + 1] IN
       \/ e.kind = "added" /\ Store(c)
       \/ e.kind = "stopped" /\ Stops(c, e.run)
  /\ UNCHANGED <<permission, parent, waiter, mode, tied, struck, agents, log, ends, told,
                 again, excused, mixed, adrift>>

Forwards(c, k) == ends[c][k] # "cancelled"

\* forward_orphan_reply looks at the last assistant message in the store,
\* whatever run it is of; if that has no text it gives up.
Forward(c, k) ==
  /\ <<c, k>> \in relays
  /\ relays' = relays \ {<<c, k>>}
  /\ IF Forwards(c, k) THEN Tell(c, k, last[c]) ELSE UNCHANGED <<told, again, mixed>>
  /\ UNCHANGED <<permission, parent, calls, agents, log, seen, last, ends, excused,
                 swallowed, adrift>>

-----------------------------------------------------------------------------
Ends == {"done", "cancelled"}  \* done: completed, failed, or cut off at a limit

MayCall(s) == IF s = Root THEN Free ELSE s \in busy
IsCancelled(s) == IF s = Root THEN stopped ELSE s \in token

Prompts ==
  /\ \/ Terminal \/ Update
     \/ \E s \in Session : Answered(s) \/ TimesOut(s)
     \/ \E s \in Session, r \in Req, l \in Level \ {0} : MayCall(s) /\ Request(s, r, l)
     \/ \E s \in Session : IsCancelled(s) /\ Cancelled(s)
     \/ \E c \in Child : Relay(c)
  /\ UNCHANGED <<parent, calls, agents, reports, history>>

ParentStep == StopParent \/ ParentLeaves \/ ParentPrepares \/ ParentEnters

ChildStep(c) ==
  \/ ChildPrepares(c) \/ ChildEnters(c) \/ Pull(c) \/ ChildLeaves(c)
  \/ \E t \in BOOLEAN : Say(c, t)
  \/ \E end \in Ends : EndRun(c, end)

ToolStep(c) ==
  \/ \E m \in {"sync", "async"} : Launch(c, m)
  \/ Begin(c) \/ Finish(c) \/ GiveUp(c) \/ Post(c)

Next ==
  \/ Prompts
  \/ ParentStep
  \/ \E c \in Child : ToolStep(c) \/ ChildStep(c) \/ Observe(c)
  \/ \E r \in relays : Forward(r[1], r[2])

Spec == Init /\ [][Next]_vars

-----------------------------------------------------------------------------
\* Message m is the answer of its run: the last one of a run that was not
\* cancelled, with a text.
Answer(c, m) ==
  /\ Speaks(log[c][m])
  /\ ends[c][log[c][m].run] = "done"
  /\ \A i \in DOMAIN log[c] : log[c][i].kind = "added" /\ log[c][i].run = log[c][m].run => i <= m

\* The parent is sent the answer of every run of a child, and once: the claim
\* keeps the conductor from sending what the waiting task sends, and is gone
\* when that task is.  The exceptions: a call had the Stopped in its queue when
\* it was cancelled; the claim of an aborted synchronous call took the run for
\* its own; who looked for the answer in the store found a message of another
\* run there, or the answer was sent for another run.
TextsReportedOnce ==
  \A c \in Child : \A m \in DOMAIN log[c] :
    Answer(c, m) =>
      LET k == log[c][m].run IN
        /\ <<c, m>> \in again => <<c, k>> \in mixed
        /\ seen[c] = Len(log[c]) /\ waiter[c] = "over" /\ <<c, k>> \notin relays =>
             \/ <<c, m>> \in told
             \/ <<c, k>> \in excused \cup mixed
             \/ <<c, k>> \in swallowed /\ mode[c] = "sync"

\* To stop the parent stops its children's work for the calls it has under
\* way, whatever state their agents are in, built or yet to be built.  The
\* exception: children whose agent was built when the one that launched them
\* had left the map.
StopReachesChildren ==
  \A c \in struck \cap busy : c \in token \cup adrift

\* Agents, calls and waiting tasks do to the prompts what module Permission
\* leaves open to them; Stopped events are none of its business.
IsPrompt(e) == e.kind \in {"ask", "ack"}
KeepPrompt(q, e) == IF IsPrompt(e) THEN Append(q, e) ELSE q
PromptsIn(h) == FoldLeft(KeepPrompt, <<>>, h)

P == INSTANCE Permission WITH heard <- [s \in Session |-> PromptsIn(heard[s])]

PermissionHolds == P!PermissionSpec
=============================================================================
