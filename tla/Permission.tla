----------------------------- MODULE Permission -----------------------------
(***************************************************************************)
(* A tool call above the session's permission level asks the user first:   *)
(* permission/checker.rs, the prompt of the terminal interface             *)
(* (tui/src/app/events.rs, update.rs) and the two ways its answer and a    *)
(* change of level travel back (kernel/mod.rs, kernel/conductor.rs).       *)
(*                                                                         *)
(* The prompts of the sessions in Session reach one terminal, which shows  *)
(* Root and has one slot for a prompt.  Root's events go there directly,   *)
(* the events of any other session only through the task that waits for it *)
(* (module Subagent).  One tool stands for all: approvals are remembered   *)
(* per tool.  An answer or an event is not lost to a full bus here.        *)
(***************************************************************************)
EXTENDS Naturals, Sequences, FiniteSets

CONSTANTS
  Session,  \* sessions whose prompts the terminal may show
  Root,     \* the session the terminal is attached to
  Req,      \* request ids
  None,
  MaxSets   \* bound: how often the user changes the level

Level == 0..2  \* Safe, Caution, Dangerous

ASSUME PermissionAssumption ==
  /\ Root \in Session
  /\ None \notin Session \cup Req \cup Level
  /\ MaxSets \in Nat

VARIABLES
  place,      \* [Session -> ...]: its agent as the active map has it
  row,        \* [Session -> Level]: auto_approve_level in the session row
  drawn,      \* [Session -> Level]: the level its agent is built with
  auto,       \* [Session -> Level]: PermissionState::auto_approve_level
  remembered, \* [Session -> Level]: PermissionState::tool_approvals, 0: none
  ask,        \* [Session -> Req \cup {None}]: the request it waits for
  outcome,    \* [Req -> ...]: how the check of a request ended
  level,      \* [Req -> Level]: the level of the call it is about
  owner,      \* [Req -> Session \cup {None}]: who asked
  said,       \* [Req -> ...]: the answer sent for a request, if any
  stream,     \* Root's events on their way to the terminal
  listening,  \* SUBSET Session: sessions a task waits for
  heard,      \* [Session -> Seq]: their events in that task's queue
  pending,    \* pending_permission of the terminal
  setting,    \* the level set_permission_level has written, or None
  updates,    \* spawned tasks that are to store a level in Root's agent
  sets,       \* how many changes of level there were
  crossed,    \* history: the last change missed Root's agent, or overtakes
              \* one still to be stored there
  unheard     \* history: requests whose Ask or Ack had no listener left

prompts == <<ask, outcome, level, owner, said, pending>>
lanes == <<stream, listening, heard>>
levels == <<row, drawn, auto, remembered, setting, updates, sets, crossed>>
permission == <<place, prompts, lanes, levels, unheard>>

PermissionInit ==
  /\ place = [s \in Session |-> IF s = Root THEN "in" ELSE "out"]
  /\ row = [s \in Session |-> 0]
  /\ drawn = [s \in Session |-> 0]
  /\ auto = [s \in Session |-> 0]
  /\ remembered = [s \in Session |-> 0]
  /\ ask = [s \in Session |-> None]
  /\ outcome = [r \in Req |-> "unasked"]
  /\ level = [r \in Req |-> 0]
  /\ owner = [r \in Req |-> None]
  /\ said = [r \in Req |-> "nothing"]
  /\ stream = <<>>
  /\ listening = {}
  /\ heard = [s \in Session |-> <<>>]
  /\ pending = None
  /\ setting = None
  /\ updates = {}
  /\ sets = 0
  /\ crossed = FALSE
  /\ unheard = {}

Ask(r) == [kind |-> "ask", req |-> r]
Ack(r) == [kind |-> "ack", req |-> r]

\* Session s publishes an event; it goes to the terminal, to the task that
\* waits for s, or to nobody.
Emit(s, e) ==
  /\ stream' = IF s = Root THEN Append(stream, e) ELSE stream
  /\ heard' = IF s \in listening THEN [heard EXCEPT ![s] = Append(@, e)] ELSE heard

Unheard(s, r) == unheard' = IF s = Root \/ s \in listening THEN unheard ELSE unheard \cup {r}

-----------------------------------------------------------------------------
(***************************************************************************)
(* Checker::check_permission in the agent of session s.                    *)
(***************************************************************************)

MustAsk(s, l) == l > auto[s] /\ l > remembered[s]

\* The input bus is subscribed before the request is sent.
Request(s, r, l) ==
  /\ place[s] = "in"
  /\ ask[s] = None
  /\ outcome[r] = "unasked"
  /\ MustAsk(s, l)
  /\ ask' = [ask EXCEPT ![s] = r]
  /\ outcome' = [outcome EXCEPT ![r] = "open"]
  /\ level' = [level EXCEPT ![r] = l]
  /\ owner' = [owner EXCEPT ![r] = s]
  /\ Emit(s, Ask(r))
  /\ Unheard(s, r)
  /\ UNCHANGED <<place, said, listening, pending, levels>>

\* MUTANT of Acks: the guard is not armed before an answer comes.
AcksAnswers(s, r, end) == IF end = "lapsed" THEN UNCHANGED <<stream, heard>> ELSE Emit(s, Ack(r))

\* The guard publishes the ack, however the check ends.
Acks(s, r, end) == Emit(s, Ack(r))

Settle(s, end) ==
  /\ ask[s] # None
  /\ ask' = [ask EXCEPT ![s] = None]
  /\ outcome' = [outcome EXCEPT ![ask[s]] = end]
  /\ Acks(s, ask[s], end)
  /\ Unheard(s, ask[s])
  /\ UNCHANGED <<place, level, owner, said, listening, pending,
                 row, drawn, auto, setting, updates, sets, crossed>>

\* MUTANT of Mine: an answer is taken without a look at its req_id.
MineAny(s, r) == said[r] # "nothing" /\ owner[r] = s

\* The answer the check waits for: other ids are skipped.
Mine(s, r) == said[r] # "nothing" /\ r = ask[s]

\* The answer with the request's own id arrives.
Answered(s) ==
  \E r \in Req :
    /\ Mine(s, r)
    /\ Settle(s, IF said[r] \in {"once", "always"} THEN "approved" ELSE "denied")
    /\ remembered' = IF said[r] = "always" /\ level[ask[s]] > remembered[s]
                     THEN [remembered EXCEPT ![s] = level[ask[s]]] ELSE remembered

\* Two minutes pass; an answer may be on its way.
TimesOut(s) == Settle(s, "lapsed") /\ UNCHANGED remembered

\* The agent is cancelled, which wins over an answer.
Cancelled(s) == Settle(s, "lapsed") /\ UNCHANGED remembered

-----------------------------------------------------------------------------
(***************************************************************************)
(* The terminal.                                                           *)
(***************************************************************************)

\* An older prompt in the slot is denied on the user's behalf.
Displaces(r) ==
  IF pending = None THEN said ELSE [said EXCEPT ![pending] = "displaced"]

Show ==
  /\ stream # <<>>
  /\ stream' = Tail(stream)
  /\ LET e == Head(stream) IN
       \/ /\ e.kind = "ask"
          /\ said' = Displaces(e.req)
          /\ pending' = e.req
       \/ /\ e.kind = "ack"
          /\ pending' = IF pending = e.req THEN None ELSE pending
          /\ UNCHANGED said
  /\ UNCHANGED <<place, ask, outcome, level, owner, listening, heard, levels, unheard>>

\* The user picks an entry of the dialog, or leaves it.
Reply(answer) ==
  /\ pending # None
  /\ said' = [said EXCEPT ![pending] = answer]
  /\ pending' = None
  /\ UNCHANGED <<place, ask, outcome, level, owner, lanes, unheard>>

\* MUTANT of Written: the row keeps the level it has.
WrittenNot(l) == row

Written(l) == [row EXCEPT ![Root] = l]

\* Kernel::set_permission_level writes the row first ...
SetLevel(l) ==
  /\ setting = None
  /\ sets < MaxSets
  /\ sets' = sets + 1
  /\ setting' = l
  /\ row' = Written(l)
  /\ UNCHANGED <<drawn, auto, remembered, updates, crossed>>

Choose(answer) == Reply(answer) /\ UNCHANGED levels
Yolo == Reply("once") /\ SetLevel(2)
Toggle ==
  /\ SetLevel(IF row[Root] = 2 THEN 0 ELSE 2)
  /\ UNCHANGED <<place, prompts, lanes, unheard>>

\* ... and then has a task spawned for the agent in the map, if there is one.
SpawnUpdate ==
  /\ setting # None
  /\ setting' = None
  /\ updates' = IF place[Root] = "in" THEN updates \cup {<<sets, setting>>} ELSE updates
  /\ crossed' = IF place[Root] = "preparing" THEN drawn[Root] # setting ELSE crossed
  /\ UNCHANGED <<place, prompts, lanes, row, drawn, auto, remembered, sets, unheard>>

\* Spawned tasks run in any order.
StoreLevel(u) ==
  /\ u \in updates
  /\ updates' = updates \ {u}
  /\ auto' = [auto EXCEPT ![Root] = u[2]]
  /\ crossed' = IF u[1] = sets THEN \E v \in updates : v[1] < sets ELSE crossed
  /\ UNCHANGED <<place, prompts, lanes, row, drawn, remembered, setting, sets, unheard>>

-----------------------------------------------------------------------------
(***************************************************************************)
(* An agent comes and goes; its PermissionState with it.                   *)
(***************************************************************************)
Prepare(s) ==
  /\ place[s] = "out"
  /\ place' = [place EXCEPT ![s] = "preparing"]
  /\ drawn' = [drawn EXCEPT ![s] = row[s]]
  /\ crossed' = IF s = Root THEN FALSE ELSE crossed
  /\ UNCHANGED <<prompts, lanes, row, auto, remembered, setting, updates, sets, unheard>>

Enter(s) ==
  /\ place[s] = "preparing"
  /\ place' = [place EXCEPT ![s] = "in"]
  /\ auto' = [auto EXCEPT ![s] = drawn[s]]
  /\ remembered' = [remembered EXCEPT ![s] = 0]
  /\ UNCHANGED <<prompts, lanes, row, drawn, setting, updates, sets,
                 crossed, unheard>>

\* An update that comes too late finds the state of an agent that is gone.
Leave(s) ==
  /\ place[s] = "in"
  /\ place' = [place EXCEPT ![s] = "out"]
  /\ updates' = IF s = Root THEN {} ELSE updates
  /\ UNCHANGED <<prompts, lanes, row, drawn, auto, remembered, setting, sets, crossed, unheard>>

-----------------------------------------------------------------------------
(***************************************************************************)
(* What a child session has of its parent's: its first level, and a task   *)
(* that waits for it.                                                      *)
(***************************************************************************)

\* The session row of a child is created with the level the parent's agent
\* has now.
Create(s) ==
  /\ place[s] = "out"
  /\ ~\E r \in Req : owner[r] = s
  /\ row' = [row EXCEPT ![s] = auto[Root]]
  /\ UNCHANGED <<place, prompts, lanes, drawn, auto, remembered, setting, updates, sets, crossed, unheard>>

Listen(s) ==
  /\ s \notin listening
  /\ listening' = listening \cup {s}
  /\ UNCHANGED <<place, prompts, stream, heard, levels, unheard>>

\* The task passes prompts and acks on to Root's stream.
Relay(s) ==
  /\ heard[s] # <<>>
  /\ Head(heard[s]).kind \in {"ask", "ack"}
  /\ heard' = [heard EXCEPT ![s] = Tail(@)]
  /\ stream' = Append(stream, Head(heard[s]))
  /\ UNCHANGED <<place, prompts, listening, levels, unheard>>

\* It goes away with what is in its queue.
Unlisten(s) ==
  /\ listening' = listening \ {s}
  /\ heard' = [heard EXCEPT ![s] = <<>>]
  /\ unheard' = unheard \cup
       {r \in Req : \E i \in DOMAIN heard[s] : heard[s][i] \in {Ask(r), Ack(r)}}
  /\ UNCHANGED <<place, prompts, stream, levels>>

-----------------------------------------------------------------------------
Check(s) ==
  \/ \E r \in Req, l \in Level \ {0} : Request(s, r, l)
  \/ Answered(s) \/ TimesOut(s) \/ Cancelled(s)

Terminal ==
  \/ Show \/ Yolo \/ Toggle
  \/ \E answer \in {"once", "always", "no"} : Choose(answer)

Update == SpawnUpdate \/ \E u \in updates : StoreLevel(u)

\* What agents and waiting tasks do is left open here.
Around(s) == Prepare(s) \/ Enter(s) \/ (ask[s] = None /\ Leave(s))
Below(s) == Create(s) \/ Listen(s) \/ Relay(s) \/ Unlisten(s)

PermissionNext ==
  \/ Terminal \/ Update
  \/ \E s \in Session : Check(s) \/ Around(s)
  \/ \E s \in Session \ {Root} : Below(s)

PermissionSpec == PermissionInit /\ [][PermissionNext]_permission

-----------------------------------------------------------------------------
Event == [kind : {"ask", "ack"}, req : Req]

RequestsOK ==
  /\ ask \in [Session -> Req \cup {None}]
  /\ outcome \in [Req -> {"unasked", "open", "approved", "denied", "lapsed"}]
  /\ level \in [Req -> Level]
  /\ owner \in [Req -> Session \cup {None}]
  /\ said \in [Req -> {"nothing", "once", "always", "no", "displaced"}]
  /\ pending \in Req \cup {None}
  /\ unheard \in SUBSET Req

LanesOK ==
  /\ stream \in Seq(Event)
  /\ listening \in SUBSET (Session \ {Root})
  /\ heard \in [Session -> Seq(Event)]

LevelsOK ==
  /\ place \in [Session -> {"out", "preparing", "in"}]
  /\ row \in [Session -> Level]
  /\ drawn \in [Session -> Level]
  /\ auto \in [Session -> Level]
  /\ remembered \in [Session -> Level]
  /\ setting \in Level \cup {None}
  /\ updates \in SUBSET (Nat \X Level)
  /\ sets \in Nat
  /\ crossed \in BOOLEAN

PermissionTypeOK == RequestsOK /\ LanesOK /\ LevelsOK

\* Event e is on its way to the terminal.
Underway(e) ==
  \/ \E i \in DOMAIN stream : stream[i] = e
  \/ \E s \in Session : \E i \in DOMAIN heard[s] : heard[s][i] = e

\* "Clients never leave the prompt visible after the request is resolved", and
\* no request waits for a prompt that no terminal will show: an open request
\* is on its way to the terminal, in its slot, or answered; one in the slot is
\* open, or its ack is on its way.  Except where an event of a child found
\* nobody waiting for the child, or was dropped with the waiting task.
PromptsTracked ==
  \A r \in Req \ unheard :
    /\ outcome[r] = "open" => Underway(Ask(r)) \/ pending = r \/ said[r] # "nothing"
    /\ pending = r => outcome[r] = "open" \/ Underway(Ack(r))

\* A request is decided by the answer given to it, not by a late answer to an
\* earlier one; and an agent remembers only what the user said to remember.
AnswerCounts ==
  /\ \A r \in Req :
       /\ outcome[r] = "approved" => said[r] \in {"once", "always"}
       /\ outcome[r] = "denied" => said[r] \in {"no", "displaced"}
  /\ \A s \in Session : remembered[s] # 0 =>
       \E r \in Req : /\ owner[r] = s
                      /\ said[r] = "always"
                      /\ outcome[r] = "approved"
                      /\ level[r] = remembered[s]

\* Once a change of level has gone through, Root's live agent asks by the
\* level its session row shows: unless the change came while the agent was
\* prepared, from the row as it was, or two changes overtook each other.
LevelFollows ==
  setting = None /\ updates = {} /\ place[Root] = "in" =>
    auto[Root] = row[Root] \/ crossed
=============================================================================
