-------------------------------- MODULE Hub --------------------------------
(***************************************************************************)
(* How a run shows in a chat: the channel hub's delivery of one session.   *)
(*                                                                         *)
(* The forwarder moves the session's events from its bus queue into the    *)
(* delivery pool (module KeyedPool), whose worker handles them one at a    *)
(* time: it notes the run's texts in a reply buffer, keeps the status card *)
(* of the run up to date and, when the run has stopped, turns the card     *)
(* into the reply or sends the reply below it.  Beside the worker run its  *)
(* tick, which settles a buffer whose agent is dead, the heartbeat, which  *)
(* refreshes the card of a slow run, and the sweep, which freezes the card *)
(* of a session that nobody will settle any more.  All of them write the   *)
(* same message of the chat; the card's patch lock orders them.            *)
(*                                                                         *)
(* A text is named by the run that produced it; a platform that supports   *)
(* cards, observability, the tool trace and the mid-run split are on.  A   *)
(* call to the platform that fails for its caller may have been carried    *)
(* out all the same.                                                       *)
(* src/crates/kernel/src/channels: hub/mod.rs, hub/delivery_pool.rs,       *)
(* hub/deliver.rs, hub/context.rs, render/obs.rs, render/reply.rs          *)
(***************************************************************************)
EXTENDS Integers, Sequences, SequencesExt

CONSTANTS
  None,
  MaxRuns,   \* bound: runs and standalone compactions of the session
  MaxQueue,  \* what the forwarder's and the worker's queue hold
  MaxMisses  \* bound: failed calls, lost events, dead agents, early ticks, stale sweeps

Run == 0..MaxRuns

\* A card's state: its message (0 until it is sent), the trace it shows, the
\* number of its patch lock, and whether a standalone compaction made it.
CardState == [msg : Nat, trace : SUBSET Run, lock : Nat, compact : BOOLEAN]

ASSUME HubAssumption ==
  /\ MaxRuns \in Nat /\ MaxQueue \in Nat /\ MaxMisses \in Nat
  /\ None \notin CardState
  /\ \A texts \in SUBSET Run : texts # None

VARIABLES
  phase,   \* the agent's state mirror: "idle", "running", "compacting", "ending"
  run,     \* how many runs there were
  rx,      \* the forwarder's listener queue
  jobs,    \* the worker's queue
  buffer,  \* the texts of the reply buffer, or None
  flag,    \* buffer_holders holds the session
  card,    \* the session's ObsCardState, or None
  born,    \* how many states there were; a state's number names its lock
  locks,   \* the patch locks that are held
  posts,   \* the receipts: did a user post while the run was on?
  posting, \* a post has seen the run and is not noted yet
  work,    \* what the worker is at
  beat,    \* what the heartbeat is at
  sweep,   \* what the sweep is at
  chat,    \* the messages of the chat
  home,    \* "here", "unrouted" (routing deleted), "closed" (channel removed)
  misses,  \* how often something went wrong
  noted    \* history: texts the worker has noted

agent == <<phase, run>>
queues == <<rx, jobs>>
reply == <<buffer, flag, noted>>
cards == <<card, born, locks>>
talk == <<posts, posting>>
vars == <<agent, queues, reply, cards, talk, work, beat, sweep, chat, home, misses>>

\* at: where the worker stands; how: what it wants the card for; why: what
\* ended the run; hand: the reply that left the buffer; adds: texts for the
\* trace; keep: the card keeps the trace; card: the state it took; plain: the
\* reply's own card has failed, its text is next.
Resting == [at |-> "idle", how |-> None, why |-> None, lock |-> 0, hand |-> None,
            adds |-> {}, keep |-> TRUE, card |-> None, tick |-> FALSE, plain |-> FALSE]
Off == [at |-> "off", lock |-> 0, msg |-> 0, card |-> None]

Init ==
  /\ phase = "idle" /\ run = 0
  /\ rx = <<>> /\ jobs = <<>>
  /\ buffer = None /\ flag = FALSE /\ noted = {}
  /\ card = None /\ born = 0 /\ locks = {}
  /\ posts = FALSE /\ posting = FALSE
  /\ work = Resting /\ beat = Off /\ sweep = Off
  /\ chat = <<>> /\ home = "here" /\ misses = 0

Event(kind) == [kind |-> kind, run |-> run]
Miss == misses < MaxMisses /\ misses' = misses + 1

\* The listener of a full queue loses the event.
Emit(e) ==
  IF Len(rx) < MaxQueue THEN rx' = Append(rx, e) /\ UNCHANGED misses
                        ELSE Miss /\ UNCHANGED rx

-----------------------------------------------------------------------------
(* Calls to the platform.                                                  *)

Message(kind, texts) == [kind |-> kind, texts |-> texts]

\* What a call leaves of which only the answer was lost.
Unanswered(m) == IF m.kind = "reply" THEN Message("unanswered", m.texts) ELSE m

\* A new message of the chat, or a patch of one it has.
Put(msg, m) == IF msg = 0 THEN Append(chat, m) ELSE [chat EXCEPT ![msg] = m]

Succeeds(msg, m) == chat' = Put(msg, m) /\ UNCHANGED misses

\* The call never got there, or its answer never came back.
Fails(msg, m) == Miss /\ chat' \in {chat, Put(msg, Unanswered(m))}

-----------------------------------------------------------------------------
(* The agent, the users and the operator.                                  *)

others == <<reply, cards, work, beat, sweep, chat>>

Begin ==
  /\ phase = "idle" /\ run < MaxRuns
  /\ run' = run + 1
  /\ \/ phase' = "running"
        /\ Emit([kind |-> "running", run |-> run + 1])
     \/ phase' = "compacting"
        /\ Emit([kind |-> "compacting", run |-> run + 1])
  /\ UNCHANGED <<others, jobs, talk, home>>

Say ==
  /\ phase = "running"
  /\ run \notin noted
  /\ Event("text") \notin ToSet(rx) \cup ToSet(jobs)
  /\ Emit(Event("text"))
  /\ UNCHANGED <<others, agent, jobs, talk, home>>

\* Stopped goes out while the session still counts as running.
Stop ==
  /\ phase \in {"running", "compacting"}
  /\ \/ phase = "running" /\ \E why \in {"completed", "failed"} : Emit(Event(why))
     \/ phase = "compacting" /\ \E how \in {"compacted", "completed"} : Emit(Event(how))
  /\ phase' = "ending"
  /\ UNCHANGED <<others, run, jobs, talk, home>>

Rest ==
  /\ phase = "ending"
  /\ phase' = "idle"
  /\ UNCHANGED <<others, run, queues, talk, home, misses>>

Die ==
  /\ phase # "idle"
  /\ phase' = "idle"
  /\ Miss
  /\ UNCHANGED <<others, run, queues, talk, home>>

\* A message that finds the run on is noted as a receipt a little later.
Post ==
  /\ \/ phase # "idle" /\ ~posting /\ posting' = TRUE /\ UNCHANGED posts
     \/ posting /\ posting' = FALSE /\ posts' = TRUE
  /\ UNCHANGED <<others, agent, queues, home, misses>>

Leave ==
  /\ home = "here"
  /\ home' \in {"unrouted", "closed"}
  /\ UNCHANGED <<others, agent, queues, talk, misses>>

-----------------------------------------------------------------------------
(* The forwarder.                                                          *)

\* The routing gate answers from a cache: an unrouted session's events may
\* still pass.  A full worker queue drops the event.
Forward ==
  /\ rx # <<>>
  /\ rx' = Tail(rx)
  /\ \/ Len(jobs) < MaxQueue /\ jobs' = Append(jobs, Head(rx)) /\ UNCHANGED misses
     \/ Len(jobs) = MaxQueue /\ UNCHANGED jobs /\ Miss
     \/ home = "unrouted" /\ UNCHANGED <<jobs, misses>>
  /\ UNCHANGED <<others, agent, talk, home>>

-----------------------------------------------------------------------------
(* The worker.                                                             *)

world == <<agent, queues, beat, sweep, home>>

Noted == IF buffer = None THEN {} ELSE buffer

\* The worker is free again and holds, or not, a buffer.
Done(buf) ==
  /\ work' = Resting
  /\ flag' = (buf # None)

\* The worker goes for the patch lock of the card it sees, if there is one.
Want(how, texts, buf) ==
  /\ IF home = "closed" \/ card = None
       THEN Done(buf)
       ELSE /\ work' = [Resting EXCEPT !.at = "want", !.how = how,
                                       !.lock = card.lock, !.adds = texts]
            /\ UNCHANGED flag
  /\ UNCHANGED cards

\* A state for a run or a standalone compaction that finds none.
NewCard(compact, buf) ==
  /\ IF home = "closed" \/ card # None
       THEN Done(buf) /\ UNCHANGED <<card, born>>
       ELSE /\ born' = born + 1
            /\ card' = [msg |-> 0, trace |-> {}, lock |-> born + 1, compact |-> compact]
            /\ work' = [Resting EXCEPT !.at = "sending"]
            /\ UNCHANGED flag
  /\ UNCHANGED locks

Handle(e) ==
  \/ /\ e.kind = "running"
     /\ buffer' = Noted
     /\ NewCard(FALSE, Noted)
     /\ UNCHANGED noted
  \/ /\ e.kind = "text"
     /\ buffer' = Noted \cup {e.run}
     /\ noted' = noted \cup {e.run}
     /\ Want("update", {e.run}, Noted \cup {e.run})
  \/ /\ e.kind \in {"completed", "failed"}
     /\ work' = [Resting EXCEPT !.at = "settle", !.why = e.kind]
     /\ UNCHANGED <<reply, cards>>
  \/ /\ e.kind = "compacting"
     /\ UNCHANGED <<buffer, noted>>
     /\ IF card = None THEN NewCard(TRUE, buffer) ELSE Want("update", {}, buffer)
  \/ /\ e.kind = "compacted"
     /\ UNCHANGED <<buffer, noted>>
     /\ IF card # None /\ card.compact THEN Want("compact", {}, buffer) ELSE Done(buffer) /\ UNCHANGED cards

Pull ==
  /\ work.at = "idle" /\ jobs # <<>>
  /\ jobs' = Tail(jobs)
  /\ Handle(Head(jobs))
  /\ UNCHANGED <<agent, rx, talk, beat, sweep, chat, home, misses>>

\* The tick settles a buffer whose agent no longer runs.  It looks at the
\* worker's queue only: when events of the session still wait in the
\* forwarder's it comes early, and that counts as a miss.
Tick ==
  /\ work.at = "idle" /\ jobs = <<>>
  /\ buffer # None /\ phase = "idle"
  /\ work' = [Resting EXCEPT !.at = "settle", !.why = "timeout", !.tick = TRUE]
  /\ IF rx = <<>> THEN UNCHANGED misses ELSE Miss
  /\ UNCHANGED <<world, reply, cards, talk, chat>>

Live == Message("live", {})

\* materialize_card: the state may have been taken while the card was sent.  A
\* card whose sending failed has no number, even if it is in the chat.
SendCard ==
  /\ work.at = "sending"
  /\ \/ /\ Succeeds(0, Live)
        /\ card' = IF card = None THEN None ELSE [card EXCEPT !.msg = Len(chat) + 1]
     \/ Fails(0, Live) /\ UNCHANGED card
  /\ Done(buffer)
  /\ UNCHANGED <<world, buffer, noted, born, locks, talk>>

\* update_running: change the state and, outside the throttle window, patch.
Update ==
  /\ work.at = "want" /\ work.how = "update"
  /\ work.lock \notin locks
  /\ \/ card = None /\ Done(buffer) /\ UNCHANGED <<card, locks>>
     \/ /\ card # None
        /\ card' = [card EXCEPT !.trace = @ \cup work.adds]
        /\ \/ Done(buffer) /\ UNCHANGED locks
           \/ /\ card.msg # 0
              /\ work' = [work EXCEPT !.at = "patching", !.card = card]
              /\ locks' = locks \cup {work.lock}
              /\ UNCHANGED flag
  /\ UNCHANGED <<world, buffer, noted, born, talk, chat, misses>>

\* send_card_patch: nobody asks whether it landed.
Patch(msg, m) == Succeeds(msg, m) \/ Fails(msg, m)

PatchCard ==
  /\ work.at = "patching"
  /\ Patch(work.card.msg, Live)
  /\ locks' = locks \ {work.lock}
  /\ Done(buffer)
  /\ UNCHANGED <<world, buffer, noted, card, born, talk>>

\* settle_deliver and the choice of deliver_reply: a store error keeps the
\* buffer, a chat that is gone drops it.  Posts of the run, or a mention in
\* its texts, have the reply sent below the card.
Settle ==
  /\ work.at = "settle"
  /\ \/ Miss /\ Done(buffer) /\ UNCHANGED buffer
     \/ home # "here" /\ buffer' = None /\ Done(None) /\ UNCHANGED misses
     \/ /\ home = "here"
        /\ buffer' = None
        /\ \/ /\ posts \/ Noted # {}
              /\ work' = [work EXCEPT !.at = "flush", !.hand = buffer]
           \/ /\ ~posts
              /\ work' = [work EXCEPT !.at = "ask", !.how = "morph", !.hand = buffer]
        /\ UNCHANGED <<flag, misses>>
  /\ UNCHANGED <<world, noted, cards, talk, chat>>

HasText == work.hand \notin {None, {}}

Reply == Message("reply", work.hand)

\* The split: send the reply, then freeze the card, which keeps the trace
\* when no reply went out.
Freeze(out) ==
  /\ work' = [work EXCEPT !.at = "ask", !.how = "freeze", !.keep = ~out, !.plain = FALSE]
  /\ UNCHANGED flag

\* What comes next when the reply went out, or did not for all the worker knows.
Onward(out) == IF work.at = "flush" THEN Freeze(out) ELSE Done(buffer)

\* flush_reply, as a card and, if that fails, as a plain message.
SendReply ==
  \/ ~HasText /\ Onward(FALSE) /\ UNCHANGED <<chat, misses>>
  \/ HasText /\ Succeeds(0, Reply) /\ Onward(TRUE)
  \/ HasText /\ Fails(0, Reply) /\ Onward(FALSE)
  \/ HasText /\ Fails(0, Reply) /\ ~work.plain
              /\ work' = [work EXCEPT !.plain = TRUE] /\ UNCHANGED flag

Flush ==
  /\ work.at = "flush"
  /\ SendReply
  /\ UNCHANGED <<world, buffer, noted, cards, talk>>

\* Mutant: a settlement that fails, or finds no state, swallows the reply.
StatelessSwallows == Done(buffer)

\* Without a state the reply of a morph is still to be sent.
Stateless ==
  IF work.how = "morph" THEN work' = [work EXCEPT !.at = "refuge"] /\ UNCHANGED flag
                        ELSE Done(buffer)

\* settle_card and freeze_card clear the receipts and look for the state.
Ask ==
  /\ work.at = "ask"
  /\ posts' = FALSE
  /\ \/ card = None /\ Stateless
     \/ /\ card # None
        /\ work' = [work EXCEPT !.at = "want", !.lock = card.lock]
        /\ UNCHANGED flag
  /\ UNCHANGED <<world, buffer, noted, cards, posting, chat, misses>>

\* take_state_locked: under the lock the state is removed from the map.
Take ==
  /\ work.at = "want" /\ work.how \in {"morph", "freeze", "compact"}
  /\ work.lock \notin locks
  /\ \/ card = None /\ Stateless /\ UNCHANGED <<card, locks>>
     \/ /\ card # None
        /\ card' = None
        /\ locks' = locks \cup {work.lock}
        /\ work' = [work EXCEPT !.at = "land", !.card = card]
        /\ UNCHANGED flag
  /\ UNCHANGED <<world, buffer, noted, born, talk, chat, misses>>

\* The terminal rendering: a morph with a text is the reply, anything else a
\* receipt.  A card that was never sent is sent for a reply or a failure.
Rendered ==
  IF work.how = "morph" /\ HasText THEN Reply
  ELSE Message("receipt", IF work.keep THEN work.card.trace ELSE {})

Worth == work.card.msg # 0 \/ Rendered.kind = "reply" \/ work.why = "failed"

\* A settlement that failed hands the reply of a morph back to be sent.
Land ==
  /\ work.at = "land"
  /\ locks' = locks \ {work.lock}
  /\ \/ Worth /\ Succeeds(work.card.msg, Rendered) /\ Done(buffer)
     \/ Worth /\ Fails(work.card.msg, Rendered) /\ Stateless
     \/ ~Worth /\ Done(buffer) /\ UNCHANGED <<chat, misses>>
  /\ UNCHANGED <<world, buffer, noted, card, born, talk>>

\* The fallback: a message of its own.
Refuge ==
  /\ work.at = "refuge"
  /\ SendReply
  /\ UNCHANGED <<world, buffer, noted, cards, talk>>

-----------------------------------------------------------------------------
(* The heartbeat and the sweep.  The forwarder starts them when its queue  *)
(* is empty, in tasks of their own.                                        *)

around == <<agent, queues, reply, born, posting, work, home>>

\* refresh_stale: pick a card, then look at it again under its lock.
BeatPick ==
  /\ beat.at = "off" /\ rx = <<>>
  /\ card # None /\ card.msg # 0
  /\ beat' = [Off EXCEPT !.at = "want", !.lock = card.lock, !.msg = card.msg]
  /\ UNCHANGED <<around, card, locks, posts, sweep, chat, misses>>

\* Mutant: the heartbeat does not look again once it has the lock.
StillThereTrusted == TRUE

StillThere == card # None /\ card.msg = beat.msg

BeatLock ==
  /\ beat.at = "want" /\ beat.lock \notin locks
  /\ \/ beat' = Off /\ UNCHANGED locks
     \/ /\ StillThere
        /\ beat' = [beat EXCEPT !.at = "patching"]
        /\ locks' = locks \cup {beat.lock}
  /\ UNCHANGED <<around, card, posts, sweep, chat, misses>>

BeatPatch ==
  /\ beat.at = "patching"
  /\ Patch(beat.msg, Live)
  /\ locks' = locks \ {beat.lock}
  /\ beat' = Off
  /\ UNCHANGED <<around, card, posts, sweep>>

\* The worker has nothing queued or in its handler; a tick does not count.
Quiet == jobs = <<>> /\ (work.at = "idle" \/ work.tick)

\* sweep_dead_sessions: the session does not run, then: it is quiet and has
\* no buffer.
SweepLook ==
  /\ sweep.at = "off" /\ rx = <<>>
  /\ card # None /\ phase = "idle"
  /\ sweep' = [Off EXCEPT !.at = "judge"]
  /\ UNCHANGED <<around, card, locks, posts, beat, chat, misses>>

SweepJudge ==
  /\ sweep.at = "judge"
  /\ sweep' = IF Quiet /\ ~flag THEN [Off EXCEPT !.at = "ask"] ELSE Off
  /\ UNCHANGED <<around, card, locks, posts, beat, chat, misses>>

SweepAsk ==
  /\ sweep.at = "ask"
  /\ posts' = FALSE
  /\ sweep' = IF card = None THEN Off
              ELSE [Off EXCEPT !.at = "want", !.lock = card.lock]
  /\ UNCHANGED <<around, card, locks, beat, chat, misses>>

\* A verdict that no longer holds when the card is taken is the window that
\* the code accepts, and counts as a miss.
SweepTake ==
  /\ sweep.at = "want" /\ sweep.lock \notin locks
  /\ IF card = None \/ (phase = "idle" /\ Quiet /\ ~flag) THEN UNCHANGED misses ELSE Miss
  /\ IF card = None
       THEN sweep' = Off /\ UNCHANGED locks
       ELSE /\ sweep' = [sweep EXCEPT !.at = "land", !.card = card]
            /\ locks' = locks \cup {sweep.lock}
  /\ card' = None
  /\ UNCHANGED <<around, posts, beat, chat>>

\* The lock was chosen before the wait and the state after it.  A sweep that
\* waited while the worker settled its card, and a new run made another, holds
\* the lock of the old card: what it writes is loose, a patch under the new
\* card's own lock may still land on it.
Frozen == IF sweep.lock = sweep.card.lock THEN "receipt" ELSE "loose"

SweepLand ==
  /\ sweep.at = "land"
  /\ \/ sweep.card.msg = 0 /\ UNCHANGED <<chat, misses>>
     \/ sweep.card.msg # 0 /\ Patch(sweep.card.msg, Message(Frozen, sweep.card.trace))
  /\ locks' = locks \ {sweep.lock}
  /\ sweep' = Off
  /\ UNCHANGED <<around, card, posts, beat>>

-----------------------------------------------------------------------------
Next ==
  \/ Begin \/ Say \/ Stop \/ Rest \/ Die \/ Post \/ Leave \/ Forward
  \/ Pull \/ Tick \/ SendCard \/ Update \/ PatchCard
  \/ Settle \/ Flush \/ Ask \/ Take \/ Land \/ Refuge
  \/ BeatPick \/ BeatLock \/ BeatPatch
  \/ SweepLook \/ SweepJudge \/ SweepAsk \/ SweepTake \/ SweepLand

Spec == Init /\ [][Next]_vars

-----------------------------------------------------------------------------
Sent(kind) == {m \in DOMAIN chat : chat[m].kind = kind}
Shown(kind) == UNION {chat[m].texts : m \in Sent(kind)}

\* Messages of the chat that are final.
Settled == Sent("reply") \cup Sent("unanswered") \cup Sent("receipt")

(* A text is not sent again once a call that sent it was answered: it can  *)
(* be in the chat twice only behind a call that failed for the worker and  *)
(* was carried out.  And as long as the chat is there and no more than one *)
(* thing goes wrong (a call fails or its answer is lost, an event is lost, *)
(* the agent dies, the tick comes early, the sweep goes by a stale         *)
(* verdict) no text the worker has noted is lost: it waits in the buffer   *)
(* or in the worker's hand until it stands in a reply or in the trace of a *)
(* frozen card.  Card, reply and fallback are written by four tasks in     *)
(* steps, and a settlement that fails half way has to hand the reply on.   *)
TextsReachChat ==
  /\ \A m \in Sent("reply"), n \in Sent("reply") \cup Sent("unanswered") :
       m < n => chat[m].texts \cap chat[n].texts = {}
  /\ home = "here" /\ misses <= 1 =>
       noted \subseteq Noted \cup (IF work.hand = None THEN {} ELSE work.hand)
                             \cup Shown("reply") \cup Shown("unanswered") \cup Shown("receipt")

(* A message that has become a reply or a receipt is never written again:  *)
(* no patch of the heartbeat or of an event that set out while the run was *)
(* on lands on it.  Nobody would repair it, because its state is gone.     *)
(* Except: a receipt that the sweep wrote under an earlier card's lock.    *)
SettledStays ==
  [][\A m \in Settled : chat'[m] = chat[m]]_vars
=============================================================================
