----------------------------- MODULE HubProofs -----------------------------
(***************************************************************************)
(* Proofs about Hub, for any number of runs, any queue and any number of   *)
(* misses.                                                                 *)
(***************************************************************************)
EXTENDS Hub, TLAPS

-----------------------------------------------------------------------------
(***************************************************************************)
(* The types.                                                              *)
(***************************************************************************)
Kinds == {"running", "text", "completed", "failed", "compacting", "compacted"}
Events == [kind : Kinds, run : Run]
Messages ==
  [kind : {"live", "loose", "reply", "unanswered", "receipt"}, texts : SUBSET Run]

AgentOK ==
  /\ phase \in {"idle", "running", "compacting", "ending"}
  /\ run \in Run
  /\ posts \in BOOLEAN /\ posting \in BOOLEAN
  /\ home \in {"here", "unrouted", "closed"}
  /\ misses \in Nat

QueuesOK == rx \in Seq(Events) /\ jobs \in Seq(Events)

ReplyOK ==
  /\ buffer \in {None} \cup SUBSET Run
  /\ flag \in BOOLEAN
  /\ noted \in SUBSET Run

CardsOK ==
  /\ card \in {None} \cup CardState
  /\ born \in Nat
  /\ locks \in SUBSET Nat
  /\ chat \in Seq(Messages)

Places == {"idle", "sending", "want", "patching", "settle", "flush", "ask", "land", "refuge"}

Handling ==
  [at : Places, how : {None, "update", "morph", "freeze", "compact"},
   why : {None, "completed", "failed", "timeout"}, lock : Nat,
   hand : {None} \cup SUBSET Run, adds : SUBSET Run, keep : BOOLEAN,
   card : {None} \cup CardState, tick : BOOLEAN, plain : BOOLEAN]

WorkOK ==
  /\ work \in Handling
  /\ work.at \in {"patching", "land"} => work.card \in CardState

Heartbeat == [at : {"off", "want", "patching"}, lock : Nat, msg : Nat, card : {None}]
BeatOK == beat \in Heartbeat

Sweeper ==
  [at : {"off", "judge", "ask", "want", "land"}, lock : Nat, msg : Nat,
   card : {None} \cup CardState]

SweepOK ==
  /\ sweep \in Sweeper
  /\ sweep.at = "land" => sweep.card \in CardState

TypeOK ==
  /\ AgentOK /\ QueuesOK /\ ReplyOK /\ CardsOK
  /\ WorkOK /\ BeatOK /\ SweepOK

-----------------------------------------------------------------------------
(***************************************************************************)
(* Who writes which message, and under which lock.                         *)
(***************************************************************************)
Working == work.at \in {"patching", "land"}
Sweeping == sweep.at = "land"
Beating == beat.at = "patching"

\* A patch lock has one holder.
LocksHeld ==
  /\ Working => work.lock \in locks
  /\ Beating => beat.lock \in locks
  /\ Sweeping => sweep.lock \in locks
  /\ Working /\ Beating => work.lock # beat.lock
  /\ Working /\ Sweeping => work.lock # sweep.lock
  /\ Beating /\ Sweeping => beat.lock # sweep.lock

\* What the worker holds or waits for is the lock of the card it is about.
WorkersCard ==
  /\ work.at = "sending" => card = None \/ card.msg = 0
  /\ work.at \in {"want", "patching"} => card = None \/ card.lock = work.lock
  /\ work.at \in {"want", "patching", "land"} => work.lock <= born
  /\ Working => work.card.lock = work.lock
  /\ work.at = "patching" =>
       work.card.msg # 0 /\ (card = None \/ card.msg = work.card.msg)
  /\ work.at = "land" => card = None

\* A message belongs to one state, and a lock too.
Same(l, msg, c) == c.msg = msg => c.lock = l
Apart(c, d) == c.lock # d.lock /\ (c.msg = d.msg => c.msg = 0)

Owners ==
  /\ card # None => card.lock <= born /\ card.msg <= Len(chat)
  /\ Working => work.card.msg <= Len(chat)
  /\ beat.at # "off" =>
       /\ 0 < beat.msg /\ beat.msg <= Len(chat)
       /\ card # None => Same(beat.lock, beat.msg, card)
       /\ Working => Same(beat.lock, beat.msg, work.card)
       /\ Sweeping => Same(beat.lock, beat.msg, sweep.card)
  /\ Sweeping =>
       /\ sweep.card.lock <= born /\ sweep.card.msg <= Len(chat)
       /\ card # None => Apart(sweep.card, card)
       /\ work.at = "land" => Apart(sweep.card, work.card)
       /\ work.at = "patching" => Same(sweep.card.lock, sweep.card.msg, work.card)

\* Whoever may still write a message writes none that is settled.
Open(m) == m # 0 => m \in DOMAIN chat /\ chat[m].kind \in {"live", "loose"}

StillOpen ==
  /\ card # None => Open(card.msg)
  /\ Working => Open(work.card.msg)
  /\ Beating => Open(beat.msg)
  /\ Sweeping => Open(sweep.card.msg)

LockInv == LocksHeld /\ WorkersCard /\ Owners /\ StillOpen

-----------------------------------------------------------------------------
(***************************************************************************)
(* Where the texts are.                                                    *)
(***************************************************************************)
Hand == IF work.hand = None THEN {} ELSE work.hand

\* The reply in the worker's hand is still to be sent.
Pending == work.at \in {"flush", "refuge"} \/ work.how = "morph"
Unsent == IF Pending THEN Hand ELSE {}

\* A reply for which the card is to become the message.
Untried == IF work.how = "morph" /\ work.at \notin {"flush", "refuge"} THEN Hand ELSE {}

Stages ==
  /\ work.at \in {"idle", "sending", "settle", "patching"} => work.hand = None
  /\ work.at \in {"want", "land"} /\ work.how \in {"update", "compact"} => work.hand = None
  /\ work.at = "ask" => work.how \in {"morph", "freeze"}
  /\ work.at = "want" => work.how \in {"update", "morph", "freeze", "compact"}
  /\ work.at = "land" => work.how \in {"morph", "freeze", "compact"}
  /\ work.at = "idle" => flag = (buffer # None) /\ ~work.tick

\* A text that is still to be noted waits once.
IsText(e) == e.kind = "text"
Fresh(q) ==
  /\ \A i \in 1..Len(q) : IsText(q[i]) => q[i].run \notin noted
  /\ \A i, j \in 1..Len(q) : IsText(q[i]) /\ IsText(q[j]) /\ q[i].run = q[j].run => i = j

FreshTexts ==
  /\ Fresh(rx) /\ Fresh(jobs)
  /\ \A i \in 1..Len(rx), j \in 1..Len(jobs) :
       IsText(rx[i]) /\ IsText(jobs[j]) => rx[i].run # jobs[j].run

\* A noted text has one place, but for what a call without an answer left.
OnePlace ==
  /\ Noted \cup Unsent \subseteq noted
  /\ Noted \cap Unsent = {}
  /\ \A m \in Sent("reply") : chat[m].texts \cap (Noted \cup Unsent) = {}
  /\ \A m \in Sent("unanswered") : chat[m].texts \cap (Noted \cup Untried) = {}
  /\ \A m \in Sent("reply") \cup Sent("unanswered") : chat[m].texts \subseteq noted
  /\ \A m \in Sent("reply"), n \in Sent("reply") \cup Sent("unanswered") :
       m < n => chat[m].texts \cap chat[n].texts = {}

TextInv == Stages /\ FreshTexts /\ OnePlace

-----------------------------------------------------------------------------
(***************************************************************************)
(* No text is lost to one miss.                                            *)
(***************************************************************************)
\* A run that the worker has seen begin, and not end.
Unended == buffer # None /\ work.at # "settle"
Stream == jobs \o rx

Opens(e) == e.kind \in {"running", "text"}
Before(open, s, i) == IF i = 1 THEN open ELSE Opens(s[i - 1])

\* The events of a run arrive within the run.
InOrder(open, s) ==
  \A i \in 1..Len(s) :
    /\ s[i].kind \in {"text", "failed"} => Before(open, s, i)
    /\ s[i].kind \in {"running", "compacting", "compacted"} => ~Before(open, s, i)

\* And the mirror tells whether the last run of the stream is on.
Orderly ==
  /\ InOrder(Unended, Stream)
  /\ phase = "running" <=> Before(Unended, Stream, Len(Stream) + 1)

\* The card shows these texts and has been sent.
Shows(texts) == card # None /\ card.msg # 0 /\ texts \subseteq card.trace

\* The buffer's reply is in the worker's hand, or there is none.
Delivering ==
  \/ work.at \in {"flush", "ask", "land", "refuge"}
  \/ work.at = "want" /\ work.how # "update"

\* The worker settles a card below which it has sent the reply, or tried to.
Below == work.at \in {"ask", "want", "land"} /\ work.how = "freeze"

\* Without a miss the run's texts are in its card's trace until the reply is
\* on its way.
Traced ==
  /\ ~work.tick
  /\ Unended => card # None
  /\ card # None => card.msg # 0 \/ work.at = "sending"
  /\ Delivering => buffer = None
  /\ Noted # {} => card # None /\ Noted \subseteq card.trace \cup
                     (IF work.at = "want" THEN work.adds ELSE {})
  /\ work.at \in {"flush", "ask", "want"} /\ Hand # {} => Shows(Hand)
  /\ work.at = "refuge" => Hand = {}
  /\ Below /\ work.keep => Hand = {}

NoMiss == home = "here" /\ misses = 0 => Orderly /\ Traced

\* A reply that could not be sent below the card stays in the trace.
Kept ==
  home = "here" /\ misses <= 1 /\ Below /\ work.keep /\ Hand # {} =>
    /\ ~work.tick
    /\ work.at \in {"ask", "want"} => Shows(Hand)
    /\ work.at = "land" => work.card.msg # 0 /\ Hand \subseteq work.card.trace

\* A reply that was sent below the card stands there.
Delivered == Below /\ ~work.keep => Hand \subseteq Shown("reply")

\* No more than one thing went wrong: every noted text has a place.
Covered ==
  home = "here" /\ misses <= 1 =>
    noted \subseteq Noted \cup Hand \cup Shown("reply") \cup Shown("unanswered") \cup Shown("receipt")

LossInv == NoMiss /\ Kept /\ Delivered

Inv == TypeOK /\ LockInv /\ TextInv /\ LossInv /\ Covered

-----------------------------------------------------------------------------
LEMMA NoneIsNone ==
  /\ None \notin CardState
  /\ None \notin SUBSET Run
  BY HubAssumption

\* What a patch leaves of the chat.
LEMMA Overwrite ==
  ASSUME NEW S, NEW s \in Seq(S), NEW e \in S, NEW n
  PROVE  /\ [s EXCEPT ![n] = e] \in Seq(S)
         /\ Len([s EXCEPT ![n] = e]) = Len(s)
         /\ \A m \in 1..Len(s) : [s EXCEPT ![n] = e][m] = IF m = n THEN e ELSE s[m]
<1>1. CASE n \in 1..Len(s)
  BY <1>1
<1>2. CASE n \notin 1..Len(s)
  <2>1. [s EXCEPT ![n] = e] = s
    BY <1>2
  <2> QED BY <1>2, <2>1
<1> QED BY <1>1, <1>2

\* Where a call writes.
Spot(msg) == IF msg = 0 THEN Len(chat) + 1 ELSE msg

\* What a call leaves, answered or not.
Wrote(msg, m) == UNCHANGED chat \/ \E w \in {m, Unanswered(m)} : chat' = Put(msg, w)

LEMMA CallsWrite ==
  ASSUME NEW msg, NEW m, Succeeds(msg, m) \/ Fails(msg, m)
  PROVE  Wrote(msg, m) /\ (misses' = misses \/ Miss)
  BY DEF Succeeds, Fails, Wrote

LEMMA UnansweredType ==
  ASSUME NEW m \in Messages
  PROVE  /\ Unanswered(m) \in Messages /\ Unanswered(m).texts = m.texts
         /\ m.kind # "reply" => Unanswered(m) = m
         /\ m.kind = "reply" => Unanswered(m).kind = "unanswered"
  BY DEF Unanswered, Message, Messages

\* A message of the chat after a call: the one it put there, or an earlier one.
LEMMA PutChat ==
  ASSUME chat \in Seq(Messages), NEW msg \in Nat, NEW w \in Messages, chat' = Put(msg, w)
  PROVE  /\ chat' \in Seq(Messages) /\ Len(chat) <= Len(chat') /\ Spot(msg) \in Nat
         /\ \A n \in DOMAIN chat : n # Spot(msg) => n \in DOMAIN chat' /\ chat'[n] = chat[n]
         /\ \A n \in DOMAIN chat' : n # Spot(msg) => n \in DOMAIN chat
         /\ Spot(msg) \in DOMAIN chat' => chat'[Spot(msg)] = w
         /\ msg = 0 \/ msg \in DOMAIN chat => Spot(msg) \in DOMAIN chat'
<1>1. CASE msg = 0
  BY <1>1 DEF Put, Spot
<1>2. CASE msg # 0
  <2>1. chat' = [chat EXCEPT ![msg] = w] /\ Spot(msg) = msg
    BY <1>2 DEF Put, Spot
  <2>2. /\ chat' \in Seq(Messages) /\ Len(chat') = Len(chat)
        /\ \A m \in 1..Len(chat) : chat'[m] = IF m = msg THEN w ELSE chat[m]
    BY <2>1, Overwrite
  <2>3. DOMAIN chat = 1..Len(chat) /\ DOMAIN chat' = 1..Len(chat)
    BY <2>2
  <2> QED BY <2>1, <2>2, <2>3
<1> QED BY <1>1, <1>2

LEMMA WroteType ==
  ASSUME chat \in Seq(Messages), NEW msg \in Nat, NEW m \in Messages, Wrote(msg, m)
  PROVE  chat' \in Seq(Messages)
  BY PutChat, UnansweredType DEF Wrote

\* A call for an open message keeps every message open, unless it settles its own.
LEMMA WroteOpen ==
  ASSUME chat \in Seq(Messages), NEW msg \in Nat, NEW m \in Messages, Wrote(msg, m), Open(msg)
  PROVE  /\ Len(chat) <= Len(chat')
         /\ \A n : Open(n) /\ (n = msg /\ n # 0 => m.kind \in {"live", "loose"}) => Open(n)'
<1>1. CASE UNCHANGED chat
  BY <1>1 DEF Open
<1>2. ASSUME NEW w \in {m, Unanswered(m)}, chat' = Put(msg, w)
      PROVE  /\ Len(chat) <= Len(chat')
             /\ \A n : Open(n) /\ (n = msg /\ n # 0 => m.kind \in {"live", "loose"}) => Open(n)'
  <2>1. w \in Messages /\ (m.kind \in {"live", "loose"} => w = m)
    BY <1>2, UnansweredType
  <2>2. /\ Len(chat) <= Len(chat')
        /\ \A n \in DOMAIN chat : n # Spot(msg) => n \in DOMAIN chat' /\ chat'[n] = chat[n]
        /\ Spot(msg) \in DOMAIN chat' => chat'[Spot(msg)] = w
        /\ msg = 0 \/ msg \in DOMAIN chat => Spot(msg) \in DOMAIN chat'
    BY <1>2, <2>1, PutChat
  <2>3. msg # 0 => msg \in DOMAIN chat
    BY DEF Open
  <2>4. msg = 0 => Spot(msg) \notin DOMAIN chat
    BY DEF Spot
  <2>5. msg # 0 => Spot(msg) = msg
    BY DEF Spot
  <2> QED BY <2>1, <2>2, <2>3, <2>4, <2>5 DEF Open
<1> QED BY <1>1, <1>2 DEF Wrote

\* The four ends of a try to send the reply.
LEMMA Tries ==
  ASSUME Flush \/ Refuge
  PROVE  /\ \/ ~HasText /\ UNCHANGED <<chat, misses>> /\ Onward(FALSE)
            \/ /\ HasText /\ chat' = Put(0, Reply) /\ UNCHANGED misses /\ Onward(TRUE)
            \/ /\ HasText /\ Fails(0, Reply)
               /\ \/ Onward(FALSE)
                  \/ ~work.plain /\ work' = [work EXCEPT !.plain = TRUE] /\ UNCHANGED flag
         /\ work.at \in {"flush", "refuge"} /\ UNCHANGED <<world, buffer, noted, cards, talk>>
  BY DEF Flush, Refuge, SendReply, Succeeds

\* Where it leaves the worker.
LEMMA OnwardWork ==
  ASSUME work \in Handling, NEW out \in BOOLEAN, Onward(out)
  PROVE  \/ /\ work.at = "flush" /\ work'.at = "ask" /\ work'.how = "freeze" /\ work'.keep = ~out
            /\ work'.hand = work.hand /\ work'.tick = work.tick /\ work'.plain = FALSE
            /\ work' \in Handling
            /\ UNCHANGED flag
         \/ work.at # "flush" /\ Done(buffer)
<1>1. (~out) \in BOOLEAN
  OBVIOUS
<1>2. CASE work.at = "flush"
  <2>1. work' = [work EXCEPT !.at = "ask", !.how = "freeze", !.keep = ~out, !.plain = FALSE]
        /\ UNCHANGED flag
    BY <1>2 DEF Onward, Freeze
  <2>2. work' \in Handling
    BY <1>1, <2>1 DEF Handling, Places
  <2> QED BY <1>2, <2>1, <2>2 DEF Handling
<1>3. CASE work.at # "flush"
  BY <1>3 DEF Onward
<1> QED BY <1>2, <1>3

LEMMA PlainWork ==
  ASSUME work \in Handling, work' = [work EXCEPT !.plain = TRUE]
  PROVE  /\ work' \in Handling /\ work'.at = work.at /\ work'.how = work.how
         /\ work'.hand = work.hand /\ work'.tick = work.tick /\ work'.keep = work.keep
         /\ work'.card = work.card /\ work'.lock = work.lock
  BY DEF Handling

LEMMA ReplyType ==
  ASSUME work \in Handling, HasText
  PROVE  Reply \in Messages /\ Reply.kind = "reply" /\ Reply.texts = work.hand
  BY DEF HasText, Handling, Reply, Message, Messages

LEMMA LiveType == Live \in Messages /\ Live.kind = "live" /\ Unanswered(Live) = Live
  BY DEF Live, Message, Messages, Unanswered

LEMMA RenderedType ==
  ASSUME work \in Handling, work.card \in CardState
  PROVE  /\ Rendered \in Messages /\ work.card.msg \in Nat
         /\ work.how = "morph" /\ HasText => Rendered = Reply
         /\ ~(work.how = "morph" /\ HasText) => Rendered.kind = "receipt"
<1>1. HasText => work.hand \in SUBSET Run
  BY DEF HasText, Handling
<1> QED BY <1>1 DEF Rendered, Message, Messages, Reply, CardState

LEMMA RestingType == Resting \in Handling /\ Off \in Heartbeat /\ Off \in Sweeper
<1>1. {} \in SUBSET Run /\ "idle" \in Places
  BY DEF Places
<1> QED BY <1>1 DEF Resting, Off, Handling, Heartbeat, Sweeper

LEMMA InitType == Init => TypeOK
<1> SUFFICES ASSUME Init PROVE TypeOK
  OBVIOUS
<1>0. /\ <<>> \in Seq(Events) /\ <<>> \in Seq(Messages)
      /\ {} \in SUBSET Run /\ 0 \in Run
  BY HubAssumption DEF Run
<1>1. AgentOK /\ QueuesOK
  <2>1. posts \in BOOLEAN /\ posting \in BOOLEAN
    BY Zenon DEF Init
  <2> QED BY <1>0, <2>1 DEF Init, AgentOK, QueuesOK
<1>2. ReplyOK /\ CardsOK
  <2>1. flag \in BOOLEAN
    BY Zenon DEF Init
  <2> QED BY <1>0, <2>1 DEF Init, ReplyOK, CardsOK
<1>3. WorkOK /\ BeatOK /\ SweepOK
  BY RestingType DEF Init, WorkOK, BeatOK, SweepOK, Resting, Off
<1> QED BY <1>1, <1>2, <1>3 DEF TypeOK

LEMMA MissType == misses \in Nat /\ Miss => misses' \in Nat
  BY DEF Miss

\* What the agent, the users and the operator do.
LEMMA OutsideType ==
  ASSUME TypeOK, Begin \/ Say \/ Stop \/ Rest \/ Die \/ Post \/ Leave \/ Forward
  PROVE  TypeOK'
<1> USE HubAssumption
<1>1. UNCHANGED others
  BY DEF Begin, Say, Stop, Rest, Die, Post, Leave, Forward
<1>2. ReplyOK' /\ CardsOK' /\ WorkOK' /\ BeatOK' /\ SweepOK'
  BY <1>1 DEF TypeOK, others, reply, cards, ReplyOK, CardsOK, WorkOK, BeatOK, SweepOK
<1>3. ASSUME NEW e \in Events, Emit(e)
      PROVE  rx' \in Seq(Events) /\ misses' \in Nat
  <2>1. rx \in Seq(Events) /\ misses \in Nat
    BY DEF TypeOK, QueuesOK, AgentOK
  <2>2. Append(rx, e) \in Seq(Events)
    BY <1>3, <2>1
  <2> QED BY <1>3, <2>1, <2>2, MissType DEF Emit
<1>4. AgentOK' /\ QueuesOK'
  <2>1. CASE Begin
    <3>1. run + 1 \in Run
      BY <2>1 DEF Begin, TypeOK, AgentOK, Run
    <3>2. /\ [kind |-> "running", run |-> run + 1] \in Events
          /\ [kind |-> "compacting", run |-> run + 1] \in Events
      BY <3>1 DEF Events, Kinds
    <3> QED BY <1>3, <2>1, <3>1, <3>2 DEF Begin, TypeOK, AgentOK, QueuesOK, talk
  <2>2. CASE Say \/ Stop
    <3>1. \A k \in Kinds : Event(k) \in Events
      BY DEF TypeOK, AgentOK, Event, Events
    <3> QED BY <1>3, <2>2, <3>1 DEF Say, Stop, TypeOK, AgentOK, QueuesOK, talk, agent, Kinds
  <2>3. CASE Rest \/ Die \/ Post \/ Leave
    <3>1. QueuesOK'
      BY <2>3 DEF Rest, Die, Post, Leave, TypeOK, QueuesOK, queues
    <3>2. misses' \in Nat
      BY <2>3, MissType DEF Rest, Die, Post, Leave, TypeOK, AgentOK
    <3>3. posts' \in BOOLEAN /\ posting' \in BOOLEAN
      BY <2>3, Zenon DEF Rest, Die, Post, Leave, TypeOK, AgentOK, talk
    <3>4. run' \in Run /\ home' \in {"here", "unrouted", "closed"}
          /\ phase' \in {"idle", "running", "compacting", "ending"}
      BY <2>3 DEF Rest, Die, Post, Leave, TypeOK, AgentOK, agent
    <3> QED BY <3>1, <3>2, <3>3, <3>4 DEF AgentOK
  <2>4. CASE Forward
    <3>1. rx \in Seq(Events) /\ rx # <<>> /\ jobs \in Seq(Events)
      BY <2>4 DEF Forward, TypeOK, QueuesOK
    <3>2. Tail(rx) \in Seq(Events) /\ Append(jobs, Head(rx)) \in Seq(Events)
      BY <3>1
    <3>3. QueuesOK'
      BY <2>4, <3>1, <3>2 DEF Forward, QueuesOK
    <3>4. misses' \in Nat
      BY <2>4, MissType DEF Forward, TypeOK, AgentOK
    <3> QED BY <2>4, <3>3, <3>4 DEF Forward, TypeOK, AgentOK, talk, agent
  <2> QED BY <2>1, <2>2, <2>3, <2>4
<1> QED BY <1>2, <1>4 DEF TypeOK

LEMMA NotedType == ReplyOK => Noted \in SUBSET Run
  BY DEF ReplyOK, Noted

\* Handling one event.
LEMMA PullType ==
  ASSUME TypeOK, Pull
  PROVE  TypeOK'
<1> DEFINE e == Head(jobs)
<1>1. e \in Events /\ jobs' \in Seq(Events)
  BY DEF Pull, TypeOK, QueuesOK
<1>2. /\ Handle(e)
      /\ UNCHANGED <<agent, rx, talk, beat, sweep, chat, home, misses>>
  BY DEF Pull
<1> HIDE DEF e
<1>3. AgentOK' /\ QueuesOK' /\ BeatOK' /\ SweepOK'
  BY <1>1, <1>2 DEF TypeOK, AgentOK, QueuesOK, BeatOK, SweepOK, agent, talk
<1>4. Noted \in SUBSET Run /\ e.run \in Run /\ {e.run} \in SUBSET Run
  BY <1>1, NotedType DEF TypeOK, Events
<1>5. ASSUME NEW buf, Done(buf)
      PROVE  WorkOK' /\ flag' \in BOOLEAN
  BY <1>5 DEF Done, WorkOK, Handling, Resting, Places
<1>6. ASSUME NEW how \in {"update", "compact"}, NEW texts \in SUBSET Run, NEW buf,
             Want(how, texts, buf)
      PROVE  WorkOK' /\ flag' \in BOOLEAN /\ UNCHANGED cards
  <2>1. CASE home = "closed" \/ card = None
    BY <1>5, <1>6, <2>1 DEF Want
  <2>2. CASE ~(home = "closed" \/ card = None)
    <3>1. card.lock \in Nat
      BY <2>2 DEF TypeOK, CardsOK, CardState
    <3>2. /\ work' = [Resting EXCEPT !.at = "want", !.how = how, !.lock = card.lock,
                                    !.adds = texts]
          /\ UNCHANGED <<flag, cards>>
      BY <1>6, <2>2 DEF Want
    <3>3. WorkOK'
      BY <1>6, <3>1, <3>2, RestingType DEF WorkOK, Handling, Places
    <3> QED BY <3>2, <3>3 DEF TypeOK, ReplyOK
  <2> QED BY <2>1, <2>2
<1>7. ASSUME NEW compact \in BOOLEAN, NEW buf, NewCard(compact, buf)
      PROVE  WorkOK' /\ flag' \in BOOLEAN /\ CardsOK'
  <2>1. CASE home = "closed" \/ card # None
    BY <1>2, <1>5, <1>7, <2>1 DEF NewCard, TypeOK, CardsOK
  <2>2. CASE ~(home = "closed" \/ card # None)
    <3>1. born + 1 \in Nat /\ {} \in SUBSET Run
      BY DEF TypeOK, CardsOK
    <3>2. [msg |-> 0, trace |-> {}, lock |-> born + 1, compact |-> compact] \in CardState
      BY <3>1, <1>7 DEF CardState
    <3>3. CardsOK'
      BY <1>2, <1>7, <2>2, <3>1, <3>2 DEF NewCard, TypeOK, CardsOK
    <3>4. flag' \in BOOLEAN
      BY <1>7, <2>2 DEF NewCard, TypeOK, ReplyOK
    <3>5. "sending" \in Places
      BY DEF Places
    <3>6. WorkOK'
      BY <1>7, <2>2, <3>5, RestingType DEF NewCard, WorkOK, Handling
    <3> QED BY <3>3, <3>4, <3>6
  <2> QED BY <2>1, <2>2
<1>8. ReplyOK' /\ CardsOK' /\ WorkOK'
  <2>0. UNCHANGED cards => CardsOK'
    BY <1>2 DEF TypeOK, CardsOK, cards
  <2>1. CASE e.kind = "running" /\ buffer' = Noted /\ NewCard(FALSE, Noted) /\ UNCHANGED noted
    BY <2>1, <1>4, <1>7 DEF TypeOK, ReplyOK
  <2>2. CASE /\ buffer' = Noted \cup {e.run}
             /\ noted' = noted \cup {e.run}
             /\ Want("update", {e.run}, Noted \cup {e.run})
    BY <2>0, <2>2, <1>4, <1>6 DEF TypeOK, ReplyOK
  <2>3. CASE /\ e.kind \in {"completed", "failed"}
             /\ work' = [Resting EXCEPT !.at = "settle", !.why = e.kind]
             /\ UNCHANGED <<reply, cards>>
    BY <2>0, <2>3 DEF TypeOK, ReplyOK, WorkOK, Handling, reply, Resting, Places
  <2>4. CASE UNCHANGED <<buffer, noted>> /\ NewCard(TRUE, buffer)
    BY <2>4, <1>7 DEF TypeOK, ReplyOK
  <2>5. CASE UNCHANGED <<buffer, noted>> /\ Want("update", {}, buffer)
    <3>1. {} \in SUBSET Run
      OBVIOUS
    <3> QED BY <2>0, <2>5, <3>1, <1>6 DEF TypeOK, ReplyOK
  <2>6. CASE UNCHANGED <<buffer, noted>> /\ Want("compact", {}, buffer)
    <3>1. {} \in SUBSET Run
      OBVIOUS
    <3> QED BY <2>0, <2>6, <3>1, <1>6 DEF TypeOK, ReplyOK
  <2>7. CASE UNCHANGED <<buffer, noted>> /\ Done(buffer) /\ UNCHANGED cards
    BY <2>0, <2>7, <1>5 DEF TypeOK, ReplyOK
  <2> QED BY <1>2, <2>1, <2>2, <2>3, <2>4, <2>5, <2>6, <2>7 DEF Handle
<1> QED BY <1>3, <1>8 DEF TypeOK

\* What the worker does with a job.
LEMMA WorkerType ==
  ASSUME TypeOK,
         Tick \/ SendCard \/ Update \/ PatchCard \/ Settle \/ Flush \/ Ask \/ Take
           \/ Land \/ Refuge
  PROVE  TypeOK'
<1> USE RestingType
<1>1. UNCHANGED world
  BY DEF Tick, SendCard, Update, PatchCard, Settle, Flush, Ask, Take, Land, Refuge
<1>2. QueuesOK' /\ BeatOK' /\ SweepOK'
  BY <1>1 DEF world, queues, TypeOK, QueuesOK, BeatOK, SweepOK
<1>3. misses' \in Nat
  <2>1. CASE Flush \/ Refuge
    BY <2>1, MissType, Tries, CallsWrite DEF TypeOK, AgentOK
  <2>2. CASE Tick \/ SendCard \/ Update \/ PatchCard \/ Settle \/ Ask \/ Take \/ Land
    BY <2>2, MissType DEF Tick, SendCard, Update, PatchCard, Settle, Ask, Take, Land,
       Patch, Succeeds, Fails, TypeOK, AgentOK
  <2> QED BY <2>1, <2>2
<1>4. posts' \in BOOLEAN /\ posting' \in BOOLEAN
  BY Zenon DEF Tick, SendCard, Update, PatchCard, Settle, Flush, Ask, Take, Land, Refuge,
     TypeOK, AgentOK, talk
<1>5. AgentOK'
  BY <1>1, <1>3, <1>4 DEF world, agent, TypeOK, AgentOK
<1>6. ReplyOK'
  <2>1. UNCHANGED noted /\ buffer' \in {buffer, None}
    BY DEF Tick, SendCard, Update, PatchCard, Settle, Flush, Ask, Take, Land, Refuge, reply
  <2>2. flag' = flag \/ flag' = (buffer # None) \/ flag' = (None # None)
    <3>1. CASE Flush \/ Refuge
      BY <3>1, Tries, Zenon DEF Onward, Freeze, Done
    <3>2. CASE Tick \/ SendCard \/ Update \/ PatchCard \/ Settle \/ Ask \/ Take \/ Land
      BY <3>2, Zenon DEF Tick, SendCard, Update, PatchCard, Settle, Ask, Take, Land,
         reply, Done, Stateless
    <3> QED BY <3>1, <3>2
  <2>3. flag' \in BOOLEAN
    BY <2>2, Zenon DEF TypeOK, ReplyOK
  <2> QED BY <2>1, <2>3 DEF TypeOK, ReplyOK
<1>7. CardsOK'
  <2>1. born' = born
    BY DEF Tick, SendCard, Update, PatchCard, Settle, Flush, Ask, Take, Land, Refuge, cards
  <2>2. locks' \in SUBSET Nat
    <3>1. \/ locks' = locks \/ locks' = locks \cup {work.lock} \/ locks' = locks \ {work.lock}
      BY DEF Tick, SendCard, Update, PatchCard, Settle, Flush, Ask, Take, Land, Refuge, cards
    <3>2. work.lock \in Nat
      BY DEF TypeOK, WorkOK, Handling
    <3> QED BY <3>1, <3>2 DEF TypeOK, CardsOK
  <2>3. card' \in {None} \cup CardState
    <3>1. CASE SendCard
      <4>1. Len(chat) + 1 \in Nat
        BY DEF TypeOK, CardsOK
      <4>2. card # None => [card EXCEPT !.msg = Len(chat) + 1] \in CardState
        BY <4>1 DEF TypeOK, CardsOK, CardState
      <4> QED BY <3>1, <4>2 DEF SendCard, TypeOK, CardsOK
    <3>2. CASE Update
      <4>1. work.adds \in SUBSET Run
        BY DEF TypeOK, WorkOK, Handling
      <4>2. card # None => [card EXCEPT !.trace = @ \cup work.adds] \in CardState
        BY <4>1 DEF TypeOK, CardsOK, CardState
      <4> QED BY <3>2, <4>2 DEF Update
    <3>3. CASE ~SendCard /\ ~Update
      BY <3>3 DEF Tick, PatchCard, Settle, Flush, Ask, Take, Land, Refuge, cards,
         TypeOK, CardsOK
    <3> QED BY <3>1, <3>2, <3>3
  <2>4. chat' \in Seq(Messages)
    <3>1. chat \in Seq(Messages)
      BY DEF TypeOK, CardsOK
    <3>2. ASSUME NEW msg \in Nat, NEW m \in Messages, Succeeds(msg, m) \/ Fails(msg, m)
          PROVE  chat' \in Seq(Messages)
      BY <3>1, <3>2, CallsWrite, WroteType
    <3>3. work \in Handling
      BY DEF TypeOK, WorkOK
    <3>7. CASE SendCard
      BY <3>7, <3>2, LiveType DEF SendCard
    <3>8. CASE PatchCard
      <4>1. work.card.msg \in Nat
        BY <3>8 DEF PatchCard, TypeOK, WorkOK, CardState
      <4> QED BY <3>8, <3>2, <4>1, LiveType DEF PatchCard, Patch
    <3>9. CASE Flush \/ Refuge
      <4>1. HasText => Reply \in Messages
        BY <3>3, ReplyType
      <4>2. chat' = Put(0, Reply) => Wrote(0, Reply)
        BY DEF Wrote
      <4> QED BY <3>1, <3>2, <3>9, <4>1, <4>2, Tries, WroteType
    <3>10. CASE Land
      <4>1. work.card \in CardState
        BY <3>10 DEF Land, TypeOK, WorkOK
      <4> QED BY <3>1, <3>2, <3>3, <3>10, <4>1, RenderedType DEF Land
    <3>12. CASE Tick \/ Update \/ Settle \/ Ask \/ Take
      BY <3>12, <3>1 DEF Tick, Update, Settle, Ask, Take
    <3> QED BY <3>7, <3>8, <3>9, <3>10, <3>12
  <2> QED BY <2>1, <2>2, <2>3, <2>4 DEF TypeOK, CardsOK
<1>8. WorkOK'
  <2>1. Resting \in Handling /\ Resting.at = "idle"
    BY DEF Resting
  <2>2. \A buf : Done(buf) => WorkOK'
    BY <2>1 DEF Done, WorkOK
  <2>3. work \in Handling
    BY DEF TypeOK, WorkOK
  <2>4. Stateless => WorkOK'
    BY <2>2, <2>3 DEF Stateless, WorkOK, Handling, Places
  <2>5. CASE Tick
    BY <2>5, <2>1 DEF Tick, WorkOK, Handling, Places
  <2>6. CASE SendCard \/ PatchCard
    BY <2>6, <2>2 DEF SendCard, PatchCard
  <2>7. CASE Update
    <3>1. card # None => card \in CardState
      BY DEF TypeOK, CardsOK
    <3> QED BY <2>7, <2>2, <2>3, <3>1 DEF Update, WorkOK, Handling, Places
  <2>8. CASE Settle
    BY <2>8, <2>2, <2>3 DEF Settle, WorkOK, Handling, Places, TypeOK, ReplyOK
  <2>9. CASE Flush \/ Refuge
    <3>1. work.at \in {"flush", "refuge"}
      BY <2>9, Tries
    <3>2. CASE \E out \in BOOLEAN : Onward(out)
      <4>1. PICK out \in BOOLEAN : Onward(out)
        BY <3>2
      <4>2. \/ work' \in Handling /\ work'.at = "ask"
            \/ Done(buffer)
        BY <2>3, <4>1, OnwardWork
      <4> QED BY <2>2, <4>2 DEF WorkOK
    <3>3. CASE work' = [work EXCEPT !.plain = TRUE]
      BY <2>3, <3>1, <3>3, PlainWork DEF WorkOK
    <3> QED BY <2>9, <3>2, <3>3, Tries
  <2>10. CASE Ask
    <3>1. card # None => card.lock \in Nat
      BY DEF TypeOK, CardsOK, CardState
    <3> QED BY <2>10, <2>3, <2>4, <3>1 DEF Ask, WorkOK, Handling, Places
  <2>11. CASE Take
    <3>1. card # None => card \in CardState
      BY DEF TypeOK, CardsOK
    <3> QED BY <2>11, <2>3, <2>4, <3>1 DEF Take, WorkOK, Handling, Places
  <2>12. CASE Land
    BY <2>12, <2>2, <2>4 DEF Land
  <2> QED BY <2>5, <2>6, <2>7, <2>8, <2>9, <2>10, <2>11, <2>12
<1> QED BY <1>2, <1>5, <1>6, <1>7, <1>8 DEF TypeOK

\* What the heartbeat and the sweep do.
LEMMA AsideType ==
  ASSUME TypeOK,
         BeatPick \/ BeatLock \/ BeatPatch
           \/ SweepLook \/ SweepJudge \/ SweepAsk \/ SweepTake \/ SweepLand
  PROVE  TypeOK'
<1> USE RestingType
<1>1. UNCHANGED around
  BY DEF BeatPick, BeatLock, BeatPatch, SweepLook, SweepJudge, SweepAsk, SweepTake, SweepLand
<1>2. QueuesOK' /\ ReplyOK' /\ WorkOK'
  BY <1>1 DEF around, queues, reply, TypeOK, QueuesOK, ReplyOK, WorkOK
<1>3. misses' \in Nat
  BY MissType DEF BeatPick, BeatLock, BeatPatch, SweepLook, SweepJudge, SweepAsk, SweepTake,
     SweepLand, Patch, Succeeds, Fails, TypeOK, AgentOK
<1>4. posts' \in BOOLEAN
  BY Zenon DEF BeatPick, BeatLock, BeatPatch, SweepLook, SweepJudge, SweepAsk, SweepTake,
     SweepLand, TypeOK, AgentOK
<1>5. AgentOK'
  BY <1>1, <1>3, <1>4 DEF around, agent, TypeOK, AgentOK
<1>6. card # None => card \in CardState /\ card.lock \in Nat /\ card.msg \in Nat
  BY DEF TypeOK, CardsOK, CardState
<1>7. beat \in Heartbeat /\ sweep \in Sweeper
  BY DEF TypeOK, BeatOK, SweepOK
<1>8. BeatOK'
  BY <1>6, <1>7 DEF BeatPick, BeatLock, BeatPatch, SweepLook, SweepJudge, SweepAsk, SweepTake,
     SweepLand, BeatOK, Heartbeat, Off
<1>9. SweepOK'
  <2>1. CASE SweepLook \/ SweepJudge \/ SweepAsk \/ SweepLand
    BY <2>1, <1>6 DEF SweepLook, SweepJudge, SweepAsk, SweepLand, SweepOK, Sweeper, Off
  <2>2. CASE SweepTake
    BY <2>2, <1>6, <1>7 DEF SweepTake, SweepOK, Sweeper, Off
  <2>3. CASE BeatPick \/ BeatLock \/ BeatPatch
    BY <2>3 DEF BeatPick, BeatLock, BeatPatch, TypeOK, SweepOK
  <2> QED BY <2>1, <2>2, <2>3
<1>10. CardsOK'
  <2>1. card' \in {None} \cup CardState /\ born' \in Nat
    BY <1>1 DEF BeatPick, BeatLock, BeatPatch, SweepLook, SweepJudge, SweepAsk, SweepTake,
       SweepLand, TypeOK, CardsOK, around
  <2>2. locks' \in SUBSET Nat
    BY <1>7 DEF BeatPick, BeatLock, BeatPatch, SweepLook, SweepJudge, SweepAsk, SweepTake,
       SweepLand, TypeOK, CardsOK, Heartbeat, Sweeper
  <2>3. chat \in Seq(Messages)
    BY DEF TypeOK, CardsOK
  <2>4. ASSUME NEW n \in Nat, NEW m \in Messages, Patch(n, m)
        PROVE  chat' \in Seq(Messages)
    BY <2>3, <2>4, CallsWrite, WroteType DEF Patch
  <2>5. chat' \in Seq(Messages)
    <3>1. CASE BeatPatch
      BY <3>1, <2>4, <1>7, LiveType DEF BeatPatch, Heartbeat
    <3>2. CASE SweepLand
      <4>1. sweep.card.msg \in Nat /\ sweep.card.trace \in SUBSET Run
        BY <3>2 DEF SweepLand, TypeOK, SweepOK, CardState
      <4>2. Message(Frozen, sweep.card.trace) \in Messages
        BY <4>1 DEF Frozen, Message, Messages
      <4> QED BY <3>2, <4>1, <4>2, <2>3, <2>4 DEF SweepLand
    <3>3. CASE ~BeatPatch /\ ~SweepLand
      BY <3>3, <2>3 DEF BeatPick, BeatLock, SweepLook, SweepJudge, SweepAsk, SweepTake
    <3> QED BY <3>1, <3>2, <3>3
  <2> QED BY <2>1, <2>2, <2>5 DEF CardsOK
<1> QED BY <1>2, <1>5, <1>8, <1>9, <1>10 DEF TypeOK

LEMMA TypeNext == TypeOK /\ [Next]_vars => TypeOK'
<1> SUFFICES ASSUME TypeOK, [Next]_vars PROVE TypeOK'
  OBVIOUS
<1>1. CASE UNCHANGED vars
  BY <1>1 DEF vars, agent, queues, reply, cards, talk, TypeOK, AgentOK, QueuesOK, ReplyOK,
     CardsOK, WorkOK, BeatOK, SweepOK
<1>2. CASE Next
  BY <1>2, OutsideType, PullType, WorkerType, AsideType DEF Next
<1> QED BY <1>1, <1>2

\* Every state of the hub's delivery has the types of the code.
THEOREM TypeCorrect == Spec => []TypeOK
  BY InitType, TypeNext, PTL DEF Spec

-----------------------------------------------------------------------------
(***************************************************************************)
(* Locks and messages.                                                     *)
(***************************************************************************)
LEMMA InitLocks == Init => LockInv
  BY DEF Init, LockInv, LocksHeld, WorkersCard, Owners, StillOpen, Working, Beating, Sweeping,
     Resting, Off

LEMMA OutsideLocks ==
  ASSUME LockInv, UNCHANGED others
  PROVE  LockInv'
  BY DEF others, cards, LockInv, LocksHeld, WorkersCard, Owners, StillOpen, Working, Beating,
     Sweeping, Same, Apart, Open

\* What handling an event does to the card: nothing, or a new state that has
\* a new lock and no message.
LEMMA PullCards ==
  ASSUME TypeOK, Pull
  PROVE  /\ UNCHANGED <<locks, beat, sweep, chat, home, misses>> /\ work.at = "idle"
         /\ \/ UNCHANGED cards /\ work'.at \in {"idle", "settle"}
            \/ /\ UNCHANGED cards
               /\ work'.at = "want" /\ card # None /\ work'.lock = card.lock
            \/ /\ card = None /\ born' = born + 1 /\ work'.at = "sending"
               /\ card'.msg = 0 /\ card'.lock = born + 1 /\ card'.trace = {}
               /\ card' # None
<1> DEFINE e == Head(jobs)
<1>1. /\ Handle(e) /\ work.at = "idle"
      /\ UNCHANGED <<agent, rx, talk, beat, sweep, chat, home, misses>>
  BY DEF Pull
<1> HIDE DEF e
<1>2. \A buf : Done(buf) => work'.at = "idle"
  BY DEF Done, Resting
<1>3. \A how, texts, buf : Want(how, texts, buf) =>
        /\ UNCHANGED cards
        /\ \/ work'.at = "idle"
           \/ work'.at = "want" /\ card # None /\ work'.lock = card.lock
  BY <1>2 DEF Want, Resting
<1>4. ASSUME NEW compact \in BOOLEAN, NEW buf, NewCard(compact, buf)
      PROVE  \/ UNCHANGED cards /\ work'.at = "idle"
             \/ /\ card = None /\ born' = born + 1 /\ work'.at = "sending" /\ locks' = locks
                /\ card'.msg = 0 /\ card'.lock = born + 1 /\ card'.trace = {}
                /\ card' # None
  <2>1. CASE home = "closed" \/ card # None
    BY <1>2, <1>4, <2>1 DEF NewCard, cards
  <2>2. CASE ~(home = "closed" \/ card # None)
    <3>1. card' = [msg |-> 0, trace |-> {}, lock |-> born + 1, compact |-> compact]
      BY <1>4, <2>2 DEF NewCard
    <3>2. card' \in CardState
      BY <3>1, <1>4 DEF TypeOK, CardsOK, CardState
    <3> QED BY <1>4, <2>2, <3>1, <3>2, NoneIsNone DEF NewCard, Resting
  <2> QED BY <2>1, <2>2
<1>5. \/ \E how, texts, buf : Want(how, texts, buf)
      \/ \E compact \in BOOLEAN : \E buf : NewCard(compact, buf)
      \/ \E buf : Done(buf) /\ UNCHANGED cards
      \/ work'.at = "settle" /\ UNCHANGED cards
  BY <1>1 DEF Handle, Resting
<1>6. UNCHANGED locks
  BY <1>1 DEF Handle, Want, NewCard, cards
<1> QED BY <1>1, <1>2, <1>3, <1>4, <1>5, <1>6

LEMMA PullLocks ==
  ASSUME TypeOK, LockInv, Pull
  PROVE  LockInv'
<1>1. /\ UNCHANGED <<locks, beat, sweep, chat, home, misses>> /\ work.at = "idle"
      /\ \/ UNCHANGED cards /\ work'.at \in {"idle", "settle"}
         \/ /\ UNCHANGED cards
            /\ work'.at = "want" /\ card # None /\ work'.lock = card.lock
         \/ /\ card = None /\ born' = born + 1 /\ work'.at = "sending"
            /\ card'.msg = 0 /\ card'.lock = born + 1 /\ card'.trace = {}
            /\ card' # None
  BY PullCards
<1>2. born \in Nat /\ Len(chat) \in Nat
  BY DEF TypeOK, CardsOK
<1>3. Sweeping => sweep.card.lock \in Nat
  BY DEF Sweeping, TypeOK, SweepOK, CardState
<1>4. LocksHeld'
  BY <1>1 DEF LockInv, LocksHeld, Working, Beating, Sweeping, cards
<1>5. WorkersCard'
  BY <1>1, <1>2 DEF LockInv, WorkersCard, Owners, Working, cards
<1>6. Owners'
  BY <1>1, <1>2, <1>3 DEF LockInv, Owners, Working, Sweeping, Same, Apart, cards
<1>7. StillOpen'
  BY <1>1 DEF LockInv, StillOpen, Open, Working, Beating, Sweeping, cards
<1> QED BY <1>4, <1>5, <1>6, <1>7 DEF LockInv

LEMMA WorkerLocks ==
  ASSUME TypeOK, LockInv,
         Tick \/ SendCard \/ Update \/ PatchCard \/ Settle \/ Flush \/ Ask \/ Take
           \/ Land \/ Refuge
  PROVE  LockInv'
<1>1. UNCHANGED <<beat, sweep, born>>
  BY DEF Tick, SendCard, Update, PatchCard, Settle, Flush, Ask, Take, Land, Refuge, world, cards
<1>2. \A buf : Done(buf) => work'.at = "idle"
  BY DEF Done, Resting
<1>3. work \in Handling /\ beat \in Heartbeat /\ sweep \in Sweeper
  BY DEF TypeOK, WorkOK, BeatOK, SweepOK
<1>4. Stateless => work'.at \in {"idle", "refuge"}
  BY <1>2, <1>3 DEF Stateless, Handling
<1>5. /\ born \in Nat /\ Len(chat) \in Nat
      /\ card # None => card.lock \in Nat /\ card.msg \in Nat
      /\ Sweeping => sweep.card.lock \in Nat /\ sweep.card.msg \in Nat
      /\ Working => work.card.lock \in Nat /\ work.card.msg \in Nat
  BY DEF TypeOK, CardsOK, CardState, Sweeping, SweepOK, Working, WorkOK
<1>6. CASE Tick
  <2>1. work'.at = "settle" /\ UNCHANGED <<cards, chat>>
    BY <1>6 DEF Tick, Resting
  <2> QED BY <2>1, <1>1 DEF LockInv, LocksHeld, WorkersCard, Owners, StillOpen, Working,
             Beating, Sweeping, Open, Same, Apart, cards
<1>7. CASE SendCard
  <2>1. work.at = "sending" /\ work'.at = "idle" /\ locks' = locks
    BY <1>7, <1>2 DEF SendCard
  <2>2. chat \in Seq(Messages) /\ Open(0)
    BY DEF TypeOK, CardsOK, Open
  <2>3. Len(chat) <= Len(chat') /\ \A n : Open(n) => Open(n)'
    BY <1>7, <2>2, CallsWrite, WroteOpen, LiveType DEF SendCard
  <2>4. Len(chat') \in Nat
    BY TypeNext DEF Next, TypeOK, CardsOK
  <2>5. LocksHeld'
    BY <2>1, <1>1 DEF LockInv, LocksHeld, Working, Beating, Sweeping
  <2>6. WorkersCard'
    BY <2>1 DEF WorkersCard, Working
  <2>7. CASE UNCHANGED card
    <3>1. Owners'
      BY <2>1, <2>3, <2>4, <2>7, <1>1, <1>3, <1>5
      DEF LockInv, Owners, Working, Sweeping, Same, Apart, Heartbeat
    <3>2. StillOpen'
      BY <2>1, <2>3, <2>7, <1>1 DEF LockInv, StillOpen, Working, Beating, Sweeping
    <3> QED BY <2>5, <2>6, <3>1, <3>2 DEF LockInv
  <2>8. CASE ~UNCHANGED card
    <3>1. /\ chat' = Put(0, Live) /\ card # None
          /\ card' = [card EXCEPT !.msg = Len(chat) + 1]
      BY <1>7, <2>8 DEF SendCard, Succeeds
    <3>2. card'.msg = Len(chat) + 1 /\ card'.lock = card.lock
      BY <3>1 DEF TypeOK, CardsOK, CardState
    <3>3. /\ Len(chat) + 1 \in DOMAIN chat' /\ chat'[Len(chat) + 1] = Live
          /\ Len(chat') = Len(chat) + 1
      BY <2>2, <3>1, LiveType DEF Put
    <3>4. Owners'
      BY <2>1, <3>1, <3>2, <3>3, <1>1, <1>3, <1>5
      DEF LockInv, Owners, Working, Sweeping, Same, Apart, Heartbeat
    <3>5. StillOpen'
      BY <2>1, <2>3, <3>1, <3>2, <3>3, <1>1, LiveType
      DEF LockInv, StillOpen, Working, Beating, Sweeping, Open
    <3> QED BY <2>5, <2>6, <3>4, <3>5 DEF LockInv
  <2> QED BY <2>7, <2>8
<1>8. CASE Update
  <2>1. /\ work.at = "want" /\ work.lock \notin locks /\ UNCHANGED chat
        /\ card = None => card' = None
        /\ card # None => card' = [card EXCEPT !.trace = @ \cup work.adds]
    BY <1>8 DEF Update
  <2>2. card # None => card'.msg = card.msg /\ card'.lock = card.lock /\ card' # None
    <3>1. work.adds \in SUBSET Run
      BY <1>3 DEF Handling
    <3>2. card # None => card' \in CardState
      BY <2>1, <3>1 DEF TypeOK, CardsOK, CardState
    <3> QED BY <2>1, <3>2, NoneIsNone DEF TypeOK, CardsOK, CardState
  <2>3. CASE work'.at = "idle" /\ UNCHANGED locks
    BY <2>1, <2>2, <2>3, <1>1, <1>5 DEF LockInv, LocksHeld, WorkersCard, Owners, StillOpen,
       Working, Beating, Sweeping, Open, Same, Apart
  <2>4. CASE /\ card # None /\ card.msg # 0
             /\ work' = [work EXCEPT !.at = "patching", !.card = card]
             /\ locks' = locks \cup {work.lock}
    <3>1. work'.at = "patching" /\ work'.card = card /\ work'.lock = work.lock
      BY <2>4, <1>3 DEF Handling
    <3>2. LocksHeld'
      BY <2>1, <2>4, <3>1, <1>1 DEF LockInv, LocksHeld, Working, Beating, Sweeping
    <3>3. WorkersCard'
      BY <2>1, <2>2, <2>4, <3>1, <1>1 DEF LockInv, WorkersCard, Working
    <3>4. Owners'
      BY <2>1, <2>2, <2>4, <3>1, <1>1, <1>3, <1>5
      DEF LockInv, Owners, Working, Sweeping, Same, Apart, Heartbeat
    <3>5. StillOpen'
      BY <2>1, <2>2, <2>4, <3>1, <1>1 DEF LockInv, StillOpen, Working, Beating, Sweeping, Open
    <3> QED BY <3>2, <3>3, <3>4, <3>5 DEF LockInv
  <2> QED BY <1>8, <1>2, <2>3, <2>4 DEF Update
<1>9. CASE PatchCard
  <2>1. /\ work.at = "patching" /\ work'.at = "idle" /\ card' = card
        /\ locks' = locks \ {work.lock}
    BY <1>9, <1>2 DEF PatchCard
  <2>2. work.card.msg \in DOMAIN chat /\ Working
    BY <2>1 DEF LockInv, StillOpen, WorkersCard, Working, Open
  <2>3. chat \in Seq(Messages) /\ Open(work.card.msg)
    BY <2>2 DEF TypeOK, CardsOK, LockInv, StillOpen
  <2>4. /\ Len(chat) <= Len(chat')
        /\ \A m : Open(m) => Open(m)'
    BY <1>9, <2>2, <2>3, <1>5, CallsWrite, WroteOpen, LiveType DEF PatchCard, Patch
  <2>5. LocksHeld'
    BY <2>1, <2>2, <1>1 DEF LockInv, LocksHeld, Working, Beating, Sweeping
  <2>6. WorkersCard'
    BY <2>1, <1>1 DEF WorkersCard, Working
  <2>7. Len(chat') \in Nat
    BY TypeNext DEF Next, TypeOK, CardsOK
  <2>8. Owners'
    BY <2>1, <2>4, <2>7, <1>1, <1>3, <1>5 DEF LockInv, Owners, Working, Sweeping, Same, Apart, Heartbeat
  <2>9. StillOpen'
    BY <2>1, <2>4, <1>1 DEF LockInv, StillOpen, Working, Beating, Sweeping
  <2> QED BY <2>5, <2>6, <2>8, <2>9 DEF LockInv
<1>10. CASE Settle \/ Ask
  <2>1. work.at \in {"settle", "ask"} /\ UNCHANGED <<cards, chat>>
    BY <1>10 DEF Settle, Ask, cards
  <2>2. \/ work'.at \in {"idle", "flush", "ask", "refuge"}
        \/ work'.at = "want" /\ card # None /\ work'.lock = card.lock
    BY <1>10, <1>2, <1>3, <1>4 DEF Settle, Ask, Handling
  <2> QED BY <2>1, <2>2, <1>1 DEF LockInv, LocksHeld, WorkersCard, Owners, StillOpen, Working,
             Beating, Sweeping, Open, Same, Apart, cards
<1>11. CASE Flush \/ Refuge
  <2>1. work.at \in {"flush", "refuge"} /\ UNCHANGED cards
        /\ work'.at \in {"ask", "idle", "flush", "refuge"}
    BY <1>2, <1>3, <1>11, Tries, OnwardWork, PlainWork
  <2>2. Wrote(0, Reply) /\ (~UNCHANGED chat => HasText)
    BY <1>11, Tries, CallsWrite DEF Wrote
  <2>3. /\ Len(chat) <= Len(chat')
        /\ \A m : Open(m) => Open(m)'
    <3>1. chat \in Seq(Messages) /\ Open(0)
      BY DEF TypeOK, CardsOK, Open
    <3>2. CASE UNCHANGED chat
      BY <3>2, <1>5 DEF Open
    <3>3. CASE HasText
      BY <2>2, <3>1, <3>3, <1>3, ReplyType, WroteOpen
    <3> QED BY <2>2, <3>2, <3>3
  <2>4. LocksHeld' /\ WorkersCard'
    BY <2>1, <1>1 DEF LockInv, LocksHeld, WorkersCard, Working, Beating, Sweeping, cards
  <2>5. Len(chat') \in Nat
    BY TypeNext DEF Next, TypeOK, CardsOK
  <2>6. Owners'
    BY <2>1, <2>3, <2>5, <1>1, <1>3, <1>5
    DEF LockInv, Owners, Working, Sweeping, Same, Apart, Heartbeat, cards
  <2>7. StillOpen'
    BY <2>1, <2>3, <1>1 DEF LockInv, StillOpen, Working, Beating, Sweeping, cards
  <2> QED BY <2>4, <2>6, <2>7 DEF LockInv
<1>12. CASE Take
  <2>1. work.at = "want" /\ work.lock \notin locks /\ UNCHANGED chat
    BY <1>12 DEF Take
  <2>2. CASE Stateless /\ UNCHANGED <<card, locks>>
    BY <2>1, <2>2, <1>1, <1>4 DEF LockInv, LocksHeld, WorkersCard, Owners, StillOpen, Working,
       Beating, Sweeping, Open, Same, Apart
  <2>3. CASE /\ card # None
             /\ card' = None
             /\ locks' = locks \cup {work.lock}
             /\ work' = [work EXCEPT !.at = "land", !.card = card]
    <3>1. work'.at = "land" /\ work'.card = card /\ work'.lock = work.lock
      BY <2>3, <1>3 DEF Handling
    <3>2. LocksHeld'
      BY <2>1, <2>3, <3>1, <1>1 DEF LockInv, LocksHeld, Working, Beating, Sweeping
    <3>3. WorkersCard'
      BY <2>1, <2>3, <3>1, <1>1 DEF LockInv, WorkersCard, Working
    <3>4. Owners'
      BY <2>1, <2>3, <3>1, <1>1, <1>3, <1>5
      DEF LockInv, Owners, Working, Sweeping, Same, Apart, Heartbeat
    <3>5. StillOpen'
      BY <2>1, <2>3, <3>1, <1>1 DEF LockInv, StillOpen, Working, Beating, Sweeping, Open
    <3> QED BY <3>2, <3>3, <3>4, <3>5 DEF LockInv
  <2> QED BY <1>12, <2>2, <2>3 DEF Take
<1>13. CASE Land
  <2>1. /\ work.at = "land" /\ Working /\ work'.at \in {"idle", "refuge"}
        /\ locks' = locks \ {work.lock} /\ card' = card /\ card = None
    BY <1>13, <1>2, <1>4 DEF Land, LockInv, WorkersCard, Working
  <2>2. /\ chat \in Seq(Messages) /\ Open(work.card.msg) /\ Rendered \in Messages
        /\ work.card.msg \in Nat
    BY <2>1, <1>3, RenderedType DEF TypeOK, CardsOK, WorkOK, LockInv, StillOpen
  <2>3. Len(chat') \in Nat
    BY TypeNext DEF Next, TypeOK, CardsOK
  <2>4. /\ Len(chat) <= Len(chat')
        /\ \A m : Open(m) /\ (m = work.card.msg => m = 0) => Open(m)'
    <3>1. CASE UNCHANGED chat
      BY <3>1, <1>5 DEF Open
    <3>2. CASE ~UNCHANGED chat
      <4>1. Wrote(work.card.msg, Rendered)
        BY <1>13, <3>2, CallsWrite DEF Land
      <4> QED BY <2>2, <4>1, WroteOpen
    <3> QED BY <3>1, <3>2
  <2>5. LocksHeld'
    BY <2>1, <1>1 DEF LockInv, LocksHeld, Working, Beating, Sweeping
  <2>6. WorkersCard'
    BY <2>1, <1>1 DEF WorkersCard, Working
  <2>7. Owners'
    BY <2>1, <2>3, <2>4, <1>1, <1>3, <1>5
    DEF LockInv, Owners, Working, Sweeping, Same, Apart, Heartbeat
  <2>8. Beating => Open(beat.msg)'
    <3> SUFFICES ASSUME Beating PROVE Open(beat.msg)'
      OBVIOUS
    <3>1. beat.msg # work.card.msg /\ Open(beat.msg)
      BY <2>1 DEF LockInv, LocksHeld, WorkersCard, Owners, StillOpen, Same, Beating
    <3>2. Open(beat.msg) /\ (beat.msg = work.card.msg => beat.msg = 0) => Open(beat.msg)'
      BY <2>4, <1>1 DEF Open
    <3> QED BY <3>1, <3>2
  <2>9. Sweeping => Open(sweep.card.msg)'
    <3> SUFFICES ASSUME Sweeping PROVE Open(sweep.card.msg)'
      OBVIOUS
    <3>1. /\ sweep.card.msg = work.card.msg => sweep.card.msg = 0
          /\ Open(sweep.card.msg)
      BY <2>1 DEF LockInv, Owners, StillOpen, Apart
    <3>2. Open(sweep.card.msg) /\ (sweep.card.msg = work.card.msg => sweep.card.msg = 0)
            => Open(sweep.card.msg)'
      BY <2>4, <1>1 DEF Open
    <3> QED BY <3>1, <3>2
  <2>10. StillOpen'
    BY <2>1, <2>8, <2>9, <1>1 DEF StillOpen, Working, Beating, Sweeping
  <2> QED BY <2>5, <2>6, <2>7, <2>10 DEF LockInv
<1> QED BY <1>6, <1>7, <1>8, <1>9, <1>10, <1>11, <1>12, <1>13

LEMMA AsideLocks ==
  ASSUME TypeOK, LockInv,
         BeatPick \/ BeatLock \/ BeatPatch
           \/ SweepLook \/ SweepJudge \/ SweepAsk \/ SweepTake \/ SweepLand
  PROVE  LockInv'
<1>1. work' = work /\ born' = born
  BY DEF BeatPick, BeatLock, BeatPatch, SweepLook, SweepJudge, SweepAsk, SweepTake, SweepLand,
     around
<1>2. work \in Handling /\ beat \in Heartbeat /\ sweep \in Sweeper
  BY DEF TypeOK, WorkOK, BeatOK, SweepOK
<1>3. /\ born \in Nat /\ Len(chat) \in Nat
      /\ card # None => card.lock \in Nat /\ card.msg \in Nat
      /\ Sweeping => sweep.card.lock \in Nat /\ sweep.card.msg \in Nat
      /\ Working => work.card.lock \in Nat /\ work.card.msg \in Nat
  BY DEF TypeOK, CardsOK, CardState, Sweeping, SweepOK, Working, WorkOK
<1>4. Len(chat') \in Nat
  BY TypeNext DEF Next, TypeOK, CardsOK
<1>5. ASSUME NEW msg \in Nat, NEW m \in Messages, Patch(msg, m), Open(msg)
      PROVE  /\ Len(chat) <= Len(chat')
             /\ \A n : Open(n) /\ (n = msg /\ n # 0 => m.kind \in {"live", "loose"}) => Open(n)'
  <2>1. chat \in Seq(Messages) /\ Wrote(msg, m)
    BY <1>5, CallsWrite DEF TypeOK, CardsOK, Patch
  <2> QED BY <1>5, <2>1, WroteOpen
<1>6. CASE BeatPick
  <2>1. /\ beat'.at = "want" /\ beat'.lock = card.lock /\ beat'.msg = card.msg
        /\ card # None /\ card.msg # 0 /\ UNCHANGED <<card, locks, sweep, chat>>
    BY <1>6 DEF BeatPick, Off
  <2>2. LocksHeld' /\ WorkersCard' /\ StillOpen'
    BY <2>1, <1>1 DEF LockInv, LocksHeld, WorkersCard, StillOpen, Working, Beating, Sweeping, Open
  <2>3. Owners'
    BY <2>1, <1>1, <1>3 DEF LockInv, WorkersCard, Owners, Working, Beating, Sweeping, Same, Apart
  <2> QED BY <2>2, <2>3 DEF LockInv
<1>7. CASE BeatLock
  <2>1. CASE beat' = Off /\ UNCHANGED locks
    BY <1>7, <2>1, <1>1 DEF BeatLock, Off, LockInv, LocksHeld, WorkersCard, Owners, StillOpen,
       Working, Beating, Sweeping, Open, Same, Apart
  <2>2. CASE /\ StillThere
             /\ beat' = [beat EXCEPT !.at = "patching"]
             /\ locks' = locks \cup {beat.lock}
    <3>1. /\ beat'.at = "patching" /\ beat'.lock = beat.lock /\ beat'.msg = beat.msg
          /\ beat.at = "want" /\ beat.lock \notin locks /\ UNCHANGED <<card, sweep, chat>>
      BY <1>7, <2>2, <1>2 DEF BeatLock, Heartbeat
    <3>2. LocksHeld' /\ WorkersCard'
      BY <2>2, <3>1, <1>1 DEF LockInv, LocksHeld, WorkersCard, Working, Beating, Sweeping
    <3>3. Owners'
      BY <3>1, <1>1 DEF LockInv, Owners, Working, Sweeping, Same, Apart
    <3>4. StillOpen'
      BY <2>2, <3>1, <1>1 DEF LockInv, StillOpen, StillThere, Working, Beating, Sweeping, Open
    <3> QED BY <3>2, <3>3, <3>4 DEF LockInv
  <2> QED BY <1>7, <2>1, <2>2 DEF BeatLock
<1>8. CASE BeatPatch
  <2>1. /\ beat.at = "patching" /\ beat'.at = "off" /\ UNCHANGED <<card, sweep>>
        /\ locks' = locks \ {beat.lock} /\ Patch(beat.msg, Live)
    BY <1>8 DEF BeatPatch, Off
  <2>2. Open(beat.msg) /\ beat.msg \in Nat
    BY <2>1, <1>2 DEF LockInv, StillOpen, Beating, Heartbeat
  <2>3. Len(chat) <= Len(chat') /\ \A n : Open(n) => Open(n)'
    BY <2>1, <2>2, <1>5, LiveType
  <2>4. LocksHeld' /\ WorkersCard'
    BY <2>1, <1>1 DEF LockInv, LocksHeld, WorkersCard, Working, Beating, Sweeping
  <2>5. Owners'
    BY <2>1, <2>3, <1>1, <1>3, <1>4 DEF LockInv, Owners, Working, Sweeping, Same, Apart
  <2>6. StillOpen'
    BY <2>1, <2>3, <1>1 DEF LockInv, StillOpen, Working, Beating, Sweeping
  <2> QED BY <2>4, <2>5, <2>6 DEF LockInv
<1>9. CASE SweepLook \/ SweepJudge \/ SweepAsk
  <2>1. /\ sweep.at # "land" /\ sweep'.at # "land" /\ UNCHANGED <<card, locks, beat, chat>>
    <3>1. CASE SweepLook \/ SweepJudge
      BY <3>1 DEF SweepLook, SweepJudge, Off
    <3>2. CASE SweepAsk
      BY <3>2 DEF SweepAsk, Off
    <3> QED BY <1>9, <3>1, <3>2
  <2> QED BY <2>1, <1>1 DEF LockInv, LocksHeld, WorkersCard, Owners, StillOpen, Working,
             Beating, Sweeping, Open, Same, Apart
<1>10. CASE SweepTake
  <2>1. /\ sweep.at = "want" /\ sweep.lock \notin locks /\ card' = None
        /\ UNCHANGED <<beat, chat>>
    BY <1>10 DEF SweepTake
  <2>2. CASE card = None
    <3>1. sweep'.at = "off" /\ UNCHANGED locks
      BY <1>10, <2>2 DEF SweepTake, Off
    <3> QED BY <2>1, <2>2, <3>1, <1>1 DEF LockInv, LocksHeld, WorkersCard, Owners, StillOpen,
               Working, Beating, Sweeping, Open, Same, Apart
  <2>3. CASE card # None
    <3>1. /\ sweep'.at = "land" /\ sweep'.card = card /\ sweep'.lock = sweep.lock
          /\ locks' = locks \cup {sweep.lock}
      BY <1>10, <2>3, <1>2 DEF SweepTake, Sweeper
    <3>2. LocksHeld' /\ WorkersCard'
      BY <2>1, <2>3, <3>1, <1>1 DEF LockInv, LocksHeld, WorkersCard, Working, Beating, Sweeping
    <3>3. Owners'
      BY <2>1, <2>3, <3>1, <1>1, <1>3
      DEF LockInv, WorkersCard, Owners, Working, Sweeping, Same, Apart
    <3>4. StillOpen'
      BY <2>1, <2>3, <3>1, <1>1 DEF LockInv, StillOpen, Working, Beating, Sweeping, Open
    <3> QED BY <3>2, <3>3, <3>4 DEF LockInv
  <2> QED BY <2>2, <2>3
<1>11. CASE SweepLand
  <2>1. /\ Sweeping /\ sweep'.at = "off" /\ UNCHANGED <<card, beat>>
        /\ locks' = locks \ {sweep.lock}
    BY <1>11 DEF SweepLand, Off, Sweeping
  <2>2. sweep.card.trace \in SUBSET Run
    BY <2>1 DEF Sweeping, TypeOK, SweepOK, CardState
  <2>3. /\ Len(chat) <= Len(chat')
        /\ \A n : Open(n) /\ (n = sweep.card.msg /\ n # 0 => sweep.lock # sweep.card.lock)
             => Open(n)'
    <3>1. CASE UNCHANGED chat
      BY <3>1, <1>3 DEF Open
    <3>2. CASE sweep.card.msg # 0 /\ Patch(sweep.card.msg, Message(Frozen, sweep.card.trace))
      <4>1. Open(sweep.card.msg) /\ sweep.card.msg \in Nat
        BY <2>1, <1>3 DEF LockInv, StillOpen
      <4>2. Message(Frozen, sweep.card.trace) \in Messages
        BY <2>2 DEF Frozen, Message, Messages
      <4>3. sweep.lock # sweep.card.lock => Message(Frozen, sweep.card.trace).kind = "loose"
        BY DEF Frozen, Message
      <4> QED BY <3>2, <4>1, <4>2, <4>3, <1>5
    <3> QED BY <1>11, <3>1, <3>2 DEF SweepLand
  <2>4. LocksHeld' /\ WorkersCard'
    BY <2>1, <1>1 DEF LockInv, LocksHeld, WorkersCard, Working, Beating, Sweeping
  <2>5. Owners'
    BY <2>1, <2>3, <1>1, <1>2, <1>3, <1>4
    DEF LockInv, Owners, Working, Sweeping, Same, Apart, Heartbeat
  <2>6. card # None => Open(card.msg)'
    <3> SUFFICES ASSUME card # None PROVE Open(card.msg)'
      OBVIOUS
    <3>1. Open(card.msg) /\ (sweep.card.msg = card.msg => sweep.card.msg = 0)
      BY <2>1 DEF LockInv, Owners, StillOpen, Apart
    <3> QED BY <2>1, <2>3, <3>1 DEF Open
  <2>7. Working => Open(work.card.msg)'
    <3> SUFFICES ASSUME Working PROVE Open(work.card.msg)'
      OBVIOUS
    <3>1. Open(work.card.msg)
      BY DEF LockInv, StillOpen
    <3>2. work.card.msg = sweep.card.msg /\ work.card.msg # 0 => sweep.lock # sweep.card.lock
      BY <2>1 DEF LockInv, LocksHeld, WorkersCard, Owners, Working, Same, Apart
    <3> QED BY <2>3, <3>1, <3>2, <1>1 DEF Open
  <2>8. Beating => Open(beat.msg)'
    <3> SUFFICES ASSUME Beating PROVE Open(beat.msg)'
      OBVIOUS
    <3>1. Open(beat.msg)
      BY DEF LockInv, StillOpen
    <3>2. beat.msg = sweep.card.msg => sweep.lock # sweep.card.lock
      BY <2>1 DEF LockInv, LocksHeld, Owners, Beating, Same
    <3> QED BY <2>1, <2>3, <3>1, <3>2 DEF Open
  <2>9. StillOpen'
    BY <2>1, <2>6, <2>7, <2>8, <1>1 DEF StillOpen, Working, Beating, Sweeping
  <2> QED BY <2>4, <2>5, <2>9 DEF LockInv
<1> QED BY <1>6, <1>7, <1>8, <1>9, <1>10, <1>11

LEMMA LocksNext == TypeOK /\ LockInv /\ [Next]_vars => LockInv'
<1> SUFFICES ASSUME TypeOK, LockInv, [Next]_vars PROVE LockInv'
  OBVIOUS
<1>1. CASE UNCHANGED vars
  BY <1>1, OutsideLocks DEF vars, others
<1>2. CASE Begin \/ Say \/ Stop \/ Rest \/ Die \/ Post \/ Leave \/ Forward
  BY <1>2, OutsideLocks DEF Begin, Say, Stop, Rest, Die, Post, Leave, Forward
<1>3. CASE Next
  BY <1>2, <1>3, PullLocks, WorkerLocks, AsideLocks DEF Next
<1> QED BY <1>1, <1>3

\* The step that nobody takes: to write a message that is settled.
LEMMA SettledStep ==
  ASSUME TypeOK, LockInv, [Next]_vars
  PROVE  \A m \in Settled : m \in DOMAIN chat' /\ chat'[m] = chat[m]
<1> SUFFICES ASSUME NEW m \in DOMAIN chat, chat[m].kind \in {"reply", "unanswered", "receipt"}
             PROVE  m \in DOMAIN chat' /\ chat'[m] = chat[m]
  BY DEF Sent, Settled
<1>1. m # 0 /\ ~Open(m) /\ chat \in Seq(Messages) /\ m \in Nat /\ work \in Handling
  BY DEF Open, TypeOK, CardsOK, WorkOK
<1>2. CASE UNCHANGED chat
  BY <1>2
<1>3. ASSUME NEW msg \in Nat, NEW w \in Messages, Open(msg), Wrote(msg, w)
      PROVE  m \in DOMAIN chat' /\ chat'[m] = chat[m]
  <2>1. m # Spot(msg)
    BY <1>1, <1>3 DEF Spot, Open
  <2>2. \A x \in {w, Unanswered(w)} : x \in Messages
    BY UnansweredType
  <2> QED BY <1>1, <1>3, <2>1, <2>2, PutChat DEF Wrote
<1>4. Open(0)
  BY DEF Open
<1>5. CASE SendCard
  BY <1>3, <1>4, <1>5, CallsWrite, LiveType DEF SendCard
<1>6. CASE PatchCard
  <2>1. Open(work.card.msg) /\ work.card.msg \in Nat
    BY <1>6 DEF PatchCard, LockInv, StillOpen, Working, TypeOK, WorkOK, CardState
  <2> QED BY <1>3, <1>6, <2>1, CallsWrite, LiveType DEF PatchCard, Patch
<1>7. CASE Flush \/ Refuge
  <2>1. Wrote(0, Reply) /\ (~UNCHANGED chat => HasText)
    BY <1>7, Tries, CallsWrite DEF Wrote
  <2> QED BY <1>1, <1>2, <1>3, <1>4, <2>1, ReplyType
<1>8. CASE Land
  <2>1. Open(work.card.msg) /\ work.card.msg \in Nat /\ Rendered \in Messages
    BY <1>1, <1>8, RenderedType DEF Land, LockInv, StillOpen, Working, TypeOK, WorkOK
  <2> QED BY <1>2, <1>3, <1>8, <2>1, CallsWrite DEF Land
<1>9. CASE BeatPatch
  <2>1. Open(beat.msg) /\ beat.msg \in Nat
    BY <1>9 DEF BeatPatch, LockInv, StillOpen, Beating, TypeOK, BeatOK, Heartbeat
  <2> QED BY <1>3, <1>9, <2>1, CallsWrite, LiveType DEF BeatPatch, Patch
<1>10. CASE SweepLand
  <2>1. /\ Open(sweep.card.msg) /\ sweep.card.msg \in Nat
        /\ sweep.card.trace \in SUBSET Run
    BY <1>10 DEF SweepLand, LockInv, StillOpen, Sweeping, TypeOK, SweepOK, CardState
  <2>2. Message(Frozen, sweep.card.trace) \in Messages
    BY <2>1 DEF Frozen, Message, Messages
  <2> QED BY <1>2, <1>3, <1>10, <2>1, <2>2, CallsWrite DEF SweepLand, Patch
<1>11. CASE Begin \/ Say \/ Stop \/ Rest \/ Die \/ Post \/ Leave \/ Forward
  BY <1>2, <1>11 DEF Begin, Say, Stop, Rest, Die, Post, Leave, Forward, others
<1>12. CASE Pull \/ Tick \/ Update \/ Settle \/ Ask \/ Take
  BY <1>2, <1>12 DEF Pull, Tick, Update, Settle, Ask, Take
<1>13. CASE BeatPick \/ BeatLock \/ SweepLook \/ SweepJudge \/ SweepAsk \/ SweepTake
  BY <1>2, <1>13 DEF BeatPick, BeatLock, SweepLook, SweepJudge, SweepAsk, SweepTake
<1>14. CASE UNCHANGED vars
  BY <1>2, <1>14 DEF vars
<1> QED BY <1>5, <1>6, <1>7, <1>8, <1>9, <1>10, <1>11, <1>12, <1>13, <1>14 DEF Next

\* A patch lock has one holder, a message one state, and who may still write a
\* message writes one that is open.
THEOREM LocksGuard == Spec => [](TypeOK /\ LockInv)
  BY InitType, TypeNext, InitLocks, LocksNext, PTL DEF Spec

\* A message that has become a reply, answered or not, or a receipt is never
\* written again.
THEOREM SettledForGood == Spec => SettledStays
<1>1. TypeOK /\ LockInv /\ [Next]_vars
        => [\A m \in Settled : chat'[m] = chat[m]]_vars
  BY SettledStep
<1> QED BY <1>1, LocksGuard, PTL DEF Spec, SettledStays

-----------------------------------------------------------------------------
(***************************************************************************)
(* Where the texts are.                                                    *)
(***************************************************************************)
LEMMA DoneStages ==
  ASSUME Done(buffer')
  PROVE  Stages' /\ work'.hand = None /\ work'.at = "idle"
<1>1. work'.at = "idle" /\ work'.hand = None /\ work'.tick = FALSE /\ flag' = (buffer' # None)
  BY DEF Done, Resting
<1> QED BY <1>1 DEF Stages

LEMMA StagesNext ==
  ASSUME TypeOK, Stages, [Next]_vars
  PROVE  Stages'
<1> USE DoneStages
<1>0. work \in Handling
  BY DEF TypeOK, WorkOK
<1>1. CASE UNCHANGED <<reply, work>>
  BY <1>1 DEF Stages, reply
<1>2. CASE Begin \/ Say \/ Stop \/ Rest \/ Die \/ Post \/ Leave \/ Forward
  BY <1>1, <1>2 DEF Begin, Say, Stop, Rest, Die, Post, Leave, Forward, others
<1>3. CASE BeatPick \/ BeatLock \/ BeatPatch
             \/ SweepLook \/ SweepJudge \/ SweepAsk \/ SweepTake \/ SweepLand
  BY <1>1, <1>3 DEF BeatPick, BeatLock, BeatPatch, SweepLook, SweepJudge, SweepAsk, SweepTake,
     SweepLand, around
<1>4. CASE Pull
  <2> DEFINE e == Head(jobs)
  <2>1. Handle(e)
    BY <1>4 DEF Pull
  <2> HIDE DEF e
  <2>2. ASSUME NEW how \in {"update", "compact"}, NEW texts, Want(how, texts, buffer')
        PROVE  Stages'
    <3>1. CASE Done(buffer')
      BY <3>1
    <3>2. CASE ~Done(buffer')
      BY <2>2, <3>2 DEF Want, Resting, Stages
    <3> QED BY <3>1, <3>2
  <2>3. ASSUME NEW compact, NewCard(compact, buffer')
        PROVE  Stages'
    <3>1. CASE Done(buffer')
      BY <3>1
    <3>2. CASE ~Done(buffer')
      BY <2>3, <3>2 DEF NewCard, Resting, Stages
    <3> QED BY <3>1, <3>2
  <2>4. CASE work' = [Resting EXCEPT !.at = "settle", !.why = e.kind]
    BY <2>4 DEF Resting, Stages
  <2>5. \/ \E how \in {"update", "compact"} : \E texts : Want(how, texts, buffer')
        \/ \E compact : NewCard(compact, buffer')
        \/ Done(buffer')
        \/ work' = [Resting EXCEPT !.at = "settle", !.why = e.kind]
    BY <2>1 DEF Handle
  <2> QED BY <2>2, <2>3, <2>4, <2>5
<1>5. ASSUME UNCHANGED buffer, Stateless, work.how \in {"morph", "freeze", "compact"}
      PROVE  Stages'
  BY <1>0, <1>5 DEF Stateless, Stages, Handling
<1>6. CASE Tick
  BY <1>6 DEF Tick, Stages, Resting
<1>7. CASE SendCard \/ PatchCard
  BY <1>7 DEF SendCard, PatchCard
<1>8. CASE Update
  <2>1. work.hand = None /\ work.at = "want" /\ work.how = "update" /\ UNCHANGED buffer
    BY <1>8 DEF Update, Stages
  <2>2. CASE Done(buffer)
    BY <2>1, <2>2
  <2>3. CASE work' = [work EXCEPT !.at = "patching", !.card = card]
    BY <2>1, <2>3, <1>0 DEF Stages, Handling
  <2> QED BY <1>8, <2>2, <2>3 DEF Update
<1>9. CASE Settle
  BY <1>9, <1>0 DEF Settle, Stages, Handling
<1>10. CASE Flush \/ Refuge
  <2>1. work.at \in {"flush", "refuge"} /\ UNCHANGED buffer
    BY <1>10, Tries
  <2>2. ASSUME NEW out \in BOOLEAN, Onward(out)
        PROVE  Stages'
    <3>1. CASE Done(buffer)
      BY <2>1, <3>1
    <3>2. CASE work'.at = "ask" /\ work'.how = "freeze"
      BY <3>2 DEF Stages
    <3> QED BY <1>0, <2>2, <3>1, <3>2, OnwardWork
  <2>3. CASE work' = [work EXCEPT !.plain = TRUE]
    BY <1>0, <2>1, <2>3, PlainWork DEF Stages
  <2> QED BY <1>10, <2>2, <2>3, Tries
<1>11. CASE Ask
  <2>1. work.how \in {"morph", "freeze"} /\ UNCHANGED buffer
    BY <1>11 DEF Ask, Stages
  <2> QED BY <1>11, <2>1, <1>0, <1>5 DEF Ask, Stages, Handling
<1>12. CASE Take
  <2>1. work.how \in {"morph", "freeze", "compact"} /\ UNCHANGED buffer /\ work.at = "want"
    BY <1>12 DEF Take
  <2> QED BY <1>12, <2>1, <1>0, <1>5 DEF Take, Stages, Handling
<1>13. CASE Land
  <2>1. work.how \in {"morph", "freeze", "compact"} /\ UNCHANGED buffer
    BY <1>13 DEF Land, Stages
  <2> QED BY <1>13, <2>1, <1>5 DEF Land
<1>14. CASE UNCHANGED vars
  BY <1>1, <1>14 DEF vars
<1> QED BY <1>2, <1>3, <1>4, <1>6, <1>7, <1>8, <1>9, <1>10, <1>11, <1>12, <1>13, <1>14 DEF Next

\* Texts that wait, when one joins them or the first one leaves.
LEMMA FreshAppend ==
  ASSUME NEW q \in Seq(Events), NEW e \in Events, Fresh(q),
         IsText(e) => /\ e.run \notin noted
                      /\ \A i \in 1..Len(q) : IsText(q[i]) => q[i].run # e.run
  PROVE  Fresh(Append(q, e))
<1>1. Len(Append(q, e)) = Len(q) + 1 /\ Len(q) \in Nat
  OBVIOUS
<1>2. \A i \in 1..(Len(q) + 1) : Append(q, e)[i] = IF i = Len(q) + 1 THEN e ELSE q[i]
  OBVIOUS
<1>3. \A i \in 1..(Len(q) + 1) : i = Len(q) + 1 \/ i \in 1..Len(q)
  BY <1>1
<1> QED BY <1>1, <1>2, <1>3 DEF Fresh

LEMMA FreshTail ==
  ASSUME NEW q \in Seq(Events), q # <<>>, Fresh(q)
  PROVE  /\ Fresh(Tail(q))
         /\ \A i \in 1..Len(Tail(q)) : i + 1 \in 1..Len(q) /\ Tail(q)[i] = q[i + 1]
         /\ 1 \in 1..Len(q) /\ Head(q) = q[1]
         /\ IsText(Head(q)) =>
              \A i \in 1..Len(Tail(q)) : IsText(Tail(q)[i]) => Tail(q)[i].run # Head(q).run
<1>1. Len(Tail(q)) = Len(q) - 1 /\ Len(q) \in Nat /\ Len(q) # 0
  OBVIOUS
<1>2. \A i \in 1..Len(Tail(q)) : i + 1 \in 1..Len(q) /\ Tail(q)[i] = q[i + 1]
  BY <1>1
<1>3. 1 \in 1..Len(q) /\ Head(q) = q[1]
  BY <1>1
<1>4. \A i, j \in 1..Len(Tail(q)) : i + 1 = j + 1 => i = j
  OBVIOUS
<1>5. \A i \in 1..Len(Tail(q)) : i + 1 # 1
  OBVIOUS
<1> QED BY <1>2, <1>3, <1>4, <1>5 DEF Fresh

LEMMA EmitFresh ==
  ASSUME TypeOK, FreshTexts, NEW e \in Events, Emit(e), UNCHANGED <<noted, jobs>>,
         IsText(e) => /\ e.run \notin noted
                      /\ \A i \in 1..Len(rx) : IsText(rx[i]) => rx[i].run # e.run
                      /\ \A i \in 1..Len(jobs) : IsText(jobs[i]) => jobs[i].run # e.run
  PROVE  FreshTexts'
<1>1. rx \in Seq(Events) /\ Len(rx) \in Nat
  BY DEF TypeOK, QueuesOK
<1>2. CASE UNCHANGED rx
  BY <1>2 DEF FreshTexts, Fresh
<1>3. CASE rx' = Append(rx, e)
  <2>1. Fresh(Append(rx, e))
    BY <1>1, FreshAppend DEF FreshTexts
  <2>2. Fresh(rx)' /\ Fresh(jobs)'
    BY <1>3, <2>1 DEF Fresh, FreshTexts
  <2>3. \A i \in 1..Len(rx') : (i \in 1..Len(rx) /\ rx'[i] = rx[i]) \/ rx'[i] = e
    BY <1>1, <1>3
  <2> QED BY <2>2, <2>3 DEF FreshTexts
<1> QED BY <1>2, <1>3 DEF Emit

LEMMA FreshNext ==
  ASSUME TypeOK, FreshTexts, [Next]_vars
  PROVE  FreshTexts'
<1>1. CASE UNCHANGED <<rx, jobs, noted>>
  BY <1>1 DEF FreshTexts, Fresh
<1>2. CASE Begin
  <2>1. run + 1 \in Run
    BY <1>2, HubAssumption DEF Begin, TypeOK, AgentOK, Run
  <2>2. \A k \in {"running", "compacting"} :
          /\ [kind |-> k, run |-> run + 1] \in Events
          /\ ~IsText([kind |-> k, run |-> run + 1])
    BY <2>1 DEF Events, Kinds, IsText
  <2> QED BY <1>2, <2>2, EmitFresh DEF Begin, others, reply
<1>3. CASE Stop
  <2>1. \A k \in {"completed", "failed", "compacted"} :
          Event(k) \in Events /\ ~IsText(Event(k))
    BY DEF Event, Events, Kinds, IsText, TypeOK, AgentOK
  <2> QED BY <1>3, <2>1, EmitFresh DEF Stop, others, reply
<1>4. CASE Say
  <2>1. Event("text") \in Events /\ Event("text").run = run
    BY DEF Event, Events, Kinds, TypeOK, AgentOK
  <2>2. \A e \in Events : IsText(e) /\ e.run = run => e = Event("text")
    BY DEF Events, IsText, Event
  <2>3. rx \in Seq(Events) /\ jobs \in Seq(Events)
    BY DEF TypeOK, QueuesOK
  <2>4. /\ \A i \in 1..Len(rx) : rx[i] # Event("text") /\ rx[i] \in Events
        /\ \A i \in 1..Len(jobs) : jobs[i] # Event("text") /\ jobs[i] \in Events
    BY <1>4, <2>3 DEF Say, ToSet
  <2> QED BY <1>4, <2>1, <2>2, <2>4, EmitFresh DEF Say, others, reply
<1>5. CASE Forward
  <2>1. rx \in Seq(Events) /\ jobs \in Seq(Events) /\ rx # <<>> /\ Head(rx) \in Events
    BY <1>5 DEF Forward, TypeOK, QueuesOK
  <2>2. rx' = Tail(rx) /\ noted' = noted /\ (jobs' = jobs \/ jobs' = Append(jobs, Head(rx)))
    BY <1>5 DEF Forward, others, reply
  <2>3. Fresh(rx) /\ Fresh(jobs)
    BY DEF FreshTexts
  <2>4. IsText(Head(rx)) =>
          /\ Head(rx).run \notin noted
          /\ \A i \in 1..Len(jobs) : IsText(jobs[i]) => jobs[i].run # Head(rx).run
    BY <2>1, <2>3, FreshTail DEF FreshTexts, Fresh
  <2>5. Fresh(rx') /\ Fresh(jobs')
    BY <2>1, <2>2, <2>3, <2>4, FreshTail, FreshAppend
  <2>6. Fresh(rx)' /\ Fresh(jobs)'
    BY <2>2, <2>5 DEF Fresh
  <2>7. \A j \in 1..Len(jobs') : (j \in 1..Len(jobs) /\ jobs'[j] = jobs[j]) \/ jobs'[j] = Head(rx)
    BY <2>1, <2>2
  <2>8. \A i \in 1..Len(rx') : i + 1 \in 1..Len(rx) /\ rx'[i] = rx[i + 1]
    BY <2>1, <2>2, <2>3, FreshTail
  <2>9. IsText(Head(rx)) => \A i \in 1..Len(rx') : IsText(rx'[i]) => rx'[i].run # Head(rx).run
    BY <2>1, <2>2, <2>3, FreshTail
  <2> QED BY <2>6, <2>7, <2>8, <2>9 DEF FreshTexts
<1>6. CASE Pull
  <2>1. jobs \in Seq(Events) /\ jobs # <<>> /\ jobs' = Tail(jobs) /\ rx' = rx
    BY <1>6 DEF Pull, TypeOK, QueuesOK
  <2>2. \/ noted' = noted
        \/ IsText(Head(jobs)) /\ noted' = noted \cup {Head(jobs).run}
    BY <1>6 DEF Pull, Handle, IsText, reply
  <2>3. Fresh(jobs) /\ Fresh(rx)
    BY DEF FreshTexts
  <2>4. \A i \in 1..Len(jobs') : i + 1 \in 1..Len(jobs) /\ jobs'[i] = jobs[i + 1]
    BY <2>1, <2>3, FreshTail
  <2>5. Fresh(jobs') /\ (IsText(Head(jobs)) =>
          \A i \in 1..Len(jobs') : IsText(jobs'[i]) => jobs'[i].run # Head(jobs).run)
    BY <2>1, <2>3, FreshTail
  <2>6. IsText(Head(jobs)) => \A i \in 1..Len(rx) : IsText(rx[i]) => rx[i].run # Head(jobs).run
    BY <2>1, <2>3, FreshTail DEF FreshTexts
  <2>7. Fresh(jobs)' /\ Fresh(rx)'
    BY <2>1, <2>2, <2>3, <2>5, <2>6 DEF Fresh
  <2> QED BY <2>1, <2>4, <2>7 DEF FreshTexts
<1>7. CASE Rest \/ Die \/ Post \/ Leave
  BY <1>1, <1>7 DEF Rest, Die, Post, Leave, others, reply, queues
<1>8. CASE Tick \/ SendCard \/ Update \/ PatchCard \/ Settle \/ Flush \/ Ask \/ Take
             \/ Land \/ Refuge
  BY <1>1, <1>8 DEF Tick, SendCard, Update, PatchCard, Settle, Flush, Ask, Take, Land, Refuge,
     world, reply, queues
<1>9. CASE BeatPick \/ BeatLock \/ BeatPatch
             \/ SweepLook \/ SweepJudge \/ SweepAsk \/ SweepTake \/ SweepLand
  BY <1>1, <1>9 DEF BeatPick, BeatLock, BeatPatch, SweepLook, SweepJudge, SweepAsk, SweepTake,
     SweepLand, around, queues, reply
<1>10. CASE UNCHANGED vars
  BY <1>1, <1>10 DEF vars, queues, reply
<1> QED BY <1>2, <1>3, <1>4, <1>5, <1>6, <1>7, <1>8, <1>9, <1>10 DEF Next

\* A call adds one message to those of its kind.
LEMMA PutSent ==
  ASSUME TypeOK, NEW msg \in Nat, NEW w \in Messages, chat' = Put(msg, w)
  PROVE  \A kind : Sent(kind)' \subseteq Sent(kind) \cup (IF w.kind = kind THEN {Spot(msg)} ELSE {})
<1>1. chat \in Seq(Messages)
  BY DEF TypeOK, CardsOK
<1> QED BY <1>1, PutChat DEF Sent

\* A call that sends no reply leaves the replies as they are.
LEMMA NoNewReply ==
  ASSUME TypeOK, NEW msg \in Nat, NEW m \in Messages, m.kind # "reply", m.kind # "unanswered",
         Wrote(msg, m)
  PROVE  Sent("reply")' \subseteq Sent("reply") /\ Sent("unanswered")' \subseteq Sent("unanswered")
<1>1. CASE UNCHANGED chat
  BY <1>1 DEF Sent
<1>2. CASE chat' = Put(msg, m)
  BY <1>2, PutSent
<1> QED BY <1>1, <1>2, UnansweredType DEF Wrote

LEMMA SentSettled ==
  ASSUME TypeOK, LockInv, [Next]_vars
  PROVE  /\ \A m \in Sent("reply") \cup Sent("unanswered") : chat'[m] = chat[m]
         /\ \A m \in Sent("reply") \cup Sent("unanswered") : m \in Nat
<1>1. \A m \in Sent("reply") \cup Sent("unanswered") : m \in Settled
  BY DEF Settled
<1> QED BY <1>1, SettledStep DEF Sent, TypeOK, CardsOK

LEMMA PlacesStay ==
  ASSUME TypeOK, LockInv, OnePlace, [Next]_vars,
         noted \subseteq noted',
         (Noted \cup Unsent)' \cap noted \subseteq Noted \cup Unsent,
         (Noted \cup Untried)' \cap noted \subseteq Noted \cup Untried,
         (Noted \cup Unsent)' \subseteq noted',
         (Noted \cap Unsent)' = {},
         Sent("reply")' \subseteq Sent("reply"),
         Sent("unanswered")' \subseteq Sent("unanswered")
  PROVE  OnePlace'
<1>1. \A m \in Sent("reply")' : chat'[m] = chat[m] /\ m \in Sent("reply")
  BY SentSettled
<1>2. \A m \in Sent("unanswered")' : chat'[m] = chat[m] /\ m \in Sent("unanswered")
  BY SentSettled
<1>3. (\A m \in Sent("reply") : chat[m].texts \cap (Noted \cup Unsent) = {})'
  BY <1>1 DEF OnePlace
<1>4. (\A m \in Sent("unanswered") : chat[m].texts \cap (Noted \cup Untried) = {})'
  BY <1>2 DEF OnePlace
<1>5. (\A m \in Sent("reply") \cup Sent("unanswered") : chat[m].texts \subseteq noted)'
  BY <1>1, <1>2 DEF OnePlace
<1>6. (\A m \in Sent("reply"), n \in Sent("reply") \cup Sent("unanswered") :
         m < n => chat[m].texts \cap chat[n].texts = {})'
  BY <1>1, <1>2 DEF OnePlace
<1> QED BY <1>3, <1>4, <1>5, <1>6 DEF OnePlace

\* The reply goes out, or a call for it ends without an answer.
LEMMA PlacesSend ==
  ASSUME TypeOK, LockInv, OnePlace, [Next]_vars, NEW msg \in Nat, NEW w \in Messages,
         UNCHANGED <<noted, buffer>>, chat' = Put(msg, w), w.texts = Unsent,
         Untried' = {},
         w.kind = "reply" => Unsent' = {} /\ (msg = 0 \/ Unsent = Untried),
         w.kind # "reply" => Unsent' \subseteq Unsent,
         msg # 0 => msg \in DOMAIN chat
  PROVE  OnePlace'
<1> DEFINE k == Spot(msg)
<1>1. chat \in Seq(Messages) /\ k \in Nat /\ k \in DOMAIN chat' /\ chat'[k] = w
  BY PutChat DEF TypeOK, CardsOK
<1>2. msg = 0 => \A m \in DOMAIN chat : m < k
  BY <1>1 DEF Spot
<1>3. \A kind : Sent(kind)' \subseteq Sent(kind) \cup (IF w.kind = kind THEN {k} ELSE {})
  BY PutSent
<1>4. Noted' = Noted
  BY DEF Noted
<1>5. /\ \A m \in Sent("reply")' :
           (m \in Sent("reply") /\ chat'[m] = chat[m]) \/ (m = k /\ w.kind = "reply")
      /\ \A m \in Sent("unanswered")' :
           (m \in Sent("unanswered") /\ chat'[m] = chat[m]) \/ (m = k /\ w.kind = "unanswered")
  <2>1. Sent("reply")' \subseteq Sent("reply") \cup (IF w.kind = "reply" THEN {k} ELSE {})
    BY <1>3
  <2>2. Sent("unanswered")' \subseteq
          Sent("unanswered") \cup (IF w.kind = "unanswered" THEN {k} ELSE {})
    BY <1>3
  <2> HIDE DEF k
  <2>3. \A m \in Sent("reply") \cup Sent("unanswered") : chat'[m] = chat[m]
    BY SentSettled
  <2>4. \A m \in Sent("reply")' : m \in Sent("reply") \/ (m = k /\ w.kind = "reply")
    BY <2>1
  <2>5. \A m \in Sent("unanswered")' : m \in Sent("unanswered") \/ (m = k /\ w.kind = "unanswered")
    BY <2>2
  <2>6. \A m \in Sent("reply")' :
          (m \in Sent("reply") /\ chat'[m] = chat[m]) \/ (m = k /\ w.kind = "reply")
    BY <2>3, <2>4
  <2>7. \A m \in Sent("unanswered")' :
          (m \in Sent("unanswered") /\ chat'[m] = chat[m]) \/ (m = k /\ w.kind = "unanswered")
    BY <2>3, <2>5
  <2> QED BY <2>6, <2>7
<1> HIDE DEF k
<1>6. (\A m \in Sent("reply") : chat[m].texts \cap (Noted \cup Unsent) = {})'
  BY <1>1, <1>4, <1>5 DEF OnePlace
<1>7. (\A m \in Sent("unanswered") : chat[m].texts \cap (Noted \cup Untried) = {})'
  BY <1>1, <1>4, <1>5 DEF OnePlace
<1>8. (\A m \in Sent("reply") \cup Sent("unanswered") : chat[m].texts \subseteq noted)'
  BY <1>1, <1>5 DEF OnePlace
<1>9. (Noted \cup Unsent)' \subseteq noted' /\ (Noted \cap Unsent)' = {}
  BY <1>4 DEF OnePlace
<1>10. (\A m \in Sent("reply"), n \in Sent("reply") \cup Sent("unanswered") :
          m < n => chat[m].texts \cap chat[n].texts = {})'
  <2> SUFFICES ASSUME NEW m \in Sent("reply")', NEW n \in (Sent("reply") \cup Sent("unanswered"))',
                      m < n
               PROVE  chat'[m].texts \cap chat'[n].texts = {}
    OBVIOUS
  <2>1. CASE m \in Sent("reply") /\ chat'[m] = chat[m]
    BY <1>1, <1>5, <2>1 DEF OnePlace
  <2>2. CASE m = k /\ w.kind = "reply"
    <3>0. n # k
      BY <1>1, <2>2
    <3>1. n # k /\ n \in Sent("reply") \cup Sent("unanswered") /\ chat'[n] = chat[n]
      BY <1>5, <3>0
    <3>2. msg # 0
      <4>1. n \in DOMAIN chat
        BY <3>1 DEF Sent
      <4>2. DOMAIN chat \subseteq Nat
        BY DEF TypeOK, CardsOK
      <4> QED BY <1>1, <1>2, <2>2, <4>1, <4>2
    <3> QED BY <1>1, <2>2, <3>1, <3>2 DEF OnePlace
  <2> QED BY <1>5, <2>1, <2>2
<1> QED BY <1>6, <1>7, <1>8, <1>9, <1>10 DEF OnePlace

\* How the texts move when the worker takes a job or a step.
LEMMA PullTexts ==
  ASSUME TypeOK, Stages, Pull
  PROVE  /\ Unsent' = {} /\ Unsent = {} /\ Untried' = {} /\ Untried = {}
         /\ \/ noted' = noted /\ Noted' = Noted
            \/ \E r \in Run : /\ Head(jobs) = [kind |-> "text", run |-> r]
                              /\ noted' = noted \cup {r} /\ Noted' = Noted \cup {r}
<1> DEFINE e == Head(jobs)
<1>1. e \in Events /\ Handle(e) /\ work.at = "idle"
  BY DEF Pull, TypeOK, QueuesOK
<1> HIDE DEF e
<1>2. work'.hand = None
  <2>1. \A buf : Done(buf) => work'.hand = None
    BY DEF Done, Resting
  <2>2. \A how, texts, buf : Want(how, texts, buf) => work'.hand = None
    BY <2>1 DEF Want, Resting
  <2>3. \A compact, buf : NewCard(compact, buf) => work'.hand = None
    BY <2>1 DEF NewCard, Resting
  <2>4. work' = [Resting EXCEPT !.at = "settle", !.why = e.kind] => work'.hand = None
    BY DEF Resting
  <2> QED BY <1>1, <2>1, <2>2, <2>3, <2>4 DEF Handle
<1>3. Unsent' = {} /\ Unsent = {} /\ Untried' = {} /\ Untried = {}
  BY <1>1, <1>2 DEF Unsent, Untried, Hand, Stages
<1>4. Noted # None /\ (Noted \cup {e.run}) # None /\ e.run \in Run
  BY <1>1, NotedType, NoneIsNone DEF TypeOK, Events
<1>5. e.kind = "text" => e = [kind |-> "text", run |-> e.run]
  BY <1>1 DEF Events
<1>6. \/ noted' = noted /\ buffer' \in {buffer, Noted}
      \/ /\ e.kind = "text" /\ noted' = noted \cup {e.run}
         /\ buffer' = Noted \cup {e.run}
  BY <1>1 DEF Handle, reply
<1>7. CASE noted' = noted /\ buffer' \in {buffer, Noted}
  BY <1>3, <1>4, <1>7 DEF Noted
<1>8. CASE /\ e.kind = "text" /\ noted' = noted \cup {e.run}
           /\ buffer' = Noted \cup {e.run}
  <2>1. Noted' = buffer'
    BY <1>4, <1>8 DEF Noted
  <2> QED BY <1>3, <1>4, <1>5, <1>8, <2>1 DEF e
<1> QED BY <1>6, <1>7, <1>8

\* A settlement that cannot go on either hands the reply on or drops what is
\* not the reply.
LEMMA StatelessTexts ==
  ASSUME TypeOK, Stateless
  PROVE  /\ Untried' = {}
         /\ work.how = "morph" => Unsent' = Unsent
         /\ work.how # "morph" => Unsent' = {}
         /\ work.how = "morph" => work'.at = "refuge" /\ work'.hand = work.hand
                                  /\ work'.how = "morph" /\ work'.tick = work.tick
         /\ work.how # "morph" => Done(buffer) /\ work'.at = "idle"
<1>1. work \in Handling
  BY DEF TypeOK, WorkOK
<1>2. CASE work.how = "morph"
  <2>1. /\ work'.at = "refuge" /\ work'.hand = work.hand /\ work'.how = work.how
        /\ work'.tick = work.tick
    BY <1>1, <1>2 DEF Stateless, Handling
  <2>2. Unsent' = Unsent
    BY <1>2, <2>1 DEF Unsent, Pending, Hand
  <2> QED BY <1>2, <2>1, <2>2 DEF Untried
<1>3. CASE work.how # "morph"
  <2>1. Done(buffer) /\ work'.hand = None /\ work'.at = "idle"
    BY <1>3 DEF Stateless, Done, Resting
  <2> QED BY <1>3, <2>1 DEF Unsent, Untried, Hand
<1> QED BY <1>2, <1>3

LEMMA DoneTexts ==
  ASSUME NEW buf, Done(buf)
  PROVE  /\ Unsent' = {} /\ Untried' = {} /\ Hand' = {}
         /\ work'.at = "idle" /\ work'.hand = None
  BY DEF Done, Resting, Unsent, Untried, Hand

\* A try to send the reply.
LEMMA TryPlaces ==
  ASSUME TypeOK, LockInv, Stages, OnePlace, [Next]_vars, Flush \/ Refuge
  PROVE  OnePlace'
<1>1. /\ work \in Handling /\ work.at \in {"flush", "refuge"} /\ UNCHANGED <<buffer, noted>>
      /\ Noted' = Noted
  BY Tries DEF TypeOK, WorkOK, Noted
<1>2. Unsent = Hand /\ Untried = {}
  BY <1>1 DEF Unsent, Untried, Pending
<1>3. ASSUME NEW out \in BOOLEAN, Onward(out)
      PROVE  Unsent' = {} /\ Untried' = {}
  <2>1. CASE Done(buffer)
    BY <2>1, DoneTexts
  <2>2. CASE work'.at = "ask" /\ work'.how = "freeze"
    BY <2>2 DEF Unsent, Untried, Pending
  <2> QED BY <1>1, <1>3, <2>1, <2>2, OnwardWork
<1>4. work' = [work EXCEPT !.plain = TRUE] => Unsent' = Unsent /\ Untried' = {}
  BY <1>1, <1>2, PlainWork DEF Unsent, Untried, Pending, Hand
<1>5. Unsent' \subseteq Unsent /\ Untried' = {}
  BY <1>3, <1>4, Tries
<1>6. CASE UNCHANGED chat
  <2>1. \A kind : Sent(kind)' = Sent(kind)
    BY <1>6 DEF Sent
  <2>2. Noted \cup Unsent \subseteq noted /\ Noted \cap Unsent = {}
    BY DEF OnePlace
  <2> QED BY <1>1, <1>5, <2>1, <2>2, PlacesStay
<1>7. CASE HasText /\ chat' = Put(0, Reply) /\ Onward(TRUE)
  <2>1. Reply \in Messages /\ Reply.kind = "reply" /\ Reply.texts = Unsent
    BY <1>1, <1>2, <1>7, ReplyType DEF HasText, Hand
  <2>2. Unsent' = {}
    BY <1>3, <1>7
  <2> QED BY <1>1, <1>5, <1>7, <2>1, <2>2, PlacesSend
<1>8. CASE HasText /\ chat' = Put(0, Unanswered(Reply))
  <2>1. /\ Unanswered(Reply) \in Messages /\ Unanswered(Reply).kind = "unanswered"
        /\ Unanswered(Reply).texts = Unsent
    BY <1>1, <1>2, <1>8, ReplyType, UnansweredType DEF HasText, Hand
  <2> QED BY <1>1, <1>5, <1>8, <2>1, PlacesSend
<1> QED BY <1>6, <1>7, <1>8, Tries DEF Fails

LEMMA OneNext ==
  ASSUME TypeOK, LockInv, Stages, FreshTexts, OnePlace, [Next]_vars
  PROVE  OnePlace'
<1>0. work \in Handling
  BY DEF TypeOK, WorkOK
<1>2. ASSUME UNCHANGED chat, UNCHANGED <<buffer, noted, work>>
      PROVE  OnePlace'
  BY <1>2 DEF OnePlace, Noted, Unsent, Untried, Pending, Hand, Sent
<1>3. ASSUME UNCHANGED <<buffer, noted>>, Unsent' \subseteq Unsent, Untried' \subseteq Untried,
             Sent("reply")' \subseteq Sent("reply"), Sent("unanswered")' \subseteq Sent("unanswered")
      PROVE  OnePlace'
  <2>1. Noted' = Noted
    BY <1>3 DEF Noted
  <2>2. Noted \cup Unsent \subseteq noted /\ Noted \cap Unsent = {}
    BY DEF OnePlace
  <2> QED BY <1>3, <2>1, <2>2, PlacesStay
<1>4. ASSUME UNCHANGED chat
      PROVE  Sent("reply")' \subseteq Sent("reply") /\ Sent("unanswered")' \subseteq Sent("unanswered")
  BY <1>4 DEF Sent
<1>5. CASE Begin \/ Say \/ Stop \/ Rest \/ Die \/ Post \/ Leave \/ Forward
  BY <1>2, <1>5 DEF Begin, Say, Stop, Rest, Die, Post, Leave, Forward, others, reply
<1>6. CASE BeatPick \/ BeatLock \/ SweepLook \/ SweepJudge \/ SweepAsk \/ SweepTake
  BY <1>2, <1>6 DEF BeatPick, BeatLock, SweepLook, SweepJudge, SweepAsk, SweepTake, around, reply
<1>7. CASE BeatPatch
  <2>1. UNCHANGED <<buffer, noted, work>> /\ Patch(beat.msg, Live) /\ beat.msg \in Nat
    BY <1>7 DEF BeatPatch, around, reply, TypeOK, BeatOK, Heartbeat
  <2>2. Sent("reply")' \subseteq Sent("reply") /\ Sent("unanswered")' \subseteq Sent("unanswered")
    BY <2>1, CallsWrite, LiveType, NoNewReply DEF Patch
  <2>3. Unsent' = Unsent /\ Untried' = Untried
    BY <2>1 DEF Unsent, Untried, Pending, Hand
  <2> QED BY <2>1, <2>2, <2>3, <1>3
<1>8. CASE SweepLand
  <2>1. UNCHANGED <<buffer, noted, work>> /\ sweep.card \in CardState
    BY <1>8 DEF SweepLand, around, reply, TypeOK, SweepOK
  <2>2. /\ Message(Frozen, sweep.card.trace) \in Messages /\ sweep.card.msg \in Nat
        /\ Message(Frozen, sweep.card.trace).kind \in {"receipt", "loose"}
    BY <2>1 DEF Frozen, Message, Messages, CardState
  <2>3. UNCHANGED chat \/ Patch(sweep.card.msg, Message(Frozen, sweep.card.trace))
    BY <1>8 DEF SweepLand
  <2>4. Sent("reply")' \subseteq Sent("reply") /\ Sent("unanswered")' \subseteq Sent("unanswered")
    BY <1>4, <2>2, <2>3, CallsWrite, NoNewReply DEF Patch
  <2>5. Unsent' = Unsent /\ Untried' = Untried
    BY <2>1 DEF Unsent, Untried, Pending, Hand
  <2> QED BY <2>1, <2>4, <2>5, <1>3
<1>9. CASE Pull
  <2>1. UNCHANGED chat
    BY <1>9 DEF Pull
  <2>2. /\ Unsent' = {} /\ Unsent = {} /\ Untried' = {} /\ Untried = {}
        /\ \/ noted' = noted /\ Noted' = Noted
           \/ \E r \in Run : /\ Head(jobs) = [kind |-> "text", run |-> r]
                             /\ noted' = noted \cup {r} /\ Noted' = Noted \cup {r}
    BY <1>9, PullTexts
  <2>3. Noted \subseteq noted
    BY DEF OnePlace
  <2>4. CASE noted' = noted /\ Noted' = Noted
    BY <1>4, <2>1, <2>2, <2>3, <2>4, PlacesStay
  <2>5. CASE \E r \in Run : /\ Head(jobs) = [kind |-> "text", run |-> r]
                            /\ noted' = noted \cup {r} /\ Noted' = Noted \cup {r}
    <3>1. PICK r \in Run : /\ Head(jobs) = [kind |-> "text", run |-> r]
                           /\ noted' = noted \cup {r} /\ Noted' = Noted \cup {r}
      BY <2>5
    <3>2. r \notin noted
      <4>1. jobs \in Seq(Events) /\ jobs # <<>> /\ Fresh(jobs)
        BY <1>9 DEF Pull, TypeOK, QueuesOK, FreshTexts
      <4>2. 1 \in 1..Len(jobs) /\ Head(jobs) = jobs[1]
        BY <4>1, FreshTail
      <4> QED BY <3>1, <4>1, <4>2 DEF Fresh, IsText
    <3> QED BY <1>4, <2>1, <2>2, <2>3, <3>1, <3>2, PlacesStay
  <2> QED BY <2>2, <2>4, <2>5
<1>10. CASE Tick
  <2>1. UNCHANGED <<chat, buffer, noted>> /\ Unsent' = {} /\ Untried' = {}
    BY <1>10 DEF Tick, reply, Unsent, Untried, Hand, Resting
  <2> QED BY <2>1, <1>3, <1>4
<1>11. CASE SendCard
  <2>1. UNCHANGED <<buffer, noted>> /\ Unsent' = {} /\ Untried' = {}
    BY <1>11, DoneTexts DEF SendCard
  <2>2. Sent("reply")' \subseteq Sent("reply") /\ Sent("unanswered")' \subseteq Sent("unanswered")
    BY <1>11, CallsWrite, LiveType, NoNewReply DEF SendCard
  <2> QED BY <2>1, <2>2, <1>3
<1>12. CASE Update
  <2>1. UNCHANGED <<chat, buffer, noted>>
    BY <1>12 DEF Update
  <2>2. Done(buffer) \/ work' = [work EXCEPT !.at = "patching", !.card = card]
    BY <1>12 DEF Update
  <2>3. work.hand = None
    BY <1>12 DEF Update, Stages
  <2>4. Unsent' = {} /\ Untried' = {}
    BY <2>2, <2>3, <1>0, DoneTexts DEF Unsent, Untried, Hand, Handling
  <2> QED BY <2>1, <2>4, <1>3, <1>4
<1>13. CASE PatchCard
  <2>1. UNCHANGED <<buffer, noted>> /\ Unsent' = {} /\ Untried' = {} /\ work.card.msg \in Nat
    BY <1>13, DoneTexts DEF PatchCard, TypeOK, WorkOK, CardState
  <2>2. Sent("reply")' \subseteq Sent("reply") /\ Sent("unanswered")' \subseteq Sent("unanswered")
    BY <1>13, <2>1, CallsWrite, LiveType, NoNewReply DEF PatchCard, Patch
  <2> QED BY <2>1, <2>2, <1>3
<1>14. CASE Settle
  <2>1. UNCHANGED <<chat, noted>> /\ work.hand = None /\ Unsent = {}
    BY <1>14 DEF Settle, Stages, Unsent, Hand
  <2>2. CASE Done(buffer) /\ UNCHANGED buffer
    BY <2>1, <2>2, <1>3, <1>4, DoneTexts
  <2>3. CASE buffer' = None
    <3>1. Noted' = {}
      BY <2>3 DEF Noted
    <3>2. work'.hand \in {None, buffer}
      BY <1>14, <1>0, DoneTexts DEF Settle, Handling
    <3>3. Unsent' \subseteq Noted /\ Untried' \subseteq Noted
      BY <3>2 DEF Unsent, Untried, Hand, Noted
    <3>4. Noted \subseteq noted
      BY DEF OnePlace
    <3> QED BY <2>1, <3>1, <3>3, <3>4, <1>4, PlacesStay
  <2> QED BY <1>14, <2>2, <2>3 DEF Settle
<1>15. CASE Flush \/ Refuge
  BY <1>15, TryPlaces
<1>16. CASE Ask
  <2>1. UNCHANGED <<chat, buffer, noted>>
    BY <1>16 DEF Ask
  <2>2. Stateless \/ work' = [work EXCEPT !.at = "want", !.lock = card.lock]
    BY <1>16 DEF Ask
  <2>3. work' = [work EXCEPT !.at = "want", !.lock = card.lock] => Unsent' = Unsent
    BY <1>16, <1>0 DEF Ask, Unsent, Pending, Hand, Handling
  <2>4. work' = [work EXCEPT !.at = "want", !.lock = card.lock] => Untried' = Untried
    BY <1>16, <1>0 DEF Ask, Untried, Hand, Handling
  <2>5. Unsent' \subseteq Unsent /\ Untried' \subseteq Untried
    BY <2>2, <2>3, <2>4, StatelessTexts
  <2> QED BY <2>1, <2>5, <1>3, <1>4
<1>17. CASE Take
  <2>1. UNCHANGED <<chat, buffer, noted>>
    BY <1>17 DEF Take
  <2>2. Stateless \/ work' = [work EXCEPT !.at = "land", !.card = card]
    BY <1>17 DEF Take
  <2>3. work' = [work EXCEPT !.at = "land", !.card = card] => Unsent' = Unsent
    BY <1>17, <1>0 DEF Take, Unsent, Pending, Hand, Handling
  <2>4. work' = [work EXCEPT !.at = "land", !.card = card] => Untried' = Untried
    BY <1>17, <1>0 DEF Take, Untried, Hand, Handling
  <2>5. Unsent' \subseteq Unsent /\ Untried' \subseteq Untried
    BY <2>2, <2>3, <2>4, StatelessTexts
  <2> QED BY <2>1, <2>5, <1>3, <1>4
<1>18. CASE Land
  <2>1. /\ UNCHANGED <<buffer, noted>> /\ work.card \in CardState /\ work.at = "land"
        /\ work.card.msg # 0 => work.card.msg \in DOMAIN chat
    BY <1>18 DEF Land, TypeOK, WorkOK, LockInv, StillOpen, Working, Open
  <2>2. Unsent' \subseteq Unsent /\ Untried' = {}
    BY <1>18, DoneTexts, StatelessTexts DEF Land
  <2>3. Rendered \in Messages /\ work.card.msg \in Nat
    BY <1>0, <2>1, RenderedType
  <2>4. CASE UNCHANGED chat
    BY <2>1, <2>2, <2>4, <1>3, <1>4
  <2>5. CASE ~UNCHANGED chat /\ ~(work.how = "morph" /\ HasText)
    <3>1. Rendered.kind = "receipt" /\ Wrote(work.card.msg, Rendered)
      BY <1>0, <1>18, <2>1, <2>5, CallsWrite, RenderedType DEF Land
    <3>2. Sent("reply")' \subseteq Sent("reply") /\ Sent("unanswered")' \subseteq Sent("unanswered")
      BY <2>3, <3>1, NoNewReply
    <3> QED BY <2>1, <2>2, <3>2, <1>3
  <2>6. CASE ~UNCHANGED chat /\ work.how = "morph" /\ HasText
    <3>1. Rendered = Reply /\ Reply.kind = "reply" /\ Reply.texts = work.hand
      BY <1>0, <2>1, <2>6, RenderedType, ReplyType
    <3>2. work.hand = Unsent /\ Untried = Unsent
      BY <2>1, <2>6 DEF HasText, Unsent, Untried, Pending, Hand
    <3>3. CASE chat' = Put(work.card.msg, Reply) /\ Done(buffer)
      <4>1. Unsent' = {}
        BY <3>3, DoneTexts
      <4> QED BY <2>1, <2>2, <2>3, <3>1, <3>2, <3>3, <4>1, PlacesSend
    <3>4. CASE chat' = Put(work.card.msg, Unanswered(Reply))
      <4>1. /\ Unanswered(Reply) \in Messages /\ Unanswered(Reply).kind = "unanswered"
            /\ Unanswered(Reply).texts = Unsent
        BY <2>3, <3>1, <3>2, UnansweredType
      <4> QED BY <2>1, <2>2, <2>3, <3>4, <4>1, PlacesSend
    <3> QED BY <1>18, <2>6, <3>1, <3>3, <3>4 DEF Land, Succeeds, Fails
  <2> QED BY <2>4, <2>5, <2>6
<1>20. CASE UNCHANGED vars
  BY <1>2, <1>20 DEF vars, reply
<1> QED BY <1>5, <1>6, <1>7, <1>8, <1>9, <1>10, <1>11, <1>12, <1>13, <1>14, <1>15, <1>16,
           <1>17, <1>18, <1>20 DEF Next

LEMMA InitTexts == Init => TextInv
<1> SUFFICES ASSUME Init PROVE TextInv
  OBVIOUS
<1>1. work.at = "idle" /\ work.hand = None /\ ~work.tick /\ flag = FALSE /\ buffer = None
  BY DEF Init, Resting
<1>2. Stages
  BY <1>1 DEF Stages
<1>3. FreshTexts
  BY DEF Init, FreshTexts, Fresh
<1>4. Noted = {} /\ Unsent = {} /\ Sent("reply") = {} /\ Sent("unanswered") = {}
  BY <1>1 DEF Init, Noted, Unsent, Hand, Sent
<1> QED BY <1>2, <1>3, <1>4 DEF OnePlace, TextInv

-----------------------------------------------------------------------------
(***************************************************************************)
(* No text is lost to one miss.                                            *)
(***************************************************************************)
\* A stream that grows, and one that loses its first event.
LEMMA OrderAppend ==
  ASSUME NEW s \in Seq(Events), NEW open, NEW e \in Events, InOrder(open, s),
         e.kind \in {"text", "failed"} => Before(open, s, Len(s) + 1),
         e.kind \in {"running", "compacting", "compacted"} => ~Before(open, s, Len(s) + 1)
  PROVE  /\ InOrder(open, Append(s, e))
         /\ Before(open, Append(s, e), Len(s) + 2) <=> Opens(e)
         /\ Len(Append(s, e)) = Len(s) + 1
<1> DEFINE t == Append(s, e)
<1>1. Len(t) = Len(s) + 1 /\ Len(s) \in Nat
  OBVIOUS
<1>2. \A i \in 1..Len(s) : t[i] = s[i]
  OBVIOUS
<1>3. t[Len(s) + 1] = e
  OBVIOUS
<1> HIDE DEF t
<1>4. \A i \in 1..(Len(s) + 1) : Before(open, t, i) <=> Before(open, s, i)
  <2>1. \A i \in 1..(Len(s) + 1) : i # 1 => i - 1 \in 1..Len(s)
    BY <1>1
  <2> QED BY <1>2, <2>1 DEF Before
<1>5. \A i \in 1..(Len(s) + 1) : i = Len(s) + 1 \/ i \in 1..Len(s)
  BY <1>1
<1>6. InOrder(open, t)
  BY <1>1, <1>2, <1>3, <1>4, <1>5 DEF InOrder
<1>7. Before(open, t, Len(s) + 2) <=> Opens(t[Len(s) + 1])
  BY <1>1 DEF Before
<1> QED BY <1>1, <1>3, <1>6, <1>7 DEF t

LEMMA OrderTail ==
  ASSUME NEW s \in Seq(Events), s # <<>>, NEW open, InOrder(open, s)
  PROVE  /\ InOrder(Opens(Head(s)), Tail(s))
         /\ Before(Opens(Head(s)), Tail(s), Len(Tail(s)) + 1) <=> Before(open, s, Len(s) + 1)
         /\ Head(s).kind \in {"text", "failed"} => open
         /\ Head(s).kind \in {"running", "compacting", "compacted"} => ~open
<1> DEFINE t == Tail(s)
<1>1. Len(t) = Len(s) - 1 /\ Len(s) \in Nat /\ Len(s) # 0 /\ Head(s) = s[1]
  OBVIOUS
<1>2. \A i \in 1..Len(t) : t[i] = s[i + 1] /\ i + 1 \in 1..Len(s)
  BY <1>1
<1> HIDE DEF t
<1>3. \A i \in 1..(Len(t) + 1) : Before(Opens(Head(s)), t, i) <=> Before(open, s, i + 1)
  <2>1. \A i \in 1..(Len(t) + 1) : i # 1 => i - 1 \in 1..Len(t) /\ t[i - 1] = s[i]
    BY <1>1, <1>2
  <2>2. \A i \in 1..(Len(t) + 1) : i + 1 # 1 /\ (i + 1) - 1 = i
    BY <1>1
  <2> QED BY <1>1, <2>1, <2>2 DEF Before
<1>4. InOrder(Opens(Head(s)), t)
  <2>1. \A i \in 1..Len(t) : i \in 1..(Len(t) + 1)
    BY <1>1
  <2> QED BY <1>2, <1>3, <2>1 DEF InOrder
<1>5. Len(t) + 1 \in 1..(Len(t) + 1) /\ (Len(t) + 1) + 1 = Len(s) + 1
  BY <1>1
<1>6. Before(Opens(Head(s)), t, Len(t) + 1) <=> Before(open, s, Len(s) + 1)
  BY <1>3, <1>5
<1>7. /\ Head(s).kind \in {"text", "failed"} => Before(open, s, 1)
      /\ Head(s).kind \in {"running", "compacting", "compacted"} => ~Before(open, s, 1)
  BY <1>1 DEF InOrder
<1> QED BY <1>4, <1>6, <1>7 DEF Before, t

LEMMA StreamType == QueuesOK => Stream \in Seq(Events)
  BY DEF QueuesOK, Stream

\* The agent puts an event at the end of the stream.
LEMMA EmitOrder ==
  ASSUME TypeOK, Orderly, NEW e \in Events, Emit(e), misses' = misses, UNCHANGED <<jobs, buffer, work>>,
         e.kind \in {"text", "failed"} => phase = "running",
         e.kind \in {"running", "compacting", "compacted"} => phase # "running",
         phase' = "running" <=> Opens(e)
  PROVE  Orderly'
<1>1. Stream \in Seq(Events) /\ rx \in Seq(Events) /\ jobs \in Seq(Events) /\ misses \in Nat
  BY StreamType DEF TypeOK, QueuesOK, AgentOK
<1>2. rx' = Append(rx, e)
  BY <1>1 DEF Emit, Miss
<1>3. Stream' = Append(Stream, e)
  BY <1>1, <1>2 DEF Stream
<1>4. Unended' = Unended
  BY DEF Unended
<1>5. /\ InOrder(Unended, Append(Stream, e))
      /\ Before(Unended, Append(Stream, e), Len(Stream) + 2) <=> Opens(e)
      /\ Len(Append(Stream, e)) = Len(Stream) + 1
  BY <1>1, OrderAppend DEF Orderly
<1>6. (Len(Stream) + 1) + 1 = Len(Stream) + 2
  BY <1>1
<1>7. InOrder(Unended', Stream')
  BY <1>3, <1>4, <1>5
<1>8. Before(Unended', Stream', Len(Stream') + 1) <=> Opens(e)
  BY <1>3, <1>4, <1>5, <1>6
<1> QED BY <1>7, <1>8 DEF Orderly

LEMMA MissesGrow ==
  ASSUME TypeOK, [Next]_vars
  PROVE  /\ misses' = misses \/ Miss
         /\ misses <= misses'
         /\ home' = "here" => home = "here"
<1>1. misses' = misses \/ Miss
  <2>1. CASE Flush \/ Refuge
    BY <2>1, Tries, CallsWrite
  <2>2. CASE ~(Flush \/ Refuge)
    BY <2>2 DEF Next, vars, Begin, Say, Stop, Rest, Die, Post, Leave, Forward, Emit, Pull, Tick,
       SendCard, Update, PatchCard, Patch, Succeeds, Fails, Settle, Ask, Take, Land, BeatPick,
       BeatLock, BeatPatch, SweepLook, SweepJudge, SweepAsk, SweepTake, SweepLand
  <2> QED BY <2>1, <2>2
<1>2. home' = home \/ home = "here"
  BY DEF Next, vars, Begin, Say, Stop, Rest, Die, Post, Leave, Forward, Pull, Tick,
     SendCard, Update, PatchCard, Settle, Flush, Ask, Take, Land, Refuge, BeatPick,
     BeatLock, BeatPatch, SweepLook, SweepJudge, SweepAsk, SweepTake, SweepLand, world, around
<1> QED BY <1>1, <1>2 DEF Miss, TypeOK, AgentOK

\* What an event of an orderly stream leaves, when nothing is missed.
LEMMA PullOpens ==
  ASSUME TypeOK, Stages, Orderly, Pull
  PROVE  /\ Unended' <=> Opens(Head(jobs))
         /\ Opens(Head(jobs)) /\ Head(jobs).kind # "running" => Unended
         /\ Head(jobs).kind \in {"running", "compacting", "compacted"} => buffer = None
         /\ Stream # <<>> /\ Head(jobs) = Head(Stream) /\ Stream' = Tail(Stream)
<1>1. jobs \in Seq(Events) /\ jobs # <<>> /\ rx \in Seq(Events) /\ work.at = "idle"
      /\ Head(jobs) \in Events
  BY DEF Pull, TypeOK, QueuesOK
<1>2. Stream \in Seq(Events) /\ Stream # <<>> /\ Head(Stream) = Head(jobs)
      /\ Stream' = Tail(Stream)
  <2>1. jobs' = Tail(jobs) /\ rx' = rx
    BY DEF Pull
  <2> QED BY <1>1, <2>1 DEF Stream
<1>3. /\ Head(jobs).kind \in {"text", "failed"} => Unended
      /\ Head(jobs).kind \in {"running", "compacting", "compacted"} => ~Unended
  BY <1>2, OrderTail DEF Orderly
<1>4. Unended <=> buffer # None
  BY <1>1 DEF Unended
<1>5. Handle(Head(jobs))
  BY DEF Pull
<1>6. /\ \A buf : Done(buf) => work'.at = "idle"
      /\ \A how, texts, buf : Want(how, texts, buf) => work'.at \in {"idle", "want"}
      /\ \A compact, buf : NewCard(compact, buf) => work'.at \in {"idle", "sending"}
  <2>1. \A buf : Done(buf) => work'.at = "idle"
    BY DEF Done, Resting
  <2>2. \A how, texts, buf : Want(how, texts, buf) => work'.at \in {"idle", "want"}
    BY <2>1 DEF Want, Resting
  <2>3. \A compact, buf : NewCard(compact, buf) => work'.at \in {"idle", "sending"}
    BY <2>1 DEF NewCard, Resting
  <2> QED BY <2>1, <2>2, <2>3
<1>7. Noted # None /\ (Noted \cup {Head(jobs).run}) # None
  BY <1>1, NotedType, NoneIsNone DEF TypeOK, Events
<1>8. Opens(Head(jobs)) => Unended'
  BY <1>1, <1>5, <1>6, <1>7 DEF Handle, Opens, Unended
<1>9. ~Opens(Head(jobs)) => ~Unended'
  <2>1. CASE Head(jobs).kind \in {"completed", "failed"}
    BY <1>5, <2>1 DEF Handle, Unended, Resting
  <2>2. CASE Head(jobs).kind \in {"compacting", "compacted"}
    BY <1>3, <1>4, <1>5, <2>2 DEF Handle, Unended
  <2> QED BY <1>1, <2>1, <2>2 DEF Opens, Events, Kinds
<1> QED BY <1>2, <1>3, <1>4, <1>8, <1>9 DEF Opens

\* The stream stays orderly as long as nothing is missed.
LEMMA NoTick ==
  ASSUME TypeOK, Orderly, misses' = misses
  PROVE  ~Tick
<1> SUFFICES ASSUME Tick PROVE FALSE
  OBVIOUS
<1>1. rx = <<>> /\ jobs = <<>> /\ phase = "idle" /\ buffer # None /\ work.at = "idle"
  BY DEF Tick, Miss, TypeOK, AgentOK
<1>2. Stream = <<>>
  BY <1>1 DEF Stream
<1>3. ~Before(Unended, Stream, Len(Stream) + 1) /\ Len(Stream) + 1 = 1
  BY <1>1, <1>2 DEF Orderly
<1> QED BY <1>1, <1>3 DEF Before, Unended

LEMMA OrderNext ==
  ASSUME TypeOK, Stages, Orderly, home = "here", misses' = misses, [Next]_vars
  PROVE  Orderly'
<1>0. misses \in Nat /\ ~Miss
  BY DEF TypeOK, AgentOK, Miss
<1>1. ASSUME UNCHANGED <<rx, jobs>>, Unended' <=> Unended,
             phase' = "running" <=> phase = "running"
      PROVE  Orderly'
  <2>1. Stream' = Stream
    BY <1>1 DEF Stream
  <2>2. Unended' = Unended
    BY <1>1 DEF Unended
  <2> QED BY <1>1, <2>1, <2>2 DEF Orderly
<1>2. CASE Begin
  <2>1. run + 1 \in Run
    BY <1>2, HubAssumption DEF Begin, TypeOK, AgentOK, Run
  <2>2. \A k \in Kinds : [kind |-> k, run |-> run + 1] \in Events
    BY <2>1 DEF Events
  <2> QED BY <1>2, <2>2, EmitOrder DEF Begin, others, reply, Kinds, Opens
<1>3. CASE Say
  <2>1. Event("text") \in Events
    BY DEF Event, Events, Kinds, TypeOK, AgentOK
  <2> QED BY <1>3, <2>1, EmitOrder DEF Say, others, reply, agent, Event, Opens
<1>4. CASE Stop
  <2>1. \A k \in Kinds : Event(k) \in Events
    BY DEF Event, Events, TypeOK, AgentOK
  <2> QED BY <1>4, <2>1, EmitOrder DEF Stop, others, reply, Event, Opens, Kinds
<1>5. CASE Rest \/ Die \/ Post \/ Leave
  BY <1>0, <1>1, <1>5 DEF Rest, Die, Post, Leave, others, reply, queues, agent, Unended
<1>6. CASE Forward
  <2>1. rx # <<>> /\ rx' = Tail(rx) /\ jobs' = Append(jobs, Head(rx))
    BY <1>0, <1>6 DEF Forward
  <2>2. Stream' = Stream
    BY <2>1 DEF Stream, TypeOK, QueuesOK
  <2>3. UNCHANGED <<phase, buffer, work>>
    BY <1>6 DEF Forward, agent, others, reply
  <2>4. Unended' = Unended
    BY <2>3 DEF Unended
  <2> QED BY <2>2, <2>3, <2>4 DEF Orderly
<1>7. CASE Pull
  <2> DEFINE e == Head(Stream)
  <2>1. Stream # <<>> /\ Stream' = Tail(Stream) /\ (Unended' <=> Opens(e))
    BY <1>7, PullOpens
  <2>2. /\ InOrder(Opens(e), Tail(Stream))
        /\ Before(Opens(e), Tail(Stream), Len(Tail(Stream)) + 1)
             <=> Before(Unended, Stream, Len(Stream) + 1)
    BY <2>1, StreamType, OrderTail DEF Orderly, TypeOK
  <2>3. phase' = phase
    BY <1>7 DEF Pull, agent
  <2>4. Unended' = Opens(e)
    BY <2>1 DEF Unended, Opens
  <2> HIDE DEF e
  <2> QED BY <2>1, <2>2, <2>3, <2>4 DEF Orderly
<1>8. CASE Tick
  BY <1>8, NoTick
<1>9. CASE Settle
  <2>1. UNCHANGED <<rx, jobs, phase>> /\ work.at = "settle" /\ buffer' = None
    BY <1>0, <1>9 DEF Settle, world, queues, agent
  <2> QED BY <2>1, <1>1 DEF Unended
<1>10. CASE SendCard \/ Update \/ PatchCard \/ Flush \/ Ask \/ Take \/ Land \/ Refuge
  <2>1. UNCHANGED <<rx, jobs, phase, buffer>> /\ work.at # "settle"
    BY <1>10 DEF SendCard, Update, PatchCard, Flush, Ask, Take, Land, Refuge, world, queues,
       agent, reply
  <2>2. work \in Handling
    BY DEF TypeOK, WorkOK
  <2>3. Stateless => work'.at # "settle"
    BY <2>2 DEF Stateless, Done, Resting, Handling
  <2>4. \A buf : Done(buf) => work'.at # "settle"
    BY DEF Done, Resting
  <2>5. work'.at # "settle"
    <3>1. CASE Flush \/ Refuge
      BY <2>1, <2>2, <2>4, <3>1, Tries, OnwardWork, PlainWork
    <3>2. CASE SendCard \/ Update \/ PatchCard \/ Ask \/ Take \/ Land
      BY <3>2, <2>2, <2>3, <2>4 DEF SendCard, Update, PatchCard, Ask, Take, Land, Handling
    <3> QED BY <1>10, <3>1, <3>2
  <2> QED BY <2>1, <2>5, <1>1 DEF Unended
<1>11. CASE BeatPick \/ BeatLock \/ BeatPatch
             \/ SweepLook \/ SweepJudge \/ SweepAsk \/ SweepTake \/ SweepLand
  BY <1>1, <1>11 DEF BeatPick, BeatLock, BeatPatch, SweepLook, SweepJudge, SweepAsk, SweepTake,
     SweepLand, around, queues, reply, agent, Unended
<1>12. CASE UNCHANGED vars
  BY <1>1, <1>12 DEF vars, queues, reply, agent, Unended
<1> QED BY <1>2, <1>3, <1>4, <1>5, <1>6, <1>7, <1>8, <1>9, <1>10, <1>11, <1>12 DEF Next

LEMMA PullTraced ==
  ASSUME TypeOK, LockInv, Stages, Orderly, Traced, home = "here", misses' = misses, Pull
  PROVE  Traced'
<1> DEFINE e == Head(jobs)
<1>1. /\ Handle(e) /\ work.at = "idle" /\ e \in Events
      /\ UNCHANGED <<agent, rx, talk, beat, sweep, chat, home, misses>>
  BY DEF Pull, TypeOK, QueuesOK
<1>2. /\ Unended' <=> Opens(e)
      /\ Opens(e) /\ e.kind # "running" => Unended
      /\ e.kind \in {"running", "compacting", "compacted"} => buffer = None
  BY PullOpens
<1>3. /\ Unended => card # None
      /\ card # None => card.msg # 0
      /\ Noted # {} => card # None /\ Noted \subseteq card.trace
  BY <1>1 DEF Traced
<1> HIDE DEF e
<1>4. Noted # None /\ (Noted \cup {e.run}) # None /\ e.run \in Run
  BY <1>1, NotedType, NoneIsNone DEF TypeOK, Events
<1>5. ASSUME NEW buf, Done(buf), UNCHANGED card, Unended' => card # None,
             Noted' # {} => card # None /\ Noted' \subseteq card.trace
      PROVE  Traced'
  <2>1. work'.at = "idle" /\ ~work'.tick /\ work'.hand = None
    BY <1>5 DEF Done, Resting
  <2> QED BY <1>3, <1>5, <2>1 DEF Traced, Delivering, Below
<1>6. ASSUME NEW how \in {"update", "compact"}, NEW texts \in SUBSET Run, NEW buf,
             Want(how, texts, buf), Unended' => card # None,
             Noted' \subseteq Noted \cup texts, texts # {} => card # None,
             how = "compact" => buffer' = None
      PROVE  Traced'
  <2>1. UNCHANGED card
    BY <1>6 DEF Want, cards
  <2>2. CASE card = None
    <3>1. Noted = {} /\ texts = {}
      BY <1>3, <1>6, <2>2
    <3>2. Noted' = {}
      BY <1>6, <3>1
    <3>3. Done(buf)
      BY <1>6, <2>2 DEF Want
    <3> QED BY <1>5, <1>6, <2>1, <3>2, <3>3
  <2>3. CASE card # None
    <3>1. work' = [Resting EXCEPT !.at = "want", !.how = how, !.lock = card.lock, !.adds = texts]
      BY <1>1, <1>6, <2>3 DEF Want
    <3>2. /\ work'.at = "want" /\ work'.how = how /\ work'.adds = texts /\ ~work'.tick
          /\ work'.hand = None
      BY <3>1 DEF Resting
    <3>3. Hand' = {} /\ ~Below'
      BY <3>2, <1>6 DEF Hand, Below
    <3>4. Noted \subseteq card.trace
      BY <1>3
    <3>5. Noted' \subseteq card'.trace \cup texts
      BY <1>6, <2>1, <3>4
    <3> QED BY <1>3, <1>6, <2>1, <2>3, <3>2, <3>3, <3>5 DEF Traced, Delivering
  <2> QED BY <2>2, <2>3
<1>7. ASSUME NEW compact \in BOOLEAN, NEW buf, NewCard(compact, buf), buffer = None,
             Noted' = {}
      PROVE  Traced'
  <2>1. CASE card # None
    <3>1. Done(buf) /\ UNCHANGED card
      BY <1>7, <2>1 DEF NewCard
    <3> QED BY <1>5, <1>7, <2>1, <3>1
  <2>2. CASE card = None
    <3>1. /\ card' = [msg |-> 0, trace |-> {}, lock |-> born + 1, compact |-> compact]
          /\ work' = [Resting EXCEPT !.at = "sending"]
      BY <1>1, <1>7, <2>2 DEF NewCard
    <3>2. card' \in CardState
      BY <3>1, <1>7 DEF TypeOK, CardsOK, CardState
    <3>3. work'.at = "sending" /\ ~work'.tick /\ work'.hand = None
      BY <3>1 DEF Resting
    <3> QED BY <1>7, <3>2, <3>3, NoneIsNone DEF Traced, Delivering, Below
  <2> QED BY <2>1, <2>2
<1>8. CASE e.kind = "running"
  <2>1. buffer' = Noted /\ NewCard(FALSE, Noted) /\ buffer = None
    BY <1>1, <1>2, <1>8 DEF Handle
  <2>2. Noted' = {}
    BY <2>1 DEF Noted
  <2> QED BY <1>7, <2>1, <2>2
<1>9. CASE e.kind = "text"
  <2>1. buffer' = Noted \cup {e.run} /\ Want("update", {e.run}, Noted \cup {e.run})
    BY <1>1, <1>9 DEF Handle
  <2>2. Noted' = Noted \cup {e.run}
    BY <1>4, <2>1 DEF Noted
  <2>3. card # None
    BY <1>2, <1>3, <1>9 DEF Opens
  <2>4. {e.run} \in SUBSET Run
    BY <1>4
  <2> QED BY <1>6, <2>1, <2>2, <2>3, <2>4
<1>10. CASE e.kind \in {"completed", "failed"}
  <2>1. work' = [Resting EXCEPT !.at = "settle", !.why = e.kind] /\ UNCHANGED <<buffer, card>>
    BY <1>1, <1>10 DEF Handle, reply, cards
  <2>2. work'.at = "settle" /\ ~work'.tick /\ work'.hand = None
    BY <2>1 DEF Resting
  <2>3. Noted' = Noted
    BY <2>1 DEF Noted
  <2> QED BY <1>3, <2>1, <2>2, <2>3 DEF Traced, Unended, Delivering, Below
<1>11. CASE e.kind \in {"compacting", "compacted"}
  <2>1. buffer = None /\ buffer' = None
    BY <1>1, <1>2, <1>11 DEF Handle
  <2>2. Noted' = {} /\ Noted = {} /\ ~Unended'
    BY <2>1 DEF Noted, Unended
  <2>3. \/ \E how \in {"update", "compact"} : Want(how, {}, buffer)
        \/ \E compact \in BOOLEAN : NewCard(compact, buffer)
        \/ Done(buffer) /\ UNCHANGED card
    BY <1>1, <1>11 DEF Handle, cards
  <2>4. {} \in SUBSET Run
    OBVIOUS
  <2> QED BY <1>5, <1>6, <1>7, <2>1, <2>2, <2>3, <2>4
<1> QED BY <1>1, <1>8, <1>9, <1>10, <1>11 DEF Events, Kinds

LEMMA TracedNext ==
  ASSUME TypeOK, LockInv, Stages, Orderly, Traced, home = "here", misses' = misses, [Next]_vars
  PROVE  Traced'
<1>0. misses \in Nat /\ ~Miss /\ work \in Handling
  BY DEF TypeOK, AgentOK, Miss, WorkOK
<1>1. CASE UNCHANGED <<buffer, card, work>>
  BY <1>1 DEF Traced, Unended, Delivering, Below, Noted, Hand, Shows
<1>2. CASE Begin \/ Say \/ Stop \/ Rest \/ Die \/ Post \/ Leave \/ Forward
  BY <1>1, <1>2 DEF Begin, Say, Stop, Rest, Die, Post, Leave, Forward, others, reply, cards
<1>3. CASE BeatPick \/ BeatLock \/ BeatPatch \/ SweepLook \/ SweepJudge \/ SweepAsk \/ SweepLand
  BY <1>1, <1>3 DEF BeatPick, BeatLock, BeatPatch, SweepLook, SweepJudge, SweepAsk, SweepLand,
     around, reply
<1>4. CASE SweepTake
  <2>1. UNCHANGED <<buffer, work>> /\ card' = None
    BY <1>4 DEF SweepTake, around, reply
  <2>2. card = None \/ (Quiet /\ ~flag)
    BY <1>0, <1>4 DEF SweepTake
  <2>3. CASE card = None
    BY <1>1, <2>1, <2>3
  <2>4. CASE Quiet /\ ~flag
    <3>1. work.at = "idle" /\ buffer = None /\ work.hand = None
      BY <2>4 DEF Quiet, Traced, Stages
    <3>2. Noted' = {} /\ Hand' = {} /\ ~Unended' /\ work'.at = "idle" /\ ~work'.tick
      BY <2>1, <3>1 DEF Noted, Hand, Unended, Traced
    <3> QED BY <2>1, <3>1, <3>2 DEF Traced, Delivering, Below
  <2> QED BY <2>2, <2>3, <2>4
<1>5. CASE Pull
  BY <1>5, PullTraced
<1>6. CASE Tick
  BY <1>6, NoTick
<1>7. ASSUME Done(buffer), UNCHANGED buffer,
             Unended => card' # None,
             card' # None => card'.msg # 0,
             Noted # {} => card' # None /\ Noted \subseteq card'.trace,
             work.at # "settle"
      PROVE  Traced'
  <2>1. work'.at = "idle" /\ ~work'.tick /\ work'.hand = None
    BY <1>7 DEF Done, Resting
  <2>2. Noted' = Noted /\ (Unended' => Unended)
    BY <1>7 DEF Noted, Unended
  <2> QED BY <1>7, <2>1, <2>2 DEF Traced, Delivering, Below
<1>8. CASE SendCard
  <2>1. /\ card = None => card' = None
        /\ card # None => card' = [card EXCEPT !.msg = Len(chat) + 1]
        /\ Done(buffer) /\ UNCHANGED buffer /\ work.at = "sending"
    BY <1>0, <1>8 DEF SendCard, Fails
  <2>2. card # None => /\ card' # None /\ card'.msg # 0 /\ card'.trace = card.trace
    <3>1. Len(chat) + 1 \in Nat /\ Len(chat) + 1 # 0
      BY DEF TypeOK, CardsOK
    <3>2. card # None => card' \in CardState
      BY <2>1, <3>1 DEF TypeOK, CardsOK, CardState
    <3> QED BY <2>1, <3>1, <3>2, NoneIsNone DEF TypeOK, CardsOK, CardState
  <2> QED BY <1>7, <2>1, <2>2 DEF Traced
<1>9. CASE Update
  <2>1. /\ work.at = "want" /\ work.how = "update" /\ UNCHANGED buffer
        /\ card = None => card' = None /\ Done(buffer)
        /\ card # None => card' = [card EXCEPT !.trace = @ \cup work.adds]
    BY <1>9 DEF Update
  <2>2. card # None => card' # None /\ card'.msg = card.msg /\ card'.trace = card.trace \cup work.adds
    <3>1. work.adds \in SUBSET Run
      BY <1>0 DEF Handling
    <3>2. card # None => card' \in CardState
      BY <2>1, <3>1 DEF TypeOK, CardsOK, CardState
    <3> QED BY <2>1, <3>2, NoneIsNone DEF TypeOK, CardsOK, CardState
  <2>3. /\ Unended => card' # None
        /\ card' # None => card'.msg # 0
        /\ Noted # {} => card' # None /\ Noted \subseteq card'.trace
    BY <2>1, <2>2 DEF Traced
  <2>4. CASE Done(buffer)
    BY <1>7, <2>1, <2>3, <2>4
  <2>5. CASE work' = [work EXCEPT !.at = "patching", !.card = card]
    <3>1. /\ work'.at = "patching" /\ work'.tick = work.tick /\ work'.hand = work.hand
      BY <2>5, <1>0 DEF Handling
    <3>2. Noted' = Noted /\ (Unended' => Unended)
      BY <2>1, <3>1 DEF Noted, Unended
    <3> QED BY <2>3, <3>1, <3>2 DEF Traced, Delivering, Below
  <2> QED BY <1>9, <2>4, <2>5 DEF Update
<1>10. CASE PatchCard
  <2>1. work.at = "patching" /\ UNCHANGED <<card, buffer>> /\ Done(buffer)
    BY <1>10 DEF PatchCard
  <2> QED BY <1>7, <2>1 DEF Traced
<1>11. CASE Settle
  <2>1. UNCHANGED card /\ work.at = "settle" /\ buffer' = None
    BY <1>0, <1>11 DEF Settle, cards
  <2>2. /\ work'.at \in {"flush", "ask"} /\ work'.hand = buffer /\ work'.tick = work.tick
        /\ work'.at = "ask" => work'.how = "morph"
    BY <1>0, <1>11 DEF Settle, Handling
  <2>3. Hand' = Noted /\ Noted' = {} /\ ~Unended' /\ ~Below'
    BY <2>1, <2>2 DEF Hand, Noted, Unended, Below
  <2>4. Noted # {} => Shows(Noted)
    BY <2>1 DEF Traced, Shows
  <2>5. Noted # {} => Shows(Noted)'
    BY <2>1, <2>3, <2>4 DEF Shows
  <2>6. Hand' # {} => Shows(Hand)'
    BY <2>1, <2>3, <2>4 DEF Shows
  <2> QED BY <2>1, <2>2, <2>3, <2>6 DEF Traced
<1>12. CASE Flush
  <2>1. UNCHANGED <<card, buffer>> /\ work.at = "flush"
    BY <1>12 DEF Flush, cards, reply
  <2>2. \/ Onward(TRUE) /\ HasText
        \/ Onward(FALSE) /\ ~HasText
    BY <1>0, <1>12, Tries DEF Fails
  <2>4. /\ work'.at = "ask" /\ work'.hand = work.hand /\ work'.tick = work.tick
        /\ work'.keep => ~HasText
    BY <1>0, <2>1, <2>2, OnwardWork
  <2>5. Hand' = Hand /\ Noted' = Noted /\ Unended' = Unended
    BY <2>1, <2>4 DEF Hand, Noted, Unended
  <2>6. work'.keep => Hand = {}
    BY <2>4 DEF HasText, Hand
  <2>7. Hand # {} => Shows(Hand)'
    BY <2>1, <2>5 DEF Traced, Shows
  <2>8. buffer = None /\ Noted = {}
    BY <2>1 DEF Traced, Delivering, Noted
  <2> QED BY <2>1, <2>4, <2>5, <2>6, <2>7, <2>8 DEF Traced, Shows
<1>13. CASE (Ask \/ Take \/ Land) /\ Stateless /\ UNCHANGED <<buffer, card>> /\ card = None
  <2>1. Delivering \/ work.at = "want"
    BY <1>13 DEF Ask, Take, Land, Delivering
  <2>2. buffer = None
    BY <1>13, <2>1 DEF Traced, Delivering, Take, Ask, Land
  <2>3. work.at # "settle" /\ ~Unended /\ Noted = {} /\ ~Unended' /\ Noted' = {}
    BY <1>13, <2>1, <2>2 DEF Unended, Noted, Delivering
  <2>4. CASE Done(buffer)
    BY <1>7, <1>13, <2>3, <2>4
  <2>5. CASE work.how = "morph" /\ work'.at = "refuge" /\ work'.hand = work.hand
             /\ work'.tick = work.tick
    <3>1. CASE ~Land
      <4>1. Hand = {}
        BY <1>13, <3>1 DEF Ask, Take, Traced, Shows
      <4>2. Hand' = {}
        BY <2>5, <4>1 DEF Hand
      <4> QED BY <1>13, <2>2, <2>3, <2>5, <4>2 DEF Traced, Below
    <3>2. CASE Land
      BY <1>0, <2>5, <3>2 DEF Land, Done, Resting, Fails
    <3> QED BY <3>1, <3>2
  <2> QED BY <1>13, <2>4, <2>5, StatelessTexts
<1>14. CASE Ask
  <2>1. CASE work' = [work EXCEPT !.at = "want", !.lock = card.lock] /\ card # None
    <3>1. /\ work'.at = "want" /\ work'.how = work.how /\ work'.hand = work.hand
          /\ work'.tick = work.tick /\ work'.keep = work.keep
      BY <2>1, <1>0 DEF Handling
    <3>2. UNCHANGED <<buffer, card>> /\ work.at = "ask" /\ work.how # "update"
      BY <1>14 DEF Ask, cards, Stages
    <3>3. Hand' = Hand /\ buffer = None /\ Noted' = {} /\ ~Unended'
      BY <3>1, <3>2 DEF Hand, Noted, Unended, Traced, Delivering
    <3>4. Hand # {} => Shows(Hand)'
      BY <3>2, <3>3 DEF Traced, Shows
    <3> QED BY <3>1, <3>2, <3>3, <3>4 DEF Traced, Below, Shows
  <2> QED BY <1>13, <1>14, <2>1 DEF Ask, cards
<1>15. CASE Take
  <2>1. CASE /\ card # None /\ card' = None
             /\ work' = [work EXCEPT !.at = "land", !.card = card]
    <3>1. /\ work'.at = "land" /\ work'.how = work.how /\ work'.hand = work.hand
          /\ work'.tick = work.tick /\ work'.keep = work.keep
      BY <2>1, <1>0 DEF Handling
    <3>2. UNCHANGED buffer /\ work.at = "want" /\ work.how # "update"
      BY <1>15 DEF Take
    <3>3. Hand' = Hand /\ buffer = None /\ Noted' = {} /\ ~Unended'
      BY <3>1, <3>2 DEF Hand, Noted, Unended, Traced, Delivering
    <3> QED BY <2>1, <3>1, <3>2, <3>3 DEF Traced, Below
  <2> QED BY <1>13, <1>15, <2>1 DEF Take
<1>16. CASE Land \/ Refuge
  <2>1. UNCHANGED <<buffer, card>> /\ work.at \in {"land", "refuge"}
    BY <1>16 DEF Land, Refuge, cards
  <2>2. buffer = None /\ Noted = {} /\ ~Unended
    BY <2>1 DEF Traced, Delivering, Noted, Unended
  <2>3. Done(buffer)
    BY <1>0, <1>16, Tries DEF Land, Fails, Refuge, Onward
  <2> QED BY <1>7, <2>1, <2>2, <2>3 DEF Traced
<1>17. CASE UNCHANGED vars
  BY <1>1, <1>17 DEF vars, reply, cards
<1> QED BY <1>2, <1>3, <1>4, <1>5, <1>6, <1>8, <1>9, <1>10, <1>11, <1>12, <1>14, <1>15, <1>16,
           <1>17 DEF Next

LEMMA ShownGrows ==
  ASSUME TypeOK, LockInv, [Next]_vars, NEW kind \in {"reply", "unanswered", "receipt"}
  PROVE  Shown(kind) \subseteq Shown(kind)'
<1>1. \A m \in Sent(kind) : m \in Settled
  BY DEF Settled
<1>2. \A m \in Sent(kind) : m \in Sent(kind)' /\ chat'[m] = chat[m]
  BY <1>1, SettledStep DEF Sent
<1> QED BY <1>2 DEF Shown

\* What a call wrote is shown.
LEMMA PutShown ==
  ASSUME TypeOK, NEW msg \in Nat, NEW w \in Messages, chat' = Put(msg, w),
         msg # 0 => msg \in DOMAIN chat
  PROVE  \A kind : w.kind = kind => w.texts \subseteq Shown(kind)'
<1>1. Spot(msg) \in DOMAIN chat' /\ chat'[Spot(msg)] = w
  BY PutChat DEF TypeOK, CardsOK
<1> QED BY <1>1 DEF Shown, Sent

\* What an action does to the place of the worker's hand.
LEMMA HandMoves ==
  ASSUME TypeOK, Stages, [Next]_vars, ~UNCHANGED work
  PROVE  \/ Pull \/ Tick \/ SendCard \/ Update \/ PatchCard \/ Settle \/ Flush \/ Ask \/ Take
           \/ Land \/ Refuge
BY DEF Next, vars, Begin, Say, Stop, Rest, Die, Post, Leave, Forward, others, BeatPick, BeatLock,
   BeatPatch, SweepLook, SweepJudge, SweepAsk, SweepTake, SweepLand, around

\* Which steps have the worker settle a card below a reply.
LEMMA BelowMoves ==
  ASSUME TypeOK, Stages, [Next]_vars, ~UNCHANGED work, Below'
  PROVE  \/ Flush
         \/ /\ Below /\ work'.hand = work.hand /\ work'.keep = work.keep /\ work'.tick = work.tick
            /\ \/ Ask /\ card # None /\ UNCHANGED card /\ work'.at = "want"
               \/ Take /\ card # None /\ work'.at = "land" /\ work'.card = card
<1>0. work \in Handling
  BY DEF TypeOK, WorkOK
<1>1. \A buf : ~Done(buf)
  BY DEF Done, Resting, Below
<1>2. ~Stateless
  BY <1>1, StatelessTexts DEF Below
<1>3. CASE Pull
  <2>1. Handle(Head(jobs))
    BY <1>3 DEF Pull
  <2>2. \A how \in {"update", "compact"} : \A texts, buf : ~Want(how, texts, buf)
    BY <1>1 DEF Want, Resting, Below
  <2>3. \A compact, buf : ~NewCard(compact, buf)
    BY <1>1 DEF NewCard, Resting, Below
  <2>4. work' # [Resting EXCEPT !.at = "settle", !.why = Head(jobs).kind]
    BY DEF Resting, Below
  <2> QED BY <1>1, <2>1, <2>2, <2>3, <2>4 DEF Handle
<1>4. CASE Tick
  BY <1>4 DEF Tick, Resting, Below
<1>5. CASE SendCard \/ PatchCard
  BY <1>1, <1>5 DEF SendCard, PatchCard
<1>6. CASE Update
  BY <1>0, <1>1, <1>6 DEF Update, Below, Handling
<1>7. CASE Settle
  BY <1>0, <1>1, <1>7 DEF Settle, Below, Handling
<1>8. CASE Ask
  BY <1>0, <1>2, <1>8 DEF Ask, Below, Handling, cards
<1>9. CASE Take
  BY <1>0, <1>2, <1>9 DEF Take, Below, Handling
<1>10. CASE Land
  BY <1>1, <1>2, <1>10 DEF Land
<1>11. CASE Refuge
  <2>1. work.at = "refuge"
    BY <1>11 DEF Refuge
  <2> QED BY <1>0, <1>1, <1>11, <2>1, Tries, OnwardWork, PlainWork DEF Below
<1> QED BY <1>3, <1>4, <1>5, <1>6, <1>7, <1>8, <1>9, <1>10, <1>11, HandMoves

\* While the worker waits for a card nobody but the sweep takes it.
LEMMA CardMoves ==
  ASSUME TypeOK, [Next]_vars, UNCHANGED work, Below
  PROVE  SweepTake \/ UNCHANGED card
<1>1. work \in Handling
  BY DEF TypeOK, WorkOK
<1>2. CASE Pull \/ Tick \/ SendCard \/ Update \/ PatchCard \/ Settle \/ Flush \/ Refuge
  BY <1>2 DEF Pull, Tick, SendCard, Update, PatchCard, Settle, Flush, Refuge, Below
<1>3. CASE Ask \/ Land
  BY <1>3 DEF Ask, Land, cards
<1>4. CASE Take
  <2>1. work' # [work EXCEPT !.at = "land", !.card = card]
    BY <1>1, <1>4 DEF Take, Handling
  <2> QED BY <1>4, <2>1 DEF Take
<1>5. CASE Begin \/ Say \/ Stop \/ Rest \/ Die \/ Post \/ Leave \/ Forward
  BY <1>5 DEF Begin, Say, Stop, Rest, Die, Post, Leave, Forward, others, cards
<1>6. CASE BeatPick \/ BeatLock \/ BeatPatch \/ SweepLook \/ SweepJudge \/ SweepAsk \/ SweepLand
  BY <1>6 DEF BeatPick, BeatLock, BeatPatch, SweepLook, SweepJudge, SweepAsk, SweepLand
<1>7. CASE UNCHANGED vars
  BY <1>7 DEF vars, cards
<1> QED BY <1>2, <1>3, <1>4, <1>5, <1>6, <1>7 DEF Next

LEMMA KeptNext ==
  ASSUME TypeOK, LockInv, Stages, NoMiss, Kept, [Next]_vars
  PROVE  Kept'
<1> SUFFICES ASSUME home' = "here", misses' <= 1, Below', work'.keep, Hand' # {}
             PROVE  /\ ~work'.tick
                    /\ work'.at \in {"ask", "want"} => Shows(Hand)'
                    /\ work'.at = "land" => work'.card.msg # 0 /\ Hand' \subseteq work'.card.trace
  BY DEF Kept
<1>1. /\ home = "here" /\ misses <= 1 /\ misses \in Nat /\ work \in Handling
      /\ Miss => misses = 0
  BY MissesGrow DEF Miss, TypeOK, AgentOK, WorkOK
<1>2. CASE UNCHANGED work
  <2>1. Below /\ work.keep /\ Hand # {} /\ Hand' = Hand
    BY <1>2 DEF Below, Hand
  <2>2. /\ ~work.tick
        /\ work.at \in {"ask", "want"} => Shows(Hand)
        /\ work.at = "land" => work.card.msg # 0 /\ Hand \subseteq work.card.trace
    BY <1>1, <2>1 DEF Kept
  <2>3. misses # 0
    BY <1>1, <2>1 DEF NoMiss, Traced
  <2>4. ~Miss
    BY <1>1, <2>3
  <2>5. CASE UNCHANGED card
    BY <1>2, <2>1, <2>2, <2>5 DEF Shows
  <2>6. CASE SweepTake /\ ~UNCHANGED card
    <3>1. ~Quiet
      BY <2>1, <2>2 DEF Quiet, Below
    <3>2. card = None
      BY <2>4, <2>6, <3>1 DEF SweepTake
    <3> QED BY <2>6, <3>2 DEF SweepTake
  <2> QED BY <2>1, <2>5, <2>6, <1>2, CardMoves
<1>3. CASE ~UNCHANGED work /\ Flush
  <2>1. work.at = "flush" /\ UNCHANGED card
    BY <1>3 DEF Flush, cards
  <2>2. Onward(TRUE) => ~work'.keep
    BY <1>1, <2>1, OnwardWork
  <2>3. /\ work'.at = "ask" /\ work'.hand = work.hand /\ work'.tick = work.tick
        /\ Onward(FALSE)
    BY <1>1, <1>3, <2>1, <2>2, Tries, OnwardWork, PlainWork DEF Below
  <2>4. Hand' = Hand /\ HasText
    BY <2>3 DEF Hand, HasText
  <2>5. misses = 0
    BY <1>1, <1>3, <2>2, <2>4, Tries DEF Fails
  <2>6. Shows(Hand) /\ ~work.tick
    BY <1>1, <2>1, <2>4, <2>5 DEF NoMiss, Traced
  <2> QED BY <2>1, <2>3, <2>4, <2>6 DEF Shows
<1>4. CASE ~UNCHANGED work /\ ~Flush
  <2>1. /\ Below /\ work'.hand = work.hand /\ work'.keep = work.keep /\ work'.tick = work.tick
        /\ \/ Ask /\ card # None /\ UNCHANGED card /\ work'.at = "want"
           \/ Take /\ card # None /\ work'.at = "land" /\ work'.card = card
    BY <1>4, BelowMoves
  <2>2. Hand' = Hand /\ Hand # {} /\ work.keep
    BY <2>1 DEF Hand
  <2>3. /\ ~work.tick
        /\ work.at \in {"ask", "want"} => Shows(Hand)
    BY <1>1, <2>1, <2>2 DEF Kept
  <2>4. Shows(Hand)
    BY <2>1, <2>3 DEF Ask, Take
  <2> QED BY <2>1, <2>2, <2>3, <2>4 DEF Shows
<1> QED BY <1>2, <1>3, <1>4

LEMMA DeliveredNext ==
  ASSUME TypeOK, LockInv, Stages, Delivered, [Next]_vars
  PROVE  Delivered'
<1> SUFFICES ASSUME Below', ~work'.keep
             PROVE  Hand' \subseteq Shown("reply")'
  BY DEF Delivered
<1>1. work \in Handling /\ chat \in Seq(Messages)
  BY DEF TypeOK, WorkOK, CardsOK
<1>2. CASE UNCHANGED work
  BY <1>2, ShownGrows DEF Delivered, Below, Hand
<1>3. CASE ~UNCHANGED work /\ Flush
  <2>1. work.at = "flush"
    BY <1>3 DEF Flush
  <2>2. Onward(FALSE) => work'.keep
    BY <1>1, <2>1, OnwardWork
  <2>3. work' = [work EXCEPT !.plain = TRUE] => ~Below'
    BY <1>1, <2>1, PlainWork DEF Below
  <2>4. HasText /\ chat' = Put(0, Reply) /\ Onward(TRUE)
    BY <1>3, <2>2, <2>3, Tries
  <2>5. work'.hand = work.hand /\ Reply \in Messages /\ Reply.kind = "reply"
        /\ Reply.texts = work.hand
    BY <1>1, <2>1, <2>4, OnwardWork, ReplyType
  <2> QED BY <2>4, <2>5, PutShown DEF Hand
<1>4. CASE ~UNCHANGED work /\ ~Flush
  <2>1. Below /\ work'.hand = work.hand /\ work'.keep = work.keep
    BY <1>4, BelowMoves
  <2> QED BY <2>1, ShownGrows DEF Delivered, Hand
<1> QED BY <1>2, <1>3, <1>4

\* A text in the hand of a worker that lets go of it has been shown.
LEMMA HandKept ==
  ASSUME TypeOK, LockInv, TextInv, LossInv, [Next]_vars, home' = "here", misses' <= 1
  PROVE  Hand \subseteq Hand' \cup Shown("reply")' \cup Shown("receipt")'
<1> SUFFICES ASSUME Hand # {}
             PROVE  Hand \subseteq Hand' \cup Shown("reply")' \cup Shown("receipt")'
  OBVIOUS
<1>1. /\ home = "here" /\ misses <= 1 /\ misses \in Nat /\ work \in Handling
      /\ Miss => misses = 0
      /\ chat \in Seq(Messages)
  BY MissesGrow DEF Miss, TypeOK, AgentOK, WorkOK, CardsOK
<1>2. work.hand # None /\ Hand = work.hand /\ HasText
  BY DEF Hand, HasText
<1>3. CASE work'.hand = work.hand
  BY <1>3 DEF Hand
<1>4. CASE UNCHANGED work
  BY <1>3, <1>4
<1>5. CASE Pull \/ Tick \/ SendCard \/ Update \/ PatchCard \/ Settle
  BY <1>2, <1>5 DEF Pull, Tick, SendCard, Update, PatchCard, Settle, TextInv, Stages
<1>6. CASE Flush
  <2>1. work.at = "flush"
    BY <1>6 DEF Flush
  <2>2. work'.hand = work.hand
    BY <1>1, <1>6, <2>1, Tries, OnwardWork, PlainWork
  <2> QED BY <1>3, <2>2
<1>7. Below /\ ~work.keep => Hand \subseteq Shown("reply")'
  BY ShownGrows DEF LossInv, Delivered
<1>8. Below /\ work.keep =>
        /\ misses # 0
        /\ work.at \in {"ask", "want"} => card # None
        /\ work.at = "land" => work.card.msg # 0 /\ Hand \subseteq work.card.trace
  BY <1>1 DEF LossInv, NoMiss, Traced, Kept, Shows
<1>9. CASE Ask \/ Take
  <2>1. CASE card = None /\ Stateless
    <3>1. CASE work.how = "morph"
      BY <1>3, <2>1, <3>1, StatelessTexts
    <3>2. CASE work.how # "morph"
      <4>1. Below
        BY <1>2, <1>9, <3>2 DEF Ask, Take, TextInv, Stages, Below
      <4> QED BY <1>7, <1>8, <1>9, <2>1, <4>1 DEF Ask, Take
    <3> QED BY <3>1, <3>2
  <2>2. CASE ~(card = None /\ Stateless)
    <3>1. work'.hand = work.hand
      BY <1>1, <1>9, <2>2 DEF Ask, Take, Handling
    <3> QED BY <1>3, <3>1
  <2> QED BY <2>1, <2>2
<1>10. CASE Land
  <2>1. work.at = "land" /\ work.how \in {"morph", "freeze"}
    BY <1>2, <1>10 DEF Land, TextInv, Stages
  <2>2. /\ work.card \in CardState /\ Rendered \in Messages /\ work.card.msg \in Nat
        /\ work.card.msg # 0 => work.card.msg \in DOMAIN chat
    BY <1>1, <2>1, RenderedType
    DEF TypeOK, WorkOK, LockInv, StillOpen, Working, Open
  <2>3. ASSUME Worth, chat' = Put(work.card.msg, Rendered)
        PROVE  Hand \subseteq Shown("reply")' \cup Shown("receipt")'
    <3>1. \A kind : Rendered.kind = kind => Rendered.texts \subseteq Shown(kind)'
      BY <2>2, <2>3, PutShown
    <3>2. CASE work.how = "morph"
      <4>1. Rendered.kind = "reply" /\ Rendered.texts = Hand
        BY <1>1, <1>2, <2>2, <3>2, RenderedType, ReplyType
      <4> QED BY <3>1, <4>1
    <3>3. CASE work.how = "freeze" /\ work.keep
      <4>1. Rendered.kind = "receipt" /\ Rendered.texts = work.card.trace
        BY <3>3 DEF Rendered, Message
      <4>2. Hand \subseteq work.card.trace
        BY <1>8, <2>1, <3>3 DEF Below
      <4> QED BY <3>1, <4>1, <4>2
    <3>4. CASE work.how = "freeze" /\ ~work.keep
      BY <1>7, <2>1, <3>4 DEF Below
    <3> QED BY <2>1, <3>2, <3>3, <3>4
  <2>4. CASE Worth /\ Miss /\ Stateless
    <3>1. CASE work.how = "morph"
      BY <1>3, <2>4, <3>1, StatelessTexts
    <3>2. CASE work.how = "freeze"
      BY <1>1, <1>7, <1>8, <2>1, <2>4, <3>2 DEF Below
    <3> QED BY <2>1, <3>1, <3>2
  <2>5. CASE ~Worth
    <3>1. work.how = "freeze"
      BY <1>2, <2>1, <2>5 DEF Worth, Rendered, Reply, Message
    <3> QED BY <1>7, <1>8, <2>1, <2>5, <3>1 DEF Worth, Below
  <2> QED BY <1>10, <2>3, <2>4, <2>5 DEF Land, Succeeds, Fails
<1>11. CASE Refuge
  <2>1. CASE chat' = Put(0, Reply)
    <3>1. Reply \in Messages /\ Reply.kind = "reply" /\ Reply.texts = Hand
      BY <1>1, <1>2, ReplyType
    <3> QED BY <2>1, <3>1, PutShown
  <2>2. CASE Miss
    BY <1>1, <1>11, <2>2 DEF Refuge, LossInv, NoMiss, Traced
  <2> QED BY <1>2, <1>11, <2>1, <2>2, Tries DEF Fails
<1> QED BY <1>4, <1>5, <1>6, <1>9, <1>10, <1>11, HandMoves DEF TextInv

LEMMA CoveredNext ==
  ASSUME TypeOK, LockInv, TextInv, LossInv, Covered, [Next]_vars
  PROVE  Covered'
<1> SUFFICES ASSUME home' = "here", misses' <= 1
             PROVE  noted' \subseteq Noted' \cup Hand' \cup Shown("reply")'
                                     \cup Shown("unanswered")' \cup Shown("receipt")'
  BY DEF Covered
<1>1. home = "here" /\ misses <= 1
  BY MissesGrow DEF Miss, TypeOK, AgentOK
<1>2. noted \subseteq Noted \cup Hand \cup Shown("reply") \cup Shown("unanswered")
                        \cup Shown("receipt")
  BY <1>1 DEF Covered
<1>3. /\ Hand \subseteq Hand' \cup Shown("reply")' \cup Shown("receipt")'
      /\ Shown("reply") \subseteq Shown("reply")' /\ Shown("receipt") \subseteq Shown("receipt")'
      /\ Shown("unanswered") \subseteq Shown("unanswered")'
  BY HandKept, ShownGrows
<1>4. CASE noted' = noted /\ Noted \subseteq Noted' \cup Hand'
  BY <1>2, <1>3, <1>4
<1>5. CASE Pull
  <2>1. \/ noted' = noted /\ Noted' = Noted
        \/ \E r \in Run : noted' = noted \cup {r} /\ Noted' = Noted \cup {r}
    BY <1>5, PullTexts DEF TextInv
  <2> QED BY <1>2, <1>3, <2>1
<1>6. CASE Settle
  <2>1. noted' = noted /\ work \in Handling
    BY <1>6 DEF Settle, TypeOK, WorkOK
  <2>2. CASE UNCHANGED buffer
    BY <1>4, <2>1, <2>2 DEF Noted
  <2>3. CASE ~UNCHANGED buffer
    <3>1. work'.hand = buffer
      BY <1>1, <1>6, <2>1, <2>3 DEF Settle, Handling
    <3> QED BY <1>4, <2>1, <3>1 DEF Noted, Hand
  <2> QED BY <2>2, <2>3
<1>7. CASE UNCHANGED <<noted, buffer>>
  BY <1>4, <1>7 DEF Noted
<1>8. CASE Begin \/ Say \/ Stop \/ Rest \/ Die \/ Post \/ Leave \/ Forward
  BY <1>7, <1>8 DEF Begin, Say, Stop, Rest, Die, Post, Leave, Forward, others, reply
<1>9. CASE BeatPick \/ BeatLock \/ BeatPatch
             \/ SweepLook \/ SweepJudge \/ SweepAsk \/ SweepTake \/ SweepLand
  BY <1>7, <1>9 DEF BeatPick, BeatLock, BeatPatch, SweepLook, SweepJudge, SweepAsk, SweepTake,
     SweepLand, around, reply
<1>10. CASE Tick \/ SendCard \/ Update \/ PatchCard \/ Flush \/ Ask \/ Take \/ Land \/ Refuge
  BY <1>7, <1>10 DEF Tick, SendCard, Update, PatchCard, Flush, Ask, Take, Land, Refuge, reply
<1>11. CASE UNCHANGED vars
  BY <1>7, <1>11 DEF vars, reply
<1> QED BY <1>5, <1>6, <1>8, <1>9, <1>10, <1>11 DEF Next

LEMMA InitInv == Init => Inv
<1> SUFFICES ASSUME Init PROVE Inv
  OBVIOUS
<1>1. work.at = "idle" /\ work.hand = None /\ ~work.tick
  BY DEF Init, Resting
<1>2. ~Unended /\ Noted = {} /\ Hand = {} /\ ~Below /\ ~Delivering /\ Stream = <<>>
  BY <1>1 DEF Init, Unended, Noted, Hand, Below, Delivering, Stream
<1>3. Orderly /\ Traced
  BY <1>1, <1>2 DEF Init, Orderly, InOrder, Before, Traced
<1>4. Kept /\ Delivered /\ Covered
  BY <1>2 DEF Init, Kept, Delivered, Covered
<1> QED BY <1>3, <1>4, InitType, InitLocks, InitTexts DEF Inv, LossInv, NoMiss

LEMMA InvNext == Inv /\ [Next]_vars => Inv'
<1> SUFFICES ASSUME Inv, [Next]_vars PROVE Inv'
  OBVIOUS
<1>1. TypeOK' /\ LockInv'
  BY TypeNext, LocksNext DEF Inv
<1>2. TextInv'
  BY StagesNext, FreshNext, OneNext DEF Inv, TextInv
<1>3. NoMiss'
  <2> SUFFICES ASSUME home' = "here", misses' = 0
               PROVE  Orderly' /\ Traced'
    BY DEF NoMiss
  <2>1. home = "here" /\ misses = 0 /\ misses' = misses
    BY MissesGrow DEF Inv, TypeOK, AgentOK
  <2> QED BY <2>1, OrderNext, TracedNext DEF Inv, TextInv, LossInv, NoMiss
<1>4. Kept' /\ Delivered' /\ Covered'
  BY KeptNext, DeliveredNext, CoveredNext DEF Inv, TextInv, LossInv
<1> QED BY <1>1, <1>2, <1>3, <1>4 DEF Inv, LossInv

\* No text is sent again once a call that sent it was answered, and none is lost
\* as long as no more than one thing goes wrong.
THEOREM TextsArrive == Spec => []TextsReachChat
<1>1. Inv => TextsReachChat
  BY DEF Inv, TextInv, OnePlace, Covered, Hand, TextsReachChat
<1> QED BY <1>1, InitInv, InvNext, PTL DEF Spec
=============================================================================
