-------------------------------- MODULE Feed --------------------------------
(***************************************************************************)
(* How the events of a session reach a client of the daemon.               *)
(*                                                                         *)
(* The kernel publishes events on its bus; the server's forwarder takes    *)
(* them one by one, keeps them in the session's replay buffer and then     *)
(* fans them out to the live subscriptions.  A subscription is a task of   *)
(* one connection: it first replays the buffer, then drains what arrived   *)
(* meanwhile, then follows.  The client routes what the connection brings  *)
(* to local receivers, which outlive the connection: after a reconnect it  *)
(* subscribes anew for every router that still has a receiver.             *)
(*                                                                         *)
(* One session and one client.  An event is named by its number in the     *)
(* order of publication; the code's ids need not grow in that order, as    *)
(* each thread has a generator of its own and a guard's event gets its id  *)
(* long before it is published.                                            *)
(* src/crates/kernel/src: comms/bus.rs, server/mod.rs,                     *)
(* server/event_buffer.rs, server/dispatcher.rs, client/remote/mod.rs,     *)
(* client/remote/api.rs                                                    *)
(***************************************************************************)
EXTENDS Integers, SequencesExt

CONSTANTS
  Session,   \* the key of the session's router
  All,       \* the key of the router of all events ("*")
  None,
  Kinds,     \* the kinds of event that are published
  MaxEvents, \* bound: events published
  MaxQueue,  \* what the forwarder's listener queue, a subscription's receiver
             \* and the connection's outbound queue hold
  MaxBuffer, \* what the replay buffer holds (10000 in the code)
  MaxTries   \* bound: calls that subscribe, and connections lost

Keys == {Session, All}

\* What the kernel publishes.
Event == [id : Nat, kind : Kinds]

ASSUME FeedAssumption ==
  /\ Session # All
  /\ None \notin Event \cup Keys
  /\ {MaxEvents, MaxTries} \subseteq Nat
  /\ {MaxQueue, MaxBuffer} \subseteq Nat \ {0}

VARIABLES
  published, \* how many events there were
  stamp,     \* the place of each event's id in the order of ids
  queue,     \* the forwarder's listener queue
  held,      \* the event that is buffered and not yet fanned out, or None
  buffer,    \* the replay buffer of the session
  subs,      \* [Keys -> subscription task of the connection]
  link,      \* the connection: "up", "cut" (the client does not know yet), "down"
  requests,  \* on their way to the server
  wire,      \* on its way to the client
  app,       \* [Keys -> what the client's caller is at]
  todo,      \* routers the client has still to subscribe for after a reconnect
  resubs,    \* the router whose subscription is under way, or None
  tries,     \* calls that subscribed, and connections lost
  due,       \* history: [Keys -> ids the subscription owes]
  sent,      \* history: [Keys -> ids in the order the subscription sent them]
  got,       \* [Keys -> ids the router's receivers were ever given]: what a cursor may be
  brought,   \* history: [Keys -> ids the receiver got from this subscription]
  excused,   \* history: [Keys -> ids a full queue, a lost connection or a missing receiver took]
  late,      \* history: [Keys -> ids queued at the replay that the buffer no longer held]
  strayed    \* history: routers whose receiver attached after its connection was lost

server == <<queue, held, buffer, subs>>
client == <<app, todo, resubs>>
bounds == <<published, stamp, tries>>
history == <<due, sent, brought, excused, late, strayed>>
vars == <<server, client, bounds, history, got, link, requests, wire>>

NoSub == [at |-> "none", n |-> 0, rt |-> <<>>, lagged |-> FALSE, seen |-> {}, after |-> 0]

Init ==
  /\ published = 0 /\ stamp = <<>> /\ queue = <<>> /\ held = None /\ buffer = <<>>
  /\ subs = [k \in Keys |-> NoSub]
  /\ link = "up" /\ requests = <<>> /\ wire = <<>>
  /\ app = [k \in Keys |-> "idle"] /\ todo = {} /\ resubs = None
  /\ tries = 0
  /\ due = [k \in Keys |-> {}] /\ sent = [k \in Keys |-> <<>>] /\ brought = [k \in Keys |-> {}]
  /\ excused = [k \in Keys |-> {}] /\ late = [k \in Keys |-> {}] /\ strayed = {}
  /\ got = [k \in Keys |-> {}]

Ids(events) == {events[i].id : i \in DOMAIN events}
Contents(envelopes) == FlattenSeq([i \in DOMAIN envelopes |-> envelopes[i].ids])

---------------------------------------------------------------------------
(* The kernel and the forwarder.                                           *)

\* PubSub: an event that finds the listener's queue full is dropped.  Its id may come before
\* or after that of any earlier event.
Emit(kind) ==
  /\ published < MaxEvents
  /\ published' = published + 1
  /\ \E place \in (1..MaxEvents) \ ToSet(stamp) : stamp' = Append(stamp, place)
  /\ LET e == [id |-> published + 1, kind |-> kind]
     IN IF Len(queue) < MaxQueue
          THEN /\ queue' = Append(queue, e)
               /\ due' = [k \in Keys |-> IF subs[k].at \in {"none", "deaf"} \/ kind = "added"
                                           THEN due[k] ELSE due[k] \cup {e.id}]
          ELSE UNCHANGED <<queue, due>>
  /\ UNCHANGED <<held, buffer, subs, client, tries, sent, brought, got, excused, late, strayed, link, requests, wire>>

\* A full buffer gives up its oldest event.
Keep(e) == Append(IF Len(buffer) < MaxBuffer THEN buffer ELSE Tail(buffer), e)

\* forward_envelope, up to the fan-out.  A persisted message clears the buffer and goes no
\* further; a side question's event is not buffered; a stop empties the buffer behind itself.
Take ==
  /\ queue # <<>> /\ held = None
  /\ queue' = Tail(queue)
  /\ LET e == Head(queue)
     IN /\ held' = IF e.kind = "added" THEN None ELSE e
        /\ buffer' = CASE e.kind \in {"added", "stopped"} -> <<>>
                       [] e.kind = "btw" -> buffer
                       [] OTHER -> Keep(e)
  /\ UNCHANGED <<subs, client, bounds, history, got, link, requests, wire>>

\* The receiver is registered before the task starts.
Registered(k) == subs[k].at \in {"replaying", "draining", "live"}

\* The receiver of a subscription that lags loses its oldest events.
Publish ==
  /\ held # None
  /\ LET Over(k) == Registered(k) /\ Len(subs[k].rt) = MaxQueue
         Queued(k) == IF Over(k) THEN Append(Tail(subs[k].rt), held) ELSE Append(subs[k].rt, held)
     IN /\ subs' = [k \in Keys |-> IF Registered(k) THEN [subs[k] EXCEPT !.rt = Queued(k),
                                                    !.lagged = @ \/ (Over(k) /\ subs[k].at # "live")]
                                                    ELSE subs[k]]
        /\ excused' = [k \in Keys |-> IF Over(k) THEN excused[k] \cup {Head(subs[k].rt).id}
                                                 ELSE excused[k]]
  /\ held' = None
  /\ UNCHANGED <<queue, buffer, client, bounds, due, sent, brought, got, late, strayed, link, requests, wire>>

---------------------------------------------------------------------------
(* A subscription task.                                                    *)

\* try_merge: consecutive chunks become one envelope under the id of the newer.
Merge(envelopes, e) ==
  IF envelopes # <<>> /\ Last(envelopes).kind = "chunk" /\ e.kind = "chunk"
    THEN Append(Front(envelopes), [Last(envelopes) EXCEPT !.ids = Append(@, e.id), !.id = e.id])
    ELSE Append(envelopes, [id |-> e.id, ids |-> <<e.id>>, kind |-> e.kind])

\* The code's order of ids.
Before(x, y) == stamp[x] < stamp[y]

\* MUTANT of Starts: a cursor that is not in the buffer costs the event behind its place.
StartsPast(cursor) ==
  IF cursor = 0
    THEN {1}
    ELSE {i + 1 : i \in {j \in DOMAIN buffer : buffer[j].id = cursor}}
         \cup {i + 1 : i \in {j \in 1..Len(buffer) :
                 /\ j = 1 \/ Before(buffer[j - 1].id, cursor)
                 /\ Before(cursor, buffer[j].id)}}

\* Where the replay may begin.  A binary search finds the cursor, or else a place between an
\* id before it and one behind it: there may be several where the ids are out of order.
Starts(cursor) ==
  IF cursor = 0
    THEN {1}
    ELSE {i + 1 : i \in {j \in DOMAIN buffer : buffer[j].id = cursor}}
         \cup {i \in 1..(Len(buffer) + 1) :
                 /\ i = 1 \/ Before(buffer[i - 1].id, cursor)
                 /\ i = Len(buffer) + 1 \/ Before(cursor, buffer[i].id)}

From(start) == FoldLeft(Merge, <<>>, SubSeq(buffer, start, Len(buffer)))

\* What the search may pass over: what is buffered up to an event whose id is before the
\* cursor's.
Astray(cursor) ==
  {x \in Ids(buffer) : cursor # 0 /\ \E y \in Ids(buffer) : x <= y /\ Before(y, cursor)}

\* try_send onto the connection's queue: what finds it full is dropped.
Send(k, envelopes) ==
  LET room == Min({MaxQueue - Len(wire), Len(envelopes)})
      fit == SubSeq(envelopes, 1, room)
      rest == SubSeq(envelopes, room + 1, Len(envelopes))
  IN /\ wire' = wire \o [i \in DOMAIN fit |-> [type |-> "event", of |-> k, n |-> subs[k].n, ids |-> fit[i].ids]]
     /\ sent' = [sent EXCEPT ![k] = @ \o Contents(fit)]
     /\ excused' = [excused EXCEPT ![k] = @ \cup ToSet(Contents(rest))]

\* What was published after the cursor's event is owed, wherever the replay begins.
Replay(k) ==
  /\ subs[k].at = "replaying"
  /\ \E start \in Starts(subs[k].after) :
       LET replayed == From(start)
           owed == {x \in Ids(buffer) \ Astray(subs[k].after) : x > subs[k].after}
       IN /\ Send(k, replayed)
          /\ subs' = [subs EXCEPT ![k].at = "draining", ![k].seen = Ids(replayed)]
          /\ due' = [due EXCEPT ![k] = @ \cup owed \cup ToSet(Contents(replayed))]
          /\ late' = [late EXCEPT ![k] = Ids(subs[k].rt) \ ToSet(Contents(replayed))]
  /\ UNCHANGED <<queue, held, buffer, client, bounds, brought, got, strayed, link, requests>>

\* Between the replay and the live loop an event is sent unless its id was replayed.
Drain(k) ==
  /\ subs[k].at = "draining" /\ subs[k].rt # <<>> /\ ~subs[k].lagged
  /\ LET e == Head(subs[k].rt)
     IN IF e.id \in subs[k].seen
          THEN /\ subs' = [subs EXCEPT ![k].rt = Tail(@)]
               /\ UNCHANGED <<wire, sent, excused>>
          ELSE /\ subs' = [subs EXCEPT ![k].rt = Tail(@), ![k].seen = @ \cup {e.id}]
               /\ Send(k, Merge(<<>>, e))
  /\ UNCHANGED <<queue, held, buffer, client, bounds, due, brought, got, late, strayed, link, requests>>

\* What has lagged is not drained further.
Follow(k) ==
  /\ subs[k].at = "draining" /\ (subs[k].rt = <<>> \/ subs[k].lagged)
  /\ subs' = [subs EXCEPT ![k].at = "live", ![k].seen = {}, ![k].lagged = FALSE]
  /\ UNCHANGED <<queue, held, buffer, client, bounds, history, got, link, requests, wire>>

\* MUTANT of Forward: the live loop runs beside the replay.
ForwardAtOnce(k) ==
  /\ subs[k].at \in {"replaying", "live"} /\ subs[k].rt # <<>>
  /\ subs' = [subs EXCEPT ![k].rt = Tail(@)]
  /\ Send(k, Merge(<<>>, Head(subs[k].rt)))
  /\ UNCHANGED <<queue, held, buffer, client, bounds, due, brought, got, late, strayed, link, requests>>

Forward(k) ==
  /\ subs[k].at = "live" /\ subs[k].rt # <<>>
  /\ subs' = [subs EXCEPT ![k].rt = Tail(@)]
  /\ Send(k, Merge(<<>>, Head(subs[k].rt)))
  /\ UNCHANGED <<queue, held, buffer, client, bounds, due, brought, got, late, strayed, link, requests>>

\* Subscribe and SubscribeAll: the old task is aborted, the new one registered, the reply
\* sent.  A Subscribe for "*" makes a subscription of a session that has no events.
Fresh(r) ==
  [NoSub EXCEPT !.at = CASE r.key = Session -> "replaying"
                         [] r.key = All /\ r.all -> "live"
                         [] OTHER -> "deaf",
                !.n = subs[r.key].n + 1,
                !.after = r.after]

Underway == Ids(queue) \cup (IF held = None THEN {} ELSE {held.id})

Serve ==
  /\ link = "up" /\ requests # <<>> /\ Len(wire) < MaxQueue
  /\ LET r == Head(requests)
         added == {e.id : e \in {queue[i] : i \in {j \in DOMAIN queue : queue[j].kind = "added"}}}
     IN /\ subs' = [subs EXCEPT ![r.key] = Fresh(r)]
        /\ wire' = Append(wire, [type |-> "reply", of |-> r.key, resub |-> r.resub])
        /\ due' = [due EXCEPT ![r.key] = IF Fresh(r).at = "deaf" THEN {} ELSE Underway \ added]
        /\ sent' = [sent EXCEPT ![r.key] = <<>>]
        /\ excused' = [excused EXCEPT ![r.key] = {}]
        /\ brought' = [brought EXCEPT ![r.key] = {}]
        /\ late' = [late EXCEPT ![r.key] = {}]
        /\ strayed' = strayed \ {r.key}
  /\ requests' = Tail(requests)
  /\ UNCHANGED <<queue, held, buffer, client, bounds, got, link>>

---------------------------------------------------------------------------
(* The client.                                                             *)

Request(k, after, resub) == [key |-> k, all |-> k = All /\ ~resub, after |-> after, resub |-> resub]

\* A caller subscribes, to all that is buffered or to what follows an event it saw; a call for
\* all events has no cursor.
Ask(k, after) ==
  /\ link # "down" /\ app[k] = "idle" /\ tries < MaxTries
  /\ k = All => after = 0
  /\ tries' = tries + 1
  /\ app' = [app EXCEPT ![k] = "asking"]
  /\ requests' = IF link = "up" THEN Append(requests, Request(k, after, FALSE)) ELSE requests
  /\ UNCHANGED <<server, todo, resubs, published, stamp, history, got, link, wire>>

\* The receiver is made only after the reply has come.
Attach(k) ==
  /\ app[k] = "asked"
  /\ app' = [app EXCEPT ![k] = "listening"]
  /\ UNCHANGED <<server, todo, resubs, bounds, history, got, link, requests, wire>>

\* The receiver goes: its owner leaves, or it lags and its bridge ends.
Leave(k) ==
  /\ app[k] = "listening"
  /\ app' = [app EXCEPT ![k] = "idle"]
  /\ UNCHANGED <<server, todo, resubs, bounds, history, got, link, requests, wire>>

\* The reader.  An event goes to the session's router and to that of all events, whichever
\* subscription brought it; a router gives it to the receiver there is.  A reply ends its call.
Read ==
  /\ wire # <<>> /\ link # "down"
  /\ wire' = Tail(wire)
  /\ LET m == Head(wire)
         ids == IF m.n = subs[m.of].n THEN ToSet(m.ids) ELSE {}
     IN IF m.type = "event"
          THEN /\ got' = [k \in Keys |-> IF app[k] = "listening" THEN got[k] \cup ToSet(m.ids) ELSE got[k]]
               /\ IF app[m.of] = "listening"
                    THEN brought' = [brought EXCEPT ![m.of] = @ \cup ids] /\ UNCHANGED excused
                    ELSE excused' = [excused EXCEPT ![m.of] = @ \cup ids] /\ UNCHANGED brought
               /\ UNCHANGED client
          ELSE /\ IF m.resub
                    THEN resubs' = None /\ todo' = todo \ {m.of} /\ UNCHANGED app
                    ELSE app' = [app EXCEPT ![m.of] = "asked"] /\ UNCHANGED <<todo, resubs>>
               /\ UNCHANGED <<brought, got, excused>>
  /\ UNCHANGED <<server, bounds, due, sent, late, strayed, link, requests>>

\* The connection breaks: the server ends its subscriptions.
Cut ==
  /\ link = "up" /\ tries < MaxTries
  /\ tries' = tries + 1 /\ link' = "cut"
  /\ subs' = [k \in Keys |-> [NoSub EXCEPT !.n = subs[k].n]]
  /\ requests' = <<>>
  /\ UNCHANGED <<queue, held, buffer, client, published, stamp, history, got, wire>>

\* The client finds out, by its reader, its heartbeat or a call that times out.  Calls that
\* wait for a reply fail, and with them the loop that subscribes anew.
Notice ==
  /\ link = "cut" /\ link' = "down"
  /\ wire' = <<>>
  /\ app' = [k \in Keys |-> IF app[k] = "asking" THEN "idle" ELSE app[k]]
  /\ todo' = {} /\ resubs' = None
  /\ UNCHANGED <<server, bounds, history, got, requests>>

\* MUTANT of Forlorn: routers are not subscribed for anew.
ForlornNone == {}

\* The routers that have a receiver.
Forlorn == {k \in Keys : app[k] = "listening"}

\* ensure_connected, by whichever call comes next.
Reconnect ==
  /\ link = "down" /\ link' = "up"
  /\ todo' = Forlorn
  /\ strayed' = strayed \cup {k \in Keys : app[k] = "asked"}
  /\ UNCHANGED <<server, app, resubs, bounds, due, sent, brought, got, excused, late, requests, wire>>

\* Every router is subscribed for with Subscribe, that of all events too.
Resubscribe(k) ==
  /\ link # "down" /\ k \in todo /\ resubs = None
  /\ resubs' = k
  /\ requests' = IF link = "up" THEN Append(requests, Request(k, 0, TRUE)) ELSE requests
  /\ UNCHANGED <<server, app, todo, bounds, history, got, link, wire>>

Next ==
  \/ \E kind \in Kinds : Emit(kind)
  \/ Take \/ Publish \/ Serve \/ Read \/ Cut \/ Notice \/ Reconnect
  \/ \E k \in Keys :
       \/ Replay(k) \/ Drain(k) \/ Follow(k) \/ Forward(k)
       \/ \E after \in {0} \cup got[k] : Ask(k, after)
       \/ Attach(k) \/ Leave(k) \/ Resubscribe(k)

Spec == Init /\ [][Next]_vars

---------------------------------------------------------------------------
OnWire(k) == UNION {ToSet(m.ids) : m \in {w \in ToSet(wire) : w.type = "event" /\ w.of = k /\ w.n = subs[k].n}}

\* From its registration on a subscription skips nothing: an event that is buffered when it
\* replays and was published after the cursor's, under way when it is registered or published
\* later is queued for it, sent, or went where the code says it may: a full queue, or a client
\* without a receiver.  The receiver is registered before the buffer is read for this
\* (dispatcher.rs:865).  Excepted is what is buffered up to an event that was published after
\* the cursor's but has the older id.
NothingSkipped ==
  \A k \in Keys : Registered(k) =>
    /\ due[k] \subseteq ToSet(sent[k]) \cup Ids(subs[k].rt) \cup Underway \cup excused[k]
    /\ ToSet(sent[k]) \subseteq brought[k] \cup OnWire(k) \cup excused[k]

\* A subscription sends events in the order of their publication, whatever part of the replay
\* the forwarder runs beside: an older event comes behind a newer one only as a repeat.
\* Excepted are events queued before the replay that it does not contain: a stop or a
\* persisted message has emptied the buffer, it is full of newer ones, or the replay began
\* behind them.
OrderKept ==
  \A k \in Keys : \A j \in DOMAIN sent[k] : \A i \in 1..(j - 1) :
    sent[k][j] < sent[k][i] =>
      sent[k][j] \in late[k] \/ \E h \in 1..(i - 1) : sent[k][h] = sent[k][j]

\* After any number of lost connections, once the client is connected and done subscribing,
\* each receiver has its subscription (remote/mod.rs:413).  Excepted are a receiver made for
\* a reply of the connection before, and the router of all events, whose new subscription is
\* for a session "*" without events.
StreamsResume ==
  link = "up" /\ todo = {} =>
    \A k \in Keys \ strayed :
      app[k] = "listening" => Registered(k) \/ (k = All /\ subs[k].at = "deaf")
=============================================================================
