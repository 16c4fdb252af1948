----------------------------- MODULE FeedProofs -----------------------------
(***************************************************************************)
(* Proofs about Feed, for any kinds and number of events, queues of any    *)
(* length, any number of calls that subscribe and of connections lost.     *)
(*                                                                         *)
(* What a replay contains is a fold over the buffer, and what a client is  *)
(* sent of it a recursive function over envelopes.  The first sections     *)
(* unfold both, by induction in the only form that the provers can use: a  *)
(* set that holds zero and successors holds every number.                  *)
(***************************************************************************)
EXTENDS Feed, WellFoundedInduction, TLAPS

-----------------------------------------------------------------------------
(***************************************************************************)
(* Types.                                                                  *)
(***************************************************************************)
Envelope == [id : Nat, ids : Seq(Nat), kind : Kinds]

Subscription ==
  [at : {"none", "replaying", "draining", "live", "deaf"}, n : Nat, rt : Seq(Event),
   lagged : BOOLEAN, seen : SUBSET Nat, after : Nat]

Message ==
  [type : {"event"}, of : Keys, n : Nat, ids : Seq(Nat)]
    \cup [type : {"reply"}, of : Keys, resub : BOOLEAN]

ServerOK ==
  /\ published \in Nat /\ stamp \in Seq(1..MaxEvents)
  /\ queue \in Seq(Event) /\ buffer \in Seq(Event)
  /\ held \in Event \cup {None}
  /\ subs \in [Keys -> Subscription]

ClientOK ==
  /\ app \in [Keys -> {"idle", "asking", "asked", "listening"}]
  /\ todo \subseteq Keys
  /\ resubs \in Keys \cup {None}
  /\ tries \in Nat

LinkOK ==
  /\ link \in {"up", "cut", "down"}
  /\ requests \in Seq([key : Keys, all : BOOLEAN, after : Nat, resub : BOOLEAN])
  /\ wire \in Seq(Message) /\ Len(wire) <= MaxQueue

HistoryOK ==
  /\ due \in [Keys -> SUBSET Nat]
  /\ sent \in [Keys -> Seq(Nat)]
  /\ got \in [Keys -> SUBSET Nat] /\ brought \in [Keys -> SUBSET Nat]
  /\ excused \in [Keys -> SUBSET Nat]
  /\ late \in [Keys -> SUBSET Nat]
  /\ strayed \subseteq Keys

TypeOK == ServerOK /\ ClientOK /\ LinkOK /\ HistoryOK

-----------------------------------------------------------------------------
(***************************************************************************)
(* The inductive invariant.                                                *)
(***************************************************************************)
Ordered(s) == \A i, j \in DOMAIN s : i < j => s[i].id < s[j].id

\* Nothing with this id, or an older one, is still to be fanned out, except that it may be
\* the event in the forwarder's hand.
Passed(x) ==
  /\ x <= published
  /\ held # None => x <= held.id
  /\ \A y \in Ids(queue) : x < y

\* Events go through the forwarder in the order of their publication, ...
Stream ==
  /\ Ordered(queue) /\ \A x \in Ids(queue) : x <= published
  /\ held # None => Passed(held.id)
  /\ Ordered(buffer) /\ \A x \in Ids(buffer) : Passed(x)

\* ... and so into the receivers; a subscription sends what it found in the buffer or got.
Received(k) ==
  /\ Ordered(subs[k].rt)
  /\ \A x \in Ids(subs[k].rt) : Passed(x) /\ (held # None => x # held.id)
  /\ \A x \in ToSet(sent[k]) : Passed(x)

\* What waits in a receiver may be sent next: what is newer was sent only by a replay that
\* had it too, or could not have it.
MayFollow(k, x) ==
  \A i \in DOMAIN sent[k] :
    x < sent[k][i] => x \in late[k] \/ \E h \in 1..(i - 1) : sent[k][h] = x

Following(k) ==
  /\ \A x \in Ids(subs[k].rt) : MayFollow(k, x)
  /\ subs[k].at = "replaying" => sent[k] = <<>>

\* What was drained before, or is passed over as a repeat, was sent, or its envelope dropped.
Drained(k) ==
  subs[k].at = "draining" => subs[k].seen \subseteq ToSet(sent[k]) \cup excused[k]

\* A persisted message is owed to nobody.
Owed(k) ==
  /\ \A x \in due[k] : x <= published
  /\ \A i \in DOMAIN queue : queue[i].kind = "added" => queue[i].id \notin due[k]

\* The parts of NothingSkipped and of OrderKept that are about one subscription.
Queued(k) ==
  Registered(k) =>
    due[k] \subseteq ToSet(sent[k]) \cup Ids(subs[k].rt) \cup Underway \cup excused[k]

Delivered(k) ==
  Registered(k) => ToSet(sent[k]) \subseteq brought[k] \cup OnWire(k) \cup excused[k]

InOrder(k) ==
  \A j \in DOMAIN sent[k] : \A i \in 1..(j - 1) :
    sent[k][j] < sent[k][i] =>
      sent[k][j] \in late[k] \/ \E h \in 1..(i - 1) : sent[k][h] = sent[k][j]

Kept(k) ==
  /\ Received(k) /\ Following(k) /\ InOrder(k)
  /\ Drained(k) /\ Owed(k) /\ Queued(k) /\ Delivered(k)

\* Subscriptions live while the connection is up.
Connected ==
  /\ link # "up" => \A k \in Keys : subs[k].at = "none"
  /\ link = "down" => wire = <<>>
  /\ \A k \in Keys : subs[k].at = "deaf" => k = All

\* Until it is subscribed for anew, a router with a receiver is on the list.
Resumed ==
  link = "up" =>
    /\ \A i \in DOMAIN wire : wire[i].type = "reply" => subs[wire[i].of].at # "none"
    /\ \A k \in Keys \ strayed :
         app[k] \in {"asked", "listening"} => subs[k].at # "none" \/ k \in todo

Inv ==
  /\ TypeOK
  /\ Stream
  /\ \A k \in Keys : Kept(k)
  /\ Connected
  /\ Resumed
-----------------------------------------------------------------------------
(***************************************************************************)
(* Induction, and greatest elements.                                       *)
(***************************************************************************)
\* A set of numbers has a least one.
LEMMA LeastElement ==
  ASSUME NEW S, S \subseteq Nat, S # {}
  PROVE  \E t \in S : \A u \in S : t <= u
<1> DEFINE Less == {ss \in Nat \X Nat : ss[1] < ss[2]}
<1>1. IsWellFoundedOn(Less, Nat)
  BY NatLessThanWellFounded, Zenon DEF OpToRel
<1>2. PICK t \in S : \A u \in S : <<u, t>> \notin Less
  <2> HIDE DEF Less
  <2> QED
    BY <1>1, WFMin
<1>3. ASSUME NEW u \in S PROVE t <= u
  <2>1. <<u, t>> \notin Less
    BY <1>2
  <2>2. u \in Nat /\ t \in Nat /\ <<u, t>>[1] = u /\ <<u, t>>[2] = t
    OBVIOUS
  <2>3. ~(u < t)
    BY <2>1, <2>2
  <2> QED
    BY <2>2, <2>3
<1> QED
  BY <1>3

\* A set that holds zero and successors holds all numbers.
LEMMA ByInduction ==
  ASSUME NEW S, 0 \in S, \A n \in Nat : n \in S => n + 1 \in S
  PROVE  Nat \subseteq S
<1> SUFFICES ASSUME Nat \ S # {} PROVE FALSE
  OBVIOUS
<1>1. PICK n \in Nat \ S : \A m \in Nat \ S : n <= m
  BY LeastElement
<1>2. n # 0
  OBVIOUS
<1>3. n - 1 \in Nat /\ ~(n <= n - 1) /\ (n - 1) + 1 = n
  BY <1>2
<1> QED
  BY <1>1, <1>3

\* A bounded set of numbers has a greatest one.
LEMMA MaxIn ==
  ASSUME NEW k \in Nat, NEW S, S \subseteq 0..k, S # {}
  PROVE  Max(S) \in S /\ \A u \in S : u <= Max(S)
<1> DEFINE D == {k - u : u \in S}
<1>1. \A u \in S : u \in 0..k /\ k - u \in Nat
  OBVIOUS
<1>2. PICK x \in D : \A y \in D : x <= y
  <2>1. D \subseteq Nat /\ D # {}
    BY <1>1
  <2> HIDE DEF D
  <2> QED
    BY <2>1, LeastElement
<1>3. PICK m \in S : x = k - m
  BY <1>2
<1>4. \A u \in S : u <= m
  <2> TAKE u \in S
  <2>1. k - u \in D
    OBVIOUS
  <2>2. x <= k - u
    BY <1>2, <2>1
  <2> QED
    BY <1>1, <1>3, <2>2
<1> QED
  BY <1>4 DEF Max

-----------------------------------------------------------------------------
(***************************************************************************)
(* A fold by Merge, step by step.                                          *)
(***************************************************************************)

\* The recursive function over sets of indices by which the fold is defined.
Unrolled(g, s, n) ==
  g = [t \in SUBSET (1..n) |-> IF t = {} THEN <<>>
         ELSE Merge(g[t \ {Max(t)}], s[Max(t)])]

\* There is one for every length.
LEMMA FoldDefined ==
  ASSUME NEW s, NEW n \in Nat
  PROVE  \E g : Unrolled(g, s, n)
<1> DEFINE T == {k \in Nat : \E g : Unrolled(g, s, k)}
<1>1. 0 \in T
  <2> DEFINE g == [t \in SUBSET (1..0) |-> <<>>]
  <2>1. Unrolled(g, s, 0)
    BY DEF Unrolled
  <2> HIDE DEF g
  <2> QED
    BY <2>1
<1>2. ASSUME NEW k \in Nat, k \in T PROVE k + 1 \in T
  <2>1. PICK g : Unrolled(g, s, k)
    BY <1>2
  <2> DEFINE h == [t \in SUBSET (1..(k + 1)) |-> IF t = {} THEN <<>>
                     ELSE Merge(g[t \ {Max(t)}], s[Max(t)])]
  <2>2. ASSUME NEW t \in SUBSET (1..(k + 1)), t # {}
        PROVE  h[t \ {Max(t)}] = g[t \ {Max(t)}]
    <3> DEFINE r == t \ {Max(t)}
    <3>1. Max(t) \in t /\ \A u \in t : u <= Max(t)
      <4>1. k + 1 \in Nat /\ t \subseteq 0..(k + 1)
        OBVIOUS
      <4> HIDE DEF h
      <4> QED
        BY <2>2, <4>1, MaxIn
    <3>2. r \in SUBSET (1..k)
      <4>1. ASSUME NEW u \in t, u # Max(t) PROVE u \in 1..k
        <5>1. u \in 1..(k + 1) /\ Max(t) \in 1..(k + 1) /\ u <= Max(t)
          BY <3>1
        <5> QED
          BY <4>1, <5>1
      <4> QED
        BY <4>1
    <3>3. r \in SUBSET (1..(k + 1))
      OBVIOUS
    <3>4. \A q \in SUBSET (1..(k + 1)) :
            h[q] = IF q = {} THEN <<>> ELSE Merge(g[q \ {Max(q)}], s[Max(q)])
      OBVIOUS
    <3>5. \A q \in SUBSET (1..k) :
            g[q] = IF q = {} THEN <<>> ELSE Merge(g[q \ {Max(q)}], s[Max(q)])
      BY <2>1, Zenon DEF Unrolled
    <3> HIDE DEF h
    <3> QED
      BY <3>2, <3>3, <3>4, <3>5
  <2>3. Unrolled(h, s, k + 1)
    BY <2>2 DEF Unrolled
  <2> HIDE DEF h
  <2> QED
    BY <2>3
<1> HIDE DEF T
<1>3. n \in T
  BY <1>1, <1>2, ByInduction
<1> QED
  BY <1>3 DEF T

\* The fold has its intermediate results.
LEMMA FoldSteps ==
  ASSUME NEW s \in Seq(Event)
  PROVE  \E h : /\ h[0] = <<>>
                /\ \A i \in 1..Len(s) : h[i] = Merge(h[i - 1], s[i])
                /\ FoldLeft(Merge, <<>>, s) = h[Len(s)]
<1> DEFINE n == Len(s)
           g == CHOOSE f : Unrolled(f, s, n)
<1>0. n \in Nat /\ DOMAIN s = 1..n
  OBVIOUS
<1>1. FoldLeft(Merge, <<>>, s) = g[1..n]
  BY <1>0 DEF FoldLeft, MapThenFoldSet, Unrolled
<1>2. Unrolled(g, s, n)
  BY <1>0, FoldDefined
<1> HIDE DEF g, n
<1>3. \A t \in SUBSET (1..n) :
        g[t] = IF t = {} THEN <<>> ELSE Merge(g[t \ {Max(t)}], s[Max(t)])
  BY <1>2, Zenon DEF Unrolled
<1> DEFINE h == [i \in 0..n |-> g[1..i]]
<1>4. h[0] = <<>>
  <2>1. 1..0 = {} /\ 0 \in 0..n
    BY <1>0
  <2> QED
    BY <1>3, <2>1
<1>5. ASSUME NEW i \in 1..n PROVE h[i] = Merge(h[i - 1], s[i])
  <2>1. i \in Nat /\ i \in 1..i /\ 1..i \subseteq 0..i /\ 1..i \subseteq 1..n
    BY <1>0
  <2>2. 1..i # {} /\ Max(1..i) \in 1..i /\ \A u \in 1..i : u <= Max(1..i)
    BY <2>1, MaxIn
  <2>3. Max(1..i) = i
    BY <2>1, <2>2
  <2>4. (1..i) \ {i} = 1..(i - 1)
    BY <2>1
  <2>5. i \in 0..n /\ i - 1 \in 0..n
    BY <1>0
  <2> QED
    BY <1>3, <2>1, <2>3, <2>4, <2>5
<1>6. n \in 0..n
  BY <1>0
<1> QED
  BY <1>1, <1>4, <1>5, <1>6 DEF n
-----------------------------------------------------------------------------
(***************************************************************************)
(* Sequences.                                                              *)
(***************************************************************************)
LEMMA AddNothing ==
  ASSUME NEW a \in Seq(Nat)
  PROVE  a \o <<>> = a /\ <<>> \o a = a
OBVIOUS

LEMMA Associative ==
  ASSUME NEW a \in Seq(Nat), NEW b \in Seq(Nat), NEW c \in Seq(Nat)
  PROVE  (a \o b) \o c = a \o (b \o c)
OBVIOUS

\* What one sequence after the other holds.
LEMMA BothParts ==
  ASSUME NEW D, NEW a \in Seq(D), NEW b \in Seq(D)
  PROVE  /\ a \o b \in Seq(D) /\ Len(a \o b) = Len(a) + Len(b)
         /\ \A i \in DOMAIN a : i \in DOMAIN (a \o b) /\ (a \o b)[i] = a[i]
         /\ \A i \in DOMAIN b : Len(a) + i \in DOMAIN (a \o b) /\ (a \o b)[Len(a) + i] = b[i]
         /\ \A i \in DOMAIN (a \o b) : \/ i \in DOMAIN a
                                       \/ i - Len(a) \in DOMAIN b /\ i = Len(a) + (i - Len(a))
OBVIOUS

LEMMA MembersOfBoth ==
  ASSUME NEW D, NEW a \in Seq(D), NEW b \in Seq(D)
  PROVE  ToSet(a \o b) = ToSet(a) \cup ToSet(b)
<1>1. ASSUME NEW x \in ToSet(a \o b) PROVE x \in ToSet(a) \cup ToSet(b)
  <2>1. PICK i \in DOMAIN (a \o b) : x = (a \o b)[i]
    BY DEF ToSet
  <2> QED
    BY <2>1, BothParts DEF ToSet
<1>2. ASSUME NEW x \in ToSet(a) \cup ToSet(b) PROVE x \in ToSet(a \o b)
  <2>1. CASE x \in ToSet(a)
    <3>1. PICK i \in DOMAIN a : x = a[i]
      BY <2>1 DEF ToSet
    <3>2. i \in DOMAIN (a \o b) /\ (a \o b)[i] = x
      BY <3>1, BothParts
    <3> QED
      BY <3>2 DEF ToSet
  <2>2. CASE x \in ToSet(b)
    <3>1. PICK i \in DOMAIN b : x = b[i]
      BY <2>2 DEF ToSet
    <3>2. Len(a) + i \in DOMAIN (a \o b) /\ (a \o b)[Len(a) + i] = x
      BY <3>1, BothParts
    <3> QED
      BY <3>2 DEF ToSet
  <2> QED
    BY <2>1, <2>2
<1> QED
  BY <1>1, <1>2


-----------------------------------------------------------------------------
(***************************************************************************)
(* What envelopes contain.                                                 *)
(***************************************************************************)

\* The recursive function by which sequences are flattened.
Flattened(g, e, n) == g = [i \in 1..n |-> IF i = 1 THEN e[i] ELSE g[i - 1] \o e[i]]

\* There is one for every length.
LEMMA FlattenDefined ==
  ASSUME NEW e, NEW n \in Nat
  PROVE  \E g : Flattened(g, e, n)
<1> DEFINE T == {k \in Nat : \E g : Flattened(g, e, k)}
<1>1. 0 \in T
  <2> DEFINE g == [i \in 1..0 |-> <<>>]
  <2>1. Flattened(g, e, 0)
    BY DEF Flattened
  <2> HIDE DEF g
  <2> QED
    BY <2>1
<1>2. ASSUME NEW k \in Nat, k \in T PROVE k + 1 \in T
  <2>1. PICK g : Flattened(g, e, k)
    BY <1>2
  <2> DEFINE h == [i \in 1..(k + 1) |-> IF i = 1 THEN e[i] ELSE g[i - 1] \o e[i]]
  <2>2. ASSUME NEW i \in 1..(k + 1), i # 1 PROVE h[i - 1] = g[i - 1]
    <3>1. i - 1 \in 1..k /\ i - 1 \in 1..(k + 1)
      BY <2>2
    <3>2. \A j \in 1..(k + 1) : h[j] = IF j = 1 THEN e[j] ELSE g[j - 1] \o e[j]
      OBVIOUS
    <3>3. \A j \in 1..k : g[j] = IF j = 1 THEN e[j] ELSE g[j - 1] \o e[j]
      BY <2>1, Zenon DEF Flattened
    <3> HIDE DEF h
    <3> QED
      BY <3>1, <3>2, <3>3
  <2>3. Flattened(h, e, k + 1)
    BY <2>2 DEF Flattened
  <2> HIDE DEF h
  <2> QED
    BY <2>3
<1> HIDE DEF T
<1>3. n \in T
  BY <1>1, <1>2, ByInduction
<1> QED
  BY <1>3 DEF T

\* What the first envelopes contain, for each number of them.
Joined(h, q) ==
  /\ h[0] = <<>>
  /\ \A i \in 1..Len(q) : h[i - 1] \in Seq(Nat) /\ h[i] = h[i - 1] \o q[i].ids

LEMMA JoinedType ==
  ASSUME NEW q \in Seq(Envelope), NEW h, Joined(h, q)
  PROVE  \A i \in 0..Len(q) : h[i] \in Seq(Nat)
<1>1. ASSUME NEW i \in 1..Len(q) PROVE h[i] \in Seq(Nat)
  <2>1. /\ q[i] \in Envelope
        /\ h[i - 1] \in Seq(Nat) /\ h[i] = h[i - 1] \o q[i].ids
    <3>1. q[i] \in Envelope
      OBVIOUS
    <3> QED
      BY <3>1 DEF Joined
  <2>2. q[i].ids \in Seq(Nat)
    BY <2>1 DEF Envelope
  <2> QED
    BY <2>1, <2>2
<1>2. h[0] \in Seq(Nat)
  BY DEF Joined
<1> QED
  BY <1>1, <1>2

LEMMA ContentsSteps ==
  ASSUME NEW q \in Seq(Envelope)
  PROVE  \E h : Joined(h, q) /\ Contents(q) = h[Len(q)]
<1> DEFINE n == Len(q)
           e == [i \in DOMAIN q |-> q[i].ids]
           g == CHOOSE f : Flattened(f, e, n)
           h == [i \in 0..n |-> IF i = 0 THEN <<>> ELSE g[i]]
<1>0. n \in Nat /\ DOMAIN q = 1..n /\ \A i \in 1..n : q[i].ids \in Seq(Nat)
  <2>1. \A i \in 1..n : q[i] \in Envelope
    OBVIOUS
  <2>2. \A x \in Envelope : x.ids \in Seq(Nat)
    BY DEF Envelope
  <2> QED
    BY <2>1, <2>2
<1>1. e \in Seq(Seq(Nat)) /\ Len(e) = n
  BY <1>0
<1>2. Contents(q) = IF n = 0 THEN e ELSE g[n]
  <2>1. Contents(q) = FlattenSeq(e)
    BY DEF Contents
  <2> HIDE DEF e
  <2>2. FlattenSeq(e) = IF n = 0 THEN e ELSE g[n]
    BY <1>1 DEF FlattenSeq, Flattened
  <2> QED
    BY <2>1, <2>2
<1>3. Flattened(g, e, n)
  BY <1>0, FlattenDefined
<1>4. n = 0 => e = <<>>
  BY <1>0
<1>5. \A i \in 1..n : e[i] = q[i].ids
  BY <1>0
<1> HIDE DEF e, g, n
<1>6. \A i \in 1..n : g[i] = IF i = 1 THEN e[i] ELSE g[i - 1] \o e[i]
  BY <1>3, Zenon DEF Flattened
<1>7. h[0] = <<>> /\ \A i \in 1..n : h[i] = g[i]
  BY <1>0
<1> HIDE DEF h
<1>8. \A i \in 0..n : h[i] \in Seq(Nat)
  <2> DEFINE T == {k \in Nat : k <= n => h[k] \in Seq(Nat)}
  <2>1. 0 \in T
    <3>1. h[0] \in Seq(Nat)
      BY <1>7
    <3> QED
      BY <3>1
  <2>2. ASSUME NEW k \in Nat, k \in T PROVE k + 1 \in T
    <3>1. CASE k + 1 <= n
      <4>1. k + 1 \in 1..n /\ (k + 1) - 1 = k /\ (k # 0 => k \in 1..n) /\ h[k] \in Seq(Nat)
        BY <1>0, <2>2, <3>1
      <4>2. e[k + 1] \in Seq(Nat)
        BY <1>0, <1>5, <4>1
      <4>3. CASE k = 0
        BY <1>6, <1>7, <4>1, <4>2, <4>3
      <4>4. CASE k # 0
        <5>1. g[k + 1] = g[k] \o e[k + 1]
          <6>1. k + 1 # 1
            BY <4>4
          <6> QED
            BY <1>6, <4>1, <6>1
        <5>2. h[k + 1] = g[k + 1] /\ h[k] = g[k]
          BY <1>7, <4>1, <4>4
        <5>3. h[k] \o e[k + 1] \in Seq(Nat)
          BY <4>1, <4>2
        <5>4. h[k + 1] \in Seq(Nat)
          BY <5>1, <5>2, <5>3
        <5> QED
          BY <5>4
      <4> QED
        BY <4>3, <4>4
    <3> QED
      BY <3>1
  <2> HIDE DEF T
  <2>3. Nat \subseteq T
    BY <2>1, <2>2, ByInduction
  <2> QED
    BY <1>0, <2>3 DEF T
<1>9. ASSUME NEW i \in 1..n PROVE h[i - 1] \in Seq(Nat) /\ h[i] = h[i - 1] \o q[i].ids
  <2>1. i - 1 \in 0..n /\ q[i].ids \in Seq(Nat) /\ (i # 1 => i - 1 \in 1..n) /\ (i = 1 => i - 1 = 0)
    BY <1>0
  <2>2. h[i - 1] \in Seq(Nat)
    BY <1>8, <2>1
  <2>3. CASE i = 1
    <3>1. h[i] = q[i].ids /\ h[i - 1] = <<>>
      BY <1>5, <1>6, <1>7, <2>1, <2>3
    <3> QED
      BY <2>1, <2>2, <3>1
  <2>4. CASE i # 1
    BY <1>5, <1>6, <1>7, <2>1, <2>2, <2>4
  <2> QED
    BY <2>3, <2>4
<1>10. Contents(q) = h[n]
  <2>1. n # 0 => n \in 1..n
    BY <1>0
  <2> QED
    BY <1>2, <1>4, <1>7, <2>1
<1> QED
  BY <1>7, <1>9, <1>10 DEF Joined, n

\* The same envelopes contain the same.
LEMMA JoinedAgree ==
  ASSUME NEW q \in Seq(Envelope), NEW r \in Seq(Envelope), NEW g, NEW h,
         Joined(g, q), Joined(h, r), NEW m \in Nat, m <= Len(q), m <= Len(r),
         \A i \in 1..m : q[i] = r[i]
  PROVE  g[m] = h[m]
<1> DEFINE T == {k \in Nat : k <= m => g[k] = h[k]}
<1>1. 0 \in T
  BY DEF Joined
<1>2. ASSUME NEW k \in Nat, k \in T PROVE k + 1 \in T
  <2>1. CASE k + 1 <= m
    <3>1. /\ k + 1 \in 1..m /\ k + 1 \in 1..Len(q) /\ k + 1 \in 1..Len(r)
          /\ (k + 1) - 1 = k /\ g[k] = h[k]
      BY <1>2, <2>1
    <3>2. g[k + 1] = g[k] \o q[k + 1].ids /\ h[k + 1] = h[k] \o r[k + 1].ids
      BY <3>1 DEF Joined
    <3>3. q[k + 1] = r[k + 1]
      BY <3>1
    <3>4. g[k + 1] = h[k + 1]
      BY <3>1, <3>2, <3>3
    <3> QED
      BY <3>4
  <2> QED
    BY <2>1
<1> HIDE DEF T
<1>3. m \in T
  BY <1>1, <1>2, ByInduction
<1> QED
  BY <1>3 DEF T

LEMMA ContentsEmpty == Contents(<<>>) = <<>>
<1>1. <<>> \in Seq(Envelope) /\ Len(<<>>) = 0
  OBVIOUS
<1> QED
  BY <1>1, ContentsSteps DEF Joined

LEMMA ContentsType ==
  ASSUME NEW q \in Seq(Envelope)
  PROVE  Contents(q) \in Seq(Nat)
<1>1. PICK h : Joined(h, q) /\ Contents(q) = h[Len(q)]
  BY ContentsSteps
<1> QED
  BY <1>1, JoinedType

LEMMA ContentsAppend ==
  ASSUME NEW q \in Seq(Envelope), NEW e \in Envelope
  PROVE  Contents(Append(q, e)) = Contents(q) \o e.ids
<1> DEFINE n == Len(q)
           r == Append(q, e)
<1>1. r \in Seq(Envelope) /\ Len(r) = n + 1 /\ n \in Nat /\ r[n + 1] = e
      /\ \A i \in 1..n : q[i] = r[i]
  OBVIOUS
<1>2. PICK g : Joined(g, q) /\ Contents(q) = g[n]
  BY ContentsSteps
<1> HIDE DEF r
<1>3. PICK h : Joined(h, r) /\ Contents(r) = h[n + 1]
  BY <1>1, ContentsSteps
<1>4. h[n + 1] = h[n] \o e.ids
  <2>1. n + 1 \in 1..Len(r) /\ (n + 1) - 1 = n
    BY <1>1
  <2> QED
    BY <1>1, <1>3, <2>1 DEF Joined
<1>5. g[n] = h[n]
  <2>1. n <= Len(q) /\ n <= Len(r)
    BY <1>1
  <2> HIDE DEF n
  <2> QED
    BY <1>1, <1>2, <1>3, <2>1, JoinedAgree
<1> QED
  BY <1>2, <1>3, <1>4, <1>5 DEF r

\* Cut in two, envelopes contain the same.
LEMMA ContentsSplit ==
  ASSUME NEW q \in Seq(Envelope), NEW m \in 0..Len(q)
  PROVE  Contents(q) = Contents(SubSeq(q, 1, m)) \o Contents(SubSeq(q, m + 1, Len(q)))
<1> DEFINE n == Len(q)
           One == SubSeq(q, 1, m)
           Part(j) == SubSeq(q, m + 1, m + j)
           T == {j \in Nat : m + j <= n =>
                   Contents(SubSeq(q, 1, m + j)) = Contents(One) \o Contents(Part(j))}
<1>0. n \in Nat /\ m \in Nat /\ m <= n /\ One \in Seq(Envelope)
  OBVIOUS
<1>1. 0 \in T
  <2>1. Part(0) = <<>> /\ SubSeq(q, 1, m + 0) = One
    BY <1>0
  <2>2. Contents(One) \in Seq(Nat)
    BY <1>0, ContentsType
  <2> HIDE DEF Part, One
  <2>3. Contents(One) \o <<>> = Contents(One)
    BY <2>2, AddNothing
  <2>4. Contents(SubSeq(q, 1, m + 0)) = Contents(One) \o Contents(Part(0))
    BY <2>1, <2>3, ContentsEmpty
  <2> QED
    BY <2>4
<1>2. ASSUME NEW j \in Nat, j \in T PROVE j + 1 \in T
  <2>1. CASE m + (j + 1) <= n
    <3> DEFINE e == q[m + (j + 1)]
    <3>1. /\ m + j <= n /\ m + (j + 1) \in 1..Len(q) /\ e \in Envelope
          /\ SubSeq(q, 1, m + j) \in Seq(Envelope) /\ Part(j) \in Seq(Envelope)
      BY <1>0, <2>1
    <3>2. SubSeq(q, 1, m + (j + 1)) = Append(SubSeq(q, 1, m + j), e)
      BY <1>0, <2>1
    <3>3. Part(j + 1) = Append(Part(j), e)
      BY <1>0, <2>1
    <3>4. e.ids \in Seq(Nat)
      BY <3>1 DEF Envelope
    <3> HIDE DEF Part, One, e
    <3>5. /\ Contents(SubSeq(q, 1, m + (j + 1))) = Contents(SubSeq(q, 1, m + j)) \o e.ids
          /\ Contents(Part(j + 1)) = Contents(Part(j)) \o e.ids
      BY <3>1, <3>2, <3>3, ContentsAppend
    <3>6. Contents(SubSeq(q, 1, m + j)) = Contents(One) \o Contents(Part(j))
      BY <1>2, <3>1
    <3>7. Contents(One) \in Seq(Nat) /\ Contents(Part(j)) \in Seq(Nat)
      BY <1>0, <3>1, ContentsType
    <3>8. (Contents(One) \o Contents(Part(j))) \o e.ids
            = Contents(One) \o (Contents(Part(j)) \o e.ids)
      BY <3>4, <3>7, Associative
    <3>9. Contents(SubSeq(q, 1, m + (j + 1))) = Contents(One) \o Contents(Part(j + 1))
      BY <3>5, <3>6, <3>8
    <3> QED
      BY <3>9
  <2> QED
    BY <2>1
<1> HIDE DEF T
<1>3. n - m \in Nat /\ n - m \in T
  BY <1>0, <1>1, <1>2, ByInduction
<1>4. m + (n - m) = n /\ SubSeq(q, 1, n) = q
  BY <1>0
<1>5. Contents(SubSeq(q, 1, m + (n - m))) = Contents(One) \o Contents(Part(n - m))
  <2> HIDE DEF Part, One
  <2> QED
    BY <1>0, <1>3, <1>4 DEF T
<1>6. Part(n - m) = SubSeq(q, m + 1, n)
  BY <1>4
<1> QED
  BY <1>4, <1>5, <1>6

\* What is contained is contained in one of them.
LEMMA ContentsMembers ==
  ASSUME NEW q \in Seq(Envelope)
  PROVE  \A x : x \in ToSet(Contents(q)) <=> \E i \in DOMAIN q : x \in ToSet(q[i].ids)
<1> DEFINE n == Len(q)
           In(x, k) == \E i \in 1..k : x \in ToSet(q[i].ids)
           T == {k \in Nat : k <= n =>
                   \A x : x \in ToSet(Contents(SubSeq(q, 1, k))) <=> In(x, k)}
<1>0. n \in Nat /\ DOMAIN q = 1..n
  OBVIOUS
<1>1. 0 \in T
  <2>1. SubSeq(q, 1, 0) = <<>> /\ ToSet(<<>>) = {} /\ 1..0 = {}
    BY DEF ToSet
  <2>2. \A x : x \in ToSet(Contents(SubSeq(q, 1, 0))) <=> In(x, 0)
    BY <2>1, ContentsEmpty
  <2> QED
    BY <2>2
<1>2. ASSUME NEW k \in Nat, k \in T PROVE k + 1 \in T
  <2>1. CASE k + 1 <= n
    <3> DEFINE e == q[k + 1]
               s == SubSeq(q, 1, k)
    <3>1. /\ k <= n /\ k + 1 \in 1..Len(q) /\ e \in Envelope /\ s \in Seq(Envelope)
          /\ SubSeq(q, 1, k + 1) = Append(s, e)
      BY <1>0, <2>1
    <3>2. e.ids \in Seq(Nat)
      BY <3>1 DEF Envelope
    <3>3. \A x : In(x, k + 1) <=> In(x, k) \/ x \in ToSet(e.ids)
      <4>1. 1..(k + 1) = (1..k) \cup {k + 1}
        OBVIOUS
      <4> QED
        BY <4>1
    <3>4. \A x : x \in ToSet(Contents(s)) <=> In(x, k)
      BY <1>2, <3>1
    <3> HIDE DEF e, s, In
    <3>5. Contents(SubSeq(q, 1, k + 1)) = Contents(s) \o e.ids /\ Contents(s) \in Seq(Nat)
      BY <3>1, ContentsAppend, ContentsType
    <3>6. ToSet(Contents(s) \o e.ids) = ToSet(Contents(s)) \cup ToSet(e.ids)
      BY <3>2, <3>5, MembersOfBoth
    <3>7. \A x : x \in ToSet(Contents(SubSeq(q, 1, k + 1))) <=> In(x, k + 1)
      BY <3>2, <3>3, <3>4, <3>5, <3>6
    <3> QED
      BY <3>7
  <2> QED
    BY <2>1
<1> HIDE DEF T
<1>3. n \in T
  BY <1>0, <1>1, <1>2, ByInduction
<1>4. SubSeq(q, 1, n) = q
  BY <1>0
<1>5. \A x : x \in ToSet(Contents(q)) <=> In(x, n)
  <2> HIDE DEF In, n
  <2>1. n <= n => \A x : x \in ToSet(Contents(SubSeq(q, 1, n))) <=> In(x, n)
    BY <1>3, Zenon DEF T
  <2>2. n <= n
    BY <1>0
  <2>3. \A x : x \in ToSet(Contents(SubSeq(q, 1, n))) <=> In(x, n)
    BY <2>1, <2>2, Zenon
  <2> QED
    BY <1>4, <2>3, Zenon
<1> QED
  BY <1>0, <1>5

-----------------------------------------------------------------------------
(***************************************************************************)
(* What a replay sends.                                                    *)
(***************************************************************************)

\* An envelope is named for one of its events.
Named(q) == \A i \in DOMAIN q : q[i].id \in ToSet(q[i].ids)

LEMMA AppendJoined ==
  ASSUME NEW a \in Seq(Nat), NEW b \in Seq(Nat), NEW x \in Nat
  PROVE  a \o Append(b, x) = Append(a \o b, x) /\ a \o <<x>> = Append(a, x)
OBVIOUS

LEMMA InAppended ==
  ASSUME NEW a \in Seq(Nat), NEW x \in Nat
  PROVE  ToSet(Append(a, x)) = ToSet(a) \cup {x}
<1>1. DOMAIN Append(a, x) = DOMAIN a \cup {Len(a) + 1}
  OBVIOUS
<1>2. /\ \A i \in DOMAIN a : Append(a, x)[i] = a[i]
      /\ Append(a, x)[Len(a) + 1] = x
  OBVIOUS
<1> QED
  BY <1>1, <1>2 DEF ToSet

LEMMA MergeContents ==
  ASSUME NEW q \in Seq(Envelope), Named(q), NEW e \in Event
  PROVE  /\ Merge(q, e) \in Seq(Envelope)
         /\ Named(Merge(q, e))
         /\ Contents(Merge(q, e)) = Append(Contents(q), e.id)
<1>0. e.id \in Nat /\ e.kind \in Kinds /\ Contents(q) \in Seq(Nat)
  BY ContentsType DEF Event
<1>1. CASE q # <<>> /\ Last(q).kind = "chunk" /\ e.kind = "chunk"
  <2> DEFINE l == Last(q)
             f == Front(q)
             m == [l EXCEPT !.ids = Append(@, e.id), !.id = e.id]
  <2>1. l \in Envelope /\ f \in Seq(Envelope) /\ q = Append(f, l)
        /\ \A i \in DOMAIN f : i \in DOMAIN q /\ f[i] = q[i]
    <3>1. Len(q) \in DOMAIN q /\ q[Len(q)] \in Envelope
      BY <1>1
    <3>2. l \in Envelope
      BY <3>1 DEF Last
    <3>3. f = SubSeq(q, 1, Len(q) - 1)
      BY DEF Front
    <3> QED
      BY <1>1, <3>1, <3>2, <3>3 DEF Last
  <2>2. l.ids \in Seq(Nat) /\ l.kind \in Kinds
    BY <2>1 DEF Envelope
  <2>3. m \in Envelope /\ m.ids = Append(l.ids, e.id) /\ m.id = e.id
    <3>1. Append(l.ids, e.id) \in Seq(Nat)
      BY <1>0, <2>2
    <3> HIDE DEF l
    <3> QED
      BY <1>0, <2>1, <2>2, <3>1 DEF Envelope
  <2>4. Merge(q, e) = Append(f, m)
    BY <1>1 DEF Merge
  <2> HIDE DEF l, f, m
  <2>5. Contents(f) \in Seq(Nat) /\ Contents(q) = Contents(f) \o l.ids
    BY <2>1, ContentsType, ContentsAppend
  <2>6. Contents(Merge(q, e)) = Contents(f) \o Append(l.ids, e.id)
    BY <2>1, <2>3, <2>4, ContentsAppend
  <2>7. Contents(f) \o Append(l.ids, e.id) = Append(Contents(f) \o l.ids, e.id)
    BY <1>0, <2>2, <2>5, AppendJoined
  <2>8. m.id \in ToSet(m.ids)
    BY <1>0, <2>2, <2>3, InAppended
  <2>9. Merge(q, e) \in Seq(Envelope)
    BY <2>1, <2>3, <2>4
  <2>10. Named(Merge(q, e))
    <3>1. ASSUME NEW i \in DOMAIN Append(f, m)
          PROVE  \/ Append(f, m)[i] = m
                 \/ i \in DOMAIN q /\ Append(f, m)[i] = q[i]
      BY <2>1, <2>3
    <3> QED
      BY <2>4, <2>8, <3>1 DEF Named
  <2> QED
    BY <2>5, <2>6, <2>7, <2>9, <2>10
<1>2. CASE ~(q # <<>> /\ Last(q).kind = "chunk" /\ e.kind = "chunk")
  <2> DEFINE m == [id |-> e.id, ids |-> <<e.id>>, kind |-> e.kind]
  <2>1. m \in Envelope /\ m.ids = <<e.id>> /\ m.id = e.id
    BY <1>0 DEF Envelope
  <2>2. Merge(q, e) = Append(q, m)
    BY <1>2 DEF Merge
  <2> HIDE DEF m
  <2>3. Contents(Merge(q, e)) = Contents(q) \o <<e.id>>
    BY <2>1, <2>2, ContentsAppend
  <2>4. m.id \in ToSet(m.ids)
    BY <2>1 DEF ToSet
  <2>5. Merge(q, e) \in Seq(Envelope)
    BY <2>1, <2>2
  <2>6. Named(Merge(q, e))
    <3>1. ASSUME NEW i \in DOMAIN Append(q, m)
          PROVE  \/ Append(q, m)[i] = m
                 \/ i \in DOMAIN q /\ Append(q, m)[i] = q[i]
      BY <2>1
    <3> QED
      BY <2>2, <2>4, <3>1 DEF Named
  <2> QED
    BY <1>0, <2>3, <2>5, <2>6, AppendJoined
<1> QED
  BY <1>1, <1>2

\* A drained or followed event is an envelope of its own.
LEMMA MergeOne ==
  ASSUME NEW e \in Event
  PROVE  /\ Merge(<<>>, e) \in Seq(Envelope)
         /\ Contents(Merge(<<>>, e)) = <<e.id>>
<1>1. <<>> \in Seq(Envelope) /\ Named(<<>>) /\ e.id \in Nat
  BY DEF Named, Event
<1>2. Append(<<>>, e.id) = <<e.id>>
  BY <1>1
<1> QED
  BY <1>1, <1>2, MergeContents, ContentsEmpty

\* Merged, events contain their ids in their order.
LEMMA FoldContents ==
  ASSUME NEW s \in Seq(Event)
  PROVE  /\ FoldLeft(Merge, <<>>, s) \in Seq(Envelope)
         /\ Named(FoldLeft(Merge, <<>>, s))
         /\ Contents(FoldLeft(Merge, <<>>, s)) = [i \in 1..Len(s) |-> s[i].id]
<1>1. PICK h : /\ h[0] = <<>>
               /\ \A i \in 1..Len(s) : h[i] = Merge(h[i - 1], s[i])
               /\ FoldLeft(Merge, <<>>, s) = h[Len(s)]
  BY FoldSteps
<1> DEFINE n == Len(s)
           Good(k) == /\ h[k] \in Seq(Envelope)
                      /\ Named(h[k])
                      /\ Contents(h[k]) = [i \in 1..k |-> s[i].id]
           T == {k \in Nat : k <= n => Good(k)}
<1>0. n \in Nat
  OBVIOUS
<1>2. 0 \in T
  <2>1. <<>> \in Seq(Envelope) /\ Named(<<>>) /\ [i \in 1..0 |-> s[i].id] = <<>>
    BY DEF Named
  <2>2. Good(0)
    BY <1>1, <2>1, ContentsEmpty
  <2> HIDE DEF Good
  <2> QED
    BY <2>2
<1>3. ASSUME NEW k \in Nat, k \in T PROVE k + 1 \in T
  <2>1. CASE k + 1 <= n
    <3> DEFINE c == [i \in 1..k |-> s[i].id]
    <3>1. k <= n /\ k + 1 \in 1..Len(s) /\ (k + 1) - 1 = k /\ s[k + 1] \in Event
      BY <1>0, <2>1
    <3>2. \A i \in 1..Len(s) : s[i] \in Event
      OBVIOUS
    <3>3. s[k + 1].id \in Nat /\ \A i \in 1..Len(s) : s[i].id \in Nat
      BY <3>1, <3>2 DEF Event
    <3>4. Good(k)
      BY <1>3, <3>1
    <3>5. h[k + 1] = Merge(h[k], s[k + 1])
      BY <1>1, <3>1
    <3>6. c \in Seq(Nat) /\ Len(c) = k /\ Append(c, s[k + 1].id) = [i \in 1..(k + 1) |-> s[i].id]
      <4>1. \A i \in 1..k : s[i].id \in Nat
        BY <1>0, <3>1, <3>3
      <4>2. c \in Seq(Nat) /\ Len(c) = k
        BY <4>1
      <4> QED
        BY <3>3, <4>2
    <3>7. Good(k + 1)
      BY <3>1, <3>4, <3>5, <3>6, MergeContents
    <3> HIDE DEF Good
    <3> QED
      BY <3>7
  <2> QED
    BY <2>1
<1> HIDE DEF T
<1>4. n \in T
  BY <1>0, <1>2, <1>3, ByInduction
<1>5. Good(n)
  BY <1>0, <1>4 DEF T
<1> QED
  BY <1>1, <1>5


\* A replay begins at one of the buffer's events, or behind the last.
LEMMA StartsIn ==
  ASSUME buffer \in Seq(Event), NEW cursor, NEW start \in Starts(cursor)
  PROVE  start \in 1..(Len(buffer) + 1)
<1>1. Len(buffer) \in Nat /\ DOMAIN buffer = 1..Len(buffer)
  OBVIOUS
<1>2. CASE cursor = 0
  BY <1>1, <1>2 DEF Starts
<1>3. CASE cursor # 0
  BY <1>1, <1>3 DEF Starts
<1> QED
  BY <1>2, <1>3

\* It sends the buffer's events from there on.
LEMMA FromContents ==
  ASSUME buffer \in Seq(Event), NEW start \in 1..(Len(buffer) + 1)
  PROVE  /\ From(start) \in Seq(Envelope)
         /\ Named(From(start))
         /\ Contents(From(start))
              = [i \in 1..(Len(buffer) - start + 1) |-> buffer[start + i - 1].id]
<1> DEFINE s == SubSeq(buffer, start, Len(buffer))
<1>1. Len(buffer) \in Nat
  OBVIOUS
<1>2. /\ s \in Seq(Event) /\ Len(s) = Len(buffer) - start + 1
      /\ \A i \in 1..Len(s) : s[i] = buffer[start + i - 1]
  BY <1>1
<1>3. From(start) = FoldLeft(Merge, <<>>, s)
  BY DEF From
<1> HIDE DEF s
<1>4. [i \in 1..Len(s) |-> s[i].id] = [i \in 1..(Len(buffer) - start + 1) |-> buffer[start + i - 1].id]
  BY <1>2
<1> QED
  BY <1>2, <1>3, <1>4, FoldContents

\* Which are in order, and ids of the buffer.
LEMMA FromInOrder ==
  ASSUME buffer \in Seq(Event), Ordered(buffer), NEW a \in 1..(Len(buffer) + 1), NEW c,
         c = Contents(From(a))
  PROVE  /\ c \in Seq(Nat)
         /\ \A i, j \in DOMAIN c : i < j => c[i] < c[j]
         /\ ToSet(c) \subseteq Ids(buffer)
         /\ \A i \in DOMAIN buffer : a <= i => buffer[i].id \in ToSet(c)
<1> DEFINE n == Len(buffer) - a + 1
<1>1. Len(buffer) \in Nat /\ n \in Nat /\ DOMAIN buffer = 1..Len(buffer)
  OBVIOUS
<1>2. c \in Seq(Nat) /\ c = [i \in 1..n |-> buffer[a + i - 1].id]
  BY FromContents, ContentsType
<1>3. DOMAIN c = 1..n /\ \A i \in 1..n : c[i] = buffer[a + i - 1].id /\ a + i - 1 \in DOMAIN buffer
  BY <1>1, <1>2
<1>4. ASSUME NEW i \in DOMAIN c, NEW j \in DOMAIN c, i < j PROVE c[i] < c[j]
  <2>1. a + i - 1 \in DOMAIN buffer /\ a + j - 1 \in DOMAIN buffer /\ a + i - 1 < a + j - 1
    BY <1>1, <1>3, <1>4
  <2>2. buffer[a + i - 1].id < buffer[a + j - 1].id
    BY <2>1 DEF Ordered
  <2> QED
    BY <1>3, <2>2
<1>5. ToSet(c) \subseteq Ids(buffer)
  BY <1>3 DEF ToSet, Ids
<1>6. ASSUME NEW i \in DOMAIN buffer, a <= i PROVE buffer[i].id \in ToSet(c)
  <2>1. i - a + 1 \in 1..n /\ a + (i - a + 1) - 1 = i
    BY <1>1, <1>6
  <2>2. c[i - a + 1] = buffer[i].id
    BY <1>3, <2>1
  <2> QED
    BY <1>3, <2>1, <2>2 DEF ToSet
<1> QED
  BY <1>2, <1>4, <1>5, <1>6

\* Wherever the search begins the replay, it sends every buffered event that was published
\* after the cursor's, unless that or a later one has an id before the cursor's.
LEMMA SearchFinds ==
  ASSUME buffer \in Seq(Event), Ordered(buffer), NEW cursor \in Nat, NEW start \in Starts(cursor),
         NEW x \in Ids(buffer) \ Astray(cursor), x > cursor
  PROVE  x \in ToSet(Contents(From(start)))
<1>1. PICK i \in DOMAIN buffer : x = buffer[i].id
  BY DEF Ids
<1>2. Len(buffer) \in Nat /\ DOMAIN buffer = 1..Len(buffer) /\ start \in 1..(Len(buffer) + 1)
  BY StartsIn
<1>3. \A j \in DOMAIN buffer : buffer[j].id \in Nat /\ buffer[j].id \in Ids(buffer)
  <2>1. \A j \in DOMAIN buffer : buffer[j] \in Event
    OBVIOUS
  <2> QED
    BY <2>1 DEF Event, Ids
<1>4. \A j \in DOMAIN buffer : i <= j => x <= buffer[j].id
  BY <1>1, <1>2, <1>3 DEF Ordered
<1>5. start <= i
  <2> SUFFICES ASSUME i < start PROVE FALSE
    BY <1>2
  <2>1. start - 1 \in DOMAIN buffer /\ i <= start - 1 /\ start # 1 /\ x <= buffer[start - 1].id
    BY <1>2, <1>4
  <2>2. cursor # 0
    BY <2>1 DEF Starts
  <2>3. CASE \E j \in DOMAIN buffer : buffer[j].id = cursor /\ start = j + 1
    <3>1. buffer[start - 1].id = cursor
      BY <1>2, <2>3
    <3> QED
      BY <1>1, <1>3, <2>1, <3>1
  <2>4. CASE Before(buffer[start - 1].id, cursor)
    BY <1>3, <2>1, <2>2, <2>4 DEF Astray
  <2> QED
    BY <2>1, <2>2, <2>3, <2>4 DEF Starts
<1> QED
  BY <1>1, <1>2, <1>5, FromInOrder

-----------------------------------------------------------------------------
(***************************************************************************)
(* What a connection carries.                                              *)
(***************************************************************************)
Carries(w, k, n, x) ==
  \E i \in DOMAIN w : w[i].type = "event" /\ w[i].of = k /\ w[i].n = n /\ x \in ToSet(w[i].ids)

LEMMA WireCarries ==
  /\ \A k, x : x \in OnWire(k) <=> Carries(wire, k, subs[k].n, x)
  /\ \A k, x : x \in OnWire(k)' <=> Carries(wire', k, subs'[k].n, x)
BY DEF OnWire, Carries, ToSet

Messages(k, n, q) == [i \in DOMAIN q |-> [type |-> "event", of |-> k, n |-> n, ids |-> q[i].ids]]

LEMMA MessagesType ==
  ASSUME NEW k \in Keys, NEW n \in Nat, NEW q \in Seq(Envelope)
  PROVE  /\ Messages(k, n, q) \in Seq(Message)
         /\ Len(Messages(k, n, q)) = Len(q)
         /\ \A i \in DOMAIN Messages(k, n, q) : Messages(k, n, q)[i].type = "event"
<1>1. \A i \in DOMAIN q : q[i] \in Envelope
  OBVIOUS
<1>2. \A e \in Envelope : e.ids \in Seq(Nat)
  BY DEF Envelope
<1>3. \A i \in DOMAIN q : q[i].ids \in Seq(Nat)
  BY <1>1, <1>2
<1>4. \A i \in DOMAIN q : [type |-> "event", of |-> k, n |-> n, ids |-> q[i].ids] \in Message
  BY <1>3 DEF Message
<1> QED
  BY <1>4 DEF Messages

CarriesAll(v, w) == \A l, m, x : Carries(w, l, m, x) => Carries(v, l, m, x)

LEMMA CarriesMore ==
  ASSUME NEW w \in Seq(Message), NEW k \in Keys, NEW n \in Nat, NEW q \in Seq(Envelope),
         NEW v, v = w \o Messages(k, n, q)
  PROVE  /\ CarriesAll(v, w)
         /\ \A x \in ToSet(Contents(q)) : Carries(v, k, n, x)
<1> DEFINE u == Messages(k, n, q)
<1>0. u \in Seq(Message) /\ DOMAIN u = DOMAIN q /\ \A i \in DOMAIN q :
        u[i].type = "event" /\ u[i].of = k /\ u[i].n = n /\ u[i].ids = q[i].ids
  BY MessagesType DEF Messages
<1> HIDE DEF u
<1>1. /\ \A i \in DOMAIN w : i \in DOMAIN v /\ v[i] = w[i]
      /\ \A i \in DOMAIN u : Len(w) + i \in DOMAIN v /\ v[Len(w) + i] = u[i]
  BY <1>0, BothParts DEF u
<1>2. ASSUME NEW l, NEW m, NEW x, Carries(w, l, m, x) PROVE Carries(v, l, m, x)
  BY <1>1, <1>2 DEF Carries
<1>3. ASSUME NEW x \in ToSet(Contents(q)) PROVE Carries(v, k, n, x)
  <2>1. PICK i \in DOMAIN q : x \in ToSet(q[i].ids)
    BY ContentsMembers
  <2>2. Len(w) + i \in DOMAIN v /\ v[Len(w) + i] = u[i]
    BY <1>0, <1>1
  <2> QED
    BY <1>0, <2>1, <2>2 DEF Carries
<1> QED
  BY <1>2, <1>3 DEF CarriesAll

\* Some envelopes fit the connection's queue, the rest is dropped.
LEMMA SendSplits ==
  ASSUME wire \in Seq(Message), Len(wire) <= MaxQueue, NEW k \in Keys,
         subs[k].n \in Nat, NEW q \in Seq(Envelope), Send(k, q)
  PROVE  \E fit, rest \in Seq(Envelope) :
           /\ Contents(q) = Contents(fit) \o Contents(rest)
           /\ wire' = wire \o Messages(k, subs[k].n, fit)
           /\ wire' \in Seq(Message) /\ Len(wire') <= MaxQueue
           /\ sent' = [sent EXCEPT ![k] = @ \o Contents(fit)]
           /\ excused' = [excused EXCEPT ![k] = @ \cup ToSet(Contents(rest))]
<1> DEFINE room == Min({MaxQueue - Len(wire), Len(q)})
           fit == SubSeq(q, 1, room)
           rest == SubSeq(q, room + 1, Len(q))
<1>1. MaxQueue \in Nat /\ Len(wire) \in Nat /\ Len(q) \in Nat
  BY FeedAssumption
<1>2. room \in 0..Len(q) /\ room <= MaxQueue - Len(wire)
  <2>1. ASSUME NEW a \in Nat, NEW b \in Nat PROVE Min({a, b}) \in 0..b /\ Min({a, b}) <= a
    <3>1. \E x \in {a, b} : \A y \in {a, b} : x <= y
      <4>1. a <= b \/ b <= a
        OBVIOUS
      <4> QED
        BY <4>1
    <3>2. Min({a, b}) \in {a, b} /\ \A y \in {a, b} : Min({a, b}) <= y
      BY <3>1, Zenon DEF Min
    <3> QED
      BY <3>2
  <2> QED
    BY <1>1, <2>1
<1> HIDE DEF room
<1>3. fit \in Seq(Envelope) /\ rest \in Seq(Envelope) /\ Len(fit) = room
  BY <1>1, <1>2
<1>4. Contents(q) = Contents(fit) \o Contents(rest)
  BY <1>2, ContentsSplit
<1>5. /\ wire' = wire \o Messages(k, subs[k].n, fit)
      /\ sent' = [sent EXCEPT ![k] = @ \o Contents(fit)]
      /\ excused' = [excused EXCEPT ![k] = @ \cup ToSet(Contents(rest))]
  BY DEF Send, Messages, room
<1> HIDE DEF fit, rest
<1>6. wire' \in Seq(Message) /\ Len(wire') <= MaxQueue
  <2> DEFINE u == Messages(k, subs[k].n, fit)
  <2>1. u \in Seq(Message) /\ Len(u) = room
    BY <1>3, MessagesType
  <2> HIDE DEF u
  <2>2. wire' \in Seq(Message) /\ Len(wire') = Len(wire) + room
    BY <1>5, <2>1, BothParts DEF u
  <2> QED
    BY <1>1, <1>2, <2>2
<1> QED
  BY <1>3, <1>4, <1>5, <1>6

-----------------------------------------------------------------------------
(***************************************************************************)
(* Queues of events.                                                       *)
(***************************************************************************)
LEMMA EventType == \A e \in Event : e.id \in Nat /\ e.kind \in Kinds
BY DEF Event

LEMMA IdsType ==
  ASSUME NEW s \in Seq(Event)
  PROVE  Ids(s) \subseteq Nat /\ \A i \in DOMAIN s : s[i] \in Event /\ s[i].id \in Ids(s)
<1>1. \A i \in DOMAIN s : s[i] \in Event
  OBVIOUS
<1> QED
  BY <1>1, EventType DEF Ids

LEMMA TailFacts ==
  ASSUME NEW s \in Seq(Event), s # <<>>
  PROVE  /\ Head(s) \in Event /\ Head(s) = s[1] /\ 1 \in DOMAIN s
         /\ Tail(s) \in Seq(Event) /\ Len(Tail(s)) = Len(s) - 1
         /\ \A i \in DOMAIN Tail(s) : i + 1 \in DOMAIN s /\ Tail(s)[i] = s[i + 1]
         /\ Ids(s) = {Head(s).id} \cup Ids(Tail(s))
         /\ Ordered(s) => Ordered(Tail(s)) /\ \A x \in Ids(Tail(s)) : Head(s).id < x
<1>1. /\ Head(s) \in Event /\ Head(s) = s[1] /\ 1 \in DOMAIN s
      /\ Tail(s) \in Seq(Event) /\ Len(Tail(s)) = Len(s) - 1
      /\ \A i \in DOMAIN Tail(s) : i + 1 \in DOMAIN s /\ Tail(s)[i] = s[i + 1]
      /\ \A i \in DOMAIN s : i # 1 => i - 1 \in DOMAIN Tail(s) /\ s[i] = Tail(s)[i - 1]
  OBVIOUS
<1>2. Ids(s) = {Head(s).id} \cup Ids(Tail(s))
  BY <1>1 DEF Ids
<1>3. ASSUME Ordered(s) PROVE Ordered(Tail(s)) /\ \A x \in Ids(Tail(s)) : Head(s).id < x
  <2>1. \A i \in DOMAIN Tail(s) : i \in Nat /\ 1 < i + 1
    BY <1>1
  <2>2. \A i, j \in DOMAIN Tail(s) : i < j => i + 1 < j + 1
    BY <1>1
  <2> QED
    BY <1>1, <1>3, <2>1, <2>2 DEF Ordered, Ids
<1> QED
  BY <1>1, <1>2, <1>3

LEMMA AppendFacts ==
  ASSUME NEW s \in Seq(Event), NEW e \in Event
  PROVE  /\ Append(s, e) \in Seq(Event)
         /\ Ids(Append(s, e)) = Ids(s) \cup {e.id}
         /\ \A i \in DOMAIN Append(s, e) : \/ i \in DOMAIN s /\ Append(s, e)[i] = s[i]
                                           \/ Append(s, e)[i] = e
         /\ Ordered(s) /\ (\A x \in Ids(s) : x < e.id) => Ordered(Append(s, e))
<1> DEFINE t == Append(s, e)
           n == Len(s) + 1
<1>1. /\ t \in Seq(Event) /\ DOMAIN t = DOMAIN s \cup {n} /\ t[n] = e
      /\ \A i \in DOMAIN s : t[i] = s[i] /\ i < n
      /\ n \in Nat /\ DOMAIN t \subseteq Nat
  OBVIOUS
<1> HIDE DEF t, n
<1>2. Ids(t) = Ids(s) \cup {e.id}
  BY <1>1 DEF Ids
<1>3. ASSUME Ordered(s), \A x \in Ids(s) : x < e.id PROVE Ordered(t)
  <2> SUFFICES ASSUME NEW i \in DOMAIN t, NEW j \in DOMAIN t, i < j PROVE t[i].id < t[j].id
    BY DEF Ordered
  <2>1. i \in DOMAIN s
    BY <1>1
  <2>2. CASE j \in DOMAIN s
    BY <1>1, <1>3, <2>1, <2>2 DEF Ordered
  <2>3. CASE j = n
    BY <1>1, <1>3, <2>1, <2>3, IdsType
  <2> QED
    BY <1>1, <2>2, <2>3
<1> QED
  BY <1>1, <1>2, <1>3 DEF t

LEMMA NoIds == Ids(<<>>) = {} /\ Ordered(<<>>) /\ ToSet(<<>>) = {}
BY DEF Ids, Ordered, ToSet

LEMMA NoneIsNone == \A e \in Event : e # None
BY FeedAssumption

LEMMA SubscriptionType ==
  \A s \in Subscription :
    /\ s.at \in {"none", "replaying", "draining", "live", "deaf"} /\ s.n \in Nat
    /\ s.rt \in Seq(Event) /\ s.lagged \in BOOLEAN /\ s.seen \in SUBSET Nat /\ s.after \in Nat
BY DEF Subscription

-----------------------------------------------------------------------------
(***************************************************************************)
(* The invariant holds at the start, and where a step leaves things alone. *)
(***************************************************************************)
LEMMA AtFirst == Init => Inv
<1> SUFFICES ASSUME Init PROVE Inv
  OBVIOUS
<1>1. NoSub \in Subscription /\ NoSub.rt = <<>> /\ NoSub.at = "none"
  BY DEF NoSub, Subscription
<1>2. TypeOK
  <2>1. ServerOK
    BY <1>1 DEF Init, ServerOK
  <2>2. ClientOK
    BY DEF Init, ClientOK
  <2>3. LinkOK
    BY FeedAssumption DEF Init, LinkOK
  <2>4. HistoryOK
    BY DEF Init, HistoryOK
  <2> QED
    BY <2>1, <2>2, <2>3, <2>4 DEF TypeOK
<1>3. Stream
  BY NoIds DEF Init, Stream
<1>4. ASSUME NEW k \in Keys PROVE Kept(k)
  <2>1. subs[k].rt = <<>> /\ subs[k].at = "none" /\ sent[k] = <<>> /\ due[k] = {}
    BY <1>1 DEF Init
  <2>2. Received(k)
    BY <2>1, NoIds DEF Received
  <2>3. Following(k) /\ InOrder(k) /\ Drained(k)
    BY <2>1, NoIds DEF Following, InOrder, Drained
  <2>4. Owed(k)
    BY <2>1 DEF Owed
  <2>5. Queued(k) /\ Delivered(k)
    BY <2>1 DEF Queued, Delivered, Registered
  <2> QED
    BY <2>2, <2>3, <2>4, <2>5 DEF Kept
<1>5. Connected
  BY <1>1 DEF Init, Connected
<1>6. Resumed
  BY <1>1 DEF Init, Resumed
<1> QED
  BY <1>2, <1>3, <1>4, <1>5, <1>6 DEF Inv

\* The forwarder has done nothing.
ForwarderIdle == queue' = queue /\ held' = held /\ published' = published

\* Nothing was done for a subscription, except that the client may have got something.
Undisturbed(k) ==
  /\ subs'[k] = subs[k] /\ due'[k] = due[k] /\ sent'[k] = sent[k] /\ late'[k] = late[k]
  /\ excused[k] \subseteq excused'[k]
  /\ brought[k] \cup OnWire(k) \cup excused[k]
       \subseteq brought'[k] \cup OnWire(k)' \cup excused'[k]

LEMMA LeftAlone ==
  ASSUME NEW k \in Keys, Kept(k), ForwarderIdle, Undisturbed(k)
  PROVE  Kept(k)'
<1> USE DEF ForwarderIdle, Undisturbed
<1>1. \A x : Passed(x) => Passed(x)'
  BY DEF Passed, Ids
<1>2. Received(k)'
  <2>1. Received(k)
    BY DEF Kept
  <2> QED
    BY <1>1, <2>1 DEF Received, Ids, Ordered, ToSet
<1>3. Following(k)' /\ InOrder(k)'
  BY DEF Kept, Following, InOrder, MayFollow, Ids
<1>4. Drained(k)' /\ Owed(k)'
  BY DEF Kept, Drained, Owed, ToSet
<1>5. Underway' = Underway
  BY DEF Underway, Ids
<1>6. Queued(k)'
  BY <1>5 DEF Kept, Queued, Registered, Ids, ToSet
<1>7. Delivered(k)'
  <2>1. Delivered(k)
    BY DEF Kept
  <2>2. ToSet(sent[k])' = ToSet(sent[k]) /\ Registered(k)' = Registered(k)
    BY DEF ToSet, Registered
  <2> QED
    BY <2>1, <2>2 DEF Delivered
<1> QED
  BY <1>2, <1>3, <1>4, <1>6, <1>7 DEF Kept

LEMMA WireSame ==
  ASSUME wire' = wire, NEW k, subs'[k].n = subs[k].n
  PROVE  OnWire(k)' = OnWire(k)
<1>1. \A x : x \in OnWire(k)' <=> Carries(wire, k, subs[k].n, x)
  BY WireCarries
<1>2. \A x : x \in OnWire(k)' <=> x \in OnWire(k)
  BY <1>1, WireCarries
<1> QED
  BY <1>2

LEMMA StreamSame ==
  ASSUME Stream, ForwarderIdle, buffer' = buffer
  PROVE  Stream'
BY DEF Stream, ForwarderIdle, Passed, Ids, Ordered

-----------------------------------------------------------------------------
(***************************************************************************)
(* The steps of the client.                                                *)
(***************************************************************************)

\* What concerns neither the server nor what it sends leaves every subscription alone.
LEMMA ServerAlone ==
  ASSUME Inv, UNCHANGED <<queue, held, buffer, subs, published, wire>>, UNCHANGED due,
         UNCHANGED <<sent, brought, excused, late>>
  PROVE  Stream' /\ \A k \in Keys : Kept(k)'
<1>1. Stream'
  BY StreamSame DEF Inv, ForwarderIdle
<1>2. ASSUME NEW k \in Keys PROVE Kept(k)'
  <2>1. OnWire(k)' = OnWire(k)
    BY WireSame
  <2>2. Undisturbed(k)
    BY <2>1 DEF Undisturbed
  <2>3. Kept(k) /\ ForwarderIdle
    BY DEF Inv, ForwarderIdle
  <2> QED
    BY <2>2, <2>3, LeftAlone
<1> QED
  BY <1>1, <1>2

LEMMA AppendIn ==
  ASSUME NEW R, NEW s \in Seq(R), NEW e \in R
  PROVE  Append(s, e) \in Seq(R)
OBVIOUS

LEMMA RequestType ==
  \A k \in Keys, after \in Nat, resub \in BOOLEAN :
    Request(k, after, resub) \in [key : Keys, all : BOOLEAN, after : Nat, resub : BOOLEAN]
BY DEF Request

LEMMA AskKeeps ==
  ASSUME Inv, NEW k \in Keys, NEW after \in {0} \cup got[k], Ask(k, after)
  PROVE  Inv'
<1>0. UNCHANGED <<server, todo, resubs, published, stamp, history, got, link, wire>>
  BY DEF Ask
<1>1. Stream' /\ \A l \in Keys : Kept(l)'
  BY <1>0, ServerAlone DEF server, history
<1>2. TypeOK'
  <2>1. after \in Nat
    BY DEF Inv, TypeOK, HistoryOK
  <2>2. ServerOK' /\ HistoryOK'
    BY <1>0 DEF Inv, TypeOK, ServerOK, HistoryOK, server, history
  <2>3. ClientOK'
    BY <1>0 DEF Inv, TypeOK, ClientOK, Ask
  <2>4. LinkOK'
    <3> DEFINE R == [key : Keys, all : BOOLEAN, after : Nat, resub : BOOLEAN]
    <3>1. Request(k, after, FALSE) \in R /\ requests \in Seq(R)
      BY <2>1, RequestType DEF Inv, TypeOK, LinkOK
    <3> HIDE DEF R
    <3>2. Append(requests, Request(k, after, FALSE)) \in Seq(R)
      BY <3>1, AppendIn, Zenon
    <3>3. requests' \in Seq(R)
      BY <3>1, <3>2, Zenon DEF Ask
    <3> QED
      BY <1>0, <3>3 DEF Inv, TypeOK, LinkOK, R
  <2> QED
    BY <2>2, <2>3, <2>4 DEF TypeOK
<1>3. Connected'
  BY <1>0 DEF Inv, Connected, server
<1>4. Resumed'
  BY <1>0 DEF Inv, TypeOK, ClientOK, Resumed, server, history, Ask
<1> QED
  BY <1>1, <1>2, <1>3, <1>4 DEF Inv

LEMMA AttachKeeps ==
  ASSUME Inv, NEW k \in Keys, Attach(k) \/ Leave(k)
  PROVE  Inv'
<1>0. UNCHANGED <<server, todo, resubs, bounds, history, got, link, requests, wire>>
  BY DEF Attach, Leave
<1>1. Stream' /\ \A l \in Keys : Kept(l)'
  BY <1>0, ServerAlone DEF server, history, bounds
<1>2. TypeOK'
  <2>2. ServerOK' /\ HistoryOK' /\ LinkOK'
    BY <1>0 DEF Inv, TypeOK, ServerOK, HistoryOK, LinkOK, server, history, bounds
  <2>3. ClientOK'
    BY <1>0 DEF Inv, TypeOK, ClientOK, Attach, Leave, bounds
  <2> QED
    BY <2>2, <2>3 DEF TypeOK
<1>3. Connected'
  BY <1>0 DEF Inv, Connected, server
<1>4. Resumed'
  BY <1>0 DEF Inv, TypeOK, ClientOK, Resumed, server, history, Attach, Leave
<1> QED
  BY <1>1, <1>2, <1>3, <1>4 DEF Inv

LEMMA ResubscribeKeeps ==
  ASSUME Inv, NEW k \in Keys, Resubscribe(k)
  PROVE  Inv'
<1>0. UNCHANGED <<server, app, todo, bounds, history, got, link, wire>>
  BY DEF Resubscribe
<1>1. Stream' /\ \A l \in Keys : Kept(l)'
  BY <1>0, ServerAlone DEF server, history, bounds
<1>2. TypeOK'
  <2>2. ServerOK' /\ HistoryOK'
    BY <1>0 DEF Inv, TypeOK, ServerOK, HistoryOK, server, history, bounds
  <2>3. ClientOK'
    BY <1>0 DEF Inv, TypeOK, ClientOK, Resubscribe, bounds
  <2>4. LinkOK'
    <3> DEFINE R == [key : Keys, all : BOOLEAN, after : Nat, resub : BOOLEAN]
    <3>1. Request(k, 0, TRUE) \in R /\ requests \in Seq(R)
      BY RequestType DEF Inv, TypeOK, LinkOK
    <3> HIDE DEF R
    <3>2. Append(requests, Request(k, 0, TRUE)) \in Seq(R)
      BY <3>1, AppendIn, Zenon
    <3>3. requests' \in Seq(R)
      BY <3>1, <3>2, Zenon DEF Resubscribe
    <3> QED
      BY <1>0, <3>3 DEF Inv, TypeOK, LinkOK, R
  <2> QED
    BY <2>2, <2>3, <2>4 DEF TypeOK
<1>3. Connected'
  BY <1>0 DEF Inv, Connected, server
<1>4. Resumed'
  BY <1>0 DEF Inv, Resumed, server, history
<1> QED
  BY <1>1, <1>2, <1>3, <1>4 DEF Inv

LEMMA ReconnectKeeps ==
  ASSUME Inv, Reconnect
  PROVE  Inv'
<1>0. UNCHANGED <<server, app, resubs, bounds, due, sent, brought, got, excused, late, requests, wire>>
  BY DEF Reconnect
<1>1. Stream' /\ \A l \in Keys : Kept(l)'
  BY <1>0, ServerAlone DEF server, bounds
<1>2. TypeOK'
  <2>2. ServerOK' /\ HistoryOK'
    BY <1>0 DEF Inv, TypeOK, ServerOK, HistoryOK, server, bounds, Reconnect
  <2>3. ClientOK' /\ LinkOK'
    BY <1>0 DEF Inv, TypeOK, ClientOK, LinkOK, Reconnect, Forlorn, bounds
  <2> QED
    BY <2>2, <2>3 DEF TypeOK
<1>3. Connected'
  BY <1>0 DEF Inv, Connected, server, Reconnect
<1>4. Resumed'
  <2>1. wire' = <<>>
    BY <1>0 DEF Inv, Connected, Reconnect
  <2> QED
    BY <1>0, <2>1 DEF Resumed, Reconnect, Forlorn
<1> QED
  BY <1>1, <1>2, <1>3, <1>4 DEF Inv

\* Without a subscription nothing is owed.
LEMMA NotRegistered ==
  ASSUME NEW k, subs[k].at = "none"
  PROVE  Queued(k) /\ Delivered(k) /\ Drained(k)
BY DEF Queued, Delivered, Drained, Registered

LEMMA NoticeKeeps ==
  ASSUME Inv, Notice
  PROVE  Inv'
<1>0. UNCHANGED <<server, bounds, history, got, requests>>
  BY DEF Notice
<1>1. \A k \in Keys : subs'[k].at = "none"
  BY <1>0 DEF Inv, Connected, Notice, server
<1>2. Stream'
  BY <1>0, StreamSame DEF Inv, ForwarderIdle, server, bounds
<1>3. ASSUME NEW k \in Keys PROVE Kept(k)'
  <2>1. Received(k)' /\ Following(k)' /\ InOrder(k)' /\ Owed(k)'
    <3>1. subs' = subs /\ queue' = queue /\ held' = held /\ published' = published
          /\ sent' = sent /\ due' = due /\ late' = late
      BY <1>0 DEF server, bounds, history
    <3>2. Received(k)'
      BY <3>1 DEF Inv, Kept, Received, Passed, Ids, Ordered, ToSet
    <3>3. Following(k)' /\ InOrder(k)' /\ Owed(k)'
      BY <3>1 DEF Inv, Kept, Following, InOrder, Owed, MayFollow, Ids
    <3> QED
      BY <3>2, <3>3
  <2>2. Queued(k)' /\ Delivered(k)' /\ Drained(k)'
    BY <1>1 DEF Queued, Delivered, Drained, Registered
  <2> QED
    BY <2>1, <2>2 DEF Kept
<1>4. TypeOK'
  <2>2. ServerOK' /\ HistoryOK'
    BY <1>0 DEF Inv, TypeOK, ServerOK, HistoryOK, server, bounds, history
  <2>3. ClientOK'
    BY <1>0 DEF Inv, TypeOK, ClientOK, Notice, bounds
  <2>4. LinkOK'
    BY <1>0, FeedAssumption DEF Inv, TypeOK, LinkOK, Notice
  <2> QED
    BY <2>2, <2>3, <2>4 DEF TypeOK
<1>5. Connected' /\ Resumed'
  BY <1>0, <1>1 DEF Inv, Connected, Resumed, Notice, server
<1> QED
  BY <1>2, <1>3, <1>4, <1>5 DEF Inv

LEMMA CutKeeps ==
  ASSUME Inv, Cut
  PROVE  Inv'
<1>0. UNCHANGED <<queue, held, buffer, client, published, stamp, history, got, wire>>
  BY DEF Cut
<1>1. /\ subs' \in [Keys -> Subscription]
      /\ \A k \in Keys : subs'[k].at = "none" /\ subs'[k].rt = <<>>
  <2>1. \A k \in Keys : subs[k].n \in Nat
    BY SubscriptionType DEF Inv, TypeOK, ServerOK
  <2>2. ASSUME NEW n \in Nat
        PROVE  /\ [NoSub EXCEPT !.n = n] \in Subscription
               /\ [NoSub EXCEPT !.n = n].at = "none" /\ [NoSub EXCEPT !.n = n].rt = <<>>
    <3>1. NoSub \in Subscription /\ NoSub.at = "none" /\ NoSub.rt = <<>>
      BY DEF NoSub, Subscription
    <3>2. \A s \in Subscription : /\ [s EXCEPT !.n = n] \in Subscription
                                  /\ [s EXCEPT !.n = n].at = s.at /\ [s EXCEPT !.n = n].rt = s.rt
      BY DEF Subscription
    <3> QED
      BY <3>1, <3>2
  <2> QED
    BY <2>1, <2>2 DEF Cut
<1>2. Stream'
  BY <1>0, StreamSame DEF Inv, ForwarderIdle
<1>3. ASSUME NEW k \in Keys PROVE Kept(k)'
  <2>1. \A x : Passed(x)' <=> Passed(x)
    BY <1>0 DEF Passed, Ids
  <2>2. Received(k)'
    BY <1>0, <1>1, <2>1, NoIds DEF Inv, Kept, Received, ToSet, history
  <2>3. Following(k)'
    BY <1>1, NoIds DEF Following
  <2>4. InOrder(k)' /\ Owed(k)'
    BY <1>0 DEF Inv, Kept, InOrder, Owed, history
  <2>5. Queued(k)' /\ Delivered(k)' /\ Drained(k)'
    BY <1>1 DEF Queued, Delivered, Drained, Registered
  <2> QED
    BY <2>2, <2>3, <2>4, <2>5 DEF Kept
<1>4. TypeOK'
  <2>1. ServerOK'
    BY <1>0, <1>1 DEF Inv, TypeOK, ServerOK
  <2>2. HistoryOK' /\ ClientOK'
    BY <1>0 DEF Inv, TypeOK, HistoryOK, ClientOK, history, client, Cut
  <2>3. LinkOK'
    BY <1>0 DEF Inv, TypeOK, LinkOK, Cut
  <2> QED
    BY <2>1, <2>2, <2>3 DEF TypeOK
<1>5. Connected' /\ Resumed'
  BY <1>0, <1>1 DEF Inv, Connected, Resumed, Cut
<1> QED
  BY <1>2, <1>3, <1>4, <1>5 DEF Inv

LEMMA ReadKeeps ==
  ASSUME Inv, Read
  PROVE  Inv'
<1> DEFINE m == Head(wire)
           own == m.type = "event" /\ m.n = subs[m.of].n
           ids == IF own THEN ToSet(m.ids) ELSE {}
           all == IF m.type = "event" THEN ToSet(m.ids) ELSE {}
<1>0. UNCHANGED <<server, bounds, due, sent, late, strayed, link, requests>>
  BY DEF Read
<1>1. /\ wire \in Seq(Message) /\ wire # <<>> /\ wire' = Tail(wire)
      /\ m \in Message /\ Tail(wire) \in Seq(Message)
      /\ \A i \in DOMAIN Tail(wire) : i + 1 \in DOMAIN wire /\ Tail(wire)[i] = wire[i + 1]
      /\ \A i \in DOMAIN wire : \/ wire[i] = m
                                \/ i - 1 \in DOMAIN Tail(wire) /\ Tail(wire)[i - 1] = wire[i]
      /\ Len(Tail(wire)) <= Len(wire) /\ 1 \in DOMAIN wire /\ wire[1] = m
      /\ Len(Tail(wire)) \in Nat /\ Len(wire) \in Nat
  <2>1. wire \in Seq(Message) /\ wire # <<>> /\ wire' = Tail(wire)
    BY DEF Inv, TypeOK, LinkOK, Read
  <2> QED
    BY <2>1
<1>2. /\ m.of \in Keys /\ m.type \in {"event", "reply"}
      /\ ids \subseteq Nat /\ all \subseteq Nat
  <2>1. m.of \in Keys /\ m.type \in {"event", "reply"} /\ (m.type = "event" => m.ids \in Seq(Nat))
    BY <1>1 DEF Message
  <2> QED
    BY <2>1 DEF ToSet
<1>3. /\ m.type = "event" => UNCHANGED client
      /\ m.type = "event" /\ app[m.of] = "listening"
           => brought' = [brought EXCEPT ![m.of] = @ \cup ids] /\ UNCHANGED excused
      /\ m.type = "event" /\ app[m.of] # "listening"
           => excused' = [excused EXCEPT ![m.of] = @ \cup ids] /\ UNCHANGED brought
      /\ m.type # "event" => UNCHANGED <<brought, excused, resubs>> \/ (UNCHANGED <<brought, excused>> /\ resubs' = None)
      /\ m.type # "event" =>
           \/ todo' = todo \ {m.of} /\ UNCHANGED app
           \/ app' = [app EXCEPT ![m.of] = "asked"] /\ UNCHANGED todo
      /\ m.type = "event"
           => got' = [l \in Keys |-> IF app[l] = "listening" THEN got[l] \cup all ELSE got[l]]
      /\ m.type # "event" => UNCHANGED got
  BY DEF Read
<1>4. got \in [Keys -> SUBSET Nat] /\ brought \in [Keys -> SUBSET Nat] /\ excused \in [Keys -> SUBSET Nat]
  BY DEF Inv, TypeOK, HistoryOK
<1> HIDE DEF m
<1>6. TypeOK'
  <2>1. ServerOK'
    BY <1>0 DEF Inv, TypeOK, ServerOK, server, bounds
  <2>2. ClientOK'
    BY <1>0, <1>2, <1>3 DEF Inv, TypeOK, ClientOK, bounds, client
  <2>3. LinkOK'
    BY <1>0, <1>1, FeedAssumption DEF Inv, TypeOK, LinkOK
  <2>4. HistoryOK'
    <3> HIDE DEF ids, all
    <3>1. got' \in [Keys -> SUBSET Nat]
      <4>1. CASE m.type = "event"
        <5>1. \A l \in Keys : got[l] \cup all \in SUBSET Nat /\ got[l] \in SUBSET Nat
          BY <1>2, <1>4
        <5> QED
          BY <1>3, <4>1, <5>1
      <4>2. CASE m.type # "event"
        BY <1>3, <1>4, <4>2
      <4> QED
        BY <4>1, <4>2
    <3>2. brought' \in [Keys -> SUBSET Nat] /\ excused' \in [Keys -> SUBSET Nat]
      BY <1>2, <1>3, <1>4
    <3> QED
      BY <1>0, <3>1, <3>2 DEF Inv, TypeOK, HistoryOK
  <2> QED
    BY <2>1, <2>2, <2>3, <2>4 DEF TypeOK
<1>7. Stream'
  BY <1>0, StreamSame DEF Inv, ForwarderIdle, server, bounds
<1>8. ASSUME NEW k \in Keys PROVE Kept(k)'
  <2>1. /\ excused[k] \subseteq excused'[k]
        /\ brought[k] \subseteq brought'[k]
        /\ m.of = k => ids \subseteq brought'[k] \cup excused'[k]
    <3> HIDE DEF ids
    <3>2. CASE m.type = "event" /\ app[m.of] = "listening"
      BY <1>2, <1>3, <1>4, <3>2
    <3>3. CASE m.type = "event" /\ app[m.of] # "listening"
      BY <1>2, <1>3, <1>4, <3>3
    <3>4. CASE m.type # "event"
      <4>1. ids = {}
        BY <3>4 DEF ids
      <4> QED
        BY <1>3, <3>4, <4>1
    <3> QED
      BY <3>2, <3>3, <3>4
  <2>2. ASSUME NEW x \in OnWire(k) PROVE x \in brought'[k] \cup OnWire(k)' \cup excused'[k]
    <3>1. PICK i \in DOMAIN wire :
            wire[i].type = "event" /\ wire[i].of = k /\ wire[i].n = subs[k].n /\ x \in ToSet(wire[i].ids)
      BY <2>2, WireCarries DEF Carries
    <3>2. CASE wire[i] = m
      <4>1. own /\ m.of = k
        BY <3>1, <3>2
      <4>2. ids = ToSet(m.ids)
        BY <4>1
      <4> QED
        BY <2>1, <3>1, <3>2, <4>1, <4>2
    <3>3. CASE i - 1 \in DOMAIN Tail(wire) /\ Tail(wire)[i - 1] = wire[i]
      <4>1. Carries(wire', k, subs'[k].n, x)
        BY <1>0, <1>1, <3>1, <3>3 DEF Carries, server
      <4> QED
        BY <4>1, WireCarries
    <3> QED
      BY <1>1, <3>2, <3>3
  <2>3. Undisturbed(k)
    BY <1>0, <2>1, <2>2 DEF Undisturbed, server
  <2>4. Kept(k) /\ ForwarderIdle
    BY <1>0 DEF Inv, ForwarderIdle, server, bounds
  <2> QED
    BY <2>3, <2>4, LeftAlone
<1>9. Connected'
  <2>1. link # "down"
    BY DEF Read
  <2> QED
    BY <1>0, <2>1 DEF Inv, Connected, server
<1>10. Resumed'
  <2> SUFFICES ASSUME link = "up"
               PROVE  /\ \A i \in DOMAIN wire' : wire'[i].type = "reply" => subs'[wire'[i].of].at # "none"
                      /\ \A k \in Keys \ strayed' :
                           app'[k] \in {"asked", "listening"} => subs'[k].at # "none" \/ k \in todo'
    BY <1>0 DEF Resumed
  <2>1. Resumed /\ app \in [Keys -> {"idle", "asking", "asked", "listening"}]
    BY DEF Inv, TypeOK, ClientOK
  <2>2. subs' = subs /\ strayed' = strayed
    BY <1>0 DEF server
  <2>3. m.type = "reply" => subs[m.of].at # "none"
    BY <1>1, <2>1 DEF Resumed
  <2>4. \A i \in DOMAIN wire' : wire'[i].type = "reply" => subs'[wire'[i].of].at # "none"
    BY <1>1, <2>1, <2>2 DEF Resumed
  <2>5. ASSUME NEW k \in Keys \ strayed', app'[k] \in {"asked", "listening"}
        PROVE  subs'[k].at # "none" \/ k \in todo'
    <3>1. CASE m.type = "event"
      BY <1>3, <2>1, <2>2, <2>5, <3>1 DEF Resumed, client
    <3>2. CASE m.type = "reply"
      <4>1. CASE m.of = k
        BY <2>2, <2>3, <3>2, <4>1
      <4>2. CASE m.of # k
        <5>1. app'[k] = app[k] /\ (k \in todo => k \in todo')
          BY <1>2, <1>3, <2>1, <3>2, <4>2
        <5> QED
          BY <2>1, <2>2, <2>5, <5>1 DEF Resumed
      <4> QED
        BY <4>1, <4>2
    <3> QED
      BY <1>2, <3>1, <3>2
  <2> QED
    BY <2>4, <2>5
<1> QED
  BY <1>6, <1>7, <1>8, <1>9, <1>10 DEF Inv

-----------------------------------------------------------------------------
(***************************************************************************)
(* The steps of the kernel and the forwarder.                              *)
(***************************************************************************)
LEMMA Typed ==
  ASSUME Inv
  PROVE  /\ published \in Nat /\ stamp \in Seq(1..MaxEvents) /\ queue \in Seq(Event) /\ buffer \in Seq(Event)
         /\ held \in Event \cup {None} /\ subs \in [Keys -> Subscription]
         /\ Ids(queue) \subseteq Nat /\ Ids(buffer) \subseteq Nat
         /\ due \in [Keys -> SUBSET Nat] /\ excused \in [Keys -> SUBSET Nat]
         /\ late \in [Keys -> SUBSET Nat]
         /\ sent \in [Keys -> Seq(Nat)]
         /\ got \in [Keys -> SUBSET Nat] /\ brought \in [Keys -> SUBSET Nat]
         /\ \A k \in Keys : /\ subs[k] \in Subscription /\ subs[k].rt \in Seq(Event)
                            /\ subs[k].n \in Nat
                            /\ Ids(subs[k].rt) \subseteq Nat /\ ToSet(sent[k]) \subseteq Nat
<1>1. ServerOK /\ HistoryOK
  BY DEF Inv, TypeOK
<1>2. \A k \in Keys : subs[k] \in Subscription /\ subs[k].rt \in Seq(Event) /\ subs[k].n \in Nat
  BY <1>1, SubscriptionType DEF ServerOK
<1>3. \A k \in Keys : Ids(subs[k].rt) \subseteq Nat /\ ToSet(sent[k]) \subseteq Nat
  BY <1>1, <1>2, IdsType DEF HistoryOK, ToSet
<1> QED
  BY <1>1, <1>2, <1>3, IdsType DEF ServerOK, HistoryOK

LEMMA EmitKeeps ==
  ASSUME Inv, NEW kind \in Kinds, Emit(kind)
  PROVE  Inv'
<1> DEFINE e == [id |-> published + 1, kind |-> kind]
           new(k) == IF subs[k].at \in {"none", "deaf"} \/ kind = "added"
                       THEN due[k] ELSE due[k] \cup {e.id}
<1>0. UNCHANGED <<held, buffer, subs, client, tries, sent, brought, got, excused, late, strayed, link, requests, wire>>
      /\ published' = published + 1
  BY DEF Emit
<1>1. e \in Event /\ e.id = published + 1 /\ e.id \in Nat /\ e.kind = kind
  BY Typed DEF Event
<1>2. \/ queue' = Append(queue, e) /\ due' = [k \in Keys |-> new(k)]
      \/ queue' = queue /\ due' = due
  BY DEF Emit
<1>3. \A k \in Keys : due[k] \subseteq due'[k] /\ due'[k] \subseteq due[k] \cup {e.id}
                      /\ (kind = "added" => due'[k] = due[k])
  BY <1>2, Typed
<1> HIDE DEF e, new
<1>4. /\ queue' \in Seq(Event)
      /\ Ids(queue) \subseteq Ids(queue)' /\ Ids(queue)' \subseteq Ids(queue) \cup {e.id}
      /\ \A i \in DOMAIN queue' : \/ i \in DOMAIN queue /\ queue'[i] = queue[i]
                                  \/ queue'[i] = e
      /\ queue' = queue \/ queue' = Append(queue, e)
      /\ queue' = queue => due' = due
      /\ queue' # queue => e.id \in Ids(queue)'
  <2>1. Ids(queue)' = Ids(queue')
    BY DEF Ids
  <2>2. CASE queue' = Append(queue, e) /\ due' = [k \in Keys |-> new(k)]
    <3>1. queue' # queue
      BY <1>1, <2>2, Typed
    <3> QED
      BY <1>1, <2>1, <2>2, <3>1, Typed, AppendFacts
  <2>3. CASE queue' = queue /\ due' = due
    BY <2>1, <2>3, Typed
  <2> QED
    BY <1>2, <2>2, <2>3
<1>5. ASSUME NEW x \in Nat, Passed(x) PROVE Passed(x)'
  BY <1>0, <1>1, <1>4, <1>5, Typed DEF Passed
<1>6. Stream'
  <2>0. Stream
    BY DEF Inv
  <2>1. Ordered(queue')
    <3>1. Ordered(queue) /\ \A x \in Ids(queue) : x <= published
      BY <2>0 DEF Stream
    <3>2. \A x \in Ids(queue) : x < e.id
      BY <1>1, <3>1, Typed
    <3> QED
      BY <1>1, <1>4, <3>1, <3>2, Typed, AppendFacts
  <2>2. \A x \in Ids(queue)' : x <= published'
    BY <1>0, <1>1, <1>4, <2>0, Typed DEF Stream
  <2>3. held' # None => Passed(held.id)'
    <3>1. ASSUME held # None PROVE Passed(held.id)'
      <4>1. held.id \in Nat /\ Passed(held.id)
        BY <2>0, <3>1, Typed, EventType DEF Stream
      <4>2. \A x \in Nat : Passed(x) => Passed(x)'
        BY <1>5
      <4>3. held' = held
        BY <1>0
      <4> QED
        BY <1>0, <1>1, <1>4, <4>1, <4>3, Typed DEF Passed
    <3> QED
      BY <1>0, <3>1
  <2>4. Ordered(buffer') /\ \A x \in Ids(buffer)' : Passed(x)'
    BY <1>0, <1>5, <2>0, Typed DEF Stream, Ids
  <2> QED
    BY <1>0, <2>1, <2>2, <2>3, <2>4 DEF Stream, Ordered
<1>7. ASSUME NEW k \in Keys PROVE Kept(k)'
  <2>0. Kept(k)
    BY DEF Inv
  <2>1. Received(k)'
    <3>1. Received(k)
      BY <2>0 DEF Kept
    <3>2. /\ \A x \in Ids(subs[k].rt) : Passed(x)' /\ (held # None => x # held.id)
          /\ \A x \in ToSet(sent[k]) : Passed(x)'
      BY <1>5, <3>1, Typed DEF Received
    <3>3. /\ Ids(subs[k].rt)' = Ids(subs[k].rt) /\ ToSet(sent[k])' = ToSet(sent[k])
          /\ Ordered(subs[k].rt)'
      BY <1>0, <3>1 DEF Ids, ToSet, Ordered, Received
    <3> QED
      BY <1>0, <3>2, <3>3 DEF Received
  <2>2. Following(k)' /\ InOrder(k)' /\ Drained(k)'
    BY <1>0, <2>0 DEF Kept, Following, MayFollow, InOrder, Drained, Ids, ToSet
  <2>3. Owed(k)'
    <3>1. \A x \in due'[k] : x <= published'
      <4>1. due[k] \subseteq Nat /\ \A x \in due[k] : x <= published
        BY <2>0, Typed DEF Kept, Owed
      <4>2. ASSUME NEW x \in due'[k] PROVE x <= published'
        <5>1. x \in due[k] \/ x = published + 1
          BY <1>1, <1>3
        <5>2. published \in Nat
          BY Typed
        <5> QED
          BY <1>0, <4>1, <5>1, <5>2
      <4> QED
        BY <4>2
    <3>2. ASSUME NEW i \in DOMAIN queue', queue'[i].kind = "added"
          PROVE  queue'[i].id \notin due'[k]
      <4>1. CASE i \in DOMAIN queue /\ queue'[i] = queue[i]
        <5>1. queue[i].id \in Ids(queue) /\ queue[i].id \notin due[k]
          BY <2>0, <3>2, <4>1, IdsType, Typed DEF Kept, Owed
        <5>2. queue[i].id <= published
          BY <5>1 DEF Inv, Stream
        <5>3. queue[i].id # e.id
          BY <1>1, <5>1, <5>2, Typed
        <5> QED
          BY <1>3, <4>1, <5>1, <5>3
      <4>2. CASE queue'[i] = e
        <5>1. due'[k] = due[k]
          BY <1>1, <1>3, <3>2, <4>2
        <5>2. e.id \notin due[k]
          BY <1>1, <2>0, Typed DEF Kept, Owed
        <5> QED
          BY <4>2, <5>1, <5>2
      <4> QED
        BY <1>4, <4>1, <4>2
    <3> QED
      BY <3>1, <3>2 DEF Owed
  <2>4. Queued(k)'
    <3>1. Underway \subseteq Underway'
      BY <1>0, <1>4 DEF Underway
    <3>2. due'[k] \subseteq due[k] \cup Underway'
      BY <1>3, <1>4 DEF Underway
    <3>3. ToSet(sent[k])' = ToSet(sent[k]) /\ Ids(subs[k].rt)' = Ids(subs[k].rt)
          /\ excused'[k] = excused[k] /\ Registered(k)' = Registered(k)
      BY <1>0 DEF ToSet, Ids, Registered
    <3> QED
      BY <2>0, <3>1, <3>2, <3>3 DEF Kept, Queued
  <2>5. Delivered(k)'
    <3>1. OnWire(k)' = OnWire(k)
      BY <1>0, WireSame
    <3> QED
      BY <1>0, <2>0, <3>1 DEF Kept, Delivered, Registered, ToSet
  <2> QED
    BY <2>1, <2>2, <2>3, <2>4, <2>5 DEF Kept
<1>8. TypeOK'
  <2>1. ServerOK'
    <3>1. PICK place \in (1..MaxEvents) \ ToSet(stamp) : stamp' = Append(stamp, place)
      BY DEF Emit
    <3>2. stamp' \in Seq(1..MaxEvents)
      BY <3>1, Typed
    <3> QED
      BY <1>0, <1>4, <3>2, Typed DEF ServerOK
  <2>2. HistoryOK'
    <3>1. due' \in [Keys -> SUBSET Nat]
      <4>1. \A k \in Keys : new(k) \in SUBSET Nat
        BY <1>1, Typed DEF new
      <4> QED
        BY <1>2, <4>1, Typed
    <3> QED
      BY <1>0, <3>1 DEF Inv, TypeOK, HistoryOK
  <2>3. ClientOK' /\ LinkOK'
    BY <1>0 DEF Inv, TypeOK, ClientOK, LinkOK, client
  <2> QED
    BY <2>1, <2>2, <2>3 DEF TypeOK
<1>9. Connected' /\ Resumed'
  BY <1>0 DEF Inv, Connected, Resumed, client
<1> QED
  BY <1>6, <1>7, <1>8, <1>9 DEF Inv

\* What the buffer gives up is its oldest event.
LEMMA KeptInBuffer ==
  ASSUME Inv, NEW e \in Event, Ordered(buffer)
  PROVE  /\ Keep(e) \in Seq(Event)
         /\ \E b \in Seq(Event) : Keep(e) = Append(b, e) /\ Ordered(b) /\ Ids(b) \subseteq Ids(buffer)
<1>1. PICK b : b = IF Len(buffer) < MaxBuffer THEN buffer ELSE Tail(buffer)
  OBVIOUS
<1>2. buffer \in Seq(Event) /\ Keep(e) = Append(b, e)
  BY <1>1, Typed DEF Keep
<1>3. b \in Seq(Event) /\ Ordered(b) /\ Ids(b) \subseteq Ids(buffer)
  <2>1. CASE Len(buffer) < MaxBuffer
    BY <1>1, <1>2, <2>1
  <2>2. CASE ~(Len(buffer) < MaxBuffer)
    <3>1. MaxBuffer \in Nat \ {0} /\ ~(Len(buffer) < MaxBuffer)
      BY <2>2, FeedAssumption
    <3>2. buffer # <<>>
      BY <3>1
    <3> QED
      BY <1>1, <1>2, <2>2, <3>2, TailFacts
  <2> QED
    BY <2>1, <2>2
<1>4. Append(b, e) \in Seq(Event)
  BY <1>3
<1> QED
  BY <1>2, <1>3, <1>4

LEMMA TakeKeeps ==
  ASSUME Inv, Take
  PROVE  Inv'
<1>. PICK e : e = Head(queue)
  OBVIOUS
<1>0. /\ UNCHANGED <<subs, client, bounds, history, got, link, requests, wire>>
      /\ queue # <<>> /\ held = None /\ queue' = Tail(queue)
      /\ held' = IF e.kind = "added" THEN None ELSE e
      /\ buffer' \in {<<>>, buffer, Keep(e)}
  BY DEF Take
<1>1. /\ e \in Event /\ e = queue[1] /\ 1 \in DOMAIN queue
      /\ queue' \in Seq(Event)
      /\ \A i \in DOMAIN queue' : i + 1 \in DOMAIN queue /\ queue'[i] = queue[i + 1]
      /\ Ids(queue) = {e.id} \cup Ids(queue')
      /\ Ordered(queue') /\ \A x \in Ids(queue') : e.id < x
  BY <1>0, Typed, TailFacts DEF Inv, Stream
<1>2. Ids(queue)' = Ids(queue') /\ e.id \in Nat /\ e # None /\ e.id \in Ids(queue)
  BY <1>1, EventType, NoneIsNone DEF Ids
<1>3. ASSUME NEW x \in Nat, Passed(x) PROVE Passed(x)' /\ x < e.id
  <2>1. x <= published /\ \A y \in Ids(queue) : x < y
    BY <1>3 DEF Passed
  <2>2. x < e.id /\ \A y \in Ids(queue)' : x < y
    BY <1>1, <1>2, <2>1
  <2>3. published' = published /\ (held' # None => held' = e)
    BY <1>0 DEF bounds
  <2> QED
    BY <1>2, <1>3, <2>1, <2>2, <2>3 DEF Passed
<1>4. Passed(e.id)'
  <2>1. e.id <= published
    BY <1>2 DEF Inv, Stream
  <2> QED
    <3>1. published' = published /\ (held' # None => held' = e)
      BY <1>0 DEF bounds
    <3> QED
      BY <1>1, <1>2, <2>1, <3>1 DEF Passed
<1>5. Stream'
  <2>0. Stream
    BY DEF Inv
  <2>1. Ordered(queue)' /\ \A x \in Ids(queue)' : x <= published'
    BY <1>0, <1>1, <1>2, <2>0 DEF Stream, Ordered, bounds
  <2>2. held' # None => Passed(held.id)'
    <3>1. held' # None => held' = e
      BY <1>0
    <3> QED
      BY <1>4, <3>1 DEF Passed
  <2>3. \A x \in Ids(buffer) : Passed(x)' /\ x < e.id
    BY <1>3, <2>0, Typed DEF Stream
  <2>4. CASE buffer' = <<>>
    <3>1. Ordered(buffer)' /\ Ids(buffer)' = {}
      BY <2>4 DEF Ordered, Ids
    <3> QED
      BY <2>1, <2>2, <3>1 DEF Stream
  <2>5. CASE buffer' = buffer
    <3>1. Ordered(buffer)' /\ Ids(buffer)' = Ids(buffer)
      BY <2>0, <2>5 DEF Ordered, Ids, Stream
    <3> QED
      BY <2>1, <2>2, <2>3, <3>1 DEF Stream
  <2>6. CASE buffer' = Keep(e)
    <3>0. PICK b \in Seq(Event) : buffer' = Append(b, e) /\ Ordered(b) /\ Ids(b) \subseteq Ids(buffer)
      BY <1>1, <2>0, <2>6, KeptInBuffer DEF Stream
    <3>1. Ordered(buffer') /\ Ids(buffer') \subseteq Ids(buffer) \cup {e.id}
      BY <1>1, <2>3, <3>0, AppendFacts
    <3>2. Ordered(buffer)' /\ Ids(buffer)' = Ids(buffer')
      BY <3>1 DEF Ordered, Ids
    <3>3. \A x \in Ids(buffer)' : Passed(x)'
      <4>1. \A x \in Ids(buffer)' : x \in Ids(buffer) \/ x = e.id
        BY <3>1, <3>2
      <4>2. ASSUME NEW x \in Ids(buffer)', x = e.id PROVE Passed(x)'
        BY <1>4, <4>2 DEF Passed
      <4> QED
        BY <2>3, <4>1, <4>2
    <3> QED
      BY <2>1, <2>2, <3>2, <3>3 DEF Stream
  <2> QED
    BY <1>0, <2>4, <2>5, <2>6
<1>6. ASSUME NEW k \in Keys PROVE Kept(k)'
  <2>0. Kept(k)
    BY DEF Inv
  <2>01. subs' = subs /\ sent' = sent /\ due' = due /\ late' = late /\ excused' = excused
         /\ brought' = brought /\ published' = published /\ wire' = wire
    BY <1>0 DEF history, bounds
  <2>1. Received(k)'
    <3>1. \A x \in Ids(subs[k].rt) : Passed(x)' /\ x # e.id
      <4>1. \A x \in Ids(subs[k].rt) : x \in Nat /\ Passed(x)
        BY <2>0, Typed DEF Kept, Received
      <4> QED
        BY <1>2, <1>3, <4>1
    <3>2. \A x \in ToSet(sent[k]) : Passed(x)'
      BY <1>3, <2>0, Typed DEF Kept, Received
    <3>3. Ids(subs[k].rt)' = Ids(subs[k].rt) /\ ToSet(sent[k])' = ToSet(sent[k])
      BY <2>01 DEF Ids, ToSet
    <3>4. Ordered(subs[k].rt)'
      BY <2>0, <2>01 DEF Kept, Received, Ordered
    <3>5. held' # None => held'.id = e.id
      BY <1>0
    <3> QED
      BY <3>1, <3>2, <3>3, <3>4, <3>5 DEF Received
  <2>2. Following(k)' /\ InOrder(k)' /\ Drained(k)'
    BY <2>01, <2>0 DEF Kept, Following, MayFollow, InOrder, Drained, Ids, ToSet
  <2>3. Owed(k)'
    BY <1>1, <2>01, <2>0 DEF Kept, Owed
  <2>4. Queued(k)'
    <3>1. due[k] \cap Underway \subseteq Underway'
      <4>1. Underway = {e.id} \cup Ids(queue')
        BY <1>0, <1>1 DEF Underway
      <4>2. CASE e.kind = "added"
        <5>1. e.id \notin due[k]
          BY <1>1, <2>0, <4>2 DEF Kept, Owed
        <5> QED
          BY <1>2, <4>1, <5>1 DEF Underway
      <4>3. CASE e.kind # "added"
        BY <1>0, <1>2, <4>1, <4>3 DEF Underway
      <4> QED
        BY <4>2, <4>3
    <3>2. ToSet(sent[k])' = ToSet(sent[k]) /\ Ids(subs[k].rt)' = Ids(subs[k].rt)
          /\ Registered(k)' = Registered(k)
      BY <2>01 DEF ToSet, Ids, Registered
    <3> QED
      BY <2>0, <2>01, <3>1, <3>2 DEF Kept, Queued
  <2>5. Delivered(k)'
    <3>1. OnWire(k)' = OnWire(k)
      BY <2>01, WireSame
    <3> QED
      BY <2>01, <2>0, <3>1 DEF Kept, Delivered, Registered, ToSet
  <2> QED
    BY <2>1, <2>2, <2>3, <2>4, <2>5 DEF Kept
<1>7. TypeOK'
  <2>1. ServerOK'
    <3>1. Keep(e) \in Seq(Event) /\ <<>> \in Seq(Event)
      <4>1. Ordered(buffer)
        BY DEF Inv, Stream
      <4> QED
        BY <1>1, <4>1, KeptInBuffer
    <3> QED
      BY <1>0, <1>1, <3>1, Typed DEF ServerOK, bounds
  <2>2. HistoryOK'
    BY <1>0 DEF Inv, TypeOK, HistoryOK, history
  <2>3. ClientOK' /\ LinkOK'
    BY <1>0 DEF Inv, TypeOK, ClientOK, LinkOK, client, bounds
  <2> QED
    BY <2>1, <2>2, <2>3 DEF TypeOK
<1>8. Connected' /\ Resumed'
  BY <1>0 DEF Inv, Connected, Resumed, client, history
<1> QED
  BY <1>5, <1>6, <1>7, <1>8 DEF Inv

LEMMA PublishKeeps ==
  ASSUME Inv, Publish
  PROVE  Inv'
<1>e. PICK e : e = held
  OBVIOUS
<1>0. /\ UNCHANGED <<queue, buffer, client, bounds, due, sent, brought, got, late, strayed, link, requests, wire>>
      /\ held # None /\ held' = None /\ e \in Event /\ e.id \in Nat
  BY <1>e, Typed, EventType DEF Publish
<1>1. published' = published /\ queue' = queue /\ buffer' = buffer
  BY <1>0 DEF bounds
<1> DEFINE over(k) == Registered(k) /\ Len(subs[k].rt) = MaxQueue
           q(k) == IF over(k) THEN Append(Tail(subs[k].rt), e) ELSE Append(subs[k].rt, e)
           lag(k) == subs[k].lagged \/ (over(k) /\ subs[k].at # "live")
<1>2. /\ subs' = [k \in Keys |-> IF Registered(k) THEN [subs[k] EXCEPT !.rt = q(k), !.lagged = lag(k)]
                                                  ELSE subs[k]]
      /\ excused' = [k \in Keys |-> IF over(k) THEN excused[k] \cup {Head(subs[k].rt).id}
                                               ELSE excused[k]]
  BY <1>e DEF Publish
<1>3. ASSUME NEW k \in Keys, over(k)
      PROVE  subs[k].rt # <<>>
  <2>1. Len(subs[k].rt) = MaxQueue /\ MaxQueue # 0
    BY <1>3, FeedAssumption
  <2> QED
    BY <2>1
<1>4. ASSUME NEW k \in Keys, NEW x \in Ids(subs[k].rt) PROVE x < e.id
  <2>1. x \in Nat /\ Passed(x) /\ x # held.id
    BY <1>0, Typed DEF Inv, Kept, Received
  <2> QED
    BY <1>e, <1>0, <2>1 DEF Passed
<1>5. ASSUME NEW k \in Keys
      PROVE  /\ q(k) \in Seq(Event) /\ Ordered(q(k))
             /\ Ids(q(k)) \subseteq Ids(subs[k].rt) \cup {e.id}
             /\ Ids(subs[k].rt) \cup {e.id} \subseteq Ids(q(k)) \cup excused'[k]
             /\ excused[k] \subseteq excused'[k] /\ excused'[k] \subseteq Nat
  <2> DEFINE rt == subs[k].rt
  <2>1. rt \in Seq(Event) /\ Ordered(rt) /\ \A x \in Ids(rt) : x < e.id
    BY <1>4, Typed DEF Inv, Kept, Received
  <2>2. CASE over(k)
    <3>1. rt # <<>> /\ q(k) = Append(Tail(rt), e)
      BY <1>3, <2>2
    <3>2. excused'[k] = excused[k] \cup {Head(rt).id}
      BY <1>2, <2>2
    <3> HIDE DEF q, rt
    <3>3. /\ Tail(rt) \in Seq(Event) /\ Ids(rt) = {Head(rt).id} \cup Ids(Tail(rt))
          /\ Ordered(Tail(rt)) /\ Head(rt) \in Event
      BY <2>1, <3>1, TailFacts
    <3>4. /\ q(k) \in Seq(Event) /\ Ordered(q(k)) /\ Ids(q(k)) = Ids(Tail(rt)) \cup {e.id}
      BY <1>0, <2>1, <3>1, <3>3, AppendFacts
    <3>5. Head(rt).id \in Nat /\ excused[k] \subseteq Nat
      BY <3>3, EventType, Typed
    <3> QED
      BY <3>2, <3>3, <3>4, <3>5 DEF rt
  <2>3. CASE ~over(k)
    <3>1. q(k) = Append(rt, e)
      BY <2>3
    <3>2. excused'[k] = excused[k]
      BY <1>2, <2>3
    <3> HIDE DEF q, rt
    <3>4. /\ q(k) \in Seq(Event) /\ Ordered(q(k)) /\ Ids(q(k)) = Ids(rt) \cup {e.id}
      BY <1>0, <2>1, <3>1, AppendFacts
    <3> QED
      BY <3>2, <3>4, Typed DEF rt
  <2> QED
    BY <2>2, <2>3
<1>6. ASSUME NEW k \in Keys
      PROVE  /\ subs'[k] \in Subscription
             /\ subs'[k].at = subs[k].at /\ subs'[k].n = subs[k].n /\ subs'[k].seen = subs[k].seen
             /\ Registered(k) => subs'[k].rt = q(k)
             /\ ~Registered(k) => subs'[k].rt = subs[k].rt
  <2>1. lag(k) \in BOOLEAN /\ q(k) \in Seq(Event) /\ subs[k] \in Subscription
    BY <1>5, Typed, SubscriptionType
  <2>2. subs'[k] = IF Registered(k) THEN [subs[k] EXCEPT !.rt = q(k), !.lagged = lag(k)] ELSE subs[k]
    BY <1>2
  <2> HIDE DEF q, lag
  <2>3. CASE Registered(k)
    <3>1. subs'[k] = [subs[k] EXCEPT !.rt = q(k), !.lagged = lag(k)]
      BY <2>2, <2>3
    <3>2. PICK s, r, l, t : s = subs[k] /\ r = q(k) /\ l = lag(k) /\ t = subs'[k]
      OBVIOUS
    <3>3. t = [s EXCEPT !.rt = r, !.lagged = l] /\ s \in Subscription /\ r \in Seq(Event) /\ l \in BOOLEAN
      BY <2>1, <3>1, <3>2
    <3>4. t \in Subscription /\ t.at = s.at /\ t.n = s.n /\ t.seen = s.seen /\ t.rt = r
      BY <3>3 DEF Subscription
    <3> QED
      BY <2>3, <3>2, <3>4
  <2>4. CASE ~Registered(k)
    BY <2>1, <2>2, <2>4
  <2> QED
    BY <2>3, <2>4
<1> HIDE DEF q, over, lag
<1>7. ASSUME NEW x, Passed(x) PROVE Passed(x)'
  BY <1>0, <1>1, <1>7 DEF Passed, Ids
<1>8. Passed(e.id)
  BY <1>e, <1>0 DEF Inv, Stream
<1>9. Stream'
  BY <1>0, <1>1, <1>7 DEF Inv, Stream, Ordered, Ids
<1>10. ASSUME NEW k \in Keys PROVE Kept(k)'
  <2>0. Kept(k) /\ sent' = sent /\ due' = due /\ late' = late /\ brought' = brought /\ wire' = wire
    BY <1>0 DEF Inv
  <2>1. /\ Ids(subs[k].rt)' = Ids(subs'[k].rt)
        /\ Ids(subs'[k].rt) \subseteq Ids(subs[k].rt) \cup {e.id}
        /\ ToSet(sent[k])' = ToSet(sent[k])
        /\ Registered(k)' = Registered(k)
    <3>1. Ids(subs[k].rt)' = Ids(subs'[k].rt) /\ ToSet(sent[k])' = ToSet(sent[k])
      BY <2>0 DEF Ids, ToSet
    <3>2. Registered(k)' = Registered(k)
      BY <1>6 DEF Registered
    <3>3. Ids(subs'[k].rt) \subseteq Ids(subs[k].rt) \cup {e.id}
      BY <1>5, <1>6
    <3> QED
      BY <3>1, <3>2, <3>3
  <2>2. Received(k)'
    <3>1. Received(k)
      BY <2>0 DEF Kept
    <3>2. Ordered(subs'[k].rt)
      BY <1>5, <1>6, <3>1 DEF Received
    <3>3. Ordered(subs[k].rt)'
      BY <3>2 DEF Ordered
    <3>4. \A x \in Ids(subs[k].rt) \cup {e.id} : Passed(x)'
      BY <1>7, <1>8, <3>1 DEF Received
    <3>5. \A x \in ToSet(sent[k]) : Passed(x)'
      BY <1>7, <3>1 DEF Received
    <3> QED
      BY <1>0, <2>1, <3>3, <3>4, <3>5 DEF Received
  <2>3. Following(k)'
    <3>1. \A x \in Ids(subs[k].rt) : MayFollow(k, x)
      BY <2>0 DEF Kept, Following
    <3>2. MayFollow(k, e.id)
      <4>1. \A i \in DOMAIN sent[k] : sent[k][i] \in Nat /\ sent[k][i] \in ToSet(sent[k])
        BY Typed DEF ToSet
      <4>2. \A i \in DOMAIN sent[k] : sent[k][i] \in Nat /\ sent[k][i] <= e.id
        BY <1>e, <1>0, <2>0, <4>1 DEF Kept, Received, Passed
      <4> QED
        BY <1>0, <4>2 DEF MayFollow
    <3>3. \A x : MayFollow(k, x)' <=> MayFollow(k, x)
      BY <2>0 DEF MayFollow
    <3>4. subs'[k].at = "replaying" => sent'[k] = <<>>
      BY <1>6, <2>0 DEF Kept, Following
    <3> QED
      BY <2>1, <3>1, <3>2, <3>3, <3>4 DEF Following
  <2>4. InOrder(k)' /\ Owed(k)'
    BY <1>1, <2>0 DEF Kept, InOrder, Owed
  <2>5. Drained(k)'
    BY <1>5, <1>6, <2>0, <2>1 DEF Kept, Drained
  <2>6. Queued(k)'
    <3>1. Underway' = Ids(queue) /\ Underway = Ids(queue) \cup {e.id}
      BY <1>e, <1>0, <1>1 DEF Underway, Ids
    <3> QED
      BY <1>5, <1>6, <2>0, <2>1, <3>1 DEF Kept, Queued
  <2>7. Delivered(k)'
    <3>1. OnWire(k)' = OnWire(k)
      BY <1>6, <2>0, WireSame
    <3> QED
      BY <1>5, <2>0, <2>1, <3>1 DEF Kept, Delivered, ToSet
  <2> QED
    BY <2>2, <2>3, <2>4, <2>5, <2>6, <2>7 DEF Kept
<1>11. TypeOK'
  <2>1. ServerOK'
    <3>1. subs' \in [Keys -> Subscription]
      BY <1>2, <1>6
    <3> QED
      BY <1>0, <1>1, <3>1, Typed DEF ServerOK, bounds
  <2>2. HistoryOK'
    <3>1. excused' \in [Keys -> SUBSET Nat]
      BY <1>2, <1>5
    <3> QED
      BY <1>0, <3>1 DEF Inv, TypeOK, HistoryOK
  <2>3. ClientOK' /\ LinkOK'
    BY <1>0 DEF Inv, TypeOK, ClientOK, LinkOK, client, bounds
  <2> QED
    BY <2>1, <2>2, <2>3 DEF TypeOK
<1>12. Connected'
  BY <1>0, <1>6 DEF Inv, Connected
<1>13. Resumed'
  <2>1. wire \in Seq(Message) /\ wire' = wire
    BY <1>0 DEF Inv, TypeOK, LinkOK
  <2>2. \A i \in DOMAIN wire : wire[i].of \in Keys
    <3>1. \A i \in DOMAIN wire : wire[i] \in Message
      BY <2>1
    <3> QED
      BY <3>1 DEF Message
  <2> QED
    BY <1>0, <1>6, <2>1, <2>2 DEF Inv, Resumed, client
<1> QED
  BY <1>9, <1>10, <1>11, <1>12, <1>13 DEF Inv

-----------------------------------------------------------------------------
(***************************************************************************)
(* The steps of a subscription.                                            *)
(***************************************************************************)
LEMMA WireTo ==
  ASSUME Inv
  PROVE  \A i \in DOMAIN wire : wire[i].of \in Keys
<1>1. wire \in Seq(Message)
  BY DEF Inv, TypeOK, LinkOK
<1>2. \A i \in DOMAIN wire : wire[i] \in Message
  BY <1>1
<1> QED
  BY <1>2 DEF Message

LEMMA FollowKeeps ==
  ASSUME Inv, NEW k \in Keys, Follow(k)
  PROVE  Inv'
<1>0. /\ UNCHANGED <<queue, held, buffer, client, bounds, history, got, link, requests, wire>>
      /\ subs[k].at = "draining"
  BY DEF Follow
<1>1. subs' = [subs EXCEPT ![k] = [subs[k] EXCEPT !.at = "live", !.seen = {}, !.lagged = FALSE]]
  BY Typed DEF Follow
<1>2. /\ \A l \in Keys : /\ subs'[l] \in Subscription /\ subs'[l].rt = subs[l].rt
                         /\ subs'[l].n = subs[l].n
                         /\ l # k => subs'[l] = subs[l]
      /\ subs'[k].at = "live"
      /\ subs' \in [Keys -> Subscription]
  <2>1. \A s \in Subscription :
          LET t == [s EXCEPT !.at = "live", !.seen = {}, !.lagged = FALSE]
          IN t \in Subscription /\ t.rt = s.rt /\ t.n = s.n /\ t.at = "live"
    BY DEF Subscription
  <2> QED
    BY <1>1, <2>1, Typed
<1>3. Stream'
  BY <1>0, StreamSame DEF Inv, ForwarderIdle, bounds
<1>4. ASSUME NEW l \in Keys PROVE Kept(l)'
  <2>0. Kept(l) /\ OnWire(l)' = OnWire(l)
    BY <1>0, <1>2, WireSame DEF Inv
  <2>1. CASE l # k
    <3>1. Undisturbed(l) /\ ForwarderIdle
      BY <1>0, <1>2, <2>0, <2>1 DEF Undisturbed, ForwarderIdle, history, bounds
    <3> QED
      BY <2>0, <3>1, LeftAlone
  <2>2. CASE l = k
    <3>0. /\ queue' = queue /\ held' = held /\ published' = published /\ sent' = sent
          /\ due' = due /\ late' = late /\ excused' = excused /\ brought' = brought
      BY <1>0 DEF history, bounds
    <3>1. Received(k)'
      <4>1. subs'[k].rt = subs[k].rt
        BY <1>2
      <4>2. \A x : Passed(x)' <=> Passed(x)
        BY <3>0 DEF Passed, Ids
      <4>3. Received(k)
        BY <2>0, <2>2 DEF Kept
      <4> QED
        BY <3>0, <4>1, <4>2, <4>3 DEF Received, Ids, Ordered, ToSet
    <3>2. Following(k)' /\ InOrder(k)' /\ Drained(k)' /\ Owed(k)'
      BY <1>2, <2>0, <2>2, <3>0 DEF Kept, Following, MayFollow, InOrder, Drained, Owed, Ids
    <3>3. Queued(k)' /\ Delivered(k)'
      <4>1. Registered(k) /\ Underway' = Underway
        BY <1>0, <3>0 DEF Registered, Underway, Ids
      <4> QED
        BY <1>2, <2>0, <2>2, <3>0, <4>1 DEF Kept, Queued, Delivered, Ids, ToSet
    <3> QED
      BY <2>2, <3>1, <3>2, <3>3 DEF Kept
  <2> QED
    BY <2>1, <2>2
<1>5. TypeOK'
  <2>1. ServerOK'
    BY <1>0, <1>2, Typed DEF ServerOK, bounds
  <2>2. HistoryOK'
    BY <1>0 DEF Inv, TypeOK, HistoryOK, history
  <2>3. ClientOK' /\ LinkOK'
    BY <1>0 DEF Inv, TypeOK, ClientOK, LinkOK, client, bounds
  <2> QED
    BY <2>1, <2>2, <2>3 DEF TypeOK
<1>6. Connected'
  BY <1>0, <1>2 DEF Inv, Connected
<1>7. Resumed'
  <2>1. \A l \in Keys : subs[l].at # "none" => subs'[l].at # "none"
    BY <1>2
  <2> QED
    BY <1>0, <2>1, WireTo DEF Inv, Resumed, client, history
<1> QED
  BY <1>3, <1>4, <1>5, <1>6, <1>7 DEF Inv

\* What a subscription sends disturbs no other.
LEMMA SendsOnly ==
  ASSUME Inv, NEW k \in Keys, NEW fit \in Seq(Envelope), NEW drop \in SUBSET Nat,
         wire' = wire \o Messages(k, subs[k].n, fit), wire' \in Seq(Message), Len(wire') <= MaxQueue,
         sent' = [sent EXCEPT ![k] = @ \o Contents(fit)],
         excused' = [excused EXCEPT ![k] = @ \cup drop],
         subs' \in [Keys -> Subscription], subs'[k].n = subs[k].n,
         subs[k].at \notin {"none", "deaf"}, subs'[k].at \notin {"none", "deaf"},
         \A l \in Keys \ {k} : subs'[l] = subs[l] /\ due'[l] = due[l] /\ late'[l] = late[l],
         due' \in [Keys -> SUBSET Nat], late' \in [Keys -> SUBSET Nat],
         UNCHANGED <<queue, held, buffer, client, bounds, brought, got, strayed, link, requests>>
  PROVE  /\ TypeOK' /\ Stream' /\ Connected' /\ Resumed'
         /\ \A l \in Keys \ {k} : Kept(l)'
         /\ sent'[k] = sent[k] \o Contents(fit) /\ sent'[k] \in Seq(Nat)
         /\ Contents(fit) \in Seq(Nat)
         /\ ToSet(sent[k])' = ToSet(sent[k]) \cup ToSet(Contents(fit))
         /\ excused'[k] = excused[k] \cup drop
         /\ Delivered(k)'
<1>1. ForwarderIdle
  BY DEF ForwarderIdle, bounds
<1>2. Stream'
  BY <1>1, StreamSame DEF Inv
<1>3. /\ Contents(fit) \in Seq(Nat) /\ sent[k] \in Seq(Nat)
      /\ sent[k] \o Contents(fit) \in Seq(Nat)
  <2>1. Contents(fit) \in Seq(Nat) /\ sent[k] \in Seq(Nat)
    BY ContentsType, Typed
  <2> QED
    BY <2>1
<1>4. /\ sent'[k] = sent[k] \o Contents(fit) /\ excused'[k] = excused[k] \cup drop
      /\ sent' \in [Keys -> Seq(Nat)] /\ excused' \in [Keys -> SUBSET Nat]
      /\ \A l \in Keys \ {k} : sent'[l] = sent[l] /\ excused'[l] = excused[l]
  BY <1>3, Typed
<1>5. ToSet(sent[k])' = ToSet(sent[k]) \cup ToSet(Contents(fit))
  <2>1. ToSet(sent'[k]) = ToSet(sent[k]) \cup ToSet(Contents(fit))
    BY <1>3, <1>4, MembersOfBoth
  <2> QED
    BY <2>1 DEF ToSet
<1>6. TypeOK'
  <2>1. ServerOK'
    BY Typed DEF ServerOK, bounds
  <2>2. HistoryOK'
    BY <1>4 DEF Inv, TypeOK, HistoryOK
  <2>3. ClientOK' /\ LinkOK'
    BY DEF Inv, TypeOK, ClientOK, LinkOK, client, bounds
  <2> QED
    BY <2>1, <2>2, <2>3 DEF TypeOK
<1>7. /\ \A l, n, x : Carries(wire, l, n, x) => Carries(wire', l, n, x)
      /\ \A x \in ToSet(Contents(fit)) : Carries(wire', k, subs[k].n, x)
  <2>1. wire \in Seq(Message) /\ subs[k].n \in Nat
    BY Typed DEF Inv, TypeOK, LinkOK
  <2>2. PICK w, n, v : w = wire /\ n = subs[k].n /\ v = wire'
    OBVIOUS
  <2>3. w \in Seq(Message) /\ n \in Nat /\ v = w \o Messages(k, n, fit)
    BY <2>1, <2>2
  <2>4. CarriesAll(v, w) /\ \A x \in ToSet(Contents(fit)) : Carries(v, k, n, x)
    BY <2>3, CarriesMore
  <2> QED
    BY <2>2, <2>4 DEF CarriesAll
<1>8. ASSUME NEW l \in Keys \ {k} PROVE Kept(l)'
  <2>1. \A x \in OnWire(l) : x \in OnWire(l)'
    BY <1>7, WireCarries
  <2>2. Undisturbed(l)
    BY <1>4, <2>1 DEF Undisturbed
  <2> QED
    BY <1>1, <2>2, LeftAlone DEF Inv
<1>9. Delivered(k)'
  <2>1. \A x \in OnWire(k) : x \in OnWire(k)'
    BY <1>7, WireCarries
  <2>2. \A x \in ToSet(Contents(fit)) : x \in OnWire(k)'
    BY <1>7, WireCarries
  <2>3. Registered(k) /\ Delivered(k) /\ brought' = brought
    BY Typed, SubscriptionType DEF Registered, Inv, Kept
  <2>4. brought[k]' = brought[k]
    BY <2>3 DEF ToSet
  <2> QED
    BY <1>4, <1>5, <2>1, <2>2, <2>3, <2>4 DEF Delivered
<1>10. Connected'
  BY DEF Inv, Connected
<1>11. Resumed'
  <2>1. \A i \in DOMAIN wire' : wire'[i].type = "reply" => i \in DOMAIN wire /\ wire'[i] = wire[i]
    <3> DEFINE u == Messages(k, subs[k].n, fit)
    <3>1. u \in Seq(Message) /\ wire \in Seq(Message) /\ \A i \in DOMAIN u : u[i].type = "event"
      BY MessagesType, Typed DEF Inv, TypeOK, LinkOK
    <3>2. wire' = wire \o u
      OBVIOUS
    <3> HIDE DEF u
    <3> QED
      BY <3>1, <3>2, BothParts
  <2>2. \A l \in Keys : subs[l].at # "none" => subs'[l].at # "none"
    OBVIOUS
  <2> QED
    BY <2>1, <2>2, WireTo DEF Inv, Resumed, client
<1> QED
  BY <1>2, <1>3, <1>4, <1>5, <1>6, <1>8, <1>9, <1>10, <1>11

\* One after the other, in the order of ids.
LEMMA OneOrNothing ==
  ASSUME NEW a \in Seq(Nat), NEW b \in Seq(Nat), NEW x \in Nat, <<x>> = a \o b
  PROVE  \/ a = <<x>> /\ b = <<>>
         \/ a = <<>> /\ b = <<x>>
<1>1. Len(a) + Len(b) = 1 /\ Len(a) \in Nat /\ Len(b) \in Nat
  <2>1. Len(<<x>>) = 1 /\ Len(a \o b) = Len(a) + Len(b)
    OBVIOUS
  <2> QED
    BY <2>1
<1>2. CASE Len(a) = 0
  <2>0. a = <<>>
    BY <1>2
  <2>1. a = <<>> /\ a \o b = b
    BY <2>0, AddNothing
  <2> QED
    BY <2>1
<1>3. CASE Len(b) = 0
  <2>0. b = <<>>
    BY <1>3
  <2>1. b = <<>> /\ a \o b = a
    BY <2>0, AddNothing
  <2> QED
    BY <2>1
<1> QED
  BY <1>1, <1>2, <1>3

\* What a receiver's oldest event does to the order of what was sent.
LEMMA OrderAppend ==
  ASSUME NEW k \in Keys, NEW x \in Nat, sent[k] \in Seq(Nat), InOrder(k), MayFollow(k, x),
         late'[k] = late[k], sent'[k] = Append(sent[k], x)
  PROVE  /\ InOrder(k)'
         /\ \A y \in Nat : x < y /\ MayFollow(k, y) => MayFollow(k, y)'
<1> DEFINE s == sent[k]
           t == sent'[k]
           n == Len(s) + 1
<1>1. /\ n \in Nat /\ DOMAIN s = 1..(n - 1) /\ DOMAIN t = 1..n /\ t[n] = x
      /\ \A i \in DOMAIN s : t[i] = s[i]
  OBVIOUS
<1>2. ASSUME NEW j \in DOMAIN t, NEW i \in 1..(j - 1), t[j] < t[i]
      PROVE  t[j] \in late[k] \/ \E h \in 1..(i - 1) : t[h] = t[j]
  <2>1. i \in DOMAIN s /\ t[i] = s[i] /\ \A h \in 1..(i - 1) : h \in DOMAIN s /\ t[h] = s[h]
    BY <1>1
  <2>2. CASE j \in DOMAIN s
    BY <1>1, <1>2, <2>1, <2>2 DEF InOrder
  <2>3. CASE j = n
    BY <1>1, <1>2, <2>1, <2>3 DEF MayFollow
  <2> QED
    BY <1>1, <2>2, <2>3
<1>3. ASSUME NEW y \in Nat, x < y, MayFollow(k, y), NEW i \in DOMAIN t, y < t[i]
      PROVE  y \in late[k] \/ \E h \in 1..(i - 1) : t[h] = y
  <2>1. i \in DOMAIN s /\ t[i] = s[i]
    BY <1>1, <1>3
  <2>2. \A h \in 1..(i - 1) : h \in DOMAIN s /\ t[h] = s[h]
    BY <1>1, <2>1
  <2> QED
    BY <1>3, <2>1, <2>2 DEF MayFollow
<1>4. InOrder(k)'
  BY <1>2 DEF InOrder
<1> QED
  BY <1>3, <1>4 DEF MayFollow

\* The oldest event leaves the receiver and is sent, or dropped.
LEMMA SendHead ==
  ASSUME Inv, NEW k \in Keys, subs[k].rt # <<>>, subs[k].at \in {"draining", "live"},
         Send(k, Merge(<<>>, Head(subs[k].rt))),
         subs' \in [Keys -> Subscription],
         subs'[k].rt = Tail(subs[k].rt), subs'[k].at = subs[k].at, subs'[k].n = subs[k].n,
         subs'[k].seen \subseteq subs[k].seen \cup {Head(subs[k].rt).id},
         \A l \in Keys \ {k} : subs'[l] = subs[l],
         UNCHANGED <<queue, held, buffer, client, bounds, due, brought, got, late, strayed, link, requests>>
  PROVE  Inv'
<1>e. PICK e, rt : e = Head(rt) /\ rt = subs[k].rt
  OBVIOUS
<1>1. /\ rt \in Seq(Event) /\ Ordered(rt) /\ Received(k) /\ Kept(k)
  BY <1>e, Typed DEF Inv, Kept, Received
<1>2. /\ e \in Event /\ e.id \in Nat /\ Tail(rt) \in Seq(Event) /\ Ids(rt) = {e.id} \cup Ids(Tail(rt))
      /\ Ordered(Tail(rt)) /\ \A x \in Ids(Tail(rt)) : e.id < x
  BY <1>e, <1>1, TailFacts, EventType
<1>3. Merge(<<>>, e) \in Seq(Envelope) /\ Contents(Merge(<<>>, e)) = <<e.id>>
  BY <1>2, MergeOne
<1>4. PICK fit, rest \in Seq(Envelope) :
        /\ Contents(Merge(<<>>, e)) = Contents(fit) \o Contents(rest)
        /\ wire' = wire \o Messages(k, subs[k].n, fit)
        /\ wire' \in Seq(Message) /\ Len(wire') <= MaxQueue
        /\ sent' = [sent EXCEPT ![k] = @ \o Contents(fit)]
        /\ excused' = [excused EXCEPT ![k] = @ \cup ToSet(Contents(rest))]
  <2>1. wire \in Seq(Message) /\ Len(wire) <= MaxQueue /\ subs[k].n \in Nat
    BY Typed DEF Inv, TypeOK, LinkOK
  <2>2. Send(k, Merge(<<>>, e))
    BY <1>e
  <2> QED
    BY <1>3, <2>1, <2>2, SendSplits
<1>5. \/ Contents(fit) = <<e.id>> /\ Contents(rest) = <<>>
      \/ Contents(fit) = <<>> /\ Contents(rest) = <<e.id>>
  <2>1. Contents(fit) \in Seq(Nat) /\ Contents(rest) \in Seq(Nat)
    BY ContentsType
  <2> QED
    <3>1. PICK a, b, x : a = Contents(fit) /\ b = Contents(rest) /\ x = e.id
      OBVIOUS
    <3>2. a \in Seq(Nat) /\ b \in Seq(Nat) /\ x \in Nat /\ <<x>> = a \o b
      BY <1>2, <1>3, <1>4, <2>1, <3>1
    <3>3. \/ a = <<x>> /\ b = <<>>
          \/ a = <<>> /\ b = <<x>>
      BY <3>2, OneOrNothing
    <3> QED
      BY <3>1, <3>3
<1>6. ToSet(<<e.id>>) = {e.id} /\ ToSet(<<>>) = {}
  BY DEF ToSet
<1>7. /\ TypeOK' /\ Stream' /\ Connected' /\ Resumed'
      /\ \A l \in Keys \ {k} : Kept(l)'
      /\ sent'[k] = sent[k] \o Contents(fit)
      /\ ToSet(sent[k])' = ToSet(sent[k]) \cup ToSet(Contents(fit))
      /\ excused'[k] = excused[k] \cup ToSet(Contents(rest))
      /\ Delivered(k)'
  <2>1. ToSet(Contents(rest)) \in SUBSET Nat
    BY <1>2, <1>5, <1>6
  <2>2. due' \in [Keys -> SUBSET Nat] /\ late' \in [Keys -> SUBSET Nat]
    BY Typed
  <2>3. subs[k].at \notin {"none", "deaf"} /\ subs'[k].at \notin {"none", "deaf"}
    OBVIOUS
  <2>4. \A l \in Keys \ {k} : subs'[l] = subs[l] /\ due'[l] = due[l] /\ late'[l] = late[l]
    OBVIOUS
  <2> QED
    BY <1>4, <2>1, <2>2, <2>3, <2>4, SendsOnly
<1>8. /\ sent'[k] = sent[k] \/ sent'[k] = Append(sent[k], e.id)
      /\ ToSet(sent[k])' \subseteq ToSet(sent[k]) \cup {e.id}
      /\ ToSet(sent[k]) \cup excused[k] \cup {e.id} \subseteq ToSet(sent[k])' \cup excused'[k]
  <2>1. sent[k] \in Seq(Nat)
    BY Typed
  <2>2. sent[k] \o <<>> = sent[k] /\ sent[k] \o <<e.id>> = Append(sent[k], e.id)
    BY <1>2, <2>1, AddNothing, AppendJoined
  <2> QED
    BY <1>5, <1>6, <1>7, <2>2
<1>9. /\ queue' = queue /\ held' = held /\ published' = published /\ due' = due /\ late' = late
      /\ Registered(k)' /\ Ids(subs[k].rt)' = Ids(Tail(rt)) /\ Underway' = Underway
  BY <1>e DEF bounds, Registered, Ids, Underway
<1>10. Kept(k)'
  <2>1. Received(k)'
    <3>1. \A x : Passed(x) => Passed(x)'
      BY <1>9 DEF Passed, Ids
    <3>2. Ordered(subs[k].rt)'
      BY <1>e, <1>2 DEF Ordered
    <3>3. \A x \in Ids(rt) : Passed(x) /\ (held # None => x # held.id)
      BY <1>e, <1>1 DEF Received
    <3>4. \A x \in ToSet(sent[k]) : Passed(x)
      BY <1>1 DEF Received
    <3> QED
      BY <1>2, <1>8, <1>9, <3>1, <3>2, <3>3, <3>4 DEF Received
  <2>2. Following(k)' /\ InOrder(k)'
    <3>1. \A x \in Ids(rt) : x \in Nat /\ MayFollow(k, x)
      BY <1>e, <1>1, IdsType DEF Kept, Following
    <3>2. CASE sent'[k] = sent[k]
      <4>1. \A x : MayFollow(k, x)' <=> MayFollow(k, x)
        BY <1>9, <3>2 DEF MayFollow
      <4>2. InOrder(k)'
        BY <1>1, <1>9, <3>2 DEF Kept, InOrder
      <4> QED
        BY <1>2, <1>9, <3>1, <4>1, <4>2 DEF Following
    <3>3. CASE sent'[k] = Append(sent[k], e.id)
      <4>1. InOrder(k)' /\ \A y \in Nat : e.id < y /\ MayFollow(k, y) => MayFollow(k, y)'
        <5>1. sent[k] \in Seq(Nat) /\ InOrder(k) /\ MayFollow(k, e.id) /\ late'[k] = late[k]
          BY <1>1, <1>2, <1>9, <3>1, Typed DEF Kept
        <5> QED
          BY <1>2, <3>3, <5>1, OrderAppend
      <4> QED
        BY <1>2, <1>9, <3>1, <4>1 DEF Following
    <3> QED
      BY <1>8, <3>2, <3>3
  <2>3. Drained(k)'
    <3>1. subs'[k].seen \subseteq subs[k].seen \cup {e.id}
      BY <1>e
    <3> QED
      BY <1>1, <1>8, <3>1 DEF Kept, Drained
  <2>4. Owed(k)'
    BY <1>1, <1>9 DEF Kept, Owed
  <2>5. Queued(k)'
    <3>1. Registered(k) /\ Queued(k)
      BY <1>1 DEF Kept, Registered
    <3>2. due[k] \subseteq ToSet(sent[k]) \cup Ids(rt) \cup Underway \cup excused[k]
      BY <1>e, <3>1 DEF Queued
    <3> QED
      BY <1>2, <1>8, <1>9, <3>2 DEF Queued
  <2> QED
    BY <1>7, <2>1, <2>2, <2>3, <2>4, <2>5 DEF Kept
<1> QED
  BY <1>7, <1>10 DEF Inv

\* One subscription changes.
LEMMA OneSubscription ==
  ASSUME subs \in [Keys -> Subscription], NEW k \in Keys, NEW t \in Subscription,
         subs' = [subs EXCEPT ![k] = t]
  PROVE  /\ subs' \in [Keys -> Subscription] /\ subs'[k] = t
         /\ \A l \in Keys \ {k} : subs'[l] = subs[l]
OBVIOUS

LEMMA ForwardKeeps ==
  ASSUME Inv, NEW k \in Keys, Forward(k)
  PROVE  Inv'
<1>0. /\ UNCHANGED <<queue, held, buffer, client, bounds, due, brought, got, late, strayed, link, requests>>
      /\ subs[k].at = "live" /\ subs[k].rt # <<>>
      /\ Send(k, Merge(<<>>, Head(subs[k].rt)))
  BY DEF Forward
<1>1. PICK s, t : s = subs[k] /\ t = [s EXCEPT !.rt = Tail(@)]
  OBVIOUS
<1>2. subs' = [subs EXCEPT ![k] = t]
  BY <1>1, Typed DEF Forward
<1>3. s \in Subscription /\ Tail(s.rt) \in Seq(Event)
  BY <1>0, <1>1, Typed, TailFacts
<1>4. t \in Subscription /\ t.rt = Tail(s.rt) /\ t.at = s.at /\ t.n = s.n /\ t.seen = s.seen
  BY <1>1, <1>3 DEF Subscription
<1>5. /\ subs' \in [Keys -> Subscription] /\ subs'[k] = t
      /\ \A l \in Keys \ {k} : subs'[l] = subs[l]
  BY <1>2, <1>4, Typed, OneSubscription
<1> QED
  BY <1>0, <1>1, <1>4, <1>5, SendHead

LEMMA DrainKeeps ==
  ASSUME Inv, NEW k \in Keys, Drain(k)
  PROVE  Inv'
<1>e. PICK e : e = Head(subs[k].rt)
  OBVIOUS
<1>0. /\ UNCHANGED <<queue, held, buffer, client, bounds, due, brought, got, late, strayed, link, requests>>
      /\ subs[k].at = "draining" /\ subs[k].rt # <<>>
  BY DEF Drain
<1>1. /\ e \in Event /\ e.id \in Nat /\ Tail(subs[k].rt) \in Seq(Event)
      /\ Ids(subs[k].rt) = {e.id} \cup Ids(Tail(subs[k].rt)) /\ Ordered(Tail(subs[k].rt))
  BY <1>e, <1>0, Typed, TailFacts, EventType DEF Inv, Kept, Received
<1>2. CASE e.id \in subs[k].seen
  <2>0. UNCHANGED <<wire, sent, excused>>
    BY <1>e, <1>2 DEF Drain
  <2>1. PICK s, t : s = subs[k] /\ t = [s EXCEPT !.rt = Tail(@)]
    OBVIOUS
  <2>2. subs' = [subs EXCEPT ![k] = t]
    BY <1>e, <1>2, <2>1, Typed DEF Drain
  <2>3. s \in Subscription /\ Tail(s.rt) \in Seq(Event)
    BY <1>1, <2>1, Typed
  <2>4. t \in Subscription /\ t.rt = Tail(s.rt) /\ t.at = s.at /\ t.n = s.n /\ t.seen = s.seen
    BY <2>1, <2>3 DEF Subscription
  <2>5. /\ subs' \in [Keys -> Subscription] /\ subs'[k] = t
        /\ \A l \in Keys \ {k} : subs'[l] = subs[l]
    BY <2>2, <2>4, Typed, OneSubscription
  <2>6. \A l \in Keys : subs'[l].at = subs[l].at /\ subs'[l].n = subs[l].n
    BY <2>1, <2>4, <2>5
  <2>7. Stream' /\ ForwarderIdle
    BY <1>0, StreamSame DEF Inv, ForwarderIdle, bounds
  <2>8. ASSUME NEW l \in Keys PROVE Kept(l)'
    <3>0. Kept(l) /\ OnWire(l)' = OnWire(l)
      BY <2>0, <2>6, WireSame DEF Inv
    <3>1. CASE l # k
      <4>1. Undisturbed(l)
        BY <1>0, <2>0, <2>5, <3>0, <3>1 DEF Undisturbed
      <4> QED
        BY <2>7, <3>0, <4>1, LeftAlone
    <3>2. CASE l = k
      <4>0. /\ queue' = queue /\ held' = held /\ published' = published /\ sent' = sent
            /\ due' = due /\ late' = late /\ excused' = excused /\ brought' = brought
            /\ subs'[k].rt = Tail(subs[k].rt) /\ subs'[k].at = subs[k].at
            /\ subs'[k].seen = subs[k].seen
            /\ Ids(subs[k].rt)' = Ids(Tail(subs[k].rt))
        BY <1>0, <2>0, <2>1, <2>4, <2>5 DEF bounds, Ids
      <4>1. Received(k)'
        <5>1. Received(k)
          BY <3>0, <3>2 DEF Kept
        <5>2. \A x : Passed(x) => Passed(x)'
          BY <4>0 DEF Passed, Ids
        <5>3. Ordered(subs[k].rt)'
          BY <1>1, <4>0 DEF Ordered
        <5>4. ToSet(sent[k])' = ToSet(sent[k])
          BY <4>0 DEF ToSet
        <5> QED
          BY <1>1, <4>0, <5>1, <5>2, <5>3, <5>4 DEF Received
      <4>2. Following(k)'
        BY <1>0, <1>1, <3>0, <3>2, <4>0 DEF Kept, Following, MayFollow
      <4>3. InOrder(k)' /\ Drained(k)' /\ Owed(k)'
        BY <3>0, <3>2, <4>0 DEF Kept, InOrder, Drained, Owed
      <4>4. Queued(k)'
        <5>1. e.id \in ToSet(sent[k]) \cup excused[k]
          BY <1>0, <1>2, <3>0, <3>2 DEF Kept, Drained
        <5>2. Registered(k) /\ Underway' = Underway /\ ToSet(sent[k])' = ToSet(sent[k])
          BY <1>0, <4>0 DEF Registered, Underway, Ids, ToSet
        <5> QED
          BY <1>1, <3>0, <3>2, <4>0, <5>1, <5>2 DEF Kept, Queued
      <4>5. Delivered(k)'
        BY <3>0, <3>2, <4>0 DEF Kept, Delivered, Registered, ToSet
      <4> QED
        BY <3>2, <4>1, <4>2, <4>3, <4>4, <4>5 DEF Kept
    <3> QED
      BY <3>1, <3>2
  <2>9. TypeOK'
    <3>1. ServerOK'
      BY <1>0, <2>5, Typed DEF ServerOK, bounds
    <3>2. HistoryOK'
      BY <1>0, <2>0 DEF Inv, TypeOK, HistoryOK
    <3>3. ClientOK' /\ LinkOK'
      BY <1>0, <2>0 DEF Inv, TypeOK, ClientOK, LinkOK, client, bounds
    <3> QED
      BY <3>1, <3>2, <3>3 DEF TypeOK
  <2>10. Connected' /\ Resumed'
    BY <1>0, <2>0, <2>6, WireTo DEF Inv, Connected, Resumed, client
  <2> QED
    BY <2>7, <2>8, <2>9, <2>10 DEF Inv
<1>3. CASE e.id \notin subs[k].seen
  <2>0. Send(k, Merge(<<>>, Head(subs[k].rt)))
    BY <1>e, <1>3 DEF Drain
  <2>1. PICK s, t : s = subs[k] /\ t = [s EXCEPT !.rt = Tail(@), !.seen = @ \cup {e.id}]
    OBVIOUS
  <2>2. subs' = [subs EXCEPT ![k] = t]
    BY <1>e, <1>3, <2>1, Typed DEF Drain
  <2>3. s \in Subscription /\ Tail(s.rt) \in Seq(Event) /\ s.seen \cup {e.id} \in SUBSET Nat
    BY <1>1, <2>1, Typed, SubscriptionType
  <2>4. t \in Subscription /\ t.rt = Tail(s.rt) /\ t.at = s.at /\ t.n = s.n
        /\ t.seen = s.seen \cup {e.id}
    BY <2>1, <2>3 DEF Subscription
  <2>5. /\ subs' \in [Keys -> Subscription] /\ subs'[k] = t
        /\ \A l \in Keys \ {k} : subs'[l] = subs[l]
    BY <2>2, <2>4, Typed, OneSubscription
  <2> QED
    BY <1>e, <1>0, <2>0, <2>1, <2>4, <2>5, SendHead
<1> QED
  BY <1>2, <1>3

LEMMA ReplayKeeps ==
  ASSUME Inv, NEW k \in Keys, Replay(k)
  PROVE  Inv'
<1>p. PICK start \in Starts(subs[k].after) :
        LET replayed == From(start)
            buffered == {x \in Ids(buffer) \ Astray(subs[k].after) : x > subs[k].after}
        IN /\ Send(k, replayed)
           /\ subs' = [subs EXCEPT ![k].at = "draining", ![k].seen = Ids(replayed)]
           /\ due' = [due EXCEPT ![k] = @ \cup buffered \cup ToSet(Contents(replayed))]
           /\ late' = [late EXCEPT ![k] = Ids(subs[k].rt) \ ToSet(Contents(replayed))]
  BY DEF Replay
<1>q. PICK q, c : q = From(start) /\ c = Contents(q)
  OBVIOUS
<1>b. /\ buffer \in Seq(Event) /\ Ordered(buffer) /\ subs[k].after \in Nat
      /\ start \in 1..(Len(buffer) + 1)
  BY Typed, SubscriptionType, StartsIn DEF Inv, Stream
<1>s. {x \in Ids(buffer) \ Astray(subs[k].after) : x > subs[k].after} \subseteq ToSet(c)
  BY <1>b, <1>q, SearchFinds
<1>0. /\ UNCHANGED <<queue, held, buffer, client, bounds, brought, got, strayed, link, requests>>
      /\ subs[k].at = "replaying" /\ Send(k, q)
      /\ due' = [due EXCEPT ![k] = @ \cup ToSet(c)]
      /\ late' = [late EXCEPT ![k] = Ids(subs[k].rt) \ ToSet(c)]
  <2>1. PICK B : B = {x \in Ids(buffer) \ Astray(subs[k].after) : x > subs[k].after}
    OBVIOUS
  <2>2. due' = [due EXCEPT ![k] = @ \cup B \cup ToSet(c)] /\ B \subseteq ToSet(c)
    BY <1>p, <1>q, <1>s, <2>1
  <2>3. due[k] \cup B \cup ToSet(c) = due[k] \cup ToSet(c)
    BY <2>2
  <2>4. due' = [due EXCEPT ![k] = @ \cup ToSet(c)]
    BY <2>2, <2>3
  <2> QED
    BY <1>p, <1>q, <2>4 DEF Replay
<1>1. /\ q \in Seq(Envelope) /\ Named(q) /\ c \in Seq(Nat)
      /\ \A i, j \in DOMAIN c : i < j => c[i] < c[j]
      /\ ToSet(c) \subseteq Ids(buffer)
  BY <1>b, <1>q, FromContents, FromInOrder
<1>2. PICK fit, rest \in Seq(Envelope) :
        /\ c = Contents(fit) \o Contents(rest)
        /\ wire' = wire \o Messages(k, subs[k].n, fit)
        /\ wire' \in Seq(Message) /\ Len(wire') <= MaxQueue
        /\ sent' = [sent EXCEPT ![k] = @ \o Contents(fit)]
        /\ excused' = [excused EXCEPT ![k] = @ \cup ToSet(Contents(rest))]
  <2>1. wire \in Seq(Message) /\ Len(wire) <= MaxQueue /\ subs[k].n \in Nat
    BY Typed DEF Inv, TypeOK, LinkOK
  <2>2. Send(k, q)
    BY <1>0
  <2>3. q \in Seq(Envelope) /\ Contents(q) = c
    BY <1>q, <1>1
  <2>4. \E fit, rest \in Seq(Envelope) :
          /\ Contents(q) = Contents(fit) \o Contents(rest)
          /\ wire' = wire \o Messages(k, subs[k].n, fit)
          /\ wire' \in Seq(Message) /\ Len(wire') <= MaxQueue
          /\ sent' = [sent EXCEPT ![k] = @ \o Contents(fit)]
          /\ excused' = [excused EXCEPT ![k] = @ \cup ToSet(Contents(rest))]
    BY <2>1, <2>2, <2>3, SendSplits
  <2> QED
    BY <2>3, <2>4
<1>3. PICK a, b \in Seq(Nat) : a = Contents(fit) /\ b = Contents(rest)
  BY ContentsType
<1>4. c = a \o b /\ ToSet(c) = ToSet(a) \cup ToSet(b) /\ ToSet(c) \subseteq Nat
  <2>1. c = a \o b
    BY <1>2, <1>3
  <2> QED
    BY <1>1, <2>1, MembersOfBoth, Typed
<1>5. Ids(q) \subseteq ToSet(c)
  <2>1. \A i \in DOMAIN q : q[i].id \in ToSet(q[i].ids)
    BY <1>1 DEF Named
  <2> QED
    BY <1>q, <1>1, <2>1, ContentsMembers DEF Ids
<1>6. PICK s, t : s = subs[k] /\ t = [s EXCEPT !.at = "draining", !.seen = Ids(q)]
  OBVIOUS
<1>7. subs' = [subs EXCEPT ![k] = t]
  BY <1>p, <1>q, <1>6, Typed
<1>8. s \in Subscription /\ Ids(q) \in SUBSET Nat
  BY <1>4, <1>5, <1>6, Typed
<1>9. t \in Subscription /\ t.rt = s.rt /\ t.at = "draining" /\ t.n = s.n /\ t.seen = Ids(q)
  BY <1>6, <1>8 DEF Subscription
<1>10. /\ subs' \in [Keys -> Subscription] /\ subs'[k] = t
       /\ \A l \in Keys \ {k} : subs'[l] = subs[l]
  BY <1>7, <1>9, Typed, OneSubscription
<1>11. /\ due' \in [Keys -> SUBSET Nat] /\ late' \in [Keys -> SUBSET Nat]
       /\ due'[k] = due[k] \cup ToSet(c) /\ late'[k] = Ids(s.rt) \ ToSet(c)
       /\ \A l \in Keys \ {k} : due'[l] = due[l] /\ late'[l] = late[l]
  <2>1. Ids(s.rt) \ ToSet(c) \in SUBSET Nat /\ ToSet(c) \in SUBSET Nat
    BY <1>4, <1>6, Typed
  <2> QED
    BY <1>0, <1>6, <2>1, Typed
<1>12. /\ TypeOK' /\ Stream' /\ Connected' /\ Resumed'
       /\ \A l \in Keys \ {k} : Kept(l)'
       /\ sent'[k] = sent[k] \o a
       /\ ToSet(sent[k])' = ToSet(sent[k]) \cup ToSet(a)
       /\ excused'[k] = excused[k] \cup ToSet(b)
       /\ Delivered(k)'
  <2>1. ToSet(Contents(rest)) \in SUBSET Nat
    BY <1>3, <1>4
  <2>2. subs[k].at \notin {"none", "deaf"} /\ subs'[k].at \notin {"none", "deaf"} /\ subs'[k].n = subs[k].n
    BY <1>0, <1>6, <1>9, <1>10
  <2>3. \A l \in Keys \ {k} : subs'[l] = subs[l] /\ due'[l] = due[l] /\ late'[l] = late[l]
    BY <1>10, <1>11
  <2>4. /\ TypeOK' /\ Stream' /\ Connected' /\ Resumed'
        /\ \A l \in Keys \ {k} : Kept(l)'
        /\ sent'[k] = sent[k] \o Contents(fit)
        /\ ToSet(sent[k])' = ToSet(sent[k]) \cup ToSet(Contents(fit))
        /\ excused'[k] = excused[k] \cup ToSet(Contents(rest))
        /\ Delivered(k)'
    <3>1. PICK drop \in SUBSET Nat : drop = ToSet(Contents(rest))
      BY <2>1
    <3>2. /\ wire' = wire \o Messages(k, subs[k].n, fit)
          /\ wire' \in Seq(Message) /\ Len(wire') <= MaxQueue
          /\ sent' = [sent EXCEPT ![k] = @ \o Contents(fit)]
          /\ excused' = [excused EXCEPT ![k] = @ \cup drop]
      BY <1>2, <3>1
    <3>3. /\ subs' \in [Keys -> Subscription]
          /\ due' \in [Keys -> SUBSET Nat] /\ late' \in [Keys -> SUBSET Nat]
      BY <1>10, <1>11
    <3>4. UNCHANGED <<queue, held, buffer, client, bounds, brought, got, strayed, link, requests>>
      BY <1>0
    <3>5. /\ TypeOK' /\ Stream' /\ Connected' /\ Resumed'
          /\ \A l \in Keys \ {k} : Kept(l)'
          /\ sent'[k] = sent[k] \o Contents(fit)
          /\ ToSet(sent[k])' = ToSet(sent[k]) \cup ToSet(Contents(fit))
          /\ excused'[k] = excused[k] \cup drop
          /\ Delivered(k)'
      BY <2>2, <2>3, <3>2, <3>3, <3>4, SendsOnly
    <3> QED
      BY <3>1, <3>5
  <2> QED
    BY <1>3, <2>4
<1>13. sent'[k] = a /\ ToSet(sent[k])' = ToSet(a)
  <2>1. sent[k] = <<>>
    BY <1>0 DEF Inv, Kept, Following
  <2> QED
    BY <1>12, <2>1, AddNothing, NoIds
<1>14. \A i \in DOMAIN a : i \in DOMAIN c /\ c[i] = a[i]
  BY <1>4, BothParts
<1>15. /\ queue' = queue /\ held' = held /\ published' = published
       /\ Registered(k) /\ Ids(subs[k].rt)' = Ids(s.rt) /\ Underway' = Underway
  BY <1>0, <1>6, <1>9, <1>10 DEF bounds, Registered, Ids, Underway
<1>16. Kept(k)'
  <2>0. Kept(k)
    BY DEF Inv
  <2>1. Received(k)'
    <3>1. \A x : Passed(x) => Passed(x)'
      BY <1>15 DEF Passed, Ids
    <3>2. Ordered(subs[k].rt)'
      BY <1>6, <1>9, <1>10, <2>0 DEF Kept, Received, Ordered
    <3>3. \A x \in Ids(s.rt) : Passed(x) /\ (held # None => x # held.id)
      BY <1>6, <2>0 DEF Kept, Received
    <3>4. \A x \in ToSet(a) : Passed(x)
      BY <1>1, <1>4 DEF Inv, Stream
    <3> QED
      BY <1>13, <1>15, <3>1, <3>2, <3>3, <3>4 DEF Received
  <2>2. InOrder(k)'
    <3>1. ASSUME NEW j \in DOMAIN a, NEW i \in 1..(j - 1) PROVE ~(a[j] < a[i])
      <4>1. i \in DOMAIN a /\ i < j /\ a[i] \in Nat /\ a[j] \in Nat
        OBVIOUS
      <4>2. a[i] < a[j]
        BY <1>1, <1>14, <4>1
      <4> QED
        BY <4>1, <4>2
    <3> QED
      BY <1>13, <3>1 DEF InOrder
  <2>3. Following(k)'
    <3>1. ASSUME NEW x \in Ids(s.rt), NEW i \in DOMAIN a, x < a[i]
          PROVE  x \in late'[k] \/ \E h \in 1..(i - 1) : a[h] = x
      <4>1. CASE x \notin ToSet(c)
        BY <1>11, <4>1
      <4>2. CASE x \in ToSet(c)
        <5>1. PICK h \in DOMAIN c : c[h] = x
          BY <4>2 DEF ToSet
        <5>2. i \in DOMAIN c /\ c[i] = a[i] /\ DOMAIN c = 1..Len(c) /\ DOMAIN a = 1..Len(a)
              /\ c[h] \in Nat /\ c[i] \in Nat
          BY <1>1, <1>14
        <5>3. h < i
          <6>1. c[h] < c[i]
            BY <3>1, <5>1, <5>2
          <6>2. ~(i < h) /\ i # h
            BY <1>1, <5>2, <6>1
          <6> QED
            BY <1>1, <5>2, <6>2
        <5>4. h \in 1..(i - 1) /\ h \in DOMAIN a
          BY <1>1, <5>2, <5>3
        <5> QED
          BY <1>14, <5>1, <5>4
      <4> QED
        BY <4>1, <4>2
    <3>2. subs'[k].at # "replaying"
      BY <1>9, <1>10
    <3> QED
      BY <1>13, <1>15, <3>1, <3>2 DEF Following, MayFollow
  <2>4. Drained(k)'
    <3>1. subs'[k].seen = Ids(q)
      BY <1>9, <1>10
    <3> QED
      BY <1>4, <1>5, <1>12, <1>13, <3>1 DEF Drained
  <2>5. Owed(k)'
    <3>1. \A x \in Ids(buffer) : Passed(x) /\ x \in Nat
      BY Typed DEF Inv, Stream
    <3>2. \A x \in ToSet(c) : x <= published /\ \A y \in Ids(queue) : x < y
      BY <1>1, <3>1 DEF Passed
    <3>3. \A i \in DOMAIN queue : queue[i].id \in Ids(queue) /\ queue[i].id \in Nat
      BY IdsType, Typed
    <3>4. \A i \in DOMAIN queue : queue[i].id \notin ToSet(c)
      BY <3>2, <3>3
    <3> QED
      BY <1>11, <1>15, <2>0, <3>2, <3>4 DEF Kept, Owed
  <2>6. Queued(k)'
    <3>1. due[k] \subseteq ToSet(sent[k]) \cup Ids(s.rt) \cup Underway \cup excused[k]
      BY <1>6, <1>15, <2>0 DEF Kept, Queued
    <3>2. ToSet(sent[k]) = {}
      BY <1>0, <2>0, NoIds DEF Kept, Following
    <3> QED
      BY <1>4, <1>11, <1>12, <1>13, <1>15, <3>1, <3>2 DEF Queued
  <2> QED
    BY <1>12, <2>1, <2>2, <2>3, <2>4, <2>5, <2>6 DEF Kept
<1> QED
  BY <1>12, <1>16 DEF Inv

LEMMA FreshType ==
  ASSUME Inv, NEW r, r.key \in Keys, r.after \in Nat
  PROVE  /\ Fresh(r) \in Subscription /\ Fresh(r).rt = <<>>
         /\ Fresh(r).at \in {"replaying", "live", "deaf"}
         /\ Fresh(r).at = "deaf" => r.key = All
<1> DEFINE how == CASE r.key = Session -> "replaying"
                    [] r.key = All /\ r.all -> "live"
                    [] OTHER -> "deaf"
<1>1. how \in {"replaying", "live", "deaf"} /\ (how = "deaf" => r.key # Session)
  <2>1. CASE r.key = Session
    BY <2>1, FeedAssumption
  <2>2. CASE r.key # Session
    BY <2>2
  <2> QED
    BY <2>1, <2>2
<1>2. r.key # Session => r.key = All
  BY DEF Keys
<1>3. subs[r.key].n + 1 \in Nat
  BY Typed
<1>4. PICK h, m, a, t : h = how /\ m = subs[r.key].n + 1 /\ a = r.after /\ t = Fresh(r)
  OBVIOUS
<1>5. t = [NoSub EXCEPT !.at = h, !.n = m, !.after = a]
  BY <1>4 DEF Fresh
<1> HIDE DEF how
<1>6. NoSub \in Subscription /\ NoSub.rt = <<>>
  BY DEF NoSub, Subscription
<1>7. h \in {"replaying", "live", "deaf"} /\ m \in Nat /\ a \in Nat
  BY <1>1, <1>3, <1>4
<1>8. t \in Subscription /\ t.rt = <<>> /\ t.at = h
  BY <1>5, <1>6, <1>7 DEF Subscription
<1> QED
  BY <1>1, <1>2, <1>4, <1>7, <1>8

LEMMA ServeKeeps ==
  ASSUME Inv, Serve
  PROVE  Inv'
<1>r. PICK r : r = Head(requests)
  OBVIOUS
<1> DEFINE added == {x.id : x \in {queue[i] : i \in {j \in DOMAIN queue : queue[j].kind = "added"}}}
           owed == IF Fresh(r).at = "deaf" THEN {} ELSE Underway \ added
<1>0. /\ UNCHANGED <<queue, held, buffer, client, bounds, got, link>>
      /\ link = "up" /\ requests # <<>> /\ Len(wire) < MaxQueue /\ requests' = Tail(requests)
  BY DEF Serve
<1>k. PICK k, t, m : k = r.key /\ t = Fresh(r) /\ m = [type |-> "reply", of |-> r.key, resub |-> r.resub]
  OBVIOUS
<1>1. /\ subs' = [subs EXCEPT ![k] = t] /\ wire' = Append(wire, m)
      /\ due' = [due EXCEPT ![k] = owed]
      /\ sent' = [sent EXCEPT ![k] = <<>>] /\ brought' = [brought EXCEPT ![k] = {}]
      /\ excused' = [excused EXCEPT ![k] = {}] /\ late' = [late EXCEPT ![k] = {}]
      /\ strayed' = strayed \ {k}
  BY <1>r, <1>k DEF Serve
<1>2. /\ k \in Keys /\ r.after \in Nat /\ r.resub \in BOOLEAN
      /\ requests' \in Seq([key : Keys, all : BOOLEAN, after : Nat, resub : BOOLEAN])
  <2> DEFINE R == [key : Keys, all : BOOLEAN, after : Nat, resub : BOOLEAN]
  <2>1. requests \in Seq(R)
    BY DEF Inv, TypeOK, LinkOK
  <2> HIDE DEF R
  <2>2. r \in R /\ Tail(requests) \in Seq(R)
    BY <1>r, <1>0, <2>1
  <2> QED
    BY <1>0, <1>k, <2>2 DEF R
<1>3. t \in Subscription /\ t.rt = <<>> /\ t.at \in {"replaying", "live", "deaf"}
      /\ (t.at = "deaf" => k = All)
  BY <1>k, <1>2, FreshType
<1>4. /\ subs' \in [Keys -> Subscription] /\ subs'[k] = t
      /\ \A l \in Keys \ {k} : subs'[l] = subs[l]
  BY <1>1, <1>2, <1>3, Typed, OneSubscription
<1>5. /\ owed \subseteq Underway /\ owed \subseteq Nat /\ (t.at = "deaf" => owed = {})
      /\ \A x \in owed : x <= published
      /\ \A i \in DOMAIN queue : queue[i].kind = "added" => queue[i].id \notin owed
  <2>1. owed \subseteq Underway \ added /\ (t.at = "deaf" => owed = {})
    BY <1>k
  <2>2. \A i \in DOMAIN queue : queue[i].kind = "added" => queue[i].id \in added
    OBVIOUS
  <2>3. \A x \in Underway : x \in Nat /\ x <= published
    BY Typed, EventType DEF Inv, Stream, Passed, Underway
  <2> QED
    BY <2>1, <2>2, <2>3
<1> HIDE DEF owed
<1>6. /\ m \in Message /\ m.type = "reply" /\ m.of = k
      /\ wire \in Seq(Message) /\ wire' \in Seq(Message) /\ Len(wire') <= MaxQueue
      /\ \A i \in DOMAIN wire : i \in DOMAIN wire' /\ wire'[i] = wire[i]
      /\ \A i \in DOMAIN wire' : wire'[i] = m \/ (i \in DOMAIN wire /\ wire'[i] = wire[i])
  <2>1. m \in Message /\ m.type = "reply" /\ m.of = k
    BY <1>k, <1>2 DEF Message
  <2>2. wire \in Seq(Message) /\ MaxQueue \in Nat
    BY FeedAssumption DEF Inv, TypeOK, LinkOK
  <2> QED
    BY <1>0, <1>1, <2>1, <2>2
<1>7. /\ due' \in [Keys -> SUBSET Nat] /\ sent' \in [Keys -> Seq(Nat)] /\ brought' \in [Keys -> SUBSET Nat]
      /\ excused' \in [Keys -> SUBSET Nat] /\ late' \in [Keys -> SUBSET Nat]
      /\ due'[k] = owed /\ sent'[k] = <<>>
      /\ \A l \in Keys \ {k} : /\ due'[l] = due[l] /\ sent'[l] = sent[l] /\ brought'[l] = brought[l]
                               /\ excused'[l] = excused[l] /\ late'[l] = late[l]
  BY <1>1, <1>2, <1>5, Typed
<1>8. TypeOK'
  <2>1. ServerOK'
    BY <1>0, <1>4, Typed DEF ServerOK, bounds
  <2>2. HistoryOK'
    BY <1>0, <1>1, <1>7 DEF Inv, TypeOK, HistoryOK
  <2>3. ClientOK'
    BY <1>0 DEF Inv, TypeOK, ClientOK, client, bounds
  <2>4. LinkOK'
    BY <1>0, <1>2, <1>6 DEF LinkOK
  <2> QED
    BY <2>1, <2>2, <2>3, <2>4 DEF TypeOK
<1>9. Stream' /\ ForwarderIdle
  BY <1>0, StreamSame DEF Inv, ForwarderIdle, bounds
<1>10. ASSUME NEW l \in Keys, l # k PROVE Kept(l)'
  <2>1. ASSUME NEW x \in OnWire(l) PROVE x \in OnWire(l)'
    <3>1. Carries(wire, l, subs[l].n, x)
      BY <2>1, WireCarries
    <3>2. Carries(wire', l, subs'[l].n, x)
      BY <1>4, <1>6, <1>10, <3>1 DEF Carries
    <3> QED
      BY <3>2, WireCarries
  <2>2. Undisturbed(l)
    BY <1>4, <1>7, <1>10, <2>1 DEF Undisturbed
  <2> QED
    BY <1>9, <2>2, LeftAlone DEF Inv
<1>11. Kept(k)'
  <2>0. subs'[k].rt = <<>> /\ subs'[k].at = t.at
    BY <1>3, <1>4
  <2>1. Received(k)'
    <3>1. Ordered(subs[k].rt)' /\ Ids(subs[k].rt)' = {} /\ ToSet(sent[k])' = {}
      BY <1>7, <2>0 DEF Ordered, Ids, ToSet
    <3> QED
      BY <3>1 DEF Received
  <2>2. Following(k)' /\ InOrder(k)'
    BY <1>7, <2>0 DEF Following, InOrder, Ids
  <2>3. Drained(k)'
    BY <1>3, <2>0 DEF Drained
  <2>4. Owed(k)'
    BY <1>0, <1>5, <1>7 DEF Owed, bounds
  <2>5. Queued(k)' /\ Delivered(k)'
    <3>1. Underway' = Underway /\ ToSet(sent[k])' = {}
      BY <1>0, <1>7 DEF Underway, Ids, ToSet
    <3> QED
      BY <1>5, <1>7, <3>1 DEF Queued, Delivered
  <2> QED
    BY <2>1, <2>2, <2>3, <2>4, <2>5 DEF Kept
<1>12. Connected'
  BY <1>0, <1>3, <1>4 DEF Inv, Connected
<1>13. Resumed'
  <2>1. \A l \in Keys : subs[l].at # "none" => subs'[l].at # "none"
    BY <1>3, <1>4
  <2>2. subs'[k].at # "none"
    BY <1>3, <1>4
  <2>3. Resumed
    BY DEF Inv
  <2>4. \A i \in DOMAIN wire' : wire'[i].type = "reply" => subs'[wire'[i].of].at # "none"
    BY <1>0, <1>6, <2>1, <2>2, <2>3, WireTo DEF Resumed
  <2>5. \A l \in Keys \ strayed' :
          app'[l] \in {"asked", "listening"} => subs'[l].at # "none" \/ l \in todo'
    BY <1>0, <1>1, <1>2, <2>1, <2>2, <2>3 DEF Resumed, client
  <2> QED
    BY <2>4, <2>5 DEF Resumed
<1> QED
  BY <1>8, <1>9, <1>10, <1>11, <1>12, <1>13 DEF Inv

-----------------------------------------------------------------------------
(***************************************************************************)
(* The theorems.                                                           *)
(***************************************************************************)
LEMMA NextKeeps == Inv /\ [Next]_vars => Inv'
<1> SUFFICES ASSUME Inv, [Next]_vars PROVE Inv'
  OBVIOUS
<1>1. CASE \E kind \in Kinds : Emit(kind)
  BY <1>1, EmitKeeps
<1>2. CASE Take
  BY <1>2, TakeKeeps
<1>3. CASE Publish
  BY <1>3, PublishKeeps
<1>4. CASE Serve
  BY <1>4, ServeKeeps
<1>5. CASE Read
  BY <1>5, ReadKeeps
<1>6. CASE Cut
  BY <1>6, CutKeeps
<1>7. CASE Notice
  BY <1>7, NoticeKeeps
<1>8. CASE Reconnect
  BY <1>8, ReconnectKeeps
<1>9. ASSUME NEW k \in Keys,
             \/ Replay(k) \/ Drain(k) \/ Follow(k) \/ Forward(k)
             \/ \E after \in {0} \cup got[k] : Ask(k, after)
             \/ Attach(k) \/ Leave(k) \/ Resubscribe(k)
      PROVE  Inv'
  <2>1. CASE Replay(k)
    BY <2>1, ReplayKeeps
  <2>2. CASE Drain(k)
    BY <2>2, DrainKeeps
  <2>3. CASE Follow(k)
    BY <2>3, FollowKeeps
  <2>4. CASE Forward(k)
    BY <2>4, ForwardKeeps
  <2>5. CASE \E after \in {0} \cup got[k] : Ask(k, after)
    BY <2>5, AskKeeps
  <2>6. CASE Attach(k) \/ Leave(k)
    BY <2>6, AttachKeeps
  <2>7. CASE Resubscribe(k)
    BY <2>7, ResubscribeKeeps
  <2> QED
    BY <1>9, <2>1, <2>2, <2>3, <2>4, <2>5, <2>6, <2>7
<1>10. CASE UNCHANGED vars
  <2>1. UNCHANGED <<queue, held, buffer, subs, published, wire>> /\ UNCHANGED due
        /\ UNCHANGED <<sent, brought, got, excused, late>>
        /\ UNCHANGED <<stamp, got, strayed, link, requests, app, todo, resubs, tries>>
    BY <1>10 DEF vars, server, client, bounds, history
  <2>2. Stream' /\ \A k \in Keys : Kept(k)'
    BY <2>1, ServerAlone
  <2>3. TypeOK'
    <3>1. ServerOK' /\ HistoryOK'
      BY <2>1 DEF Inv, TypeOK, ServerOK, HistoryOK
    <3>2. ClientOK' /\ LinkOK'
      BY <2>1 DEF Inv, TypeOK, ClientOK, LinkOK
    <3> QED
      BY <3>1, <3>2 DEF TypeOK
  <2>4. Connected' /\ Resumed'
    BY <2>1 DEF Inv, Connected, Resumed
  <2> QED
    BY <2>2, <2>3, <2>4 DEF Inv
<1> QED
  BY <1>1, <1>2, <1>3, <1>4, <1>5, <1>6, <1>7, <1>8, <1>9, <1>10 DEF Next

\* The invariant holds in every reachable state.
LEMMA Invariance == Spec => []Inv
BY AtFirst, NextKeeps, PTL DEF Spec

\* Server, connection and client keep their types, and no queue of the connection grows past
\* what it holds (dispatcher.rs, try_send).
THEOREM TypeCorrect == Spec => []TypeOK
<1>1. Inv => TypeOK
  BY DEF Inv
<1> QED
  BY <1>1, Invariance, PTL

\* A subscription skips nothing: the search for the cursor begins the replay in front of every
\* buffered event that was published later (event_buffer.rs:49), in whatever order the ids are
\* and up to the exception the property names; replay, drain and live loop hand over to each
\* other without a gap (dispatcher.rs:865), whatever the forwarder does meanwhile.
THEOREM SkipsNothing == Spec => []NothingSkipped
<1>1. Inv => NothingSkipped
  BY DEF Inv, Kept, Queued, Delivered, NothingSkipped
<1> QED
  BY <1>1, Invariance, PTL

\* A subscription sends events in the order of their publication, repeats and events older
\* than its replay excepted (dispatcher.rs:892).
THEOREM KeepsOrder == Spec => []OrderKept
<1>1. Inv => OrderKept
  BY DEF Inv, Kept, InOrder, OrderKept
<1> QED
  BY <1>1, Invariance, PTL

\* After any number of lost connections every receiver has its subscription again, once the
\* client has gone through its routers (remote/mod.rs:413).
THEOREM ResumesStreams == Spec => []StreamsResume
<1>1. Inv => StreamsResume
  <2> SUFFICES ASSUME Inv, link = "up", todo = {}, NEW k \in Keys \ strayed, app[k] = "listening"
               PROVE  Registered(k) \/ (k = All /\ subs[k].at = "deaf")
    BY DEF StreamsResume
  <2>1. subs[k].at # "none"
    BY DEF Inv, Resumed
  <2>2. subs[k].at \in {"none", "replaying", "draining", "live", "deaf"}
    BY Typed, SubscriptionType
  <2> QED
    BY <2>1, <2>2 DEF Inv, Connected, Registered
<1> QED
  BY <1>1, Invariance, PTL
=============================================================================
