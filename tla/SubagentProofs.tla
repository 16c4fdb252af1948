--------------------------- MODULE SubagentProofs ---------------------------
(***************************************************************************)
(* Proofs about Permission, for any sessions, requests and changes of      *)
(* level, and about Subagent, which extends it, for any sessions, runs,    *)
(* follow-ups and agents of the parent.                                    *)
(*                                                                         *)
(* The last sections show that Subagent implements Permission.  The        *)
(* mapping is a fold over a queue, which they unfold by induction: a set   *)
(* that holds zero and successors holds every number.                      *)
(***************************************************************************)
EXTENDS Subagent, Integers, WellFoundedInduction, TLAPS


-----------------------------------------------------------------------------
(***************************************************************************)
(* Queues.                                                                 *)
(***************************************************************************)
Has(q, e) == \E i \in DOMAIN q : q[i] = e
Once(q, e) == \A i, j \in DOMAIN q : q[i] = e /\ q[j] = e => i = j
Before(q, d, e) == \A i, j \in DOMAIN q : q[i] = d /\ q[j] = e => i < j

LEMMA EmptyQueue ==
  ASSUME NEW S
  PROVE  /\ <<>> \in Seq(S)
         /\ \A e : ~Has(<<>>, e) /\ Once(<<>>, e)
         /\ \A d, e : Before(<<>>, d, e)
  BY DEF Has, Once, Before

LEMMA AppendQueue ==
  ASSUME NEW S, NEW q \in Seq(S), NEW x \in S
  PROVE  /\ Append(q, x) \in Seq(S)
         /\ \A e : Has(Append(q, x), e) <=> Has(q, e) \/ x = e
         /\ \A e : Once(q, e) /\ (x = e => ~Has(q, e)) => Once(Append(q, x), e)
         /\ \A d, e : Before(q, d, e) /\ (x = d => ~Has(q, e)) /\ d # e
                        => Before(Append(q, x), d, e)
<1>1. Append(q, x) \in Seq(S)
  OBVIOUS
<1>2. /\ DOMAIN Append(q, x) = DOMAIN q \cup {Len(q) + 1}
      /\ Append(q, x)[Len(q) + 1] = x
      /\ \A i \in DOMAIN q : Append(q, x)[i] = q[i] /\ i \in Nat /\ i < Len(q) + 1
  OBVIOUS
<1>3. \A e : Has(Append(q, x), e) <=> Has(q, e) \/ x = e
  BY <1>2 DEF Has
<1>4. \A e : Once(q, e) /\ (x = e => ~Has(q, e)) => Once(Append(q, x), e)
  BY <1>2 DEF Has, Once
<1>5. \A d, e : Before(q, d, e) /\ (x = d => ~Has(q, e)) /\ d # e
                  => Before(Append(q, x), d, e)
  BY <1>2 DEF Has, Before
<1> QED
  BY <1>1, <1>3, <1>4, <1>5

LEMMA TailQueue ==
  ASSUME NEW S, NEW q \in Seq(S), q # <<>>
  PROVE  /\ Head(q) \in S
         /\ Tail(q) \in Seq(S)
         /\ \A e : Has(q, e) <=> Head(q) = e \/ Has(Tail(q), e)
         /\ \A e : Once(q, e) => Once(Tail(q), e) /\ (Head(q) = e => ~Has(Tail(q), e))
         /\ \A d, e : Before(q, d, e) =>
              Before(Tail(q), d, e) /\ (Head(q) = e => ~Has(Tail(q), d))
<1>1. Head(q) \in S /\ Tail(q) \in Seq(S)
  OBVIOUS
<1>2. /\ 1 \in DOMAIN q /\ q[1] = Head(q)
      /\ \A i \in DOMAIN Tail(q) : i \in Nat /\ i > 0 /\ i + 1 \in DOMAIN q /\ Tail(q)[i] = q[i + 1]
      /\ \A i \in DOMAIN q : i = 1 \/ (i - 1 \in DOMAIN Tail(q) /\ Tail(q)[i - 1] = q[i])
  OBVIOUS
<1>3. \A e : Has(q, e) <=> Head(q) = e \/ Has(Tail(q), e)
  BY <1>2 DEF Has
<1>4. \A e : Once(q, e) => Once(Tail(q), e) /\ (Head(q) = e => ~Has(Tail(q), e))
  BY <1>2 DEF Has, Once
<1>5. \A d, e : Before(q, d, e) =>
        Before(Tail(q), d, e) /\ (Head(q) = e => ~Has(Tail(q), d))
  BY <1>2 DEF Has, Before
<1> QED
  BY <1>1, <1>3, <1>4, <1>5


-----------------------------------------------------------------------------
(***************************************************************************)
(* The types.                                                              *)
(***************************************************************************)
LEMMA Distinct ==
  /\ Root \in Session
  /\ \A s \in Session : s # None
  /\ \A r \in Req : r # None
  /\ \A r \in Req : Ask(r) \in Event /\ Ack(r) \in Event
  /\ \A r, p : Ask(r) # Ack(p)
  /\ \A r, p : (Ask(r) = Ask(p) => r = p) /\ (Ack(r) = Ack(p) => r = p)
  BY PermissionAssumption DEF Ask, Ack, Event

LEMMA EmitLanes ==
  ASSUME LanesOK, NEW s \in Session, NEW e \in Event, Emit(s, e), UNCHANGED listening
  PROVE  LanesOK'
<1>1. stream' \in Seq(Event)
  BY AppendQueue DEF LanesOK, Emit
<1>2. heard' \in [Session -> Seq(Event)]
  BY AppendQueue DEF LanesOK, Emit
<1> QED
  BY <1>1, <1>2 DEF LanesOK

LEMMA InitTypes == PermissionInit => PermissionTypeOK
<1> SUFFICES ASSUME PermissionInit PROVE PermissionTypeOK
  OBVIOUS
<1>1. RequestsOK
  BY DEF PermissionInit, RequestsOK, Level
<1>2. LanesOK
  BY EmptyQueue DEF PermissionInit, LanesOK
<1>3. LevelsOK
  <2>1. 0 \in Level
    BY DEF Level
  <2>2. updates \in SUBSET (Nat \X Level)
    BY DEF PermissionInit
  <2>3. /\ place \in [Session -> {"out", "preparing", "in"}]
        /\ sets \in Nat /\ crossed \in BOOLEAN /\ setting \in Level \cup {None}
    BY DEF PermissionInit
  <2> QED
    BY <2>1, <2>2, <2>3 DEF PermissionInit, LevelsOK
<1> QED
  BY <1>1, <1>2, <1>3 DEF PermissionTypeOK

LEMMA Frames ==
  /\ RequestsOK /\ UNCHANGED <<ask, outcome, level, owner, said, pending, unheard>> => RequestsOK'
  /\ LanesOK /\ UNCHANGED lanes => LanesOK'
  /\ LevelsOK /\ UNCHANGED <<place, levels>> => LevelsOK'
<1>1. RequestsOK /\ UNCHANGED <<ask, outcome, level, owner, said, pending, unheard>> => RequestsOK'
  BY DEF RequestsOK
<1>2. LanesOK /\ UNCHANGED lanes => LanesOK'
  BY DEF LanesOK, lanes
<1>3. LevelsOK /\ UNCHANGED <<place, levels>> => LevelsOK'
  BY DEF LevelsOK, levels
<1> QED
  BY <1>1, <1>2, <1>3

LEMMA RequestTypes ==
  ASSUME PermissionTypeOK, NEW s \in Session, NEW r \in Req, NEW l \in Level, Request(s, r, l)
  PROVE  PermissionTypeOK'
<1>1. RequestsOK'
  BY DEF PermissionTypeOK, RequestsOK, Request, Unheard, levels
<1>2. LanesOK'
  BY Distinct, EmitLanes DEF PermissionTypeOK, Request
<1>3. LevelsOK'
  BY Frames DEF PermissionTypeOK, Request, levels, prompts, lanes
<1> QED
  BY <1>1, <1>2, <1>3 DEF PermissionTypeOK

LEMMA SettleTypes ==
  ASSUME PermissionTypeOK, NEW s \in Session, NEW end \in {"approved", "denied", "lapsed"},
         Settle(s, end), remembered' \in [Session -> Level], TRUE
  PROVE  PermissionTypeOK'
<1>1. RequestsOK'
  BY DEF PermissionTypeOK, RequestsOK, Settle, Unheard
<1>2. LanesOK'
  <2>1. ask[s] \in Req
    BY DEF PermissionTypeOK, RequestsOK, Settle
  <2> QED
    BY <2>1, Distinct, EmitLanes DEF PermissionTypeOK, Settle, Acks
<1>3. LevelsOK'
  BY DEF PermissionTypeOK, LevelsOK, Settle
<1> QED
  BY <1>1, <1>2, <1>3 DEF PermissionTypeOK

LEMMA CheckTypes ==
  ASSUME PermissionTypeOK, NEW s \in Session, Check(s)
  PROVE  PermissionTypeOK'
<1>1. ASSUME NEW r \in Req, NEW l \in Level \ {0}, Request(s, r, l)
      PROVE  PermissionTypeOK'
  BY <1>1, RequestTypes
<1>2. CASE Answered(s)
  <2>1. PICK r \in Req :
          /\ Mine(s, r)
          /\ Settle(s, IF said[r] \in {"once", "always"} THEN "approved" ELSE "denied")
          /\ remembered' = IF said[r] = "always" /\ level[ask[s]] > remembered[s]
                           THEN [remembered EXCEPT ![s] = level[ask[s]]] ELSE remembered
    BY <1>2 DEF Answered
  <2>2. level[r] \in Level /\ ask[s] = r
    BY <2>1 DEF PermissionTypeOK, RequestsOK, Mine
  <2>3. remembered' \in [Session -> Level]
    BY <2>1, <2>2 DEF PermissionTypeOK, LevelsOK
  <2> QED
    BY <2>1, <2>3, SettleTypes
<1>3. CASE TimesOut(s) \/ Cancelled(s)
  <2>1. remembered' \in [Session -> Level]
    BY <1>3 DEF PermissionTypeOK, LevelsOK, TimesOut, Cancelled
  <2> QED
    BY <1>3, <2>1, SettleTypes DEF TimesOut, Cancelled
<1> QED
  BY <1>1, <1>2, <1>3 DEF Check

LEMMA ShowTypes ==
  ASSUME PermissionTypeOK, Show
  PROVE  PermissionTypeOK'
<1>1. RequestsOK'
  <2>0. Head(stream) \in Event
    BY TailQueue DEF PermissionTypeOK, LanesOK, Show
  <2>1. Head(stream).req \in Req
    BY <2>0 DEF Event
  <2> QED
    BY <2>1 DEF PermissionTypeOK, RequestsOK, Show, Displaces, levels
<1>2. LanesOK'
  BY TailQueue DEF PermissionTypeOK, LanesOK, Show
<1>3. LevelsOK'
  BY Frames DEF PermissionTypeOK, Show, levels, prompts, lanes
<1> QED
  BY <1>1, <1>2, <1>3 DEF PermissionTypeOK

LEMMA ReplyTypes ==
  ASSUME PermissionTypeOK, NEW answer \in {"once", "always", "no"}, Reply(answer)
  PROVE  RequestsOK' /\ LanesOK'
<1>1. RequestsOK'
  BY DEF PermissionTypeOK, RequestsOK, Reply
<1>2. LanesOK'
  BY Frames DEF PermissionTypeOK, Reply
<1> QED
  BY <1>1, <1>2

LEMMA SetLevelTypes ==
  ASSUME PermissionTypeOK, NEW l \in Level, SetLevel(l), UNCHANGED place
  PROVE  LevelsOK'
  BY Distinct DEF PermissionTypeOK, LevelsOK, SetLevel, Written

LEMMA TerminalTypes ==
  ASSUME PermissionTypeOK, Terminal
  PROVE  PermissionTypeOK'
<1>1. CASE Show
  BY <1>1, ShowTypes
<1>2. CASE Yolo
  <2>1. LevelsOK'
    BY <1>2, SetLevelTypes DEF Yolo, Reply, Level
  <2> QED
    BY <1>2, <2>1, ReplyTypes DEF Yolo, PermissionTypeOK
<1>3. CASE Toggle
  <2>1. LevelsOK'
    BY <1>3, SetLevelTypes DEF Toggle, Level
  <2> QED
    BY <1>3, <2>1, Frames DEF Toggle, PermissionTypeOK, prompts
<1>4. ASSUME NEW answer \in {"once", "always", "no"}, Choose(answer)
      PROVE  PermissionTypeOK'
  BY <1>4, ReplyTypes, Frames DEF Choose, PermissionTypeOK, Reply
<1> QED
  BY <1>1, <1>2, <1>3, <1>4 DEF Terminal

LEMMA SpawnUpdateTypes ==
  ASSUME PermissionTypeOK, SpawnUpdate
  PROVE  PermissionTypeOK'
<1>1. RequestsOK'
  BY Frames DEF PermissionTypeOK, SpawnUpdate, prompts, levels, lanes
<1>2. LanesOK'
  BY Frames DEF PermissionTypeOK, SpawnUpdate, lanes, prompts, levels
<1>3. LevelsOK'
  <2>1. updates' \in SUBSET (Nat \X Level)
    <3>1. setting \in Level /\ sets \in Nat
      BY DEF PermissionTypeOK, LevelsOK, SpawnUpdate
    <3>2. <<sets, setting>> \in Nat \X Level
      BY <3>1
    <3> QED
      BY <3>2 DEF PermissionTypeOK, LevelsOK, SpawnUpdate
  <2>2. crossed' \in BOOLEAN
    BY DEF PermissionTypeOK, LevelsOK, SpawnUpdate
  <2> QED
    BY <2>1, <2>2 DEF PermissionTypeOK, LevelsOK, SpawnUpdate
<1> QED
  BY <1>1, <1>2, <1>3 DEF PermissionTypeOK

LEMMA StoreLevelTypes ==
  ASSUME PermissionTypeOK, NEW u \in updates, StoreLevel(u)
  PROVE  PermissionTypeOK'
<1>1. RequestsOK'
  BY Frames DEF PermissionTypeOK, StoreLevel, prompts, levels, lanes
<1>2. LanesOK'
  BY Frames DEF PermissionTypeOK, StoreLevel, lanes, prompts, levels
<1>3. LevelsOK'
  BY Distinct DEF PermissionTypeOK, LevelsOK, StoreLevel
<1> QED
  BY <1>1, <1>2, <1>3 DEF PermissionTypeOK

LEMMA PrepareTypes ==
  ASSUME PermissionTypeOK, NEW s \in Session, Prepare(s)
  PROVE  PermissionTypeOK'
<1>1. RequestsOK'
  BY Frames DEF PermissionTypeOK, Prepare, prompts, levels, lanes
<1>2. LanesOK'
  BY Frames DEF PermissionTypeOK, Prepare, lanes, prompts, levels
<1>3. LevelsOK'
  BY DEF PermissionTypeOK, LevelsOK, Prepare
<1> QED
  BY <1>1, <1>2, <1>3 DEF PermissionTypeOK

LEMMA EnterTypes ==
  ASSUME PermissionTypeOK, NEW s \in Session, Enter(s)
  PROVE  PermissionTypeOK'
<1>1. RequestsOK'
  BY Frames DEF PermissionTypeOK, Enter, prompts, levels, lanes
<1>2. LanesOK'
  BY Frames DEF PermissionTypeOK, Enter, lanes, prompts, levels
<1>3. LevelsOK'
  BY DEF PermissionTypeOK, LevelsOK, Enter, Level
<1> QED
  BY <1>1, <1>2, <1>3 DEF PermissionTypeOK

LEMMA LeaveTypes ==
  ASSUME PermissionTypeOK, NEW s \in Session, Leave(s)
  PROVE  PermissionTypeOK'
<1>1. RequestsOK'
  BY Frames DEF PermissionTypeOK, Leave, prompts, levels, lanes
<1>2. LanesOK'
  BY Frames DEF PermissionTypeOK, Leave, lanes, prompts, levels
<1>3. LevelsOK'
  BY DEF PermissionTypeOK, LevelsOK, Leave
<1> QED
  BY <1>1, <1>2, <1>3 DEF PermissionTypeOK

LEMMA CreateTypes ==
  ASSUME PermissionTypeOK, NEW s \in Session, Create(s)
  PROVE  PermissionTypeOK'
<1>1. RequestsOK'
  BY Frames DEF PermissionTypeOK, Create, prompts, levels, lanes
<1>2. LanesOK'
  BY Frames DEF PermissionTypeOK, Create, lanes, prompts, levels
<1>3. LevelsOK'
  BY Distinct DEF PermissionTypeOK, LevelsOK, Create
<1> QED
  BY <1>1, <1>2, <1>3 DEF PermissionTypeOK

LEMMA ListenTypes ==
  ASSUME PermissionTypeOK, NEW s \in Session, s # Root, Listen(s)
  PROVE  PermissionTypeOK'
<1>1. RequestsOK'
  BY Frames DEF PermissionTypeOK, Listen, prompts, levels, lanes
<1>2. LanesOK'
  BY DEF PermissionTypeOK, LanesOK, Listen
<1>3. LevelsOK'
  BY Frames DEF PermissionTypeOK, Listen, levels, prompts, lanes
<1> QED
  BY <1>1, <1>2, <1>3 DEF PermissionTypeOK

LEMMA RelayTypes ==
  ASSUME PermissionTypeOK, NEW s \in Session, Relay(s)
  PROVE  PermissionTypeOK'
<1>1. RequestsOK'
  BY Frames DEF PermissionTypeOK, Relay, prompts, levels, lanes
<1>2. LanesOK'
  <2>1. heard[s] \in Seq(Event) /\ heard[s] # <<>>
    BY DEF PermissionTypeOK, LanesOK, Relay
  <2>2. Head(heard[s]) \in Event /\ Tail(heard[s]) \in Seq(Event)
    BY <2>1, TailQueue
  <2>3. stream' \in Seq(Event)
    BY <2>2, AppendQueue DEF PermissionTypeOK, LanesOK, Relay
  <2> QED
    BY <2>2, <2>3 DEF PermissionTypeOK, LanesOK, Relay
<1>3. LevelsOK'
  BY Frames DEF PermissionTypeOK, Relay, levels, prompts, lanes
<1> QED
  BY <1>1, <1>2, <1>3 DEF PermissionTypeOK

LEMMA UnlistenTypes ==
  ASSUME PermissionTypeOK, NEW s \in Session, Unlisten(s)
  PROVE  PermissionTypeOK'
<1>1. RequestsOK'
  BY DEF PermissionTypeOK, RequestsOK, Unlisten, prompts
<1>2. LanesOK'
  BY EmptyQueue DEF PermissionTypeOK, LanesOK, Unlisten
<1>3. LevelsOK'
  BY Frames DEF PermissionTypeOK, Unlisten, levels, prompts, lanes
<1> QED
  BY <1>1, <1>2, <1>3 DEF PermissionTypeOK

LEMMA NextTypes == PermissionTypeOK /\ [PermissionNext]_permission => PermissionTypeOK'
<1> SUFFICES ASSUME PermissionTypeOK, [PermissionNext]_permission PROVE PermissionTypeOK'
  OBVIOUS
<1>1. CASE Terminal
  BY <1>1, TerminalTypes
<1>2. CASE Update
  BY <1>2, SpawnUpdateTypes, StoreLevelTypes DEF Update
<1>3. ASSUME NEW s \in Session, Check(s) PROVE PermissionTypeOK'
  BY <1>3, CheckTypes
<1>4. ASSUME NEW s \in Session, Around(s) PROVE PermissionTypeOK'
  BY <1>4, PrepareTypes, EnterTypes, LeaveTypes DEF Around
<1>5. ASSUME NEW s \in Session \ {Root}, Below(s) PROVE PermissionTypeOK'
  BY <1>5, CreateTypes, ListenTypes, RelayTypes, UnlistenTypes DEF Below
<1>6. CASE UNCHANGED permission
  BY <1>6, Frames DEF PermissionTypeOK, permission, prompts, lanes
<1> QED
  BY <1>1, <1>2, <1>3, <1>4, <1>5, <1>6 DEF PermissionNext

\* The types of prompts, lanes and levels.
THEOREM PromptTypes == PermissionSpec => []PermissionTypeOK
  BY InitTypes, NextTypes, PTL DEF PermissionSpec


-----------------------------------------------------------------------------
(***************************************************************************)
(* The level of Root's agent.                                              *)
(***************************************************************************)

\* A number belongs to each change of level.  What is still to be stored is
\* older than the last change or is the last change, which the row shows; as
\* long as nothing crossed, the last change is stored with nothing left
\* behind, or still to be stored, or the agent is built from it.
Agreed ==
  /\ setting # None => setting = row[Root] /\ \A u \in updates : u[1] < sets
  /\ setting = None => \A u \in updates : u[1] < sets \/ u = <<sets, row[Root]>>
  /\ place[Root] # "in" => updates = {}
  /\ setting = None /\ ~crossed =>
       /\ place[Root] = "in" =>
            <<sets, row[Root]>> \in updates \/ (updates = {} /\ auto[Root] = row[Root])
       /\ place[Root] = "preparing" => drawn[Root] = row[Root]

LEMMA AgreedFrame ==
  ASSUME Agreed, UNCHANGED <<setting, updates, sets, crossed>>,
         place'[Root] = place[Root], row'[Root] = row[Root],
         drawn'[Root] = drawn[Root], auto'[Root] = auto[Root]
  PROVE  Agreed'
  BY DEF Agreed

LEMMA InitAgreed == PermissionInit => Agreed
  BY Distinct DEF PermissionInit, Agreed

LEMMA SetLevelAgreed ==
  ASSUME PermissionTypeOK, Agreed, NEW l \in Level, SetLevel(l), UNCHANGED place
  PROVE  Agreed'
<1>1. l # None
  BY PermissionAssumption
<1>2. row'[Root] = l /\ setting' = l /\ sets' = sets + 1 /\ sets \in Nat
  BY Distinct DEF SetLevel, Written, PermissionTypeOK, LevelsOK
<1>3. \A u \in updates : u[1] \in Nat /\ u[1] <= sets
  BY <1>2 DEF Agreed, SetLevel, PermissionTypeOK, LevelsOK
<1> QED
  BY <1>1, <1>2, <1>3 DEF Agreed, SetLevel

LEMMA SpawnUpdateAgreed ==
  ASSUME PermissionTypeOK, Agreed, SpawnUpdate
  PROVE  Agreed'
  BY DEF Agreed, SpawnUpdate

LEMMA StoreLevelAgreed ==
  ASSUME PermissionTypeOK, Agreed, NEW u \in updates, StoreLevel(u)
  PROVE  Agreed'
<1>1. auto'[Root] = u[2]
  BY Distinct DEF StoreLevel, PermissionTypeOK, LevelsOK
<1>2. sets \in Nat /\ \A v \in updates : v[1] \in Nat
  BY DEF PermissionTypeOK, LevelsOK
<1>3. CASE u[1] = sets /\ setting = None
  BY <1>1, <1>2, <1>3 DEF Agreed, StoreLevel
<1>4. CASE u[1] # sets \/ setting # None
  BY <1>1, <1>2, <1>4 DEF Agreed, StoreLevel
<1> QED
  BY <1>3, <1>4

LEMMA AroundAgreed ==
  ASSUME PermissionTypeOK, Agreed, NEW s \in Session, Around(s)
  PROVE  Agreed'
<1>1. CASE Prepare(s)
  BY <1>1, Distinct DEF Agreed, Prepare, PermissionTypeOK, LevelsOK
<1>2. CASE Enter(s)
  BY <1>2, Distinct DEF Agreed, Enter, PermissionTypeOK, LevelsOK
<1>3. CASE Leave(s)
  BY <1>3, Distinct DEF Agreed, Leave, PermissionTypeOK, LevelsOK
<1> QED
  BY <1>1, <1>2, <1>3 DEF Around

LEMMA NextAgreed ==
  PermissionTypeOK /\ Agreed /\ [PermissionNext]_permission => Agreed'
<1> SUFFICES ASSUME PermissionTypeOK, Agreed, [PermissionNext]_permission PROVE Agreed'
  OBVIOUS
<1>1. CASE Terminal
  <2>1. CASE Show
    BY <2>1, AgreedFrame DEF Show, levels
  <2>2. CASE Yolo
    BY <2>2, SetLevelAgreed DEF Yolo, Reply, Level
  <2>3. CASE Toggle
    BY <2>3, SetLevelAgreed DEF Toggle, Level
  <2>4. ASSUME NEW answer \in {"once", "always", "no"}, Choose(answer) PROVE Agreed'
    BY <2>4, AgreedFrame DEF Choose, Reply, levels
  <2> QED
    BY <1>1, <2>1, <2>2, <2>3, <2>4 DEF Terminal
<1>2. CASE Update
  BY <1>2, SpawnUpdateAgreed, StoreLevelAgreed DEF Update
<1>3. ASSUME NEW s \in Session, Check(s) PROVE Agreed'
  BY <1>3, AgreedFrame
  DEF Check, Request, Answered, TimesOut, Cancelled, Settle, levels
<1>4. ASSUME NEW s \in Session, Around(s) PROVE Agreed'
  BY <1>4, AroundAgreed
<1>5. ASSUME NEW s \in Session \ {Root}, Below(s) PROVE Agreed'
  <2>1. row'[Root] = row[Root]
    BY <1>5, Distinct DEF Below, Create, Listen, Relay, Unlisten, levels, PermissionTypeOK, LevelsOK
  <2> QED
    BY <1>5, <2>1, AgreedFrame DEF Below, Create, Listen, Relay, Unlisten, levels
<1>6. CASE UNCHANGED permission
  BY <1>6, AgreedFrame DEF permission, levels
<1> QED
  BY <1>1, <1>2, <1>3, <1>4, <1>5, <1>6 DEF PermissionNext

\* The live level is the row's once nothing is under way, but for changes that
\* crossed the building of the agent or each other.
THEOREM LevelInStep == PermissionSpec => []LevelFollows
<1>1. PermissionTypeOK /\ Agreed => LevelFollows
  BY DEF Agreed, LevelFollows, PermissionTypeOK, LevelsOK
<1> QED
  BY <1>1, InitTypes, NextTypes, InitAgreed, NextAgreed, PTL DEF PermissionSpec


-----------------------------------------------------------------------------
(***************************************************************************)
(* The life of a request: what holds of request r and its two events.      *)
(***************************************************************************)

\* Before it is asked nothing is known of it.
Untold(r) ==
  outcome[r] = "unasked" =>
    /\ owner[r] = None /\ said[r] = "nothing" /\ pending # r
    /\ ~Underway(Ask(r)) /\ ~Underway(Ack(r))

\* As long as it is open it is not acknowledged.
Unacked(r) == outcome[r] = "open" => ~Underway(Ack(r))

\* A waiting task hears of it only if the task waits for its owner, a child.
OwnLane(r) ==
  \A s \in Session : Has(heard[s], Ask(r)) \/ Has(heard[s], Ack(r)) => owner[r] = s /\ s # Root

\* It is on its way to the terminal once, and not after it was shown.
AskedOnce(r) ==
  /\ Once(stream, Ask(r))
  /\ \A s \in Session : Once(heard[s], Ask(r))
  /\ Has(stream, Ask(r)) => \A s \in Session : ~Has(heard[s], Ask(r))
  /\ pending = r \/ said[r] # "nothing" => ~Underway(Ask(r))
  /\ pending = r => said[r] = "nothing"

\* Its ack does not overtake it.
InOrder(r) ==
  /\ Before(stream, Ask(r), Ack(r))
  /\ \A s \in Session : Before(heard[s], Ask(r), Ack(r))
  /\ Has(stream, Ack(r)) => \A s \in Session : ~Has(heard[s], Ask(r))

\* A decided request that is still to be shown has its ack behind it.
Followed(r) ==
  r \notin unheard /\ outcome[r] \notin {"unasked", "open"} /\ Underway(Ask(r)) =>
    Underway(Ack(r))

\* PromptsTracked and AnswerCounts, for one request.
Tracked(r) ==
  r \notin unheard =>
    /\ outcome[r] = "open" => Underway(Ask(r)) \/ pending = r \/ said[r] # "nothing"
    /\ pending = r => outcome[r] = "open" \/ Underway(Ack(r))

Counts(r) ==
  /\ outcome[r] = "approved" => said[r] \in {"once", "always"}
  /\ outcome[r] = "denied" => said[r] \in {"no", "displaced"}

Life(r) ==
  /\ Untold(r) /\ Unacked(r) /\ OwnLane(r) /\ AskedOnce(r)
  /\ InOrder(r) /\ Followed(r) /\ Tracked(r) /\ Counts(r)

\* A session waits for an open request of its own ...
Waits(s) == ask[s] # None => owner[ask[s]] = s /\ outcome[ask[s]] = "open"

\* ... and remembers what it was told to.
Remembers(s) ==
  remembered[s] # 0 =>
    \E r \in Req : /\ owner[r] = s
                   /\ said[r] = "always"
                   /\ outcome[r] = "approved"
                   /\ level[r] = remembered[s]

Lives == /\ \A r \in Req : Life(r)
         /\ \A s \in Session : Waits(s) /\ Remembers(s)

\* The step leaves r and its events where they are.
Untouched(r) ==
  /\ outcome'[r] = outcome[r]
  /\ owner'[r] = owner[r]
  /\ said'[r] = said[r]
  /\ pending' = r <=> pending = r
  /\ r \in unheard => r \in unheard'
  /\ \A e \in {Ask(r), Ack(r)} :
       /\ Has(stream', e) <=> Has(stream, e)
       /\ \A s \in Session : Has(heard'[s], e) <=> Has(heard[s], e)
  /\ Once(stream, Ask(r)) => Once(stream', Ask(r))
  /\ \A s \in Session : Once(heard[s], Ask(r)) => Once(heard'[s], Ask(r))
  /\ Before(stream, Ask(r), Ack(r)) => Before(stream', Ask(r), Ack(r))
  /\ \A s \in Session : Before(heard[s], Ask(r), Ack(r)) => Before(heard'[s], Ask(r), Ack(r))

LEMMA UnderwayHas ==
  /\ \A e : Underway(e) <=> Has(stream, e) \/ \E s \in Session : Has(heard[s], e)
  /\ \A e : Underway(e)' <=> Has(stream', e) \/ \E s \in Session : Has(heard'[s], e)
  BY DEF Underway, Has

LEMMA UntouchedLife ==
  ASSUME NEW r \in Req, Life(r), Untouched(r)
  PROVE  Life(r)'
<1>1. /\ Underway(Ask(r))' <=> Underway(Ask(r))
      /\ Underway(Ack(r))' <=> Underway(Ack(r))
  BY UnderwayHas DEF Untouched, Ask, Ack
<1>2. Untold(r)' /\ Unacked(r)'
  BY <1>1 DEF Life, Untouched, Untold, Unacked, Ask, Ack
<1>3. OwnLane(r)'
  BY DEF Life, Untouched, OwnLane, Ask, Ack
<1>4. AskedOnce(r)'
  BY <1>1 DEF Life, Untouched, AskedOnce, Ask, Ack
<1>5. InOrder(r)'
  BY DEF Life, Untouched, InOrder, Ask, Ack
<1>6. Followed(r)' /\ Tracked(r)' /\ Counts(r)'
  BY <1>1 DEF Life, Untouched, Followed, Tracked, Counts, Ask, Ack
<1> QED
  BY <1>2, <1>3, <1>4, <1>5, <1>6 DEF Life

LEMMA GrowQueue ==
  ASSUME NEW q \in Seq(Event), NEW p, NEW e \in Event, NEW grows \in BOOLEAN,
         p = IF grows THEN Append(q, e) ELSE q
  PROVE  /\ \A f : Has(p, f) <=> Has(q, f) \/ (grows /\ f = e)
         /\ \A f : Once(q, f) /\ (f = e => ~Has(q, f)) => Once(p, f)
         /\ \A d, f : Before(q, d, f) /\ (e = d => ~Has(q, f)) /\ d # f => Before(p, d, f)
<1>1. CASE grows
  <2>1. p = Append(q, e)
    BY <1>1
  <2>2. /\ \A f : Has(p, f) <=> Has(q, f) \/ e = f
        /\ \A f : Once(q, f) /\ (e = f => ~Has(q, f)) => Once(p, f)
        /\ \A d, f : Before(q, d, f) /\ (e = d => ~Has(q, f)) /\ d # f => Before(p, d, f)
    BY <2>1, AppendQueue
  <2> QED
    BY <1>1, <2>2
<1>2. CASE ~grows
  BY <1>2
<1> QED
  BY <1>1, <1>2

\* Where a new event of session s comes to.
LEMMA EmitHas ==
  ASSUME LanesOK, NEW s \in Session, NEW e \in Event, Emit(s, e)
  PROVE  /\ \A f : Has(stream', f) <=> Has(stream, f) \/ (s = Root /\ f = e)
         /\ \A t \in Session : \A f :
              Has(heard'[t], f) <=> Has(heard[t], f) \/ (t = s /\ s \in listening /\ f = e)
         /\ \A f : Once(stream, f) /\ (f = e => ~Has(stream, f)) => Once(stream', f)
         /\ \A t \in Session : \A f :
              Once(heard[t], f) /\ (f = e => ~Has(heard[t], f)) => Once(heard'[t], f)
         /\ \A d, f : Before(stream, d, f) /\ (e = d => ~Has(stream, f)) /\ d # f
                        => Before(stream', d, f)
         /\ \A t \in Session : \A d, f :
              Before(heard[t], d, f) /\ (e = d => ~Has(heard[t], f)) /\ d # f
                => Before(heard'[t], d, f)
<1>1. /\ stream \in Seq(Event)
      /\ \A t \in Session : heard[t] \in Seq(Event)
      /\ heard \in [Session -> Seq(Event)]
  BY DEF LanesOK
<1>2. stream' = IF s = Root THEN Append(stream, e) ELSE stream
  BY DEF Emit
<1>3. ASSUME NEW t \in Session
      PROVE  heard'[t] = IF t = s /\ s \in listening THEN Append(heard[t], e) ELSE heard[t]
  BY <1>1 DEF Emit
<1>4. /\ \A f : Has(stream', f) <=> Has(stream, f) \/ (s = Root /\ f = e)
      /\ \A f : Once(stream, f) /\ (f = e => ~Has(stream, f)) => Once(stream', f)
      /\ \A d, f : Before(stream, d, f) /\ (e = d => ~Has(stream, f)) /\ d # f
                        => Before(stream', d, f)
  <2> DEFINE here == s = Root
  <2>1. here \in BOOLEAN /\ stream' = IF here THEN Append(stream, e) ELSE stream
    BY <1>2
  <2> HIDE DEF here
  <2>2. /\ \A f : Has(stream', f) <=> Has(stream, f) \/ (here /\ f = e)
        /\ \A f : Once(stream, f) /\ (f = e => ~Has(stream, f)) => Once(stream', f)
        /\ \A d, f : Before(stream, d, f) /\ (e = d => ~Has(stream, f)) /\ d # f
                        => Before(stream', d, f)
    BY <1>1, <2>1, GrowQueue
  <2> QED
    BY <2>2 DEF here
<1>5. ASSUME NEW t \in Session
      PROVE  /\ \A f : Has(heard'[t], f) <=> Has(heard[t], f) \/ (t = s /\ s \in listening /\ f = e)
             /\ \A f : Once(heard[t], f) /\ (f = e => ~Has(heard[t], f)) => Once(heard'[t], f)
             /\ \A d, f : Before(heard[t], d, f) /\ (e = d => ~Has(heard[t], f)) /\ d # f
                            => Before(heard'[t], d, f)
  <2> DEFINE here == t = s /\ s \in listening
  <2>1. here \in BOOLEAN /\ heard'[t] = IF here THEN Append(heard[t], e) ELSE heard[t]
    BY <1>3
  <2> HIDE DEF here
  <2>2. /\ \A f : Has(heard'[t], f) <=> Has(heard[t], f) \/ (here /\ f = e)
        /\ \A f : Once(heard[t], f) /\ (f = e => ~Has(heard[t], f)) => Once(heard'[t], f)
        /\ \A d, f : Before(heard[t], d, f) /\ (e = d => ~Has(heard[t], f)) /\ d # f
                            => Before(heard'[t], d, f)
    BY <1>1, <2>1, GrowQueue
  <2> QED
    BY <2>2 DEF here
<1> QED
  BY <1>4, <1>5


LEMMA EmitUntouched ==
  ASSUME LanesOK, NEW s \in Session, NEW e \in Event, Emit(s, e),
         NEW r \in Req, e # Ask(r), e # Ack(r),
         outcome'[r] = outcome[r], owner'[r] = owner[r], said'[r] = said[r],
         pending' = r <=> pending = r, r \in unheard => r \in unheard'
  PROVE  Untouched(r)
<1>1. ASSUME NEW f \in {Ask(r), Ack(r)}
      PROVE  /\ Has(stream', f) <=> Has(stream, f)
             /\ \A t \in Session : Has(heard'[t], f) <=> Has(heard[t], f)
  BY EmitHas
<1>2. /\ Once(stream, Ask(r)) => Once(stream', Ask(r))
      /\ \A t \in Session : Once(heard[t], Ask(r)) => Once(heard'[t], Ask(r))
  BY EmitHas
<1>3. /\ Before(stream, Ask(r), Ack(r)) => Before(stream', Ask(r), Ack(r))
      /\ \A t \in Session : Before(heard[t], Ask(r), Ack(r)) => Before(heard'[t], Ask(r), Ack(r))
  BY EmitHas, Distinct
<1> QED
  BY <1>1, <1>2, <1>3 DEF Untouched

LEMMA InitLives == PermissionInit => Lives
<1> SUFFICES ASSUME PermissionInit PROVE Lives
  OBVIOUS
<1>1. \A e : ~Has(stream, e) /\ \A s \in Session : ~Has(heard[s], e)
  BY EmptyQueue DEF PermissionInit
<1>2. ASSUME NEW r \in Req PROVE Life(r)
  <2>1. ~Underway(Ask(r)) /\ ~Underway(Ack(r))
    BY <1>1, UnderwayHas
  <2>2. outcome[r] = "unasked" /\ owner[r] = None /\ said[r] = "nothing" /\ pending # r
    BY Distinct DEF PermissionInit
  <2>3. /\ Once(stream, Ask(r)) /\ Before(stream, Ask(r), Ack(r))
        /\ \A s \in Session : Once(heard[s], Ask(r)) /\ Before(heard[s], Ask(r), Ack(r))
    BY EmptyQueue DEF PermissionInit
  <2> QED
    BY <1>1, <2>1, <2>2, <2>3
    DEF Life, Untold, Unacked, OwnLane, AskedOnce, InOrder, Followed, Tracked, Counts
<1>3. \A s \in Session : Waits(s) /\ Remembers(s)
  BY DEF PermissionInit, Waits, Remembers
<1> QED
  BY <1>2, <1>3 DEF Lives

-----------------------------------------------------------------------------
(***************************************************************************)
(* The steps of the checker.                                               *)
(***************************************************************************)
LEMMA RequestLives ==
  ASSUME PermissionTypeOK, Lives, NEW s \in Session, NEW p \in Req, NEW l \in Level,
         Request(s, p, l)
  PROVE  Lives'
<1>0. LanesOK /\ Ask(p) \in Event /\ Emit(s, Ask(p)) /\ outcome[p] = "unasked" /\ ask[s] = None
  BY Distinct DEF PermissionTypeOK, Request
<1>1. /\ outcome' = [outcome EXCEPT ![p] = "open"]
      /\ owner' = [owner EXCEPT ![p] = s]
      /\ level' = [level EXCEPT ![p] = l]
      /\ ask' = [ask EXCEPT ![s] = p]
      /\ UNCHANGED <<said, pending, remembered>>
      /\ unheard \subseteq unheard'
      /\ s = Root \/ s \in listening \/ p \in unheard'
  BY DEF Request, Unheard, levels, PermissionTypeOK, RequestsOK
<1>2. /\ outcome'[p] = "open" /\ owner'[p] = s
      /\ \A r \in Req \ {p} : outcome'[r] = outcome[r] /\ owner'[r] = owner[r] /\ level'[r] = level[r]
      /\ ask'[s] = p
      /\ \A t \in Session \ {s} : ask'[t] = ask[t]
  BY <1>1 DEF PermissionTypeOK, RequestsOK
<1>3. ASSUME NEW r \in Req, r # p PROVE Life(r)'
  <2>1. Ask(p) # Ask(r) /\ Ask(p) # Ack(r)
    BY <1>3, Distinct
  <2> QED
    BY <1>0, <1>1, <1>2, <1>3, <2>1, EmitUntouched, UntouchedLife DEF Lives
<1>4. Life(p)'
  <2>1. /\ said[p] = "nothing" /\ pending # p
        /\ ~Has(stream, Ask(p)) /\ ~Has(stream, Ack(p))
        /\ \A t \in Session : ~Has(heard[t], Ask(p)) /\ ~Has(heard[t], Ack(p))
        /\ Life(p)
    BY <1>0, UnderwayHas DEF Lives, Life, Untold
  <2>2. /\ Has(stream', Ask(p)) <=> s = Root
        /\ ~Has(stream', Ack(p))
        /\ \A t \in Session : Has(heard'[t], Ask(p)) <=> t = s /\ s \in listening
        /\ \A t \in Session : ~Has(heard'[t], Ack(p))
    BY <1>0, <2>1, EmitHas, Distinct
  <2>3. /\ Once(stream', Ask(p)) /\ Before(stream', Ask(p), Ack(p))
        /\ \A t \in Session : Once(heard'[t], Ask(p)) /\ Before(heard'[t], Ask(p), Ack(p))
    BY <1>0, <2>1, EmitHas, Distinct DEF Life, AskedOnce, InOrder
  <2>4. Underway(Ask(p))' \/ p \in unheard'
    BY <1>0, <1>1, <2>2, UnderwayHas
  <2>5. ~Underway(Ack(p))'
    BY <2>2, UnderwayHas
  <2>6. Root \notin listening
    BY DEF PermissionTypeOK, LanesOK
  <2>7. Untold(p)' /\ Unacked(p)' /\ Counts(p)' /\ Followed(p)'
    BY <1>2, <2>5 DEF Untold, Unacked, Counts, Followed
  <2>8. OwnLane(p)' /\ InOrder(p)'
    BY <1>2, <2>2, <2>3, <2>6 DEF OwnLane, InOrder
  <2>9. AskedOnce(p)'
    BY <1>1, <2>1, <2>2, <2>3, <2>6 DEF AskedOnce
  <2>10. Tracked(p)'
    BY <1>1, <1>2, <2>1, <2>4 DEF Tracked
  <2> QED
    BY <2>7, <2>8, <2>9, <2>10 DEF Life
<1>5. ASSUME NEW t \in Session PROVE Waits(t)' /\ Remembers(t)'
  <2>1. Waits(t) /\ Remembers(t)
    BY DEF Lives
  <2>2. Waits(t)'
    <3>1. CASE t = s
      BY <3>1, <1>2 DEF Waits
    <3>2. CASE t # s
      <4>1. ask'[t] = ask[t] /\ (ask[t] # None => ask[t] \in Req)
        BY <1>2, <3>2 DEF PermissionTypeOK, RequestsOK
      <4>2. ask[t] # p
        BY <1>0, <2>1, Distinct DEF Waits
      <4> QED
        BY <1>2, <2>1, <4>1, <4>2 DEF Waits
    <3> QED
      BY <3>1, <3>2
  <2>3. Remembers(t)'
    BY <1>0, <1>1, <1>2, <2>1 DEF Remembers
  <2> QED
    BY <2>2, <2>3
<1> QED
  BY <1>3, <1>4, <1>5 DEF Lives

LEMMA SettleLives ==
  ASSUME PermissionTypeOK, Lives, NEW s \in Session,
         NEW end \in {"approved", "denied", "lapsed"}, Settle(s, end),
         end = "approved" => said[ask[s]] \in {"once", "always"},
         end = "denied" => said[ask[s]] \in {"no", "displaced"},
         \/ UNCHANGED remembered
         \/ /\ end = "approved" /\ said[ask[s]] = "always"
            /\ remembered' = [remembered EXCEPT ![s] = level[ask[s]]]
  PROVE  Lives'
<1> PICK p \in Req : p = ask[s]
  BY DEF PermissionTypeOK, RequestsOK, Settle
<1>0. /\ LanesOK /\ p \in Req /\ Ack(p) \in Event /\ Emit(s, Ack(p))
      /\ owner[p] = s /\ outcome[p] = "open" /\ Life(p)
  BY Distinct DEF PermissionTypeOK, RequestsOK, Settle, Acks, Lives, Waits
<1>1. /\ outcome' = [outcome EXCEPT ![p] = end]
      /\ ask' = [ask EXCEPT ![s] = None]
      /\ UNCHANGED <<said, pending, owner, level>>
      /\ unheard \subseteq unheard'
      /\ s = Root \/ s \in listening \/ p \in unheard'
  BY DEF Settle, Unheard, PermissionTypeOK, RequestsOK
<1>2. /\ outcome'[p] = end
      /\ \A r \in Req \ {p} : outcome'[r] = outcome[r]
      /\ ask'[s] = None
      /\ \A t \in Session \ {s} : ask'[t] = ask[t]
  BY <1>0, <1>1 DEF PermissionTypeOK, RequestsOK
<1>3. ASSUME NEW r \in Req, r # p PROVE Life(r)'
  <2>1. Ack(p) # Ask(r) /\ Ack(p) # Ack(r)
    BY <1>0, <1>3, Distinct
  <2> QED
    BY <1>0, <1>1, <1>2, <1>3, <2>1, EmitUntouched, UntouchedLife DEF Lives
<1>4. Life(p)'
  <2>1. /\ Has(stream', Ask(p)) <=> Has(stream, Ask(p))
        /\ Has(stream', Ack(p)) <=> Has(stream, Ack(p)) \/ s = Root
        /\ \A t \in Session : Has(heard'[t], Ask(p)) <=> Has(heard[t], Ask(p))
        /\ \A t \in Session : Has(heard'[t], Ack(p)) <=> Has(heard[t], Ack(p)) \/ (t = s /\ s \in listening)
    BY <1>0, EmitHas, Distinct
  <2>2. /\ Once(stream', Ask(p)) /\ Before(stream', Ask(p), Ack(p))
        /\ \A t \in Session : Once(heard'[t], Ask(p)) /\ Before(heard'[t], Ask(p), Ack(p))
    BY <1>0, EmitHas, Distinct DEF Life, AskedOnce, InOrder
  <2>3. Underway(Ask(p))' <=> Underway(Ask(p))
    BY <2>1, UnderwayHas
  <2>4. Underway(Ack(p))' \/ p \in unheard'
    BY <1>0, <1>1, <2>1, UnderwayHas
  <2>5. ~Has(stream, Ack(p))
    BY <1>0, UnderwayHas DEF Life, Unacked
  <2>6. s = Root => \A t \in Session : ~Has(heard[t], Ask(p))
    BY <1>0 DEF Life, OwnLane
  <2>7. Untold(p)' /\ Unacked(p)' /\ Counts(p)'
    BY <1>0, <1>1, <1>2 DEF Untold, Unacked, Counts
  <2>8. OwnLane(p)'
    BY <1>0, <1>1, <2>1 DEF Life, OwnLane, PermissionTypeOK, LanesOK
  <2>9. AskedOnce(p)'
    BY <1>0, <1>1, <2>1, <2>2, <2>3 DEF Life, AskedOnce
  <2>10. InOrder(p)'
    BY <1>0, <2>1, <2>2, <2>6 DEF Life, InOrder
  <2>11. Followed(p)' /\ Tracked(p)'
    BY <1>0, <1>2, <2>4 DEF Followed, Tracked
  <2> QED
    BY <2>7, <2>8, <2>9, <2>10, <2>11 DEF Life
<1>5. ASSUME NEW t \in Session PROVE Waits(t)' /\ Remembers(t)'
  <2>1. Waits(t) /\ Remembers(t)
    BY DEF Lives
  <2>2. Waits(t)'
    <3>1. CASE t = s
      BY <3>1, <1>2 DEF Waits
    <3>2. CASE t # s
      <4>1. ask'[t] = ask[t] /\ (ask[t] # None => ask[t] \in Req /\ ask[t] # p)
        BY <1>0, <1>2, <2>1, <3>2 DEF PermissionTypeOK, RequestsOK, Waits
      <4> QED
        BY <1>1, <1>2, <2>1, <4>1 DEF Waits
    <3> QED
      BY <3>1, <3>2
  <2>3. Remembers(t)'
    <3>1. CASE remembered'[t] = remembered[t]
      BY <1>0, <1>1, <1>2, <2>1, <3>1 DEF Remembers
    <3>2. CASE remembered'[t] # remembered[t]
      <4>1. /\ end = "approved" /\ said[p] = "always"
            /\ t = s /\ remembered'[t] = level[p]
        BY <3>2 DEF PermissionTypeOK, LevelsOK
      <4>2. owner'[p] = t /\ said'[p] = "always" /\ outcome'[p] = "approved" /\ level'[p] = remembered'[t]
        BY <1>0, <1>1, <1>2, <4>1
      <4> QED
        BY <4>2 DEF Remembers
    <3> QED
      BY <3>1, <3>2
  <2> QED
    BY <2>2, <2>3
<1> QED
  BY <1>3, <1>4, <1>5 DEF Lives

LEMMA CheckLives ==
  ASSUME PermissionTypeOK, Lives, NEW s \in Session, Check(s)
  PROVE  Lives'
<1>1. ASSUME NEW r \in Req, NEW l \in Level \ {0}, Request(s, r, l) PROVE Lives'
  BY <1>1, RequestLives
<1>2. CASE Answered(s)
  <2>1. PICK r \in Req :
          /\ Mine(s, r)
          /\ Settle(s, IF said[r] \in {"once", "always"} THEN "approved" ELSE "denied")
          /\ remembered' = IF said[r] = "always" /\ level[ask[s]] > remembered[s]
                           THEN [remembered EXCEPT ![s] = level[ask[s]]] ELSE remembered
    BY <1>2 DEF Answered
  <2>2. ask[s] = r /\ said[r] \in {"once", "always", "no", "displaced"}
    BY <2>1 DEF Mine, PermissionTypeOK, RequestsOK
  <2>3. CASE said[r] \in {"once", "always"}
    BY <2>1, <2>2, <2>3, SettleLives
  <2>4. CASE said[r] \in {"no", "displaced"}
    BY <2>1, <2>2, <2>4, SettleLives
  <2> QED
    BY <2>2, <2>3, <2>4
<1>3. CASE TimesOut(s) \/ Cancelled(s)
  BY <1>3, SettleLives DEF TimesOut, Cancelled
<1> QED
  BY <1>1, <1>2, <1>3 DEF Check

-----------------------------------------------------------------------------
(***************************************************************************)
(* The steps of the terminal.                                              *)
(***************************************************************************)

\* What a session waits for and remembers stays, with the outcomes, if
\* nothing is told to a request that was decided.
LEMMA SessionsStay ==
  ASSUME PermissionTypeOK, Lives, UNCHANGED <<ask, outcome, level, owner>>,
         \A s \in Session : remembered'[s] \in {0, remembered[s]},
         \A r \in Req : said'[r] = said[r] \/ said[r] = "nothing"
  PROVE  \A s \in Session : Waits(s)' /\ Remembers(s)'
<1> SUFFICES ASSUME NEW s \in Session PROVE Waits(s)' /\ Remembers(s)'
  OBVIOUS
<1>1. Waits(s) /\ Remembers(s)
  BY DEF Lives
<1>2. Waits(s)'
  BY <1>1 DEF Waits
<1>3. Remembers(s)'
  <2>1. CASE remembered'[s] = 0
    BY <2>1 DEF Remembers
  <2>2. CASE remembered'[s] = remembered[s] /\ remembered[s] # 0
    <3>1. PICK r \in Req : /\ owner[r] = s
                           /\ said[r] = "always"
                           /\ outcome[r] = "approved"
                           /\ level[r] = remembered[s]
      BY <1>1, <2>2 DEF Remembers
    <3>2. said'[r] = "always"
      BY <3>1
    <3>3. owner'[r] = s /\ outcome'[r] = "approved" /\ level'[r] = remembered'[s]
      BY <2>2, <3>1
    <3> QED
      BY <3>2, <3>3 DEF Remembers
  <2> QED
    BY <2>1, <2>2
<1> QED
  BY <1>2, <1>3

LEMMA AskOrAck ==
  ASSUME NEW e \in Event
  PROVE  \E r \in Req : e = IF e.kind = "ask" THEN Ask(r) ELSE Ack(r)
<1>1. e.kind \in {"ask", "ack"} /\ e.req \in Req /\ e = [kind |-> e.kind, req |-> e.req]
  BY DEF Event
<1>2. e = IF e.kind = "ask" THEN Ask(e.req) ELSE Ack(e.req)
  BY <1>1 DEF Ask, Ack
<1> QED
  BY <1>1, <1>2

LEMMA ShowAskLives ==
  ASSUME PermissionTypeOK, Lives, Show, Head(stream).kind = "ask"
  PROVE  Lives'
<1>a. Head(stream) \in Event
  BY TailQueue DEF PermissionTypeOK, LanesOK, Show
<1> PICK p \in Req : Head(stream) = Ask(p)
  BY <1>a, AskOrAck
<1>0. /\ stream \in Seq(Event) /\ stream # <<>> /\ stream' = Tail(stream)
      /\ pending' = p /\ said' = Displaces(p)
      /\ UNCHANGED <<ask, outcome, level, owner, heard, unheard, remembered>>
  BY DEF Show, PermissionTypeOK, LanesOK, levels, Ask
<1>1. /\ \A e : Has(stream, e) <=> Ask(p) = e \/ Has(stream', e)
      /\ \A e : Once(stream, e) => Once(stream', e) /\ (Ask(p) = e => ~Has(stream', e))
      /\ \A d, e : Before(stream, d, e) => Before(stream', d, e)
  BY <1>0, TailQueue
<1>2. Life(p) /\ pending # p /\ said[p] = "nothing" /\ outcome[p] # "unasked"
  BY <1>1, UnderwayHas DEF Lives, Life, AskedOnce, Untold
<1>3. \A r \in Req : said'[r] = IF r = pending THEN "displaced" ELSE said[r]
  BY <1>0, Distinct DEF Displaces, PermissionTypeOK, RequestsOK
<1>4. ASSUME NEW r \in Req, r # p
      PROVE  /\ \A e \in {Ask(r), Ack(r)} : Has(stream', e) <=> Has(stream, e)
             /\ Once(stream', Ask(r)) /\ Before(stream', Ask(r), Ack(r))
             /\ Life(r)
  BY <1>1, <1>4, Distinct DEF Lives, Life, AskedOnce, InOrder
<1>5. ASSUME NEW r \in Req, r # p, r # pending PROVE Life(r)'
  <2>1. Untouched(r)
    BY <1>0, <1>3, <1>4, <1>5 DEF Untouched
  <2> QED
    BY <1>4, <1>5, <2>1, UntouchedLife
<1>6. ASSUME NEW r \in Req, r # p, r = pending PROVE Life(r)'
  <2>1. said[r] = "nothing" /\ said'[r] = "displaced" /\ pending' # r /\ ~Underway(Ask(r))
    BY <1>0, <1>3, <1>4, <1>6 DEF Life, AskedOnce
  <2>2. (Underway(Ask(r))' <=> Underway(Ask(r))) /\ (Underway(Ack(r))' <=> Underway(Ack(r)))
    BY <1>0, <1>4, <1>6, UnderwayHas
  <2>3. outcome[r] \notin {"unasked", "approved", "denied"}
    BY <1>4, <1>6, <2>1 DEF Life, Untold, Counts
  <2>4. Untold(r)' /\ Unacked(r)' /\ Followed(r)' /\ Tracked(r)' /\ Counts(r)'
    BY <1>0, <1>4, <1>6, <2>1, <2>2, <2>3
    DEF Life, Untold, Unacked, Followed, Tracked, Counts
  <2>5. OwnLane(r)' /\ AskedOnce(r)' /\ InOrder(r)'
    BY <1>0, <1>4, <1>6, <2>1, <2>2 DEF Life, OwnLane, AskedOnce, InOrder
  <2> QED
    BY <2>4, <2>5 DEF Life
<1>7. Life(p)'
  <2>1. said'[p] = "nothing" /\ outcome'[p] = outcome[p] /\ pending' = p
    BY <1>0, <1>2, <1>3
  <2>2. ~Has(stream', Ask(p)) /\ \A s \in Session : ~Has(heard'[s], Ask(p))
    BY <1>0, <1>1, <1>2 DEF Life, AskedOnce
  <2>3. ~Underway(Ask(p))' /\ (Underway(Ack(p))' <=> Underway(Ack(p)))
    BY <1>0, <1>1, <2>2, UnderwayHas, Distinct
  <2>4. Underway(Ask(p))
    BY <1>1, UnderwayHas
  <2>5. Untold(p)' /\ Unacked(p)' /\ Followed(p)' /\ Counts(p)'
    BY <1>0, <1>2, <2>1, <2>3 DEF Life, Untold, Unacked, Followed, Counts
  <2>6. Tracked(p)'
    BY <1>0, <1>2, <2>1, <2>3, <2>4 DEF Life, Tracked, Followed
  <2>7. OwnLane(p)' /\ AskedOnce(p)' /\ InOrder(p)'
    BY <1>0, <1>1, <1>2, <2>1, <2>2, <2>3, Distinct DEF Life, OwnLane, AskedOnce, InOrder
  <2> QED
    BY <2>5, <2>6, <2>7 DEF Life
<1>8. \A s \in Session : Waits(s)' /\ Remembers(s)'
  <2>1. \A r \in Req : said'[r] = said[r] \/ said[r] = "nothing"
    BY <1>3 DEF Lives, Life, AskedOnce
  <2> QED
    BY <1>0, <2>1, SessionsStay
<1> QED
  BY <1>5, <1>6, <1>7, <1>8 DEF Lives

LEMMA ShowAckLives ==
  ASSUME PermissionTypeOK, Lives, Show, Head(stream).kind # "ask"
  PROVE  Lives'
<1>a. Head(stream) \in Event
  BY TailQueue DEF PermissionTypeOK, LanesOK, Show
<1> PICK p \in Req : Head(stream) = Ack(p)
  BY <1>a, AskOrAck
<1>0. /\ stream \in Seq(Event) /\ stream # <<>> /\ stream' = Tail(stream)
      /\ pending' = IF pending = p THEN None ELSE pending
      /\ UNCHANGED <<ask, outcome, level, owner, said, heard, unheard, remembered>>
  BY DEF Show, PermissionTypeOK, LanesOK, levels, Ack
<1>1. /\ \A e : Has(stream, e) <=> Ack(p) = e \/ Has(stream', e)
      /\ \A e : Once(stream, e) => Once(stream', e)
      /\ \A d, e : Before(stream, d, e) =>
            Before(stream', d, e) /\ (Ack(p) = e => ~Has(stream', d))
  BY <1>0, TailQueue
<1>2. Life(p) /\ Underway(Ack(p))
  BY <1>1, UnderwayHas DEF Lives
<1>3. ASSUME NEW r \in Req, r # p PROVE Life(r)'
  <2>1. \A e \in {Ask(r), Ack(r)} : Has(stream', e) <=> Has(stream, e)
    BY <1>1, <1>3, Distinct
  <2>2. Untouched(r)
    BY <1>0, <1>1, <1>3, <2>1, Distinct DEF Untouched
  <2> QED
    BY <2>2, UntouchedLife DEF Lives
<1>4. Life(p)'
  <2>1. ~Has(stream', Ask(p)) /\ \A s \in Session : ~Has(heard'[s], Ask(p))
    BY <1>0, <1>1, <1>2 DEF Life, InOrder
  <2>2. ~Underway(Ask(p))'
    BY <2>1, UnderwayHas
  <2>3. outcome'[p] \notin {"unasked", "open"} /\ pending' # p
    BY <1>0, <1>2, Distinct DEF Life, Unacked, Untold
  <2>4. Untold(p)' /\ Unacked(p)' /\ Followed(p)' /\ Tracked(p)' /\ Counts(p)'
    BY <1>0, <1>2, <2>2, <2>3 DEF Life, Untold, Unacked, Followed, Tracked, Counts
  <2>5. OwnLane(p)' /\ AskedOnce(p)' /\ InOrder(p)'
    BY <1>0, <1>1, <1>2, <2>1, <2>2, <2>3 DEF Life, OwnLane, AskedOnce, InOrder
  <2> QED
    BY <2>4, <2>5 DEF Life
<1>5. \A s \in Session : Waits(s)' /\ Remembers(s)'
  BY <1>0, SessionsStay
<1> QED
  BY <1>3, <1>4, <1>5 DEF Lives

LEMMA ReplyLives ==
  ASSUME PermissionTypeOK, Lives, NEW answer \in {"once", "always", "no"}, Reply(answer),
         UNCHANGED remembered
  PROVE  Lives'
<1> PICK p \in Req : p = pending
  BY DEF PermissionTypeOK, RequestsOK, Reply
<1>0. /\ pending' = None /\ said'[p] = answer
      /\ \A r \in Req \ {p} : said'[r] = said[r]
      /\ UNCHANGED <<ask, outcome, level, owner, stream, heard, unheard, remembered>>
  BY DEF Reply, PermissionTypeOK, RequestsOK, lanes
<1>1. Life(p) /\ said[p] = "nothing" /\ ~Underway(Ask(p))
  BY DEF Lives, Life, AskedOnce
<1>2. ASSUME NEW r \in Req, r # p PROVE Life(r)'
  <2>1. Untouched(r)
    BY <1>0, <1>2, Distinct DEF Untouched
  <2> QED
    BY <2>1, UntouchedLife DEF Lives
<1>3. Life(p)'
  <2>1. pending' # p /\ said'[p] # "nothing"
    BY <1>0, Distinct
  <2>2. (Underway(Ask(p))' <=> Underway(Ask(p))) /\ (Underway(Ack(p))' <=> Underway(Ack(p)))
    BY <1>0, UnderwayHas
  <2>3. outcome[p] \notin {"unasked", "approved", "denied"}
    BY <1>1 DEF Life, Untold, Counts
  <2>4. Untold(p)' /\ Unacked(p)' /\ Followed(p)' /\ Tracked(p)' /\ Counts(p)'
    BY <1>0, <1>1, <2>1, <2>2, <2>3 DEF Life, Untold, Unacked, Followed, Tracked, Counts
  <2>5. OwnLane(p)' /\ AskedOnce(p)' /\ InOrder(p)'
    BY <1>0, <1>1, <2>1, <2>2 DEF Life, OwnLane, AskedOnce, InOrder
  <2> QED
    BY <2>4, <2>5 DEF Life
<1>4. \A s \in Session : Waits(s)' /\ Remembers(s)'
  <2>1. \A r \in Req : said'[r] = said[r] \/ said[r] = "nothing"
    BY <1>0, <1>1
  <2> QED
    BY <1>0, <2>1, SessionsStay
<1> QED
  BY <1>2, <1>3, <1>4 DEF Lives

LEMMA StandStill ==
  ASSUME PermissionTypeOK, Lives, UNCHANGED <<prompts, stream, heard, unheard>>,
         \A s \in Session : remembered'[s] \in {0, remembered[s]}
  PROVE  Lives'
<1>1. ASSUME NEW r \in Req PROVE Life(r)'
  <2>1. Untouched(r)
    BY DEF Untouched, prompts
  <2> QED
    BY <2>1, UntouchedLife DEF Lives
<1>2. \A s \in Session : Waits(s)' /\ Remembers(s)'
  BY SessionsStay DEF prompts
<1> QED
  BY <1>1, <1>2 DEF Lives

LEMMA TerminalLives ==
  ASSUME PermissionTypeOK, Lives, Terminal
  PROVE  Lives'
<1>1. CASE Show
  BY <1>1, ShowAskLives, ShowAckLives
<1>2. CASE Yolo
  BY <1>2, ReplyLives DEF Yolo, SetLevel
<1>3. CASE Toggle
  BY <1>3, StandStill DEF Toggle, SetLevel, lanes
<1>4. ASSUME NEW answer \in {"once", "always", "no"}, Choose(answer) PROVE Lives'
  BY <1>4, ReplyLives DEF Choose, levels
<1> QED
  BY <1>1, <1>2, <1>3, <1>4 DEF Terminal

-----------------------------------------------------------------------------
(***************************************************************************)
(* The steps of agents and of the tasks that wait for them.                *)
(***************************************************************************)
LEMMA AroundLives ==
  ASSUME PermissionTypeOK, Lives, NEW s \in Session, Around(s)
  PROVE  Lives'
<1>1. CASE Prepare(s)
  BY <1>1, StandStill DEF Prepare, lanes
<1>2. CASE Enter(s)
  <2>1. \A t \in Session : remembered'[t] \in {0, remembered[t]}
    BY <1>2 DEF Enter, PermissionTypeOK, LevelsOK
  <2> QED
    BY <1>2, <2>1, StandStill DEF Enter, lanes
<1>3. CASE Leave(s)
  BY <1>3, StandStill DEF Leave, lanes
<1> QED
  BY <1>1, <1>2, <1>3 DEF Around

LEMMA RelayLives ==
  ASSUME PermissionTypeOK, Lives, NEW s \in Session \ {Root}, Relay(s)
  PROVE  Lives'
<1> DEFINE x == Head(heard[s])
<1>a. heard[s] \in Seq(Event) /\ heard[s] # <<>> /\ x \in Event
  BY TailQueue DEF Relay, PermissionTypeOK, LanesOK
<1> PICK p \in Req : x = IF x.kind = "ask" THEN Ask(p) ELSE Ack(p)
  BY <1>a, AskOrAck
<1>0. /\ stream' = Append(stream, x)
      /\ heard'[s] = Tail(heard[s])
      /\ \A t \in Session \ {s} : heard'[t] = heard[t]
      /\ UNCHANGED <<ask, outcome, level, owner, said, pending, unheard, remembered>>
  BY DEF Relay, PermissionTypeOK, LanesOK, prompts, levels
<1>b. x \in {Ask(p), Ack(p)}
  OBVIOUS
<1> HIDE DEF x
<1>1. /\ \A e : Has(stream', e) <=> Has(stream, e) \/ x = e
      /\ \A e : Once(stream, e) /\ (x = e => ~Has(stream, e)) => Once(stream', e)
      /\ \A d, e : Before(stream, d, e) /\ (x = d => ~Has(stream, e)) /\ d # e
                     => Before(stream', d, e)
  BY <1>a, <1>0, AppendQueue DEF PermissionTypeOK, LanesOK
<1>2. /\ \A e : Has(heard[s], e) <=> x = e \/ Has(heard'[s], e)
      /\ \A e : Once(heard[s], e) => Once(heard'[s], e) /\ (x = e => ~Has(heard'[s], e))
      /\ \A d, e : Before(heard[s], d, e) =>
            Before(heard'[s], d, e) /\ (x = e => ~Has(heard'[s], d))
  BY <1>a, <1>0, TailQueue DEF x
<1>3. \A e : (Underway(e))' <=> Underway(e)
  BY <1>0, <1>1, <1>2, UnderwayHas
<1>4. ASSUME NEW r \in Req, r # p PROVE Life(r)'
  <2>1. x # Ask(r) /\ x # Ack(r) /\ Ask(r) # Ack(r)
    BY <1>b, <1>4, Distinct
  <2>2. Life(r)
    BY DEF Lives
  <2>3. Untouched(r)
    BY <1>0, <1>1, <1>2, <2>1, <2>2 DEF Untouched
  <2> QED
    BY <2>2, <2>3, UntouchedLife
<1>5. Life(p)'
  <2>1. Life(p)
    BY DEF Lives
  <2>2. owner[p] = s /\ s # Root /\ \A t \in Session \ {s} : ~Has(heard'[t], Ask(p)) /\ ~Has(heard'[t], Ack(p))
    BY <1>0, <1>2, <1>b, <2>1 DEF Life, OwnLane
  <2>3. Untold(p)' /\ Unacked(p)' /\ Followed(p)' /\ Tracked(p)' /\ Counts(p)'
    BY <1>0, <1>3, <2>1 DEF Life, Untold, Unacked, Followed, Tracked, Counts
  <2>4. OwnLane(p)'
    BY <1>0, <2>2 DEF OwnLane
  <2>5. CASE x = Ask(p)
    <3>1. ~Has(stream, Ask(p)) /\ ~Has(stream, Ack(p)) /\ ~Has(heard'[s], Ask(p))
      BY <1>2, <2>1, <2>5 DEF Life, AskedOnce, InOrder
    <3>2. Ask(p) # Ack(p)
      BY Distinct
    <3>3. AskedOnce(p)'
      BY <1>0, <1>1, <1>2, <1>3, <2>1, <2>2, <2>5, <3>1 DEF Life, AskedOnce
    <3>4. InOrder(p)'
      BY <1>0, <1>1, <1>2, <2>1, <2>2, <2>5, <3>1, <3>2 DEF Life, InOrder
    <3> QED
      BY <2>1, <2>3, <2>4, <3>3, <3>4 DEF Life
  <2>6. CASE x = Ack(p)
    <3>1. Ask(p) # Ack(p) /\ ~Has(heard'[s], Ask(p))
      BY <1>2, <2>1, <2>6, Distinct DEF Life, InOrder
    <3>2. AskedOnce(p)'
      BY <1>0, <1>1, <1>2, <1>3, <2>1, <2>2, <2>6, <3>1 DEF Life, AskedOnce
    <3>3. InOrder(p)'
      BY <1>0, <1>1, <1>2, <2>1, <2>2, <2>6, <3>1 DEF Life, InOrder
    <3> QED
      BY <2>1, <2>3, <2>4, <3>2, <3>3 DEF Life
  <2> QED
    BY <1>b, <2>5, <2>6
<1>6. \A t \in Session : Waits(t)' /\ Remembers(t)'
  BY <1>0, SessionsStay
<1> QED
  BY <1>4, <1>5, <1>6 DEF Lives

LEMMA UnlistenLives ==
  ASSUME PermissionTypeOK, Lives, NEW s \in Session, Unlisten(s)
  PROVE  Lives'
<1>0. /\ heard'[s] = <<>>
      /\ \A t \in Session \ {s} : heard'[t] = heard[t]
      /\ UNCHANGED <<stream, ask, outcome, level, owner, said, pending, remembered>>
      /\ unheard \subseteq unheard'
      /\ \A r \in Req : Has(heard[s], Ask(r)) \/ Has(heard[s], Ack(r)) => r \in unheard'
  BY DEF Unlisten, Has, PermissionTypeOK, LanesOK, prompts, levels
<1>1. /\ \A e : ~Has(heard'[s], e) /\ Once(heard'[s], e)
      /\ \A d, e : Before(heard'[s], d, e)
  BY <1>0, EmptyQueue
<1>2. \A e : (Underway(e))' => Underway(e)
  BY <1>0, <1>1, UnderwayHas
<1>3. ASSUME NEW r \in Req PROVE Life(r)'
  <2>1. Life(r)
    BY DEF Lives
  <2>2. CASE Has(heard[s], Ask(r)) \/ Has(heard[s], Ack(r))
    <3>1. r \in unheard'
      BY <1>0, <2>2
    <3>2. Untold(r)' /\ Unacked(r)' /\ Followed(r)' /\ Tracked(r)' /\ Counts(r)'
      BY <1>0, <1>2, <2>1, <3>1 DEF Life, Untold, Unacked, Followed, Tracked, Counts
    <3>3. OwnLane(r)'
      BY <1>0, <1>1, <2>1 DEF Life, OwnLane
    <3>4. AskedOnce(r)' /\ InOrder(r)'
      BY <1>0, <1>1, <1>2, <2>1 DEF Life, AskedOnce, InOrder
    <3> QED
      BY <3>2, <3>3, <3>4 DEF Life
  <2>3. CASE ~Has(heard[s], Ask(r)) /\ ~Has(heard[s], Ack(r))
    <3>1. Untouched(r)
      BY <1>0, <1>1, <2>3 DEF Untouched
    <3> QED
      BY <2>1, <3>1, UntouchedLife
  <2> QED
    BY <2>2, <2>3
<1>4. \A t \in Session : Waits(t)' /\ Remembers(t)'
  BY <1>0, SessionsStay
<1> QED
  BY <1>3, <1>4 DEF Lives

LEMMA BelowLives ==
  ASSUME PermissionTypeOK, Lives, NEW s \in Session \ {Root}, Below(s)
  PROVE  Lives'
<1>1. CASE Create(s)
  BY <1>1, StandStill DEF Create, lanes
<1>2. CASE Listen(s)
  BY <1>2, StandStill DEF Listen, levels
<1>3. CASE Relay(s) \/ Unlisten(s)
  BY <1>3, RelayLives, UnlistenLives
<1> QED
  BY <1>1, <1>2, <1>3 DEF Below

LEMMA NextLives ==
  PermissionTypeOK /\ Lives /\ [PermissionNext]_permission => Lives'
<1> SUFFICES ASSUME PermissionTypeOK, Lives, [PermissionNext]_permission PROVE Lives'
  OBVIOUS
<1>1. CASE Terminal
  BY <1>1, TerminalLives
<1>2. CASE Update
  BY <1>2, StandStill DEF Update, SpawnUpdate, StoreLevel, lanes
<1>3. ASSUME NEW s \in Session, Check(s) \/ Around(s) PROVE Lives'
  BY <1>3, CheckLives, AroundLives
<1>4. ASSUME NEW s \in Session \ {Root}, Below(s) PROVE Lives'
  BY <1>4, BelowLives
<1>5. CASE UNCHANGED permission
  BY <1>5, StandStill DEF permission, lanes, levels
<1> QED
  BY <1>1, <1>2, <1>3, <1>4, <1>5 DEF PermissionNext

LEMMA LivesAlways == PermissionSpec => [](PermissionTypeOK /\ Lives)
  BY InitTypes, NextTypes, InitLives, NextLives, PTL DEF PermissionSpec

\* Whatever the sessions and requests, an open request is on its way to the
\* terminal, in its slot, or answered, and a slot is emptied again.
THEOREM PromptsFollowed == PermissionSpec => []PromptsTracked
<1>1. Lives => PromptsTracked
  BY DEF Lives, Life, Tracked, PromptsTracked
<1> QED
  BY <1>1, LivesAlways, PTL

\* A request is decided by its own answer, and nothing is remembered that the
\* user did not say to remember.
THEOREM AnswersCount == PermissionSpec => []AnswerCounts
<1>1. Lives => AnswerCounts
  BY DEF Lives, Life, Counts, Remembers, AnswerCounts
<1> QED
  BY <1>1, LivesAlways, PTL


-----------------------------------------------------------------------------
(***************************************************************************)
(* Types, of what this module adds and of what it needs of Permission.     *)
(***************************************************************************)
Notice == [kind : {"stopped"}, run : Run]
Message == [kind : {"added"}, run : Run, text : BOOLEAN]
Note == Event \cup Notice
Entry == Message \cup Notice

ParentOK ==
  /\ stopped \in BOOLEAN
  /\ turns \in Nat
  /\ place \in [Session -> {"out", "preparing", "in"}]

CallsOK ==
  /\ waiter \in [Child -> {"none", "starting", "waiting", "over"}]
  /\ mode \in [Child -> {"sync", "async"}]
  /\ tied \subseteq Child /\ struck \subseteq Child /\ claims \subseteq Child
  /\ listening \subseteq Child
  /\ heard \in [Session -> Seq(Note)]
  /\ ask \in [Session -> Req \cup {None}]

AgentsOK ==
  /\ mail \subseteq Child /\ busy \subseteq Child
  /\ bound \subseteq Child /\ token \subseteq Child
  /\ posts \in [Child -> Nat]
  /\ runs \in [Child -> 0..MaxRuns]

ReportsOK ==
  /\ log \in [Child -> Seq(Entry)]
  /\ seen \in [Child -> Nat]
  /\ last \in [Child -> Nat]
  /\ \A c \in Child : last[c] <= Len(log[c])
  /\ relays \subseteq Child \X Run
  /\ ends \in [Child -> [Run -> Ends \cup {"none"}]]
  /\ told \subseteq Child \X Nat

HistoryOK ==
  /\ again \subseteq Child \X Nat
  /\ excused \subseteq Child \X Run
  /\ swallowed \subseteq Child \X Run
  /\ mixed \subseteq Child \X Run
  /\ adrift \subseteq Child

TypeOK == ParentOK /\ CallsOK /\ AgentsOK /\ ReportsOK /\ HistoryOK

-----------------------------------------------------------------------------
(***************************************************************************)
(* The inductive invariant, child by child.                                *)
(***************************************************************************)

\* The runs that are over; the conductor has seen one of them stop.
Done(c) == IF c \in busy THEN runs[c] - 1 ELSE runs[c]
Noted(c, k) == \E i \in DOMAIN log[c] : i <= seen[c] /\ log[c][i] = Stopped(k)

\* A child does nothing before it is sent its task; whoever waits listens.
Stages(c) ==
  /\ waiter[c] \in {"none", "starting"} =>
       runs[c] = 0 /\ c \notin mail /\ c \notin claims /\ place[c] = "out"
  /\ c \in listening <=> waiter[c] = "waiting"
  /\ c \notin listening => heard[c] = <<>>
  /\ c \in busy => runs[c] > 0 /\ place[c] = "in"

\* The stream has the runs in order, each with its Stopped at its end.
InLine(c) ==
  /\ seen[c] <= Len(log[c])
  /\ \A i, j \in DOMAIN log[c] : i < j =>
       /\ log[c][i].run <= log[c][j].run
       /\ log[c][i].kind = "stopped" => log[c][i].run # log[c][j].run
  /\ \A i \in DOMAIN log[c] :
       /\ log[c][i].run <= runs[c]
       /\ log[c][i].kind = "stopped" => log[c][i].run <= Done(c)
  /\ \A k \in Run : k <= Done(c) => \E i \in DOMAIN log[c] : log[c][i] = Stopped(k)
  /\ \A k \in Run : k > Done(c) => ends[c][k] = "none"

\* A claim is there until the first run is seen to stop; who is over with the
\* call and leaves a claim has reported that run, or was aborted.
Claimed(c) ==
  /\ c \in claims => \A k \in Run : ~Noted(c, k)
  /\ waiter[c] = "waiting" /\ ~Noted(c, 1) => c \in claims
  /\ c \in claims /\ waiter[c] = "over" /\ mode[c] = "async" =>
       /\ Done(c) > 0
       /\ \A m \in DOMAIN log[c] : log[c][m].run = 1 /\ Answer(c, m) => <<c, m>> \in told

NoStop(h) == \A i \in DOMAIN h : h[i].kind # "stopped"
FirstStop(h, k) ==
  \E i \in DOMAIN h : h[i] = Stopped(k) /\ \A j \in DOMAIN h : j < i => h[j].kind # "stopped"

\* The first Stopped that who waits will see is that of the first run.
HearsFirst(c) ==
  waiter[c] = "waiting" =>
    /\ Done(c) = 0 => NoStop(heard[c])
    /\ Done(c) > 0 => FirstStop(heard[c], 1)

\* What is to be forwarded has been seen to stop, is nobody's, and was not
\* reported.
Forwarding(c) ==
  \A k \in Run : <<c, k>> \in relays =>
    /\ Noted(c, k)
    /\ k = 1 => waiter[c] # "waiting"
    /\ \A m \in DOMAIN log[c] : log[c][m].run = k /\ <<c, m>> \in told => <<c, k>> \in mixed

\* The store holds the messages that were seen.
Stored(c) ==
  /\ last[c] <= seen[c]
  /\ last[c] # 0 => log[c][last[c]].kind = "added"
  /\ \A i \in DOMAIN log[c] : i <= seen[c] /\ i > last[c] => log[c][i].kind # "added"

\* What is reported is of a run that was seen to stop, or of the first run,
\* which is claimed, or was found in the store for another run.
Reported(c) ==
  /\ \A m : <<c, m>> \in told => m \in DOMAIN log[c] /\ Speaks(log[c][m])
  /\ \A m : <<c, m>> \in again => <<c, m>> \in told
  /\ \A m \in DOMAIN log[c] : <<c, m>> \in told =>
       \/ <<c, log[c][m].run>> \in mixed
       \/ Noted(c, log[c][m].run)
       \/ log[c][m].run = 1 /\ c \in claims /\ waiter[c] = "over"
  /\ \A m \in DOMAIN log[c] : <<c, m>> \in told /\ log[c][m].run = 1 /\ waiter[c] = "waiting" =>
       <<c, 1>> \in mixed
  /\ \A m \in DOMAIN log[c] : <<c, m>> \in again => <<c, log[c][m].run>> \in mixed

\* The answer of a run that was seen to stop is reported, or still will be.
Owed(c) ==
  \A m \in DOMAIN log[c] : Answer(c, m) /\ Noted(c, log[c][m].run) =>
    \/ <<c, m>> \in told
    \/ <<c, log[c][m].run>> \in relays \cup excused \cup mixed
    \/ <<c, log[c][m].run>> \in swallowed /\ mode[c] = "sync"
    \/ log[c][m].run = 1 /\ waiter[c] = "waiting"

Accounts(c) ==
  /\ Stages(c) /\ InLine(c) /\ Claimed(c) /\ HearsFirst(c)
  /\ Forwarding(c) /\ Stored(c) /\ Reported(c) /\ Owed(c)

\* The calls and children of the parent's agent in the map; a call of its that
\* was struck was stopped with it.
Ties ==
  /\ place[Root] # "in" => tied = {} /\ bound = {}
  /\ struck \cap tied # {} => stopped
  /\ \A c \in tied : place[c] # "out" => c \in bound \cup adrift
  /\ \A c \in struck : waiter[c] # "none" /\ (place[c] # "out" => c \in token \cup adrift)

Inv == TypeOK /\ (\A c \in Child : Accounts(c)) /\ Ties

-----------------------------------------------------------------------------
(***************************************************************************)
(* What the waiting task hears.                                            *)
(***************************************************************************)
\* The parent is not a child.
LEMMA Roles == Root \in Session /\ Child \subseteq Session /\ Root \notin Child
  BY PermissionAssumption DEF Child

\* The first run is one, if there is any.
LEMMA FirstRun == ASSUME NEW k \in Run PROVE 1 \in Run /\ k \in Nat /\ k > 0
  BY SubagentAssumption DEF Run

\* A prompt, or a later Stopped, changes nothing about the first one.
LEMMA HearsMore ==
  ASSUME NEW h \in Seq(Note), NEW e \in Note
  PROVE  /\ Append(h, e) \in Seq(Note)
         /\ e.kind # "stopped" /\ NoStop(h) => NoStop(Append(h, e))
         /\ \A k : FirstStop(h, k) => FirstStop(Append(h, e), k)
<1>1. /\ Append(h, e) \in Seq(Note)
      /\ DOMAIN h = 1..Len(h) /\ DOMAIN Append(h, e) = 1..(Len(h) + 1)
      /\ Len(h) \in Nat
      /\ \A i \in 1..Len(h) : Append(h, e)[i] = h[i]
      /\ Append(h, e)[Len(h) + 1] = e
  OBVIOUS
<1>2. ASSUME e.kind # "stopped", NoStop(h) PROVE NoStop(Append(h, e))
  BY <1>1, <1>2 DEF NoStop
<1>3. ASSUME NEW k, FirstStop(h, k) PROVE FirstStop(Append(h, e), k)
  <2>1. PICK i \in DOMAIN h : h[i] = Stopped(k) /\ \A j \in DOMAIN h : j < i => h[j].kind # "stopped"
    BY <1>3 DEF FirstStop
  <2>2. i \in DOMAIN Append(h, e) /\ Append(h, e)[i] = Stopped(k)
    BY <1>1, <2>1
  <2>3. \A j \in DOMAIN Append(h, e) : j < i => Append(h, e)[j].kind # "stopped"
    BY <1>1, <2>1
  <2> QED
    BY <2>2, <2>3 DEF FirstStop
<1> QED
  BY <1>1, <1>2, <1>3

\* A Stopped after prompts only is the first.
LEMMA HearsStop ==
  ASSUME NEW h \in Seq(Note), NEW k \in Run, NoStop(h)
  PROVE  FirstStop(Append(h, Stopped(k)), k)
<1>1. /\ DOMAIN h = 1..Len(h) /\ DOMAIN Append(h, Stopped(k)) = 1..(Len(h) + 1)
      /\ Len(h) \in Nat
      /\ \A i \in 1..Len(h) : Append(h, Stopped(k))[i] = h[i]
      /\ Append(h, Stopped(k))[Len(h) + 1] = Stopped(k)
  BY DEF Stopped
<1>2. /\ Len(h) + 1 \in DOMAIN Append(h, Stopped(k))
      /\ \A j \in DOMAIN Append(h, Stopped(k)) : j < Len(h) + 1 =>
           Append(h, Stopped(k))[j].kind # "stopped"
  BY <1>1 DEF NoStop
<1> QED
  BY <1>1, <1>2 DEF FirstStop

\* Passing on a prompt changes nothing about it either.
LEMMA HearsPassed ==
  ASSUME NEW h \in Seq(Note), h # <<>>, Head(h).kind # "stopped"
  PROVE  /\ NoStop(h) => NoStop(Tail(h))
         /\ \A k : FirstStop(h, k) => FirstStop(Tail(h), k)
<1>1. /\ DOMAIN h = 1..Len(h) /\ DOMAIN Tail(h) = 1..(Len(h) - 1)
      /\ Len(h) \in Nat \ {0} /\ Head(h) = h[1]
      /\ \A i \in 1..(Len(h) - 1) : Tail(h)[i] = h[i + 1]
  OBVIOUS
<1>2. ASSUME NoStop(h) PROVE NoStop(Tail(h))
  BY <1>1, <1>2 DEF NoStop
<1>3. ASSUME NEW k, FirstStop(h, k) PROVE FirstStop(Tail(h), k)
  <2>1. PICK i \in DOMAIN h : h[i] = Stopped(k) /\ \A j \in DOMAIN h : j < i => h[j].kind # "stopped"
    BY <1>3 DEF FirstStop
  <2>2. i # 1
    BY <1>1, <2>1 DEF Stopped
  <2>3. i - 1 \in DOMAIN Tail(h) /\ Tail(h)[i - 1] = Stopped(k)
    BY <1>1, <2>1, <2>2
  <2>4. \A j \in DOMAIN Tail(h) : j < i - 1 => Tail(h)[j].kind # "stopped"
    BY <1>1, <2>1
  <2> QED
    BY <2>3, <2>4 DEF FirstStop
<1> QED
  BY <1>2, <1>3

\* A Stopped at the head is the first.
LEMMA HearsHead ==
  ASSUME NEW h \in Seq(Note), h # <<>>, Head(h).kind = "stopped"
  PROVE  ~NoStop(h) /\ \A k : FirstStop(h, k) => Head(h) = Stopped(k)
<1>1. DOMAIN h = 1..Len(h) /\ Len(h) \in Nat \ {0} /\ Head(h) = h[1]
  OBVIOUS
<1>2. ~NoStop(h)
  BY <1>1 DEF NoStop
<1>3. ASSUME NEW k, FirstStop(h, k) PROVE Head(h) = Stopped(k)
  BY <1>1, <1>3 DEF FirstStop
<1> QED
  BY <1>2, <1>3

-----------------------------------------------------------------------------
(***************************************************************************)
(* The prompts.                                                            *)
(***************************************************************************)
\* What is heard changes by a prompt that comes or is passed on.
HearsPrompt(s) ==
  \/ heard'[s] = heard[s]
  \/ s \in listening /\ \E e \in Event : heard'[s] = Append(heard[s], e)
  \/ /\ heard[s] # <<>>
     /\ Head(heard[s]).kind # "stopped"
     /\ heard'[s] = Tail(heard[s])

\* An event that is published.
LEMMA EmitHears ==
  ASSUME TypeOK, NEW s \in Session, NEW e \in Note, Emit(s, e)
  PROVE  /\ heard' \in [Session -> Seq(Note)]
         /\ \A d \in Session : heard'[d] = IF d = s /\ s \in listening
                                           THEN Append(heard[d], e) ELSE heard[d]
<1>1. heard[s] \in Seq(Note) /\ Append(heard[s], e) \in Seq(Note)
  BY DEF TypeOK, CallsOK
<1> QED
  BY <1>1 DEF Emit, TypeOK, CallsOK

LEMMA PromptsFrame ==
  ASSUME TypeOK, Prompts
  PROVE  /\ UNCHANGED <<place, listening, parent, calls, agents, reports, history>>
         /\ ask' \in [Session -> Req \cup {None}]
         /\ heard' \in [Session -> Seq(Note)]
         /\ \A s \in Session : HearsPrompt(s)
<1>1. UNCHANGED <<parent, calls, agents, reports, history>>
  BY DEF Prompts
<1>2. ASSUME UNCHANGED <<place, listening, ask, heard>>
      PROVE  /\ UNCHANGED <<place, listening>>
             /\ ask' \in [Session -> Req \cup {None}]
             /\ heard' \in [Session -> Seq(Note)]
             /\ \A s \in Session : HearsPrompt(s)
  BY <1>2 DEF TypeOK, CallsOK, HearsPrompt
<1>3. CASE Terminal \/ Update
  BY <1>1, <1>2, <1>3 DEF Terminal, Update, Show, Yolo, Toggle, Choose, Reply, SetLevel,
     SpawnUpdate, StoreLevel, prompts, lanes
<1>4. ASSUME NEW s \in Session, NEW r \in Req, NEW l \in Level, Request(s, r, l)
      PROVE  /\ UNCHANGED <<place, listening>>
             /\ ask' \in [Session -> Req \cup {None}]
             /\ heard' \in [Session -> Seq(Note)]
             /\ \A d \in Session : HearsPrompt(d)
  <2>1. Ask(r) \in Event /\ Ask(r) \in Note
    BY DEF Ask, Event, Note
  <2> QED
    BY <1>4, <2>1, EmitHears DEF Request, HearsPrompt, TypeOK, CallsOK
<1>5. ASSUME NEW s \in Session, NEW end, Settle(s, end)
      PROVE  /\ UNCHANGED <<place, listening>>
             /\ ask' \in [Session -> Req \cup {None}]
             /\ heard' \in [Session -> Seq(Note)]
             /\ \A d \in Session : HearsPrompt(d)
  <2>1. ask[s] \in Req
    BY <1>5 DEF Settle, TypeOK, CallsOK
  <2>2. Ack(ask[s]) \in Event /\ Ack(ask[s]) \in Note
    BY <2>1 DEF Ack, Event, Note
  <2> QED
    BY <1>5, <2>2, EmitHears DEF Settle, Acks, HearsPrompt, TypeOK, CallsOK
<1>6. ASSUME NEW s \in Session, Answered(s) \/ TimesOut(s) \/ Cancelled(s)
      PROVE  \E end : Settle(s, end)
  BY <1>6 DEF Answered, TimesOut, Cancelled
<1>7. ASSUME NEW c \in Child, Relay(c)
      PROVE  /\ UNCHANGED <<place, listening>>
             /\ ask' \in [Session -> Req \cup {None}]
             /\ heard' \in [Session -> Seq(Note)]
             /\ \A d \in Session : HearsPrompt(d)
  <2>1. heard[c] \in Seq(Note) /\ heard[c] # <<>> /\ Tail(heard[c]) \in Seq(Note)
    BY <1>7, Roles DEF Relay, TypeOK, CallsOK
  <2>2. heard' = [heard EXCEPT ![c] = Tail(heard[c])] /\ Head(heard[c]).kind # "stopped"
    BY <1>7 DEF Relay
  <2>3. \A d \in Session : heard'[d] = IF d = c THEN Tail(heard[c]) ELSE heard[d]
    BY <2>2 DEF TypeOK, CallsOK
  <2>4. heard' \in [Session -> Seq(Note)]
    BY <2>1, <2>2 DEF TypeOK, CallsOK
  <2>5. \A d \in Session : HearsPrompt(d)
    BY <2>1, <2>2, <2>3 DEF HearsPrompt
  <2> QED
    BY <1>7, <2>4, <2>5 DEF Relay, prompts, TypeOK, CallsOK
<1>8. CASE \E s \in Session : Answered(s) \/ TimesOut(s) \/ (IsCancelled(s) /\ Cancelled(s))
  BY <1>1, <1>5, <1>6, <1>8
<1>9. CASE \E s \in Session, r \in Req, l \in Level \ {0} : MayCall(s) /\ Request(s, r, l)
  BY <1>1, <1>4, <1>9
<1>10. CASE \E c \in Child : Relay(c)
  BY <1>1, <1>7, <1>10
<1> QED
  BY <1>3, <1>1, <1>2, <1>8, <1>9, <1>10 DEF Prompts

-----------------------------------------------------------------------------
(***************************************************************************)
(* Types.                                                                  *)
(***************************************************************************)
\* The head and the rest of a queue, and one more in it.
LEMMA QueueTypes ==
  ASSUME NEW S, NEW q \in Seq(S)
  PROVE  /\ q # <<>> => Head(q) \in S /\ Tail(q) \in Seq(S) /\ Len(q) > 0
                        /\ Head(q) = q[1] /\ Len(Tail(q)) = Len(q) - 1
                        /\ \A i \in DOMAIN Tail(q) : i + 1 \in DOMAIN q /\ Tail(q)[i] = q[i + 1]
         /\ \A e \in S : Append(q, e) \in Seq(S)
         /\ Len(q) \in Nat /\ DOMAIN q = 1..Len(q)
         /\ <<>> \in Seq(S)
  OBVIOUS

\* A Stopped that is heard or seen is that of a run.
LEMMA NoticeRun ==
  /\ \A e \in Notice : e.run \in Run /\ e = Stopped(e.run)
  /\ \A e \in Note : e.kind = "stopped" => e \in Notice
  /\ \A k \in Run : Stopped(k) \in Notice /\ Stopped(k) \in Note /\ Stopped(k).run = k
  BY DEF Notice, Note, Event, Stopped

\* An entry of the stream is of a run; one that is not a message is a Stopped.
LEMMA EntryRun ==
  /\ \A e \in Entry : e.run \in Run /\ e.kind \in {"added", "stopped"}
  /\ \A e \in Entry : e.kind = "stopped" => e = Stopped(e.run)
  /\ \A k \in Run : Stopped(k) \in Entry /\ Stopped(k).kind = "stopped" /\ Stopped(k).run = k
  /\ \A k \in Run, t \in BOOLEAN :
       Added(k, t) \in Entry /\ Added(k, t).kind = "added" /\ Added(k, t).run = k
  BY DEF Entry, Message, Notice, Stopped, Added

\* What the parent is told.
LEMMA TellGives ==
  ASSUME TypeOK, NEW c \in Child, NEW k \in Run, NEW m \in Nat, m <= Len(log[c]), Tell(c, k, m)
  PROVE  /\ told \subseteq told' /\ again \subseteq again' /\ mixed \subseteq mixed'
         /\ told' \subseteq Child \X Nat /\ again' \subseteq Child \X Nat
         /\ mixed' \subseteq Child \X Run
         /\ \A x \in told' : x \in told \/ (x = <<c, m>> /\ m # 0)
         /\ \A x \in again' : x \in again \/ (x = <<c, m>> /\ m # 0 /\ x \in told)
         /\ m # 0 => /\ m \in DOMAIN log[c]
                     /\ <<c, m>> \in told' => <<c, m>> \in told \/ Speaks(log[c][m])
                     /\ Speaks(log[c][m]) => <<c, m>> \in told'
                     /\ log[c][m].run # k => <<c, k>> \in mixed'
                     /\ log[c][m].run # k /\ Speaks(log[c][m]) =>
                          <<c, log[c][m].run>> \in mixed'
<1> DEFINE texts == IF m # 0 /\ Speaks(log[c][m]) THEN {<<c, m>>} ELSE {}
           mix == {<<c, k>>} \cup {<<c, log[c][n[2]].run>> : n \in texts}
<1>1. /\ told' = told \cup texts
      /\ again' = again \cup (told \cap texts)
      /\ mixed' = IF m = 0 \/ log[c][m].run = k THEN mixed ELSE mixed \cup mix
  BY DEF Tell
<1>2. log[c] \in Seq(Entry) /\ DOMAIN log[c] = 1..Len(log[c])
  BY DEF TypeOK, ReportsOK
<1>3. m # 0 => m \in DOMAIN log[c] /\ log[c][m].run \in Run
  BY <1>2, EntryRun
<1>4. \A n \in texts : n = <<c, m>> /\ n[2] = m /\ m # 0 /\ Speaks(log[c][m])
  OBVIOUS
<1>5. mix \subseteq Child \X Run
  BY <1>3, <1>4
<1>6. m # 0 /\ Speaks(log[c][m]) => <<c, m>> \in texts /\ <<c, log[c][m].run>> \in mix
  BY <1>4
<1>7. <<c, k>> \in mix /\ texts \subseteq Child \X Nat
  OBVIOUS
<1> HIDE DEF texts, mix
<1> QED
  BY <1>1, <1>3, <1>4, <1>5, <1>6, <1>7 DEF TypeOK, ReportsOK, HistoryOK

\* What the task that waits tells: a message, or nothing.
LEMMA HeardGives ==
  ASSUME TypeOK, NEW c \in Child, NEW k \in Run, TellHeard(c, k)
  PROVE  \E m \in Nat :
           /\ m <= Len(log[c]) /\ Tell(c, k, m)
           /\ \A i \in DOMAIN log[c] : Speaks(log[c][i]) /\ log[c][i].run = k =>
                i <= m /\ Speaks(log[c][m]) /\ log[c][m].run = k
<1> DEFINE texts == {i \in DOMAIN log[c] : Speaks(log[c][i]) /\ log[c][i].run = k}
<1>1. /\ DOMAIN log[c] = 1..Len(log[c]) /\ Len(log[c]) \in Nat
      /\ last[c] \in Nat /\ last[c] <= Len(log[c])
  BY DEF TypeOK, ReportsOK
<1>2. ASSUME NEW m \in texts, \A i \in texts : i <= m, Tell(c, k, m)
      PROVE  /\ m \in Nat /\ m <= Len(log[c])
             /\ \A i \in DOMAIN log[c] : Speaks(log[c][i]) /\ log[c][i].run = k =>
                  i <= m /\ Speaks(log[c][m]) /\ log[c][m].run = k
  BY <1>1, <1>2
<1>3. CASE texts = {} /\ Tell(c, k, last[c])
  <2>1. \A i \in DOMAIN log[c] : ~(Speaks(log[c][i]) /\ log[c][i].run = k)
    BY <1>3
  <2> QED
    BY <1>1, <1>3, <2>1
<1>4. \/ \E m \in texts : (\A i \in texts : i <= m) /\ Tell(c, k, m)
      \/ texts = {} /\ Tell(c, k, last[c])
  BY DEF TellHeard
<1> HIDE DEF texts
<1> QED
  BY <1>2, <1>3, <1>4

\* The calls of the tool.
LEMMA TypeTool ==
  ASSUME TypeOK, NEW c \in Child, ToolStep(c)
  PROVE  TypeOK'
<1> USE Roles DEF parent, agents, reports, history, permission, prompts, lanes
<1>1. ASSUME NEW m \in {"sync", "async"}, Launch(c, m) PROVE TypeOK'
  BY <1>1 DEF Launch, Create, TypeOK, ParentOK, CallsOK, AgentsOK, ReportsOK, HistoryOK
<1>2. CASE Begin(c)
  BY <1>2 DEF Begin, Claims, Listen, TypeOK, ParentOK, CallsOK, AgentsOK, ReportsOK,
     HistoryOK
<1>3. ASSUME Unlisten(c)
      PROVE  heard' \in [Session -> Seq(Note)] /\ listening' \subseteq Child
             /\ UNCHANGED <<place, ask>>
  BY <1>3 DEF Unlisten, TypeOK, CallsOK
<1>4. CASE Finish(c)
  <2>1. heard[c] \in Seq(Note)
    BY DEF TypeOK, CallsOK
  <2>2. Head(heard[c]).run \in Run
    BY <1>4, <2>1, QueueTypes, NoticeRun DEF Finish
  <2>3. /\ told' \subseteq Child \X Nat /\ again' \subseteq Child \X Nat
        /\ mixed' \subseteq Child \X Run
    BY <1>4, <2>2, HeardGives, TellGives DEF Finish
  <2> QED
    BY <1>3, <1>4, <2>3 DEF Finish, TypeOK, ParentOK, CallsOK, AgentsOK, ReportsOK, HistoryOK
<1>5. CASE GiveUp(c)
  <2>1. claims' \subseteq claims /\ excused' \subseteq Child \X Run
    BY <1>5 DEF GiveUp, Withdrawn, TypeOK, HistoryOK
  <2> QED
    BY <1>3, <1>5, <2>1 DEF GiveUp, TypeOK, ParentOK, CallsOK, AgentsOK, ReportsOK, HistoryOK
<1>6. CASE Post(c)
  BY <1>6 DEF Post, calls, TypeOK, ParentOK, CallsOK, AgentsOK, ReportsOK, HistoryOK
<1> QED
  BY <1>1, <1>2, <1>4, <1>5, <1>6 DEF ToolStep

\* The parent's agent.
LEMMA TypeParent ==
  ASSUME TypeOK, ParentStep
  PROVE  TypeOK'
<1> USE Roles DEF parent, calls, agents, reports, history, permission, prompts, lanes
<1>1. CASE StopParent
  BY <1>1 DEF StopParent, TypeOK, ParentOK, CallsOK, AgentsOK, ReportsOK, HistoryOK
<1>2. CASE ParentLeaves
  BY <1>2 DEF ParentLeaves, Leave, TypeOK, ParentOK, CallsOK, AgentsOK, ReportsOK, HistoryOK
<1>3. CASE ParentPrepares
  <2>1. ParentOK'
    BY <1>3 DEF ParentPrepares, Prepare, TypeOK, ParentOK
  <2> QED
    BY <1>3, <2>1 DEF ParentPrepares, Prepare, TypeOK, CallsOK, AgentsOK, ReportsOK,
       HistoryOK
<1>4. CASE ParentEnters
  BY <1>4 DEF ParentEnters, Enter, TypeOK, ParentOK, CallsOK, AgentsOK, ReportsOK, HistoryOK
<1> QED
  BY <1>1, <1>2, <1>3, <1>4 DEF ParentStep

\* One more entry of the stream.
LEMMA LogTypes ==
  ASSUME TypeOK, NEW c \in Child, NEW e \in Entry, log' = [log EXCEPT ![c] = Append(@, e)]
  PROVE  /\ log' \in [Child -> Seq(Entry)]
         /\ \A d \in Child : last[d] <= Len(log'[d])
<1>1. /\ log[c] \in Seq(Entry) /\ Append(log[c], e) \in Seq(Entry)
      /\ Len(log[c]) \in Nat /\ Len(Append(log[c], e)) = Len(log[c]) + 1
  BY DEF TypeOK, ReportsOK
<1>2. \A d \in Child : log'[d] = IF d = c THEN Append(log[c], e) ELSE log[d]
  BY DEF TypeOK, ReportsOK
<1>3. log' \in [Child -> Seq(Entry)]
  BY <1>1 DEF TypeOK, ReportsOK
<1>4. ASSUME NEW d \in Child PROVE last[d] <= Len(log'[d])
  <2>1. last[d] \in Nat /\ last[d] <= Len(log[d])
    BY DEF TypeOK, ReportsOK
  <2> QED
    BY <1>1, <1>2, <2>1
<1> QED
  BY <1>3, <1>4

\* A child's agent.
LEMMA TypeChild ==
  ASSUME TypeOK, NEW c \in Child, c \in busy => runs[c] > 0, ChildStep(c)
  PROVE  TypeOK'
<1> USE Roles DEF parent, calls, agents, reports, history, permission, prompts, lanes
<1>1. CASE ChildPrepares(c)
  BY <1>1 DEF ChildPrepares, Prepare, TypeOK, ParentOK, CallsOK, AgentsOK, ReportsOK,
     HistoryOK
<1>2. CASE ChildEnters(c)
  BY <1>2 DEF ChildEnters, Enter, TypeOK, ParentOK, CallsOK, AgentsOK, ReportsOK, HistoryOK
<1>3. CASE Pull(c)
  <2>1. runs' \in [Child -> 0..MaxRuns]
    BY <1>3, SubagentAssumption DEF Pull, TypeOK, AgentsOK
  <2> QED
    BY <1>3, <2>1 DEF Pull, TypeOK, ParentOK, CallsOK, AgentsOK, ReportsOK, HistoryOK
<1>4. CASE ChildLeaves(c)
  BY <1>4 DEF ChildLeaves, Leave, TypeOK, ParentOK, CallsOK, AgentsOK, ReportsOK, HistoryOK
<1>5. ASSUME NEW end \in Ends, EndRun(c, end) PROVE TypeOK'
  <2>1. runs[c] \in Run
    BY <1>5, SubagentAssumption DEF EndRun, TypeOK, AgentsOK, Run
  <2>2. heard' \in [Session -> Seq(Note)]
    BY <1>5, <2>1, NoticeRun, EmitHears DEF EndRun
  <2>3. Stopped(runs[c]) \in Entry /\ log' = [log EXCEPT ![c] = Append(@, Stopped(runs[c]))]
    BY <1>5, <2>1, EntryRun DEF EndRun
  <2>4. ends' \in [Child -> [Run -> Ends \cup {"none"}]]
    BY <1>5, <2>1 DEF EndRun, TypeOK, ReportsOK
  <2> QED
    BY <1>5, <2>2, <2>3, <2>4, LogTypes DEF EndRun, TypeOK, ParentOK, CallsOK, AgentsOK,
       ReportsOK, HistoryOK
<1>6. ASSUME NEW t \in BOOLEAN, Say(c, t) PROVE TypeOK'
  <2>1. runs[c] \in Run
    BY <1>6, SubagentAssumption DEF Say, TypeOK, AgentsOK, Run
  <2>2. /\ Added(runs[c], t) \in Entry
        /\ log' = [log EXCEPT ![c] = Append(@, Added(runs[c], t))]
    BY <1>6, <2>1, EntryRun DEF Say
  <2> QED
    BY <1>6, <2>2, LogTypes DEF Say, TypeOK, ParentOK, CallsOK, AgentsOK, ReportsOK, HistoryOK
<1> QED
  BY <1>1, <1>2, <1>3, <1>4, <1>5, <1>6 DEF ChildStep

\* The conductor.
LEMMA TypeObserve ==
  ASSUME TypeOK, NEW c \in Child, Observe(c)
  PROVE  TypeOK' /\ seen[c] + 1 \in DOMAIN log[c] /\ log[c][seen[c] + 1] \in Entry
<1> DEFINE n == seen[c] + 1
<1>1. log[c] \in Seq(Entry) /\ DOMAIN log[c] = 1..Len(log[c]) /\ seen[c] \in Nat
  BY DEF TypeOK, ReportsOK
<1>2. n \in DOMAIN log[c] /\ log[c][n] \in Entry /\ n \in Nat /\ n <= Len(log[c])
  BY <1>1 DEF Observe
<1>3. log[c][n].run \in Run
  BY <1>2, EntryRun
<1>4. seen' = [seen EXCEPT ![c] = n] /\ (Store(c) \/ Stops(c, log[c][n].run))
  BY DEF Observe
<1> HIDE DEF n
<1>5. seen' \in [Child -> Nat]
  BY <1>2, <1>4 DEF TypeOK, ReportsOK
<1>6. last' = last \/ last' = [last EXCEPT ![c] = n]
  BY <1>4 DEF Store, Stops, n
<1>7. last' \in [Child -> Nat] /\ \A d \in Child : last'[d] <= Len(log[d])
  BY <1>2, <1>6 DEF TypeOK, ReportsOK
<1>8. /\ relays' \subseteq Child \X Run
      /\ claims' \subseteq Child
      /\ swallowed' \subseteq Child \X Run
  BY <1>3, <1>4 DEF Store, Stops, TypeOK, ReportsOK, CallsOK, HistoryOK
<1> QED
  BY <1>2, <1>5, <1>7, <1>8 DEF Observe, permission, prompts, lanes, parent, agents, TypeOK,
     ParentOK, CallsOK, AgentsOK, ReportsOK, HistoryOK, n

LEMMA TypeForward ==
  ASSUME TypeOK, NEW r \in relays, Forward(r[1], r[2])
  PROVE  TypeOK' /\ r[1] \in Child /\ r[2] \in Run /\ r = <<r[1], r[2]>>
<1>1. PICK c \in Child, k \in Run : r = <<c, k>>
  BY DEF TypeOK, ReportsOK
<1>2. Forward(c, k)
  BY <1>1
<1>3. last[c] \in Nat /\ last[c] <= Len(log[c])
  BY DEF TypeOK, ReportsOK
<1>4. Tell(c, k, last[c]) \/ UNCHANGED <<told, again, mixed>>
  BY <1>2 DEF Forward
<1>5. told' \subseteq Child \X Nat /\ again' \subseteq Child \X Nat /\ mixed' \subseteq Child \X Run
  BY <1>3, <1>4, TellGives DEF TypeOK, ReportsOK, HistoryOK
<1> QED
  BY <1>1, <1>2, <1>5 DEF Forward, permission, prompts, lanes, parent, calls, agents,
     TypeOK, ParentOK, CallsOK, AgentsOK, ReportsOK, HistoryOK

\* All steps keep the types.
LEMMA TypeNext ==
  ASSUME TypeOK, \A c \in Child : c \in busy => runs[c] > 0, [Next]_vars
  PROVE  TypeOK'
<1>1. CASE Prompts
  BY <1>1, PromptsFrame DEF parent, calls, agents, reports, history, TypeOK, ParentOK,
     CallsOK, AgentsOK, ReportsOK, HistoryOK
<1>2. CASE UNCHANGED vars
  BY <1>2 DEF vars, permission, prompts, lanes, parent, calls, agents, reports, history,
     TypeOK, ParentOK, CallsOK, AgentsOK, ReportsOK, HistoryOK
<1> QED
  BY <1>1, <1>2, TypeTool, TypeParent, TypeChild, TypeObserve, TypeForward DEF Next

-----------------------------------------------------------------------------
(***************************************************************************)
(* The accounts of one child.                                              *)
(***************************************************************************)
\* All that they are about.
Same(c) ==
  /\ place'[c] = place[c]
  /\ waiter'[c] = waiter[c] /\ mode'[c] = mode[c]
  /\ c \in claims' <=> c \in claims
  /\ c \in listening' <=> c \in listening
  /\ c \in mail' <=> c \in mail
  /\ c \in busy' <=> c \in busy
  /\ runs'[c] = runs[c] /\ log'[c] = log[c] /\ seen'[c] = seen[c] /\ last'[c] = last[c]
  /\ ends'[c] = ends[c]
  /\ \A m : <<c, m>> \in told' <=> <<c, m>> \in told
  /\ \A m : <<c, m>> \in again' <=> <<c, m>> \in again
  /\ \A k \in Run : <<c, k>> \in relays' <=> <<c, k>> \in relays
  /\ excused \subseteq excused' /\ swallowed \subseteq swallowed' /\ mixed \subseteq mixed'

\* They hold on if none of it changes, whatever prompts are heard.
LEMMA SameAccounts ==
  ASSUME TypeOK, NEW c \in Child, Accounts(c), Same(c), HearsPrompt(c)
  PROVE  Accounts(c)'
<1>1. /\ Done(c)' = Done(c) /\ \A k : Noted(c, k)' <=> Noted(c, k)
      /\ \A m : Answer(c, m)' <=> Answer(c, m)
      /\ \A m \in DOMAIN log[c] : log[c][m].run \in Run
  <2>1. log[c] \in Seq(Entry)
    BY DEF TypeOK, ReportsOK
  <2> QED
    BY <2>1, EntryRun DEF Same, Done, Noted, Answer
<1>2. heard[c] \in Seq(Note)
  BY Roles DEF TypeOK, CallsOK
<1>3. /\ NoStop(heard[c]) => NoStop(heard'[c])
      /\ FirstStop(heard[c], 1) => FirstStop(heard'[c], 1)
  <2>1. \A e \in Event : e \in Note /\ e.kind # "stopped"
    BY DEF Event, Note
  <2> QED
    BY <1>2, <2>1, HearsMore, HearsPassed DEF HearsPrompt
<1>4. HearsFirst(c)'
  BY <1>1, <1>3 DEF Accounts, HearsFirst, Same
<1>5. Claimed(c)' /\ InLine(c)'
  BY <1>1 DEF Accounts, Claimed, InLine, Same
<1>6. Forwarding(c)' /\ Stored(c)'
  BY <1>1 DEF Accounts, Forwarding, Stored, Same
<1>7. Reported(c)' /\ Owed(c)'
  BY <1>1 DEF Accounts, Reported, Owed, Same
<1>8. Stages(c)'
  BY DEF Accounts, Stages, Same, HearsPrompt
<1> QED
  BY <1>4, <1>5, <1>6, <1>7, <1>8 DEF Accounts

\* Steps of the parent's agent, and those of other children, are such.
LEMMA ParentSame ==
  ASSUME TypeOK, NEW c \in Child, ParentStep
  PROVE  Same(c) /\ HearsPrompt(c)
<1> USE Roles DEF parent, calls, agents, reports, history, permission, prompts, lanes
<1>1. CASE StopParent
  BY <1>1 DEF StopParent, Same, HearsPrompt
<1>2. CASE ParentLeaves
  BY <1>2 DEF ParentLeaves, Leave, Same, HearsPrompt, TypeOK, ParentOK
<1>3. CASE ParentPrepares
  BY <1>3 DEF ParentPrepares, Prepare, Same, HearsPrompt, TypeOK, ParentOK
<1>4. CASE ParentEnters
  BY <1>4 DEF ParentEnters, Enter, Same, HearsPrompt, TypeOK, ParentOK
<1> QED
  BY <1>1, <1>2, <1>3, <1>4 DEF ParentStep

\* What is told for another child.
TellsOther(c) ==
  /\ \A m : <<c, m>> \in told' <=> <<c, m>> \in told
  /\ \A m : <<c, m>> \in again' <=> <<c, m>> \in again
  /\ mixed \subseteq mixed'

LEMMA TellSame ==
  ASSUME TypeOK, NEW c \in Child, NEW d \in Child, d # c,
         NEW k \in Run, NEW m \in Nat, m <= Len(log[d]), Tell(d, k, m)
  PROVE  TellsOther(c)
<1>1. /\ told \subseteq told' /\ again \subseteq again' /\ mixed \subseteq mixed'
      /\ \A x \in told' : x \in told \/ x = <<d, m>>
      /\ \A x \in again' : x \in again \/ x = <<d, m>>
  BY TellGives
<1>2. \A n : <<c, n>> # <<d, m>>
  OBVIOUS
<1> QED
  BY <1>1, <1>2 DEF TellsOther

LEMMA OtherSame ==
  ASSUME TypeOK, NEW c \in Child, NEW d \in Child, d # c,
         ToolStep(d) \/ ChildStep(d) \/ Observe(d)
  PROVE  Same(c) /\ HearsPrompt(c)
<1> USE Roles DEF parent, calls, agents, reports, history, permission, prompts, lanes
<1>1. ASSUME NEW m \in {"sync", "async"}, Launch(d, m) PROVE Same(c) /\ HearsPrompt(c)
  BY <1>1 DEF Launch, Create, Same, HearsPrompt, TypeOK, CallsOK
<1>2. CASE Begin(d)
  BY <1>2 DEF Begin, Claims, Listen, Same, HearsPrompt, TypeOK, CallsOK
<1>3. ASSUME Unlisten(d)
      PROVE  /\ heard'[c] = heard[c] /\ (c \in listening' <=> c \in listening)
             /\ place' = place
  BY <1>3 DEF Unlisten, TypeOK, CallsOK
<1>4. CASE Finish(d)
  <2>1. Head(heard[d]).run \in Run
    BY <1>4, QueueTypes, NoticeRun DEF Finish, TypeOK, CallsOK
  <2>2. PICK k \in Run, m \in Nat : m <= Len(log[d]) /\ Tell(d, k, m)
    BY <1>4, <2>1, HeardGives DEF Finish
  <2>3. TellsOther(c)
    BY <2>2, TellSame
  <2> QED
    BY <1>3, <1>4, <2>3 DEF Finish, Same, HearsPrompt, TypeOK, CallsOK, TellsOther
<1>5. CASE GiveUp(d)
  BY <1>3, <1>5 DEF GiveUp, Withdrawn, Same, HearsPrompt, TypeOK, CallsOK
<1>6. CASE Post(d)
  BY <1>6 DEF Post, Same, HearsPrompt
<1>7. CASE ChildPrepares(d) \/ ChildEnters(d)
  BY <1>7 DEF ChildPrepares, ChildEnters, Prepare, Enter, Same, HearsPrompt, TypeOK, ParentOK
<1>8. CASE Pull(d)
  BY <1>8 DEF Pull, Same, HearsPrompt, TypeOK, AgentsOK
<1>9. CASE ChildLeaves(d)
  BY <1>9 DEF ChildLeaves, Leave, Same, HearsPrompt, TypeOK, ParentOK
<1>10. ASSUME NEW end, EndRun(d, end) PROVE Same(c) /\ HearsPrompt(c)
  BY <1>10 DEF EndRun, Emit, Same, HearsPrompt, TypeOK, CallsOK, ReportsOK
<1>11. ASSUME NEW t, Say(d, t) PROVE Same(c) /\ HearsPrompt(c)
  BY <1>11 DEF Say, Same, HearsPrompt, TypeOK, ReportsOK
<1>12. CASE Observe(d)
  <2>1. /\ \A k \in Run : <<c, k>> \in relays' <=> <<c, k>> \in relays
        /\ c \in claims' <=> c \in claims
        /\ last'[c] = last[c] /\ seen'[c] = seen[c]
        /\ swallowed \subseteq swallowed'
    BY <1>12 DEF Observe, Store, Stops, TypeOK, ReportsOK
  <2> QED
    BY <1>12, <2>1 DEF Observe, Same, HearsPrompt, TypeOK
<1> QED
  BY <1>1, <1>2, <1>4, <1>5, <1>6, <1>7, <1>8, <1>9, <1>10, <1>11, <1>12
     DEF ToolStep, ChildStep

LEMMA ForwardSame ==
  ASSUME TypeOK, NEW c \in Child, NEW d \in Child, NEW k \in Run, d # c, Forward(d, k)
  PROVE  Same(c) /\ HearsPrompt(c)
<1>1. TellsOther(c)
  <2>1. CASE Tell(d, k, last[d])
    BY <2>1, TellSame DEF TypeOK, ReportsOK
  <2>2. CASE UNCHANGED <<told, again, mixed>>
    BY <2>2 DEF TellsOther
  <2> QED
    BY <2>1, <2>2 DEF Forward
<1> QED
  BY <1>1, Roles DEF Forward, Same, HearsPrompt, permission, lanes, parent, calls, agents,
     TellsOther

\* The numbers an account is about.
LEMMA AccountTypes ==
  ASSUME TypeOK, NEW c \in Child
  PROVE  /\ heard[c] \in Seq(Note) /\ Done(c) \in Int /\ runs[c] \in Nat
         /\ log[c] \in Seq(Entry) /\ Len(log[c]) \in Nat /\ DOMAIN log[c] = 1..Len(log[c])
         /\ \A i \in DOMAIN log[c] : i \in Nat /\ log[c][i] \in Entry /\ log[c][i].run \in Run
         /\ seen[c] \in Nat /\ last[c] \in Nat /\ last[c] <= Len(log[c])
<1>1. heard[c] \in Seq(Note)
  BY Roles DEF TypeOK, CallsOK
<1>2. runs[c] \in Nat
  BY SubagentAssumption DEF TypeOK, AgentsOK
<1>3. log[c] \in Seq(Entry) /\ seen[c] \in Nat /\ last[c] \in Nat /\ last[c] <= Len(log[c])
  BY DEF TypeOK, ReportsOK
<1>4. Done(c) \in Int
  BY <1>2 DEF Done
<1>5. \A i \in DOMAIN log[c] : i \in Nat /\ log[c][i] \in Entry /\ log[c][i].run \in Run
  BY <1>3, EntryRun
<1> QED
  BY <1>1, <1>2, <1>3, <1>4, <1>5

\* What no step but those of the stream and its reader changes.
StreamSame(c) ==
  /\ log'[c] = log[c] /\ seen'[c] = seen[c] /\ last'[c] = last[c] /\ ends'[c] = ends[c]
  /\ Done(c)' = Done(c)

LEMMA StreamStays ==
  ASSUME TypeOK, NEW c \in Child, Accounts(c), StreamSame(c)
  PROVE  /\ \A k : Noted(c, k)' <=> Noted(c, k)
         /\ \A m : Answer(c, m)' <=> Answer(c, m)
         /\ runs'[c] = runs[c] => InLine(c)'
         /\ Stored(c)'
<1>1. \A k : Noted(c, k)' <=> Noted(c, k)
  BY DEF Noted, StreamSame
<1>2. \A m : Answer(c, m)' <=> Answer(c, m)
  BY DEF Answer, StreamSame
<1>3. runs'[c] = runs[c] => InLine(c)'
  BY DEF Accounts, InLine, StreamSame
<1>4. Stored(c)'
  BY DEF Accounts, Stored, StreamSame
<1> QED
  BY <1>1, <1>2, <1>3, <1>4

\* A run that was seen to stop is over, and its answer is in the store, or a
\* later message.
LEMMA NotedOver ==
  ASSUME TypeOK, NEW c \in Child, Accounts(c), NEW k \in Run, Noted(c, k)
  PROVE  /\ k <= Done(c)
         /\ \A m \in DOMAIN log[c] : Answer(c, m) /\ log[c][m].run = k =>
              /\ last[c] # 0 /\ last[c] \in DOMAIN log[c]
              /\ log[c][last[c]].run = k => last[c] = m
<1> USE AccountTypes
<1>1. PICK i \in DOMAIN log[c] : i <= seen[c] /\ log[c][i] = Stopped(k)
  BY DEF Noted
<1>2. log[c][i].kind = "stopped" /\ log[c][i].run = k
  BY <1>1, EntryRun
<1>3. k <= Done(c)
  BY <1>1, <1>2 DEF Accounts, InLine
<1>4. ASSUME NEW m \in DOMAIN log[c], Answer(c, m), log[c][m].run = k
      PROVE  /\ last[c] # 0 /\ last[c] \in DOMAIN log[c]
             /\ log[c][last[c]].run = k => last[c] = m
  <2>1. log[c][m].kind = "added"
    BY <1>4 DEF Answer, Speaks
  <2>2. ~(i < m) /\ i # m
    BY <1>2, <1>4, <2>1 DEF Accounts, InLine
  <2>3. m <= seen[c] /\ m > 0
    BY <1>1, <2>2
  <2>4. m <= last[c]
    BY <2>1, <2>3 DEF Accounts, Stored
  <2>5. last[c] # 0 /\ last[c] \in DOMAIN log[c]
    BY <2>3, <2>4
  <2>6. log[c][last[c]].kind = "added"
    BY <2>5 DEF Accounts, Stored
  <2>7. ASSUME log[c][last[c]].run = k PROVE last[c] <= m
    BY <1>4, <2>5, <2>6, <2>7 DEF Answer
  <2> QED
    BY <2>4, <2>5, <2>7
<1> QED
  BY <1>3, <1>4

\* A text is told for a run that nobody will report again.
LEMMA TellAccounts ==
  ASSUME TypeOK, NEW c \in Child, Accounts(c), StreamSame(c),
         NEW k \in Run, NEW m \in Nat, m <= Len(log[c]), Tell(c, k, m),
         c \in claims' <=> c \in claims,
         \A j \in Run : <<c, j>> \in relays' => <<c, j>> \in relays /\ j # k,
         waiter'[c] = waiter[c] \/ waiter'[c] = "over",
         k = 1 => waiter'[c] # "waiting",
         \A n \in DOMAIN log[c] : log[c][n].run = k /\ <<c, n>> \in told => <<c, k>> \in mixed,
         Noted(c, k) \/ (k = 1 /\ c \in claims /\ waiter'[c] = "over")
  PROVE  Forwarding(c)' /\ Reported(c)'
<1> USE AccountTypes
<1>1. /\ told \subseteq told' /\ again \subseteq again' /\ mixed \subseteq mixed'
      /\ \A x \in told' : x \in told \/ (x = <<c, m>> /\ m # 0)
      /\ \A x \in again' : x \in again \/ (x = <<c, m>> /\ m # 0 /\ x \in told)
      /\ m # 0 => /\ m \in DOMAIN log[c]
                  /\ <<c, m>> \in told' => <<c, m>> \in told \/ Speaks(log[c][m])
                  /\ log[c][m].run # k /\ Speaks(log[c][m]) => <<c, log[c][m].run>> \in mixed'
  BY TellGives
<1>2. /\ log'[c] = log[c]
      /\ \A j : Noted(c, j)' <=> Noted(c, j)
  BY StreamStays DEF StreamSame
<1>3. \A n : <<c, n>> \in told' => <<c, n>> \in told \/ (n = m /\ m # 0)
  BY <1>1
<1>4. \A n : <<c, n>> \in again' => <<c, n>> \in again \/ (n = m /\ m # 0 /\ <<c, n>> \in told)
  BY <1>1
<1>5. \A n : <<c, n>> \in told => n \in DOMAIN log[c] /\ Speaks(log[c][n])
  BY DEF Accounts, Reported
<1>6. \A n : <<c, n>> \in told' => n \in DOMAIN log[c] /\ Speaks(log[c][n])
  BY <1>1, <1>3, <1>5
<1>7. \A n \in DOMAIN log[c] : <<c, n>> \in told' /\ <<c, n>> \notin told =>
        log[c][n].run = k \/ <<c, log[c][n].run>> \in mixed'
  BY <1>1, <1>3, <1>6
<1>8. Forwarding(c)'
  <2>1. ASSUME NEW j \in Run, <<c, j>> \in relays'
        PROVE  /\ Noted(c, j)
               /\ j = 1 => waiter'[c] # "waiting"
               /\ \A n \in DOMAIN log[c] : log[c][n].run = j /\ <<c, n>> \in told' =>
                    <<c, j>> \in mixed'
    <3>1. <<c, j>> \in relays /\ j # k
      BY <2>1
    <3> QED
      BY <1>1, <1>7, <3>1 DEF Accounts, Forwarding
  <2> QED
    BY <1>2, <2>1 DEF Forwarding
<1>9. Reported(c)'
  <2>1. ASSUME NEW n \in DOMAIN log[c], <<c, n>> \in told'
        PROVE  \/ <<c, log[c][n].run>> \in mixed'
               \/ Noted(c, log[c][n].run)
               \/ log[c][n].run = 1 /\ c \in claims' /\ waiter'[c] = "over"
    <3>1. CASE <<c, n>> \in told
      BY <1>1, <3>1 DEF Accounts, Reported
    <3>2. CASE <<c, n>> \notin told
      BY <1>7, <2>1, <3>2
    <3> QED
      BY <3>1, <3>2
  <2>2. ASSUME NEW n \in DOMAIN log[c], <<c, n>> \in told', log[c][n].run = 1,
               waiter'[c] = "waiting"
        PROVE  <<c, 1>> \in mixed'
    <3>1. waiter[c] = "waiting" /\ k # 1
      BY <2>2
    <3>2. CASE <<c, n>> \in told
      BY <1>1, <2>2, <3>1, <3>2 DEF Accounts, Reported
    <3>3. CASE <<c, n>> \notin told
      BY <1>7, <2>2, <3>1, <3>3
    <3> QED
      BY <3>2, <3>3
  <2>3. ASSUME NEW n \in DOMAIN log[c], <<c, n>> \in again'
        PROVE  <<c, log[c][n].run>> \in mixed'
    <3>1. CASE <<c, n>> \in again
      BY <1>1, <3>1 DEF Accounts, Reported
    <3>2. CASE n = m /\ m # 0 /\ <<c, n>> \in told
      <4>1. Speaks(log[c][m])
        BY <1>5, <3>2
      <4>2. CASE log[c][m].run = k
        BY <1>1, <3>2, <4>2
      <4> QED
        BY <1>1, <3>2, <4>1, <4>2
    <3> QED
      BY <1>4, <2>3, <3>1, <3>2
  <2>4. \A n : <<c, n>> \in again' => <<c, n>> \in told'
    BY <1>1, <1>4 DEF Accounts, Reported
  <2> QED
    BY <1>2, <1>6, <2>1, <2>2, <2>3, <2>4 DEF Reported
<1> QED
  BY <1>8, <1>9

\* The calls of the tool for the child itself.
LEMMA ToolAccounts ==
  ASSUME TypeOK, TypeOK', NEW c \in Child, Accounts(c), ToolStep(c)
  PROVE  Accounts(c)'
<1> USE Roles DEF parent, agents, reports, history, permission, prompts, lanes
<1>0. /\ heard[c] \in Seq(Note) /\ Done(c) \in Int /\ runs[c] \in Nat
      /\ DOMAIN log[c] = 1..Len(log[c])
      /\ \A i \in DOMAIN log[c] : log[c][i] \in Entry /\ log[c][i].run \in Run
  BY AccountTypes
<1>e. ASSUME waiter[c] \in {"none", "starting"}
      PROVE  Done(c) = 0 /\ DOMAIN log[c] = {} /\ c \notin claims /\ place[c] = "out"
  <2>1. runs[c] = 0 /\ c \notin busy /\ c \notin claims /\ place[c] = "out"
    BY <1>e DEF Accounts, Stages
  <2>2. \A i \in DOMAIN log[c] : log[c][i].run <= 0
    BY <2>1 DEF Accounts, InLine
  <2>3. \A i \in DOMAIN log[c] : FALSE
    BY <1>0, <2>2, FirstRun
  <2> QED
    BY <2>1, <2>3 DEF Done
<1>1. ASSUME NEW m \in {"sync", "async"}, Launch(c, m) PROVE Accounts(c)'
  <2>1. /\ waiter'[c] = "starting" /\ waiter[c] = "none" /\ place'[c] = "out"
        /\ UNCHANGED <<claims, listening, heard, agents, reports, history>>
    BY <1>1 DEF Launch, Create, TypeOK, CallsOK
  <2>2. StreamSame(c) /\ DOMAIN log[c] = {} /\ Done(c) = 0
    BY <1>e, <2>1 DEF Done, StreamSame
  <2>3. /\ \A k : Noted(c, k)' <=> Noted(c, k)
        /\ InLine(c)' /\ Stored(c)'
    BY <2>1, <2>2, StreamStays
  <2>4. \A k : ~Noted(c, k)
    BY <2>2 DEF Noted
  <2>5. Stages(c)' /\ Claimed(c)' /\ HearsFirst(c)'
    BY <2>1, <2>2, <2>3 DEF Accounts, Stages, Claimed, HearsFirst, StreamSame
  <2>6. Forwarding(c)' /\ Reported(c)' /\ Owed(c)'
    BY <2>1, <2>2, <2>3, <2>4 DEF Accounts, Forwarding, Reported, Owed
  <2> QED
    BY <2>3, <2>5, <2>6 DEF Accounts
<1>2. CASE Begin(c)
  <2>1. /\ waiter'[c] = "waiting" /\ waiter[c] = "starting"
        /\ listening' = listening \cup {c} /\ c \notin listening
        /\ c \in claims'
        /\ UNCHANGED <<heard, mode, place, runs, busy, reports, history>>
    BY <1>2 DEF Begin, Claims, Listen, TypeOK, CallsOK
  <2>2. StreamSame(c) /\ DOMAIN log[c] = {} /\ Done(c) = 0
    BY <1>e, <2>1 DEF Done, StreamSame
  <2>3. /\ \A k : Noted(c, k)' <=> Noted(c, k)
        /\ InLine(c)' /\ Stored(c)'
    BY <2>1, <2>2, StreamStays
  <2>4. \A k : ~Noted(c, k)
    BY <2>2 DEF Noted
  <2>5. HearsFirst(c)'
    <3>1. heard[c] = <<>>
      BY <2>1 DEF Accounts, Stages
    <3> QED
      BY <2>1, <2>2, <3>1 DEF HearsFirst, NoStop, StreamSame
  <2>6. Stages(c)' /\ Claimed(c)'
    BY <2>1, <2>2, <2>3, <2>4 DEF Accounts, Stages, Claimed, StreamSame
  <2>7. Forwarding(c)' /\ Reported(c)' /\ Owed(c)'
    BY <2>1, <2>2, <2>3, <2>4 DEF Accounts, Forwarding, Reported, Owed
  <2> QED
    BY <2>3, <2>5, <2>6, <2>7 DEF Accounts
<1>4. CASE Finish(c)
  <2>1. /\ waiter[c] = "waiting" /\ waiter'[c] = "over"
        /\ listening' = listening \ {c} /\ heard'[c] = <<>>
        /\ UNCHANGED <<claims, mode, place, agents, log, seen, last, relays, ends, excused,
                       swallowed>>
    BY <1>4 DEF Finish, Unlisten, TypeOK, CallsOK
  <2>2. StreamSame(c)
    BY <2>1 DEF Done, StreamSame
  <2>3. /\ \A k : Noted(c, k)' <=> Noted(c, k)
        /\ \A m : Answer(c, m)' <=> Answer(c, m)
        /\ InLine(c)' /\ Stored(c)'
    BY <2>1, <2>2, StreamStays
  <2>4. Done(c) > 0 /\ Head(heard[c]) = Stopped(1)
    <3>1. heard[c] # <<>> /\ Head(heard[c]).kind = "stopped"
      BY <1>4 DEF Finish
    <3>2. ~NoStop(heard[c]) /\ (FirstStop(heard[c], 1) => Head(heard[c]) = Stopped(1))
      BY <1>0, <3>1, HearsHead
    <3>3. Done(c) >= 0
      BY <1>0 DEF Accounts, Stages, Done
    <3> QED
      BY <1>0, <2>1, <3>2, <3>3 DEF Accounts, HearsFirst
  <2>5. 1 \in Run
    BY <1>0, <2>4, SubagentAssumption DEF TypeOK, AgentsOK, Run, Done
  <2>6. TellHeard(c, 1)
    BY <1>4, <2>4 DEF Finish, Stopped
  <2>7. PICK m \in Nat :
          /\ m <= Len(log[c]) /\ Tell(c, 1, m)
          /\ \A i \in DOMAIN log[c] : Speaks(log[c][i]) /\ log[c][i].run = 1 =>
               i <= m /\ Speaks(log[c][m]) /\ log[c][m].run = 1
    BY <2>5, <2>6, HeardGives
  <2>8. /\ told \subseteq told' /\ mixed \subseteq mixed'
        /\ m # 0 => m \in DOMAIN log[c] /\ (Speaks(log[c][m]) => <<c, m>> \in told')
    BY <2>5, <2>7, TellGives
  <2>9. ASSUME NEW n \in DOMAIN log[c], Answer(c, n), log[c][n].run = 1
        PROVE  <<c, n>> \in told'
    <3>1. n <= m /\ Speaks(log[c][m]) /\ log[c][m].run = 1
      BY <2>7, <2>9 DEF Answer
    <3>2. m # 0 /\ m \in DOMAIN log[c] /\ <<c, m>> \in told'
      BY <1>0, <2>8, <2>9, <3>1
    <3>3. m <= n
      BY <2>9, <3>1, <3>2 DEF Answer, Speaks
    <3>4. n \in Nat
      BY <1>0
    <3> QED
      BY <2>7, <3>1, <3>2, <3>3, <3>4
  <2>10. Forwarding(c)' /\ Reported(c)'
    <3>1. \A j \in Run : <<c, j>> \in relays => j # 1
      BY <2>1 DEF Accounts, Forwarding
    <3>2. \A n \in DOMAIN log[c] : log[c][n].run = 1 /\ <<c, n>> \in told => <<c, 1>> \in mixed
      BY <2>1 DEF Accounts, Reported
    <3>3. Noted(c, 1) \/ c \in claims
      BY <2>1 DEF Accounts, Claimed
    <3> QED
      BY <2>1, <2>2, <2>5, <2>7, <3>1, <3>2, <3>3, TellAccounts
  <2>11. Stages(c)' /\ HearsFirst(c)'
    BY <2>1, <2>2 DEF Accounts, Stages, HearsFirst, StreamSame
  <2>12. Claimed(c)'
    <3>1. log'[c] = log[c]
      BY <2>1
    <3> QED
      BY <2>1, <2>2, <2>3, <2>4, <2>9, <3>1 DEF Accounts, Claimed, StreamSame
  <2>13. Owed(c)'
    <3>1. ASSUME NEW n \in DOMAIN log[c], Answer(c, n), Noted(c, log[c][n].run)
          PROVE  \/ <<c, n>> \in told'
                 \/ <<c, log[c][n].run>> \in relays' \cup excused' \cup mixed'
                 \/ <<c, log[c][n].run>> \in swallowed' /\ mode'[c] = "sync"
      BY <2>1, <2>8, <2>9, <3>1 DEF Accounts, Owed
    <3>2. log'[c] = log[c]
      BY <2>1
    <3> QED
      BY <2>3, <3>1, <3>2 DEF Owed
  <2> QED
    BY <2>3, <2>10, <2>11, <2>12, <2>13 DEF Accounts
<1>5. CASE GiveUp(c)
  <2>1. /\ waiter[c] \in {"starting", "waiting"} /\ waiter'[c] = "over"
        /\ c \in claims' => c \in claims /\ mode[c] # "async"
        /\ c \in listening' <=> FALSE
        /\ heard'[c] = <<>>
        /\ excused \subseteq excused'
        /\ UNCHANGED <<mode, place, agents, reports, again, swallowed, mixed>>
    BY <1>5 DEF GiveUp, Calling, Withdrawn, Unlisten, TypeOK, CallsOK
  <2>2. StreamSame(c)
    BY <2>1 DEF Done, StreamSame
  <2>3. /\ \A k : Noted(c, k)' <=> Noted(c, k)
        /\ \A m : Answer(c, m)' <=> Answer(c, m)
        /\ InLine(c)' /\ Stored(c)'
    BY <2>1, <2>2, StreamStays
  <2>4. Stages(c)' /\ Claimed(c)' /\ HearsFirst(c)'
    BY <2>1, <2>2, <2>3 DEF Accounts, Stages, Claimed, HearsFirst, StreamSame
  <2>5. Forwarding(c)'
    BY <2>1, <2>3 DEF Accounts, Forwarding
  <2>6. Reported(c)'
    <3>1. ASSUME NEW n \in DOMAIN log[c], <<c, n>> \in told
          PROVE  <<c, log[c][n].run>> \in mixed \/ Noted(c, log[c][n].run)
      BY <2>1, <3>1 DEF Accounts, Reported
    <3> QED
      BY <2>1, <2>3, <3>1 DEF Accounts, Reported
  <2>7. Owed(c)'
    <3>1. ASSUME NEW n \in DOMAIN log[c], Answer(c, n), Noted(c, log[c][n].run),
                 log[c][n].run = 1, waiter[c] = "waiting"
          PROVE  <<c, log[c][n].run>> \in excused'
      <4>1. 1 \in Run
        BY <1>0, <3>1
      <4>2. c \notin claims
        BY <3>1, <4>1 DEF Accounts, Claimed
      <4>3. Done(c) > 0
        BY <1>0, <3>1, <4>1, NotedOver
      <4>4. PICK i \in DOMAIN heard[c] : heard[c][i] = Stopped(1)
        BY <3>1, <4>3 DEF Accounts, HearsFirst, FirstStop
      <4> QED
        BY <1>5, <3>1, <4>1, <4>2, <4>4 DEF GiveUp
    <3>2. ASSUME NEW n \in DOMAIN log[c], Answer(c, n), Noted(c, log[c][n].run)
          PROVE  \/ <<c, n>> \in told
                 \/ <<c, log[c][n].run>> \in relays \cup excused' \cup mixed
                 \/ <<c, log[c][n].run>> \in swallowed /\ mode[c] = "sync"
      BY <2>1, <3>1, <3>2 DEF Accounts, Owed
    <3> QED
      BY <2>1, <2>3, <3>2 DEF Owed
  <2> QED
    BY <2>3, <2>4, <2>5, <2>6, <2>7 DEF Accounts
<1>6. CASE Post(c)
  <2>1. /\ waiter[c] \in {"waiting", "over"}
        /\ UNCHANGED <<permission, parent, calls, busy, runs, reports, history>>
    BY <1>6 DEF Post
  <2> USE DEF calls
  <2>2. StreamSame(c)
    BY <2>1 DEF Done, StreamSame
  <2>3. /\ \A k : Noted(c, k)' <=> Noted(c, k)
        /\ \A m : Answer(c, m)' <=> Answer(c, m)
        /\ InLine(c)' /\ Stored(c)'
    BY <2>1, <2>2, StreamStays
  <2>4. Stages(c)' /\ Claimed(c)' /\ HearsFirst(c)'
    BY <2>1, <2>2, <2>3 DEF Accounts, Stages, Claimed, HearsFirst, StreamSame
  <2>5. Forwarding(c)' /\ Reported(c)' /\ Owed(c)'
    BY <2>1, <2>3 DEF Accounts, Forwarding, Reported, Owed
  <2> QED
    BY <2>3, <2>4, <2>5 DEF Accounts
<1> QED
  BY <1>1, <1>2, <1>4, <1>5, <1>6 DEF ToolStep

\* One more entry of the stream, of the run under way.
LEMMA LogGrows ==
  ASSUME TypeOK, NEW c \in Child, Accounts(c), c \in busy, NEW e \in Entry, e.run = runs[c],
         log'[c] = Append(log[c], e), seen'[c] = seen[c],
         e.kind = "added" => ends'[c] = ends[c],
         \A k \in Run : k # runs[c] => ends'[c][k] = ends[c][k]
  PROVE  /\ DOMAIN log'[c] = 1..(Len(log[c]) + 1) /\ log'[c][Len(log[c]) + 1] = e
         /\ Len(log'[c]) = Len(log[c]) + 1
         /\ \A i \in DOMAIN log[c] : i \in DOMAIN log'[c] /\ log'[c][i] = log[c][i]
         /\ \A i \in DOMAIN log'[c] : i \in DOMAIN log[c] \/ i = Len(log[c]) + 1
         /\ runs[c] \in Run /\ Done(c) = runs[c] - 1 /\ ~Noted(c, runs[c])
         /\ \A k : Noted(c, k)' <=> Noted(c, k)
         /\ \A m \in DOMAIN log[c] : log[c][m].run # runs[c] => (Answer(c, m)' <=> Answer(c, m))
         /\ e.kind = "added" => \A m \in DOMAIN log'[c] : log'[c][m].run = runs[c] => ~Answer(c, m)'
<1> USE AccountTypes
<1> DEFINE n == Len(log[c]) + 1
<1>1. /\ DOMAIN log'[c] = 1..n /\ log'[c][n] = e /\ Len(log'[c]) = n
      /\ \A i \in DOMAIN log[c] : i \in DOMAIN log'[c] /\ log'[c][i] = log[c][i]
      /\ \A i \in DOMAIN log'[c] : i \in DOMAIN log[c] \/ i = n
  OBVIOUS
<1>2. runs[c] \in Run /\ Done(c) = runs[c] - 1
  BY SubagentAssumption DEF Accounts, Stages, Done, TypeOK, AgentsOK, Run
<1>3. ~Noted(c, runs[c])
  BY <1>2, NotedOver
<1>4. seen[c] < n /\ n \in Nat
  BY DEF Accounts, InLine
<1>5. \A k : Noted(c, k)' <=> Noted(c, k)
  <2>1. ASSUME NEW k, Noted(c, k) PROVE Noted(c, k)'
    BY <1>1, <2>1 DEF Noted
  <2>2. ASSUME NEW k, Noted(c, k)' PROVE Noted(c, k)
    <3>1. PICK i \in DOMAIN log'[c] : i <= seen[c] /\ log'[c][i] = Stopped(k)
      BY <2>2 DEF Noted
    <3>2. i \in DOMAIN log[c]
      BY <1>1, <1>4, <3>1
    <3> QED
      BY <1>1, <3>1, <3>2 DEF Noted
  <2> QED
    BY <2>1, <2>2
<1> HIDE DEF n
<1>6. ASSUME NEW m \in DOMAIN log[c], log[c][m].run # runs[c]
      PROVE  Answer(c, m)' <=> Answer(c, m)
  <2>1. log'[c][m] = log[c][m] /\ log[c][m].run \in Run
    BY <1>1
  <2>2. ends'[c][log[c][m].run] = ends[c][log[c][m].run]
    BY <1>6, <2>1
  <2>3. \A i \in DOMAIN log'[c] : log'[c][i].run = log[c][m].run =>
          i \in DOMAIN log[c] /\ log'[c][i] = log[c][i]
    BY <1>1, <1>6
  <2> QED
    BY <1>1, <2>1, <2>2, <2>3 DEF Answer
<1>7. ASSUME e.kind = "added", NEW m \in DOMAIN log'[c], log'[c][m].run = runs[c]
      PROVE  ~Answer(c, m)'
  <2>1. ends[c][runs[c]] = "none"
    BY <1>2 DEF Accounts, InLine
  <2> QED
    BY <1>7, <2>1 DEF Answer
<1> QED
  BY <1>1, <1>2, <1>3, <1>5, <1>6, <1>7 DEF n

\* It leaves all accounts as they are that do not ask how the run ends.
LEMMA GrowsAccounts ==
  ASSUME TypeOK, NEW c \in Child, Accounts(c), c \in busy, NEW e \in Entry, e.run = runs[c],
         log'[c] = Append(log[c], e), seen'[c] = seen[c], last'[c] = last[c],
         e.kind = "added" => ends'[c] = ends[c],
         \A k \in Run : k # runs[c] => ends'[c][k] = ends[c][k],
         waiter'[c] = waiter[c], mode'[c] = mode[c], claims' = claims,
         Done(c)' = Done(c) \/ Done(c)' = Done(c) + 1,
         UNCHANGED <<relays, told, history>>
  PROVE  Claimed(c)' /\ Forwarding(c)' /\ Stored(c)' /\ Reported(c)' /\ Owed(c)'
<1> USE AccountTypes DEF history
<1> DEFINE n == Len(log[c]) + 1
<1>1. /\ DOMAIN log'[c] = 1..n /\ log'[c][n] = e
      /\ \A i \in DOMAIN log[c] : i \in DOMAIN log'[c] /\ log'[c][i] = log[c][i]
      /\ \A i \in DOMAIN log'[c] : i \in DOMAIN log[c] \/ i = n
      /\ runs[c] \in Run /\ Done(c) = runs[c] - 1 /\ ~Noted(c, runs[c])
      /\ \A k : Noted(c, k)' <=> Noted(c, k)
      /\ \A m \in DOMAIN log[c] : log[c][m].run # runs[c] => (Answer(c, m)' <=> Answer(c, m))
      /\ e.kind = "added" => \A m \in DOMAIN log'[c] : log'[c][m].run = runs[c] => ~Answer(c, m)'
  BY LogGrows
<1>2. seen[c] < n /\ last[c] < n /\ n \in Nat /\ n \notin DOMAIN log[c]
  BY DEF Accounts, InLine
<1> HIDE DEF n
<1>3. \A m : <<c, m>> \in told => m \in DOMAIN log[c] /\ Speaks(log[c][m])
  BY DEF Accounts, Reported
<1>4. \A m \in DOMAIN log'[c] : <<c, m>> \in told => m \in DOMAIN log[c] /\ log'[c][m] = log[c][m]
  BY <1>1, <1>3
<1>5. \A m \in DOMAIN log'[c] : log'[c][m].run # runs[c] =>
        m \in DOMAIN log[c] /\ log'[c][m] = log[c][m] /\ (Answer(c, m)' <=> Answer(c, m))
  BY <1>1
<1>6. Forwarding(c)'
  BY <1>1, <1>4 DEF Accounts, Forwarding
<1>7. Stored(c)'
  <2>1. last[c] # 0 => last[c] \in DOMAIN log[c]
    BY <1>2
  <2>2. \A i \in DOMAIN log'[c] : i <= seen[c] => i \in DOMAIN log[c] /\ log'[c][i] = log[c][i]
    BY <1>1, <1>2
  <2> QED
    BY <1>1, <2>1, <2>2 DEF Accounts, Stored
<1>8. Reported(c)'
  <2>1. \A m : <<c, m>> \in told => m \in DOMAIN log'[c] /\ Speaks(log'[c][m])
    BY <1>1, <1>3
  <2>2. \A m \in DOMAIN log'[c] : <<c, m>> \in again => <<c, log'[c][m].run>> \in mixed
    <3>1. \A m : <<c, m>> \in again => <<c, m>> \in told
      BY DEF Accounts, Reported
    <3> QED
      BY <1>4, <3>1 DEF Accounts, Reported
  <2> QED
    BY <1>1, <1>4, <2>1, <2>2 DEF Accounts, Reported
<1>9. Claimed(c)'
  <2>1. ASSUME c \in claims, waiter[c] = "over", mode[c] = "async"
        PROVE  /\ Done(c)' > 0
               /\ \A m \in DOMAIN log'[c] : log'[c][m].run = 1 /\ Answer(c, m)' => <<c, m>> \in told
    <3>1. Done(c) > 0 /\ runs[c] # 1
      BY <1>1, <2>1 DEF Accounts, Claimed
    <3>2. Done(c)' > 0
      BY <3>1
    <3>3. ASSUME NEW m \in DOMAIN log'[c], log'[c][m].run = 1, Answer(c, m)'
          PROVE  <<c, m>> \in told
      <4>1. m \in DOMAIN log[c] /\ log[c][m].run = 1 /\ Answer(c, m)
        BY <1>5, <3>1, <3>3
      <4> QED
        BY <2>1, <4>1 DEF Accounts, Claimed
    <3> QED
      BY <3>2, <3>3
  <2> QED
    BY <1>1, <2>1 DEF Accounts, Claimed
<1>10. Owed(c)'
  <2>1. ASSUME NEW m \in DOMAIN log'[c], Answer(c, m)', Noted(c, log'[c][m].run)
        PROVE  m \in DOMAIN log[c] /\ log'[c][m] = log[c][m] /\ Answer(c, m)
    <3>1. log'[c][m].run # runs[c]
      BY <1>1, <2>1
    <3> QED
      BY <1>5, <2>1, <3>1
  <2> QED
    BY <1>1, <2>1 DEF Accounts, Owed
<1> QED
  BY <1>6, <1>7, <1>8, <1>9, <1>10

\* The agent of the child.
LEMMA ChildAccounts ==
  ASSUME TypeOK, TypeOK', NEW c \in Child, Accounts(c), ChildStep(c)
  PROVE  Accounts(c)'
<1> USE Roles DEF parent, calls, reports, history, permission, prompts, lanes
<1>0. /\ heard[c] \in Seq(Note) /\ Done(c) \in Int /\ runs[c] \in Nat
      /\ DOMAIN log[c] = 1..Len(log[c]) /\ Len(log[c]) \in Nat /\ seen[c] \in Nat
      /\ \A i \in DOMAIN log[c] : i \in Nat /\ log[c][i] \in Entry /\ log[c][i].run \in Run
  BY AccountTypes
<1>1. ASSUME ChildPrepares(c) \/ ChildEnters(c) \/ ChildLeaves(c) PROVE Accounts(c)'
  <2>1. /\ UNCHANGED <<listening, heard, calls, busy, mail, runs, reports>>
        /\ UNCHANGED <<again, excused, swallowed, mixed>>
    BY <1>1 DEF ChildPrepares, ChildEnters, ChildLeaves, Prepare, Enter, Leave, agents
  <2>2. StreamSame(c)
    BY <2>1 DEF Done, StreamSame
  <2>3. /\ \A k : Noted(c, k)' <=> Noted(c, k)
        /\ \A m : Answer(c, m)' <=> Answer(c, m)
        /\ InLine(c)' /\ Stored(c)'
    BY <2>1, <2>2, StreamStays
  <2>4. Claimed(c)' /\ HearsFirst(c)'
    BY <2>1, <2>2, <2>3 DEF Accounts, Claimed, HearsFirst, StreamSame
  <2>5. Forwarding(c)' /\ Reported(c)' /\ Owed(c)'
    BY <2>1, <2>3 DEF Accounts, Forwarding, Reported, Owed
  <2>6. Stages(c)'
    BY <1>1, <2>1 DEF Accounts, Stages, ChildPrepares, ChildEnters, ChildLeaves, Prepare,
       Enter, Leave, TypeOK, ParentOK
  <2> QED
    BY <2>3, <2>4, <2>5, <2>6 DEF Accounts
<1>2. CASE Pull(c)
  <2>1. /\ UNCHANGED <<permission, calls, reports, history>>
        /\ place[c] = "in" /\ c \in mail /\ mail' = mail \ {c}
    BY <1>2 DEF Pull
  <2>2. \/ c \notin busy /\ c \in busy' /\ runs'[c] = runs[c] + 1
        \/ c \in busy /\ c \in busy' /\ runs'[c] = runs[c]
    BY <1>2 DEF Pull, TypeOK, AgentsOK
  <2>3. StreamSame(c)
    <3>1. Done(c)' = Done(c)
      BY <1>0, <2>2 DEF Done
    <3> QED
      BY <2>1, <3>1 DEF StreamSame
  <2>4. /\ \A k : Noted(c, k)' <=> Noted(c, k)
        /\ \A m : Answer(c, m)' <=> Answer(c, m)
        /\ Stored(c)'
    BY <2>3, StreamStays
  <2>5. InLine(c)'
    <3>1. \A i \in DOMAIN log[c] : log[c][i].run <= runs[c] => log[c][i].run <= runs'[c]
      <4>1. \A i \in DOMAIN log[c] : log[c][i].run \in Nat
        BY <1>0, FirstRun
      <4>2. runs'[c] = runs[c] \/ runs'[c] = runs[c] + 1
        BY <2>2
      <4> QED
        BY <1>0, <4>1, <4>2
    <3> QED
      BY <2>1, <2>3, <3>1 DEF Accounts, InLine, StreamSame
  <2>6. Claimed(c)' /\ HearsFirst(c)'
    BY <2>1, <2>3, <2>4 DEF Accounts, Claimed, HearsFirst, StreamSame
  <2>7. Forwarding(c)' /\ Reported(c)' /\ Owed(c)'
    BY <2>1, <2>4 DEF Accounts, Forwarding, Reported, Owed
  <2>8. Stages(c)'
    BY <1>0, <2>1, <2>2 DEF Accounts, Stages
  <2> QED
    BY <2>4, <2>5, <2>6, <2>7, <2>8 DEF Accounts
<1>3. ASSUME NEW t \in BOOLEAN, Say(c, t) PROVE Accounts(c)'
  <2> DEFINE e == Added(runs[c], t)
             n == Len(log[c]) + 1
  <2>1. /\ c \in busy /\ log'[c] = Append(log[c], e) /\ seen'[c] = seen[c]
        /\ UNCHANGED <<permission, calls, agents, last, relays, ends, told, history>>
    BY <1>3 DEF Say, TypeOK, ReportsOK
  <2>2. runs[c] \in Run
    BY <1>0, <2>1, SubagentAssumption DEF Accounts, Stages, TypeOK, AgentsOK, Run
  <2>3. e \in Entry /\ e.run = runs[c] /\ e.kind = "added"
    BY <2>2, EntryRun
  <2>4. Done(c)' = Done(c)
    BY <2>1 DEF Done, agents
  <2> HIDE DEF e, n
  <2>5. Claimed(c)' /\ Forwarding(c)' /\ Stored(c)' /\ Reported(c)' /\ Owed(c)'
    BY <2>1, <2>3, <2>4, GrowsAccounts
  <2>6. /\ DOMAIN log'[c] = 1..n /\ log'[c][n] = e /\ Len(log'[c]) = n
        /\ \A i \in DOMAIN log[c] : i \in DOMAIN log'[c] /\ log'[c][i] = log[c][i]
        /\ \A i \in DOMAIN log'[c] : i \in DOMAIN log[c] \/ i = n
        /\ Done(c) = runs[c] - 1
    BY <2>1, <2>3, LogGrows DEF n
  <2>7. InLine(c)'
    <3>1. seen[c] <= n /\ \A i \in DOMAIN log[c] : i < n /\ ~(n < i)
      BY <1>0 DEF n, Accounts, InLine
    <3>2. ASSUME NEW i \in DOMAIN log'[c], NEW j \in DOMAIN log'[c], i < j
          PROVE  /\ log'[c][i].run <= log'[c][j].run
                 /\ log'[c][i].kind = "stopped" => log'[c][i].run # log'[c][j].run
      <4>1. CASE j \in DOMAIN log[c]
        <5>1. i \in DOMAIN log[c]
          BY <2>6, <3>1, <3>2, <4>1
        <5> QED
          BY <2>6, <3>2, <4>1, <5>1 DEF Accounts, InLine
      <4>2. CASE j = n
        <5>1. i \in DOMAIN log[c]
          BY <1>0, <2>6, <3>2, <4>2 DEF n
        <5>2. log[c][i].run <= runs[c] /\ (log[c][i].kind = "stopped" => log[c][i].run <= runs[c] - 1)
          BY <2>6, <5>1 DEF Accounts, InLine
        <5> QED
          BY <1>0, <2>3, <2>6, <4>2, <5>1, <5>2
      <4> QED
        BY <2>6, <4>1, <4>2
    <3>3. ASSUME NEW i \in DOMAIN log'[c]
          PROVE  /\ log'[c][i].run <= runs[c]
                 /\ log'[c][i].kind = "stopped" => log'[c][i].run <= Done(c)
      BY <1>0, <2>3, <2>6 DEF Accounts, InLine
    <3>4. \A k \in Run : k <= Done(c) => \E i \in DOMAIN log'[c] : log'[c][i] = Stopped(k)
      BY <2>6 DEF Accounts, InLine
    <3> QED
      BY <2>1, <2>4, <2>6, <3>1, <3>2, <3>3, <3>4 DEF Accounts, InLine, agents
  <2>8. Stages(c)' /\ HearsFirst(c)'
    BY <2>1, <2>4 DEF Accounts, Stages, HearsFirst, agents
  <2> QED
    BY <2>5, <2>7, <2>8 DEF Accounts
<1>4. ASSUME NEW end \in Ends, EndRun(c, end) PROVE Accounts(c)'
  <2> DEFINE k == runs[c]
             n == Len(log[c]) + 1
  <2>1. c \in busy /\ k > 0 /\ place[c] = "in" /\ k \in Run
    BY <1>0, <1>4, SubagentAssumption DEF EndRun, Accounts, Stages, TypeOK, AgentsOK, Run
  <2>2. /\ c \notin busy'
        /\ log'[c] = Append(log[c], Stopped(k)) /\ seen'[c] = seen[c]
        /\ Emit(c, Stopped(k))
        /\ UNCHANGED <<place, listening, calls, mail, runs, last, relays, told, history>>
    BY <1>4 DEF EndRun, TypeOK, ReportsOK
  <2>3. ends'[c][k] = end /\ \A j \in Run : j # k => ends'[c][j] = ends[c][j]
    BY <1>4, <2>1 DEF EndRun, TypeOK, ReportsOK
  <2> HIDE DEF k, n
  <2>4. /\ Stopped(k) \in Notice /\ Stopped(k) \in Note /\ Stopped(k) \in Entry
        /\ Stopped(k).kind = "stopped" /\ Stopped(k).run = k
    BY <2>1, NoticeRun, EntryRun
  <2>5. Done(c) = k - 1 /\ Done(c)' = k
    BY <1>0, <2>1, <2>2 DEF Done, k
  <2>6. Claimed(c)' /\ Forwarding(c)' /\ Stored(c)' /\ Reported(c)' /\ Owed(c)'
    <3>1. Stopped(k).run = runs[c] /\ \A j \in Run : j # runs[c] => ends'[c][j] = ends[c][j]
      BY <2>3, <2>4 DEF k
    <3>2. Done(c)' = Done(c) + 1
      BY <1>0, <2>5 DEF k
    <3> QED
      BY <2>1, <2>2, <2>4, <3>1, <3>2, GrowsAccounts
  <2>7. /\ DOMAIN log'[c] = 1..n /\ log'[c][n] = Stopped(k) /\ Len(log'[c]) = n
        /\ \A i \in DOMAIN log[c] : i \in DOMAIN log'[c] /\ log'[c][i] = log[c][i]
        /\ \A i \in DOMAIN log'[c] : i \in DOMAIN log[c] \/ i = n
    BY <1>0, <2>2, <2>4, AccountTypes DEF n
  <2>8. k \in Nat /\ \A i \in DOMAIN log[c] :
          /\ log[c][i].run <= k
          /\ log[c][i].kind = "stopped" => log[c][i].run <= k - 1
    BY <2>1, <2>5, FirstRun DEF Accounts, InLine, k
  <2>9. InLine(c)'
    <3>1. seen[c] <= n /\ n \in Nat /\ \A i \in DOMAIN log[c] : i < n /\ ~(n < i)
      BY <1>0 DEF n, Accounts, InLine
    <3>2. ASSUME NEW i \in DOMAIN log'[c], NEW j \in DOMAIN log'[c], i < j
          PROVE  /\ log'[c][i].run <= log'[c][j].run
                 /\ log'[c][i].kind = "stopped" => log'[c][i].run # log'[c][j].run
      <4>1. CASE j \in DOMAIN log[c]
        <5>1. i \in DOMAIN log[c]
          BY <2>7, <3>1, <3>2, <4>1
        <5> QED
          BY <2>7, <3>2, <4>1, <5>1 DEF Accounts, InLine
      <4>2. CASE j = n
        <5>1. i \in DOMAIN log[c]
          BY <2>7, <3>1, <3>2, <4>2
        <5> QED
          BY <1>0, <2>4, <2>7, <2>8, <4>2, <5>1, FirstRun
      <4> QED
        BY <2>7, <4>1, <4>2
    <3>3. ASSUME NEW i \in DOMAIN log'[c]
          PROVE  /\ log'[c][i].run <= k
                 /\ log'[c][i].kind = "stopped" => log'[c][i].run <= k
      <4>1. CASE i \in DOMAIN log[c]
        BY <2>7, <2>8, <4>1
      <4>2. CASE i = n
        BY <2>4, <2>7, <2>8, <4>2
      <4> QED
        BY <2>7, <4>1, <4>2
    <3>4. ASSUME NEW j \in Run, j <= k PROVE \E i \in DOMAIN log'[c] : log'[c][i] = Stopped(j)
      <4>1. CASE j = k
        BY <1>0, <2>7, <4>1 DEF n
      <4>2. CASE j # k
        <5>1. j <= Done(c)
          BY <2>5, <2>8, <3>4, <4>2, FirstRun
        <5> QED
          BY <2>7, <5>1 DEF Accounts, InLine
      <4> QED
        BY <4>1, <4>2
    <3>5. \A j \in Run : j > k => ends'[c][j] = "none"
      <4>1. \A j \in Run : j > k => j # k /\ j > Done(c)
        BY <2>5, <2>8, FirstRun
      <4> QED
        BY <2>3, <4>1 DEF Accounts, InLine
    <3>6. runs'[c] = k
      BY <2>2 DEF k
    <3> QED
      BY <2>2, <2>5, <2>7, <3>1, <3>2, <3>3, <3>4, <3>5, <3>6 DEF InLine
  <2>10. heard'[c] = IF c \in listening THEN Append(heard[c], Stopped(k)) ELSE heard[c]
    BY <2>2, <2>4, EmitHears
  <2>11. Stages(c)'
    BY <1>0, <2>1, <2>2, <2>10 DEF Accounts, Stages, k
  <2>12. HearsFirst(c)'
    <3>1. SUFFICES ASSUME waiter[c] = "waiting" PROVE FirstStop(heard'[c], 1)
      BY <2>1, <2>2, <2>5, <2>8 DEF HearsFirst, calls
    <3>2. heard'[c] = Append(heard[c], Stopped(k))
      BY <2>10, <3>1 DEF Accounts, Stages
    <3>3. CASE k = 1
      BY <1>0, <2>1, <2>5, <3>1, <3>2, <3>3, HearsStop DEF Accounts, HearsFirst
    <3>4. CASE k # 1
      <4>1. Done(c) > 0
        BY <2>1, <2>5, <2>8, <3>4
      <4> QED
        BY <1>0, <2>4, <3>1, <3>2, <4>1, HearsMore DEF Accounts, HearsFirst
    <3> QED
      BY <3>3, <3>4
  <2> QED
    BY <2>6, <2>9, <2>11, <2>12 DEF Accounts
<1> QED
  BY <1>1, <1>2, <1>3, <1>4 DEF ChildStep

\* The conductor takes in the next entry of the stream.
LEMMA ObserveAccounts ==
  ASSUME TypeOK, TypeOK', NEW c \in Child, Accounts(c), Observe(c)
  PROVE  Accounts(c)'
<1> USE Roles DEF parent, agents, permission, prompts, lanes
<1> DEFINE n == seen[c] + 1
           e == log[c][n]
<1>0. /\ Done(c) \in Int /\ runs[c] \in Nat
      /\ DOMAIN log[c] = 1..Len(log[c]) /\ Len(log[c]) \in Nat /\ seen[c] \in Nat
      /\ \A i \in DOMAIN log[c] : i \in Nat /\ log[c][i] \in Entry /\ log[c][i].run \in Run
      /\ n \in DOMAIN log[c] /\ e \in Entry /\ e.run \in Run
  BY AccountTypes, TypeObserve, EntryRun
<1>1. /\ seen'[c] = n
      /\ UNCHANGED <<permission, waiter, mode, agents, log, ends, told, again, excused, mixed>>
      /\ (e.kind = "added" /\ Store(c)) \/ (e.kind = "stopped" /\ Stops(c, e.run))
  BY DEF Observe, TypeOK, ReportsOK
<1>2. Done(c)' = Done(c) /\ \A m : Answer(c, m)' <=> Answer(c, m)
  BY <1>1 DEF Done, Answer
<1>3. \A i \in DOMAIN log[c] : i <= n <=> i <= seen[c] \/ i = n
  BY <1>0
<1>4. \A k : Noted(c, k)' <=> Noted(c, k) \/ e = Stopped(k)
  BY <1>0, <1>1, <1>3 DEF Noted
<1> HIDE DEF n, e
<1>5. Stages(c)'
  <2>1. c \in claims' => c \in claims
    BY <1>1 DEF Store, Stops
  <2> QED
    BY <1>1, <2>1 DEF Accounts, Stages
<1>6. InLine(c)' /\ HearsFirst(c)'
  <2>1. n <= Len(log[c])
    BY <1>0
  <2> QED
    BY <1>1, <1>2, <2>1 DEF Accounts, InLine, HearsFirst
<1>7. CASE e.kind = "added" /\ Store(c)
  <2>1. last'[c] = n /\ UNCHANGED <<claims, relays, swallowed>>
    BY <1>7 DEF Store, n, TypeOK, ReportsOK
  <2>2. \A k : Noted(c, k)' <=> Noted(c, k)
    <3>1. \A k : e # Stopped(k)
      BY <1>7 DEF Stopped
    <3> QED
      BY <1>4, <3>1
  <2>3. Stored(c)'
    <3>1. \A i \in DOMAIN log[c] : ~(i <= n /\ i > n)
      BY <1>0
    <3> QED
      BY <1>0, <1>1, <1>7, <2>1, <3>1 DEF Stored, e
  <2>4. Claimed(c)' /\ Forwarding(c)' /\ Reported(c)' /\ Owed(c)'
    BY <1>1, <1>2, <2>1, <2>2 DEF Accounts, Claimed, Forwarding, Reported, Owed
  <2> QED
    BY <1>5, <1>6, <2>3, <2>4 DEF Accounts
<1>8. CASE e.kind = "stopped" /\ Stops(c, e.run)
  <2> DEFINE k == e.run
  <2>1. e = Stopped(k) /\ k \in Run /\ k \in Nat /\ k > 0
    BY <1>0, <1>8, EntryRun, FirstRun
  <2>2. /\ last' = last /\ swallowed \subseteq swallowed' /\ relays \subseteq relays'
        /\ \/ /\ c \in claims /\ c \notin claims' /\ relays' = relays
              /\ waiter[c] = "over" => <<c, k>> \in swallowed'
           \/ c \notin claims /\ claims' = claims /\ relays' = relays \cup {<<c, k>>}
    BY <1>8 DEF Stops
  <2> HIDE DEF k
  <2>3. \A j \in Run : Noted(c, j)' <=> Noted(c, j) \/ j = k
    <3>1. \A j \in Run : Stopped(j) = Stopped(k) <=> j = k
      BY DEF Stopped
    <3> QED
      BY <1>4, <2>1, <3>1
  <2>4. ~Noted(c, k)
    <3>1. ASSUME NEW i \in DOMAIN log[c], i <= seen[c], log[c][i] = Stopped(k) PROVE FALSE
      <4>1. i < n /\ n \in DOMAIN log[c]
        BY <1>0, <3>1 DEF n
      <4>2. log[c][i].kind = "stopped" /\ log[c][i].run = k /\ log[c][n].run = k
        BY <2>1, <3>1, EntryRun DEF e
      <4> QED
        BY <4>1, <4>2 DEF Accounts, InLine
    <3> QED
      BY <3>1 DEF Noted
  <2>5. (\A j \in Run : ~Noted(c, j)) => k = 1
    <3>1. SUFFICES ASSUME \A j \in Run : ~Noted(c, j), k # 1 PROVE FALSE
      OBVIOUS
    <3>2. 1 \in Run /\ 1 < k
      BY <2>1, <3>1, FirstRun
    <3>3. k <= Done(c)
      BY <1>0, <1>8 DEF Accounts, InLine, e, k
    <3>4. PICK i \in DOMAIN log[c] : log[c][i] = Stopped(1)
      BY <1>0, <2>1, <3>2, <3>3 DEF Accounts, InLine
    <3>5. log[c][i].run = 1 /\ log[c][n].run = k /\ n \in DOMAIN log[c]
      BY <1>0, <3>2, <3>4, EntryRun DEF e, k
    <3>6. ~(n < i) /\ i # n
      BY <2>1, <3>2, <3>5 DEF Accounts, InLine
    <3>7. i <= seen[c]
      BY <1>0, <1>3, <3>6
    <3> QED
      BY <3>1, <3>2, <3>4, <3>7 DEF Noted
  <2>6. c \in claims => k = 1
    BY <2>5 DEF Accounts, Claimed
  <2>7. c \notin claims'
    BY <2>2
  <2>8. waiter[c] = "waiting" /\ k = 1 => c \in claims
    BY <2>4 DEF Accounts, Claimed
  <2>9. Claimed(c)'
    <3>1. waiter[c] = "waiting" => Noted(c, 1)'
      <4>1. ASSUME waiter[c] = "waiting", ~Noted(c, 1) PROVE Noted(c, 1)'
        <5>1. k = 1
          BY <2>6, <4>1 DEF Accounts, Claimed
        <5> QED
          BY <2>1, <2>3, <5>1
      <4> QED
        BY <1>4, <4>1
    <3> QED
      BY <1>1, <2>7, <3>1 DEF Claimed
  <2>10. Stored(c)'
    <3>1. log[c][n].kind # "added"
      BY <1>8 DEF e
    <3>2. last[c] <= n
      BY <1>0, AccountTypes DEF Accounts, Stored, n
    <3> QED
      BY <1>1, <1>3, <2>2, <3>1, <3>2 DEF Accounts, Stored
  <2>11. ASSUME NEW m \in DOMAIN log[c], <<c, m>> \in told, log[c][m].run = k, c \notin claims
         PROVE  <<c, k>> \in mixed
    BY <2>4, <2>11 DEF Accounts, Reported
  <2>12. Forwarding(c)'
    <3>1. ASSUME NEW j \in Run, <<c, j>> \in relays'
          PROVE  /\ Noted(c, j)'
                 /\ j = 1 => waiter[c] # "waiting"
                 /\ \A m \in DOMAIN log[c] : log[c][m].run = j /\ <<c, m>> \in told =>
                      <<c, j>> \in mixed
      <4>1. CASE <<c, j>> \in relays
        BY <2>3, <3>1, <4>1 DEF Accounts, Forwarding
      <4>2. CASE j = k /\ c \notin claims
        BY <2>3, <2>8, <2>11, <4>2
      <4> QED
        BY <2>2, <3>1, <4>1, <4>2
    <3> QED
      BY <1>1, <3>1 DEF Forwarding
  <2>13. Reported(c)'
    <3>1. ASSUME NEW m \in DOMAIN log[c], <<c, m>> \in told
          PROVE  <<c, log[c][m].run>> \in mixed \/ Noted(c, log[c][m].run)'
      <4>1. CASE log[c][m].run = 1 /\ c \in claims
        BY <1>1, <2>1, <2>3, <2>6, <4>1
      <4> QED
        BY <1>0, <1>1, <2>3, <3>1, <4>1 DEF Accounts, Reported
    <3> QED
      BY <1>1, <3>1 DEF Accounts, Reported
  <2>14. Owed(c)'
    <3>1. ASSUME NEW m \in DOMAIN log[c], Answer(c, m), Noted(c, log[c][m].run)'
          PROVE  \/ <<c, m>> \in told
                 \/ <<c, log[c][m].run>> \in relays' \cup excused \cup mixed
                 \/ <<c, log[c][m].run>> \in swallowed' /\ mode[c] = "sync"
                 \/ log[c][m].run = 1 /\ waiter[c] = "waiting"
      <4>1. CASE Noted(c, log[c][m].run)
        BY <2>2, <3>1, <4>1 DEF Accounts, Owed
      <4>2. CASE log[c][m].run = k /\ c \notin claims
        BY <2>2, <4>2
      <4>3. CASE log[c][m].run = k /\ c \in claims
        <5>1. k = 1 /\ (waiter[c] = "waiting" \/ waiter[c] = "over")
          BY <2>6, <4>3 DEF Accounts, Stages, TypeOK, CallsOK
        <5>2. CASE waiter[c] = "over"
          <6>1. mode[c] = "async" => <<c, m>> \in told
            BY <3>1, <4>3, <5>1, <5>2 DEF Accounts, Claimed
          <6>2. mode[c] \in {"sync", "async"}
            BY DEF TypeOK, CallsOK
          <6> QED
            BY <2>2, <4>3, <5>2, <6>1, <6>2
        <5> QED
          BY <4>3, <5>1, <5>2
      <4> QED
        BY <1>0, <1>1, <2>3, <3>1, <4>1, <4>2, <4>3
    <3> QED
      BY <1>1, <1>2, <3>1 DEF Owed
  <2> QED
    BY <1>5, <1>6, <2>9, <2>10, <2>12, <2>13, <2>14 DEF Accounts
<1> QED
  BY <1>1, <1>7, <1>8

\* A reply is forwarded, or not.
LEMMA ForwardAccounts ==
  ASSUME TypeOK, TypeOK', NEW c \in Child, NEW k \in Run, Accounts(c), Forward(c, k)
  PROVE  Accounts(c)'
<1> USE Roles DEF parent, calls, agents, permission, prompts, lanes
<1>1. /\ <<c, k>> \in relays /\ relays' = relays \ {<<c, k>>}
      /\ UNCHANGED <<permission, calls, agents, log, seen, last, ends, excused, swallowed>>
      /\ IF Forwards(c, k) THEN Tell(c, k, last[c]) ELSE UNCHANGED <<told, again, mixed>>
  BY DEF Forward
<1>2. /\ Noted(c, k) /\ (k = 1 => waiter[c] # "waiting")
      /\ \A n \in DOMAIN log[c] : log[c][n].run = k /\ <<c, n>> \in told => <<c, k>> \in mixed
  BY <1>1 DEF Accounts, Forwarding
<1>3. StreamSame(c) /\ last[c] \in Nat /\ last[c] <= Len(log[c])
  BY <1>1, AccountTypes DEF Done, StreamSame
<1>4. /\ \A j : Noted(c, j)' <=> Noted(c, j)
      /\ \A m : Answer(c, m)' <=> Answer(c, m)
      /\ InLine(c)' /\ Stored(c)'
  BY <1>1, <1>3, StreamStays
<1>5. \A j \in Run : <<c, j>> \in relays' => <<c, j>> \in relays /\ j # k
  BY <1>1
<1>6. Stages(c)' /\ HearsFirst(c)'
  BY <1>1, <1>3 DEF Accounts, Stages, HearsFirst, StreamSame
<1>7. CASE Forwards(c, k) /\ Tell(c, k, last[c])
  <2>1. Forwarding(c)' /\ Reported(c)'
    BY <1>1, <1>2, <1>3, <1>5, <1>7, TellAccounts
  <2>2. /\ told \subseteq told' /\ mixed \subseteq mixed'
        /\ last[c] # 0 => /\ Speaks(log[c][last[c]]) => <<c, last[c]>> \in told'
                          /\ log[c][last[c]].run # k => <<c, k>> \in mixed'
    BY <1>3, <1>7, TellGives
  <2>3. Claimed(c)'
    BY <1>1, <1>3, <1>4, <2>2 DEF Accounts, Claimed, StreamSame
  <2>4. ASSUME NEW m \in DOMAIN log[c], Answer(c, m), log[c][m].run = k
        PROVE  <<c, m>> \in told' \/ <<c, k>> \in mixed'
    <3>1. last[c] # 0 /\ (log[c][last[c]].run = k => last[c] = m)
      BY <1>2, <2>4, NotedOver
    <3> QED
      BY <2>2, <2>4, <3>1 DEF Answer
  <2>5. Owed(c)'
    BY <1>1, <1>4, <2>2, <2>4 DEF Accounts, Owed
  <2> QED
    BY <1>4, <1>6, <2>1, <2>3, <2>5 DEF Accounts
<1>8. CASE ~Forwards(c, k) /\ UNCHANGED <<told, again, mixed>>
  <2>1. Claimed(c)' /\ Forwarding(c)' /\ Reported(c)'
    BY <1>1, <1>3, <1>4, <1>5, <1>8 DEF Accounts, Claimed, Forwarding, Reported, StreamSame
  <2>2. Owed(c)'
    <3>1. \A m \in DOMAIN log[c] : Answer(c, m) => log[c][m].run # k
      BY <1>8 DEF Answer, Forwards
    <3> QED
      BY <1>1, <1>4, <1>8, <3>1 DEF Accounts, Owed
  <2> QED
    BY <1>4, <1>6, <2>1, <2>2 DEF Accounts
<1> QED
  BY <1>1, <1>7, <1>8

-----------------------------------------------------------------------------
(***************************************************************************)
(* The ties between the parent and its children.                           *)
(***************************************************************************)
\* Nothing of them changes.
LEMMA SameTies ==
  ASSUME Ties, UNCHANGED <<place, stopped, tied, struck, bound, token, adrift>>,
         \A c \in struck : waiter'[c] # "none"
  PROVE  Ties'
  BY DEF Ties

\* The calls of the tool.
LEMMA ToolTies ==
  ASSUME TypeOK, Ties, NEW c \in Child, Accounts(c), ToolStep(c)
  PROVE  Ties'
<1> USE Roles DEF parent, calls, agents, reports, history, permission, prompts, lanes
<1>1. ASSUME NEW m \in {"sync", "async"}, Launch(c, m) PROVE Ties'
  <2>1. /\ waiter[c] = "none" /\ place[c] = "out" /\ place[Root] = "in" /\ ~stopped
        /\ tied' = tied \cup {c} /\ struck' = struck /\ stopped' = stopped
        /\ UNCHANGED <<bound, token, adrift>>
        /\ place' = place /\ waiter' = [waiter EXCEPT ![c] = "starting"]
    BY <1>1 DEF Launch, Free, Create, Accounts, Stages
  <2>2. c \notin struck
    BY <2>1 DEF Ties
  <2>3. \A d \in struck : waiter'[d] # "none"
    BY <2>1, <2>2 DEF Ties, TypeOK, CallsOK
  <2> QED
    BY <2>1, <2>2, <2>3 DEF Ties
<1>2. ASSUME UNCHANGED <<place, stopped, tied, struck, bound, token, adrift>>,
             waiter' = waiter \/ waiter' = [waiter EXCEPT ![c] = "waiting"]
             \/ waiter' = [waiter EXCEPT ![c] = "over"]
      PROVE  Ties'
  <2>1. \A d \in struck : waiter'[d] # "none"
    BY <1>2 DEF Ties, TypeOK, CallsOK
  <2> QED
    BY <1>2, <2>1, SameTies
<1>3. CASE Begin(c)
  BY <1>2, <1>3 DEF Begin, Listen
<1>4. CASE Finish(c)
  BY <1>2, <1>4 DEF Finish, Unlisten
<1>5. CASE GiveUp(c)
  BY <1>2, <1>5 DEF GiveUp, Unlisten
<1>6. CASE Post(c)
  BY <1>2, <1>6 DEF Post
<1> QED
  BY <1>1, <1>3, <1>4, <1>5, <1>6 DEF ToolStep

\* The parent's agent.
LEMMA ParentTies ==
  ASSUME TypeOK, Ties, ParentStep
  PROVE  Ties'
<1> USE Roles DEF parent, calls, agents, reports, history, permission, prompts, lanes
<1>1. CASE StopParent
  BY <1>1 DEF StopParent, Calling, Ties, TypeOK, CallsOK
<1>2. CASE ParentLeaves
  <2>1. /\ tied' = {} /\ bound' = {} /\ UNCHANGED <<struck, stopped, waiter, token, adrift>>
        /\ \A c \in Child : place'[c] = place[c]
        /\ struck \subseteq Child
    BY <1>2 DEF ParentLeaves, Leave, TypeOK, ParentOK, CallsOK
  <2> QED
    BY <2>1 DEF Ties
<1>3. CASE ParentPrepares
  <2>1. /\ UNCHANGED <<tied, bound, struck, stopped, waiter, token, adrift>>
        /\ place[Root] # "in"
        /\ \A c \in Child : place'[c] = place[c]
        /\ struck \subseteq Child
    BY <1>3 DEF ParentPrepares, Prepare, TypeOK, ParentOK, CallsOK
  <2> QED
    BY <2>1 DEF Ties
<1>4. CASE ParentEnters
  <2>1. /\ UNCHANGED <<tied, bound, struck, waiter, token, adrift>>
        /\ place[Root] # "in"
        /\ \A c \in Child : place'[c] = place[c]
        /\ struck \subseteq Child
    BY <1>4 DEF ParentEnters, Enter, TypeOK, ParentOK, CallsOK
  <2> QED
    BY <2>1 DEF Ties
<1> QED
  BY <1>1, <1>2, <1>3, <1>4 DEF ParentStep

\* A child's agent.
LEMMA ChildTies ==
  ASSUME TypeOK, Ties, NEW c \in Child, Accounts(c), ChildStep(c)
  PROVE  Ties'
<1> USE Roles DEF parent, calls, agents, reports, history, permission, prompts, lanes
<1>1. CASE ChildPrepares(c)
  <2>1. /\ UNCHANGED <<stopped, tied, struck, waiter>>
        /\ place[c] = "out"
        /\ \A d \in Session : d # c => place'[d] = place[d]
        /\ bound' = IF Reached THEN bound \cup {c} ELSE bound \ {c}
        /\ token' = IF Reached /\ stopped THEN token \cup {c} ELSE token \ {c}
        /\ adrift' = IF place[Root] = "in" /\ c \in tied THEN adrift ELSE adrift \cup {c}
        /\ tied \subseteq Child /\ struck \subseteq Child
    BY <1>1 DEF ChildPrepares, Prepare, TypeOK, ParentOK, CallsOK
  <2>2. c \in tied => c \in bound' \cup adrift'
    BY <2>1 DEF Reached
  <2>3. c \in struck => c \in token' \cup adrift'
    BY <2>1 DEF Reached, Ties
  <2> QED
    BY <2>1, <2>2, <2>3 DEF Ties, Reached
<1>2. CASE ChildEnters(c)
  <2>1. /\ UNCHANGED <<stopped, tied, struck, waiter, bound, token, adrift>>
        /\ place[c] # "out"
        /\ \A d \in Session : d # c => place'[d] = place[d]
        /\ tied \subseteq Child /\ struck \subseteq Child
    BY <1>2 DEF ChildEnters, Enter, TypeOK, ParentOK, CallsOK
  <2> QED
    BY <2>1 DEF Ties
<1>3. CASE Pull(c)
  BY <1>3, SameTies DEF Pull, Ties
<1>4. CASE ChildLeaves(c)
  <2>1. /\ UNCHANGED <<stopped, tied, struck, waiter, token, adrift>>
        /\ place'[c] = "out" /\ bound' = bound \ {c}
        /\ \A d \in Session : d # c => place'[d] = place[d]
        /\ tied \subseteq Child /\ struck \subseteq Child
    BY <1>4 DEF ChildLeaves, Leave, TypeOK, ParentOK, CallsOK
  <2> QED
    BY <2>1 DEF Ties
<1>5. ASSUME NEW end, EndRun(c, end) PROVE Ties'
  BY <1>5, SameTies DEF EndRun, Ties
<1>6. ASSUME NEW t, Say(c, t) PROVE Ties'
  BY <1>6, SameTies DEF Say, Ties
<1> QED
  BY <1>1, <1>2, <1>3, <1>4, <1>5, <1>6 DEF ChildStep

-----------------------------------------------------------------------------
(***************************************************************************)
(* The invariant.                                                          *)
(***************************************************************************)
\* It holds at the start.
LEMMA InvInit == Init => Inv
<1> SUFFICES ASSUME Init PROVE Inv
  OBVIOUS
<1> USE Roles
<1>1. TypeOK
  <2>1. /\ place \in [Session -> {"out", "preparing", "in"}]
        /\ heard \in [Session -> Seq(Note)]
        /\ ask \in [Session -> Req \cup {None}]
        /\ listening \subseteq Child
    BY DEF Init, PermissionInit
  <2>2. log \in [Child -> Seq(Entry)] /\ \A c \in Child : last[c] <= Len(log[c])
    BY DEF Init
  <2>3. /\ runs \in [Child -> 0..MaxRuns] /\ posts \in [Child -> Nat]
        /\ ends \in [Child -> [Run -> Ends \cup {"none"}]]
    BY SubagentAssumption DEF Init
  <2>4. ParentOK /\ CallsOK
    BY <2>1 DEF Init, ParentOK, CallsOK
  <2>5. AgentsOK /\ ReportsOK /\ HistoryOK
    BY <2>2, <2>3 DEF Init, AgentsOK, ReportsOK, HistoryOK
  <2> QED
    BY <2>4, <2>5 DEF TypeOK
<1>2. ASSUME NEW c \in Child PROVE Accounts(c)
  <2>1. Done(c) = 0 /\ DOMAIN log[c] = {} /\ Len(log[c]) = 0 /\ heard[c] = <<>>
    BY DEF Init, PermissionInit, Done
  <2>2. \A k \in Run : k > 0 /\ ~(k <= 0)
    BY FirstRun
  <2>3. Stages(c) /\ Claimed(c) /\ HearsFirst(c)
    BY <2>1 DEF Init, PermissionInit, Stages, Claimed, HearsFirst
  <2>4. InLine(c)
    BY <2>1, <2>2 DEF Init, InLine
  <2>5. Forwarding(c) /\ Stored(c) /\ Reported(c) /\ Owed(c)
    BY <2>1, <2>2 DEF Init, Forwarding, Stored, Reported, Owed
  <2> QED
    BY <2>3, <2>4, <2>5 DEF Accounts
<1>3. Ties
  BY DEF Init, Ties
<1> QED
  BY <1>1, <1>2, <1>3 DEF Inv

\* Every step keeps it.
LEMMA InvNext == Inv /\ [Next]_vars => Inv'
<1> SUFFICES ASSUME Inv, [Next]_vars PROVE Inv'
  OBVIOUS
<1>1. /\ TypeOK /\ Ties
      /\ \A c \in Child : Accounts(c) /\ (c \in busy => runs[c] > 0)
  BY DEF Inv, Accounts, Stages
<1>2. TypeOK'
  BY <1>1, TypeNext
<1>3. ASSUME \A c \in Child : Same(c) /\ HearsPrompt(c) PROVE \A c \in Child : Accounts(c)'
  BY <1>1, <1>3, SameAccounts
<1>4. CASE Prompts
  <2>1. UNCHANGED <<place, listening, parent, calls, agents, reports, history>>
    BY <1>1, <1>4, PromptsFrame
  <2>2. \A c \in Child : Same(c) /\ HearsPrompt(c)
    BY <1>1, <1>4, <2>1, PromptsFrame, Roles DEF Same, parent, calls, agents, reports, history
  <2>3. Ties'
    BY <1>1, <2>1 DEF Ties, parent, calls, agents, reports, history
  <2> QED
    BY <1>2, <1>3, <2>2, <2>3 DEF Inv
<1>5. CASE ParentStep
  <2>1. \A c \in Child : Same(c) /\ HearsPrompt(c)
    BY <1>1, <1>5, ParentSame
  <2> QED
    BY <1>1, <1>2, <1>3, <1>5, <2>1, ParentTies DEF Inv
<1>6. ASSUME NEW c \in Child, ToolStep(c) \/ ChildStep(c) \/ Observe(c) PROVE Inv'
  <2>1. ASSUME NEW d \in Child, d # c PROVE Accounts(d)'
    <3>1. Same(d) /\ HearsPrompt(d)
      BY <1>1, <1>6, <2>1, OtherSame
    <3> QED
      BY <1>1, <3>1, SameAccounts
  <2>2. Accounts(c)'
    BY <1>1, <1>2, <1>6, ToolAccounts, ChildAccounts, ObserveAccounts
  <2>3. Ties'
    <3>1. CASE Observe(c)
      BY <1>1, <3>1, SameTies DEF Observe, permission, parent, agents, Ties
    <3> QED
      BY <1>1, <1>6, <3>1, ToolTies, ChildTies
  <2> QED
    BY <1>2, <2>1, <2>2, <2>3 DEF Inv
<1>7. ASSUME NEW r \in relays, Forward(r[1], r[2]) PROVE Inv'
  <2>1. r[1] \in Child /\ r[2] \in Run
    BY <1>1, <1>7, TypeForward
  <2>2. ASSUME NEW d \in Child, d # r[1] PROVE Accounts(d)'
    <3>1. Same(d) /\ HearsPrompt(d)
      BY <1>1, <1>7, <2>1, <2>2, ForwardSame
    <3> QED
      BY <1>1, <3>1, SameAccounts
  <2>3. Accounts(r[1])'
    BY <1>1, <1>2, <1>7, <2>1, ForwardAccounts
  <2>4. Ties'
    BY <1>1, <1>7, SameTies DEF Forward, permission, parent, calls, agents, Ties
  <2> QED
    BY <1>2, <2>2, <2>3, <2>4 DEF Inv
<1>8. CASE UNCHANGED vars
  <2>1. \A c \in Child : Same(c) /\ HearsPrompt(c)
    BY <1>8 DEF vars, Same, HearsPrompt, permission, lanes, parent, calls, agents, reports, history
  <2>2. Ties'
    BY <1>1, <1>8 DEF vars, Ties, permission, parent, calls, agents, history
  <2> QED
    BY <1>2, <1>3, <2>1, <2>2 DEF Inv
<1> QED
  BY <1>4, <1>5, <1>6, <1>7, <1>8 DEF Next

LEMMA InvAlways == Spec => []Inv
  BY InvInit, InvNext, PTL DEF Spec

-----------------------------------------------------------------------------
\* The state is well typed: agents, calls, tokens, the queues of Stopped
\* events and what was told of each run.
THEOREM TypeCorrect == Spec => []TypeOK
<1>1. Inv => TypeOK
  BY DEF Inv
<1> QED
  BY <1>1, InvAlways, PTL

\* The parent is sent the text of every run that leaves one, and once, but for
\* the windows that the property names.
THEOREM ReportsOnce == Spec => []TextsReportedOnce
<1>1. Inv => TextsReportedOnce
  <2> SUFFICES ASSUME Inv, NEW c \in Child, NEW m \in DOMAIN log[c], Answer(c, m)
               PROVE  LET k == log[c][m].run IN
                      /\ <<c, m>> \in again => <<c, k>> \in mixed
                      /\ seen[c] = Len(log[c]) /\ waiter[c] = "over" /\ <<c, k>> \notin relays =>
                           \/ <<c, m>> \in told
                           \/ <<c, k>> \in excused \cup mixed
                           \/ <<c, k>> \in swallowed /\ mode[c] = "sync"
    BY DEF TextsReportedOnce
  <2> DEFINE k == log[c][m].run
  <2>1. /\ TypeOK /\ Accounts(c) /\ k \in Run /\ Done(c) \in Int
        /\ DOMAIN log[c] = 1..Len(log[c])
    BY AccountTypes DEF Inv
  <2>2. <<c, m>> \in again => <<c, k>> \in mixed
    BY <2>1 DEF Accounts, Reported
  <2>3. ASSUME seen[c] = Len(log[c]) PROVE Noted(c, k)
    <3>1. ends[c][k] = "done"
      BY DEF Answer
    <3>2. ~(k > Done(c))
      BY <2>1, <3>1 DEF Accounts, InLine
    <3>3. PICK i \in DOMAIN log[c] : log[c][i] = Stopped(k)
      BY <2>1, <3>2, FirstRun DEF Accounts, InLine
    <3> QED
      BY <2>1, <2>3, <3>3 DEF Noted
  <2> QED
    BY <2>1, <2>2, <2>3 DEF Accounts, Owed
<1> QED
  BY <1>1, InvAlways, PTL

\* The stop of the parent reaches the children of the calls it has under way,
\* but for those built when the agent that launched them had left the map.
THEOREM ReachesChildren == Spec => []StopReachesChildren
<1>1. Inv => StopReachesChildren
  BY DEF Inv, TypeOK, AgentsOK, CallsOK, Accounts, Stages, Ties, StopReachesChildren
<1> QED
  BY <1>1, InvAlways, PTL

-----------------------------------------------------------------------------
(***************************************************************************)
(* Induction, and greatest elements.                                       *)
(***************************************************************************)
\* A set of numbers has a least one.
LEMMA LeastElement ==
  ASSUME NEW S, S \subseteq Nat, S # {}
  PROVE  \E t \in S : \A u \in S : t <= u
<1> DEFINE Less == {ss \in Nat \X Nat : ss[1] < ss[2]}
<1>1. IsWellFoundedOn(Less, Nat)
  BY NatLessThanWellFounded, Zenon DEF OpToRel
<1>2. PICK t \in S : \A u \in S : <<u, t>> \notin Less
  <2> HIDE DEF Less
  <2> QED
    BY <1>1, WFMin
<1>3. ASSUME NEW u \in S PROVE t <= u
  <2>1. <<u, t>> \notin Less
    BY <1>2
  <2>2. u \in Nat /\ t \in Nat /\ <<u, t>>[1] = u /\ <<u, t>>[2] = t
    OBVIOUS
  <2>3. ~(u < t)
    BY <2>1, <2>2
  <2> QED
    BY <2>2, <2>3
<1> QED
  BY <1>3

\* A set that holds zero and successors holds all numbers.
LEMMA ByInduction ==
  ASSUME NEW S, 0 \in S, \A n \in Nat : n \in S => n + 1 \in S
  PROVE  Nat \subseteq S
<1> SUFFICES ASSUME Nat \ S # {} PROVE FALSE
  OBVIOUS
<1>1. PICK n \in Nat \ S : \A m \in Nat \ S : n <= m
  BY LeastElement
<1>2. n # 0
  OBVIOUS
<1>3. n - 1 \in Nat /\ ~(n <= n - 1) /\ (n - 1) + 1 = n
  BY <1>2
<1> QED
  BY <1>1, <1>3

\* A bounded set of numbers has a greatest one.
LEMMA MaxIn ==
  ASSUME NEW k \in Nat, NEW S, S \subseteq 0..k, S # {}
  PROVE  Max(S) \in S /\ \A u \in S : u <= Max(S)
<1> DEFINE D == {k - u : u \in S}
<1>1. \A u \in S : u \in 0..k /\ k - u \in Nat
  OBVIOUS
<1>2. PICK x \in D : \A y \in D : x <= y
  <2>1. D \subseteq Nat /\ D # {}
    BY <1>1
  <2> HIDE DEF D
  <2> QED
    BY <2>1, LeastElement
<1>3. PICK m \in S : x = k - m
  BY <1>2
<1>4. \A u \in S : u <= m
  <2> TAKE u \in S
  <2>1. k - u \in D
    OBVIOUS
  <2>2. x <= k - u
    BY <1>2, <2>1
  <2> QED
    BY <1>1, <1>3, <2>2
<1> QED
  BY <1>4 DEF Max

-----------------------------------------------------------------------------
(***************************************************************************)
(* A fold by KeepPrompt, step by step.                                     *)
(***************************************************************************)

\* The recursive function over sets of indices by which the fold is defined.
Unrolled(g, s, n) ==
  g = [t \in SUBSET (1..n) |-> IF t = {} THEN <<>>
         ELSE KeepPrompt(g[t \ {Max(t)}], s[Max(t)])]

\* There is one for every length.
LEMMA FoldDefined ==
  ASSUME NEW s, NEW n \in Nat
  PROVE  \E g : Unrolled(g, s, n)
<1> DEFINE T == {k \in Nat : \E g : Unrolled(g, s, k)}
<1>1. 0 \in T
  <2> DEFINE g == [t \in SUBSET (1..0) |-> <<>>]
  <2>1. Unrolled(g, s, 0)
    BY DEF Unrolled
  <2> HIDE DEF g
  <2> QED
    BY <2>1
<1>2. ASSUME NEW k \in Nat, k \in T PROVE k + 1 \in T
  <2>1. PICK g : Unrolled(g, s, k)
    BY <1>2
  <2> DEFINE h == [t \in SUBSET (1..(k + 1)) |-> IF t = {} THEN <<>>
                     ELSE KeepPrompt(g[t \ {Max(t)}], s[Max(t)])]
  <2>2. ASSUME NEW t \in SUBSET (1..(k + 1)), t # {}
        PROVE  h[t \ {Max(t)}] = g[t \ {Max(t)}]
    <3> DEFINE r == t \ {Max(t)}
    <3>1. Max(t) \in t /\ \A u \in t : u <= Max(t)
      <4>1. k + 1 \in Nat /\ t \subseteq 0..(k + 1)
        OBVIOUS
      <4> HIDE DEF h
      <4> QED
        BY <2>2, <4>1, MaxIn
    <3>2. r \in SUBSET (1..k)
      <4>1. ASSUME NEW u \in t, u # Max(t) PROVE u \in 1..k
        <5>1. u \in 1..(k + 1) /\ Max(t) \in 1..(k + 1) /\ u <= Max(t)
          BY <3>1
        <5> QED
          BY <4>1, <5>1
      <4> QED
        BY <4>1
    <3>3. r \in SUBSET (1..(k + 1))
      OBVIOUS
    <3>4. \A q \in SUBSET (1..(k + 1)) :
            h[q] = IF q = {} THEN <<>> ELSE KeepPrompt(g[q \ {Max(q)}], s[Max(q)])
      OBVIOUS
    <3>5. \A q \in SUBSET (1..k) :
            g[q] = IF q = {} THEN <<>> ELSE KeepPrompt(g[q \ {Max(q)}], s[Max(q)])
      BY <2>1, Zenon DEF Unrolled
    <3> HIDE DEF h
    <3> QED
      BY <3>2, <3>3, <3>4, <3>5
  <2>3. Unrolled(h, s, k + 1)
    BY <2>2 DEF Unrolled
  <2> HIDE DEF h
  <2> QED
    BY <2>3
<1> HIDE DEF T
<1>3. n \in T
  BY <1>1, <1>2, ByInduction
<1> QED
  BY <1>3 DEF T

\* The fold has its intermediate results.
LEMMA FoldSteps ==
  ASSUME NEW s \in Seq(Note)
  PROVE  \E h : /\ h[0] = <<>>
                /\ \A i \in 1..Len(s) : h[i] = KeepPrompt(h[i - 1], s[i])
                /\ FoldLeft(KeepPrompt, <<>>, s) = h[Len(s)]
<1> DEFINE n == Len(s)
           g == CHOOSE f : Unrolled(f, s, n)
<1>0. n \in Nat /\ DOMAIN s = 1..n
  OBVIOUS
<1>1. FoldLeft(KeepPrompt, <<>>, s) = g[1..n]
  BY <1>0 DEF FoldLeft, MapThenFoldSet, Unrolled
<1>2. Unrolled(g, s, n)
  BY <1>0, FoldDefined
<1> HIDE DEF g, n
<1>3. \A t \in SUBSET (1..n) :
        g[t] = IF t = {} THEN <<>> ELSE KeepPrompt(g[t \ {Max(t)}], s[Max(t)])
  BY <1>2, Zenon DEF Unrolled
<1> DEFINE h == [i \in 0..n |-> g[1..i]]
<1>4. h[0] = <<>>
  <2>1. 1..0 = {} /\ 0 \in 0..n
    BY <1>0
  <2> QED
    BY <1>3, <2>1
<1>5. ASSUME NEW i \in 1..n PROVE h[i] = KeepPrompt(h[i - 1], s[i])
  <2>1. i \in Nat /\ i \in 1..i /\ 1..i \subseteq 0..i /\ 1..i \subseteq 1..n
    BY <1>0
  <2>2. 1..i # {} /\ Max(1..i) \in 1..i /\ \A u \in 1..i : u <= Max(1..i)
    BY <2>1, MaxIn
  <2>3. Max(1..i) = i
    BY <2>1, <2>2
  <2>4. (1..i) \ {i} = 1..(i - 1)
    BY <2>1
  <2>5. i \in 0..n /\ i - 1 \in 0..n
    BY <1>0
  <2> QED
    BY <1>3, <2>1, <2>3, <2>4, <2>5
<1>6. n \in 0..n
  BY <1>0
<1> QED
  BY <1>1, <1>4, <1>5, <1>6 DEF n

-----------------------------------------------------------------------------
(***************************************************************************)
(* Concatenation.                                                          *)
(***************************************************************************)
LEMMA AppendConcat ==
  ASSUME NEW S, NEW x \in S, NEW q \in Seq(S), NEW y \in S
  PROVE  Append(<<x>> \o q, y) = <<x>> \o Append(q, y)
  OBVIOUS

LEMMA HeadConcat ==
  ASSUME NEW S, NEW x \in S, NEW q \in Seq(S)
  PROVE  <<x>> \o q # <<>> /\ Head(<<x>> \o q) = x /\ Tail(<<x>> \o q) = q
  OBVIOUS

-----------------------------------------------------------------------------
(***************************************************************************)
(* The prompts in a queue.                                                 *)
(***************************************************************************)
\* The results of the fold on the way through a queue.
Kept(g, h) ==
  /\ g[0] = <<>>
  /\ \A i \in 1..Len(h) : g[i] = KeepPrompt(g[i - 1], h[i])

LEMMA KeptSteps ==
  ASSUME NEW h \in Seq(Note)
  PROVE  \E g : Kept(g, h) /\ PromptsIn(h) = g[Len(h)]
  BY FoldSteps DEF Kept, PromptsIn

\* An event is a prompt or none, and a prompt is no Stopped.
LEMMA PromptOrNot ==
  /\ \A e \in Note : IsPrompt(e) <=> e \in Event
  /\ \A k : ~IsPrompt(Stopped(k))
  /\ \A r : IsPrompt(Ask(r)) /\ IsPrompt(Ack(r))
  BY DEF IsPrompt, Note, Notice, Event, Stopped, Ask, Ack

\* What it keeps is what there is of prompts.
LEMMA KeptSoFar ==
  ASSUME NEW h \in Seq(Note), NEW g, Kept(g, h), NEW n \in 0..Len(h)
  PROVE  /\ g[n] \in Seq(Event)
         /\ \A e : Has(g[n], e) <=> IsPrompt(e) /\ \E i \in 1..n : h[i] = e
<1> DEFINE Good(k) == /\ g[k] \in Seq(Event)
                      /\ \A e : Has(g[k], e) <=> IsPrompt(e) /\ \E i \in 1..k : h[i] = e
           T == {k \in Nat : k <= Len(h) => Good(k)}
<1>1. 0 \in T
  <2>1. g[0] = <<>> /\ 1..0 = {}
    BY DEF Kept
  <2>2. g[0] \in Seq(Event) /\ \A e : ~Has(g[0], e)
    BY <2>1, EmptyQueue
  <2>3. Good(0)
    BY <2>1, <2>2
  <2> QED
    BY <2>3
<1>2. ASSUME NEW k \in Nat, k \in T PROVE k + 1 \in T
  <2> SUFFICES ASSUME k + 1 <= Len(h) PROVE Good(k + 1)
    OBVIOUS
  <2>1. k <= Len(h) /\ k + 1 \in 1..Len(h) /\ (k + 1) - 1 = k /\ Len(h) \in Nat
    OBVIOUS
  <2>2. Good(k)
    BY <1>2, <2>1
  <2>3. g[k + 1] = KeepPrompt(g[k], h[k + 1]) /\ h[k + 1] \in Note
    BY <2>1 DEF Kept
  <2>4. \A e : (\E i \in 1..(k + 1) : h[i] = e) <=> (\E i \in 1..k : h[i] = e) \/ h[k + 1] = e
    BY <2>1
  <2>5. CASE IsPrompt(h[k + 1])
    <3>1. g[k + 1] = Append(g[k], h[k + 1]) /\ h[k + 1] \in Event
      BY <2>3, <2>5, PromptOrNot DEF KeepPrompt
    <3>2. /\ g[k + 1] \in Seq(Event)
          /\ \A e : Has(g[k + 1], e) <=> Has(g[k], e) \/ h[k + 1] = e
      BY <2>2, <3>1, AppendQueue
    <3> QED
      BY <2>2, <2>4, <2>5, <3>2
  <2>6. CASE ~IsPrompt(h[k + 1])
    <3>1. g[k + 1] = g[k]
      BY <2>3, <2>6 DEF KeepPrompt
    <3> QED
      BY <2>2, <2>4, <2>6, <3>1
  <2> QED
    BY <2>5, <2>6
<1> HIDE DEF T
<1>3. Nat \subseteq T
  BY <1>1, <1>2, ByInduction
<1>4. n \in Nat /\ n <= Len(h)
  OBVIOUS
<1> QED
  BY <1>3, <1>4 DEF T

\* The prompts in a queue, and what they have of it.
LEMMA PromptsQueue ==
  ASSUME NEW h \in Seq(Note)
  PROVE  /\ PromptsIn(h) \in Seq(Event)
         /\ \A e : Has(PromptsIn(h), e) <=> IsPrompt(e) /\ Has(h, e)
<1>1. PICK g : Kept(g, h) /\ PromptsIn(h) = g[Len(h)]
  BY KeptSteps
<1>2. Len(h) \in 0..Len(h) /\ DOMAIN h = 1..Len(h)
  OBVIOUS
<1>3. /\ g[Len(h)] \in Seq(Event)
      /\ \A e : Has(g[Len(h)], e) <=> IsPrompt(e) /\ \E i \in 1..Len(h) : h[i] = e
  BY <1>1, <1>2, KeptSoFar
<1>4. \A e : Has(h, e) <=> \E i \in 1..Len(h) : h[i] = e
  BY <1>2 DEF Has
<1> QED
  BY <1>1, <1>3, <1>4

LEMMA PromptsEmpty == PromptsIn(<<>>) = <<>>
<1>1. \A h \in Seq(Note) : Len(h) = 0 => PromptsIn(h) = <<>>
  BY KeptSteps DEF Kept
<1>2. <<>> \in Seq(Note) /\ Len(<<>>) = 0
  OBVIOUS
<1> QED
  BY <1>1, <1>2

\* One more event in the queue.
LEMMA PromptsAppend ==
  ASSUME NEW h \in Seq(Note), NEW x \in Note
  PROVE  PromptsIn(Append(h, x)) = KeepPrompt(PromptsIn(h), x)
<1>1. PICK g : Kept(g, h) /\ PromptsIn(h) = g[Len(h)]
  BY KeptSteps
<1>2. /\ Append(h, x) \in Seq(Note) /\ Len(Append(h, x)) = Len(h) + 1 /\ Len(h) \in Nat
      /\ \A i \in 1..Len(h) : Append(h, x)[i] = h[i]
      /\ Append(h, x)[Len(h) + 1] = x
  OBVIOUS
<1>3. PICK a : Kept(a, Append(h, x)) /\ PromptsIn(Append(h, x)) = a[Len(h) + 1]
  BY <1>2, KeptSteps
<1> DEFINE T == {k \in Nat : k <= Len(h) => a[k] = g[k]}
<1>4. 0 \in T
  BY <1>1, <1>3 DEF Kept
<1>5. ASSUME NEW k \in Nat, k \in T PROVE k + 1 \in T
  <2> SUFFICES ASSUME k + 1 <= Len(h) PROVE a[k + 1] = g[k + 1]
    OBVIOUS
  <2>1. k <= Len(h) /\ k + 1 \in 1..Len(h) /\ k + 1 \in 1..(Len(h) + 1) /\ (k + 1) - 1 = k
    BY <1>2
  <2>2. a[k + 1] = KeepPrompt(a[k], Append(h, x)[k + 1]) /\ g[k + 1] = KeepPrompt(g[k], h[k + 1])
    BY <1>1, <1>2, <1>3, <2>1 DEF Kept
  <2> QED
    BY <1>2, <1>5, <2>1, <2>2
<1> HIDE DEF T
<1>6. Nat \subseteq T
  BY <1>4, <1>5, ByInduction
<1>7. a[Len(h)] = g[Len(h)]
  BY <1>2, <1>6 DEF T
<1>8. Len(h) + 1 \in 1..(Len(h) + 1) /\ (Len(h) + 1) - 1 = Len(h)
  BY <1>2
<1>9. a[Len(h) + 1] = KeepPrompt(a[Len(h)], x)
  BY <1>2, <1>3, <1>8 DEF Kept
<1> QED
  BY <1>1, <1>3, <1>7, <1>9

\* Without the prompt at its head.
LEMMA PromptsTail ==
  ASSUME NEW h \in Seq(Note), h # <<>>, IsPrompt(Head(h))
  PROVE  /\ PromptsIn(h) # <<>>
         /\ Head(PromptsIn(h)) = Head(h)
         /\ Tail(PromptsIn(h)) = PromptsIn(Tail(h))
<1>1. PICK g : Kept(g, h) /\ PromptsIn(h) = g[Len(h)]
  BY KeptSteps
<1>2. /\ Tail(h) \in Seq(Note) /\ Len(h) \in Nat /\ Len(h) > 0 /\ Len(Tail(h)) = Len(h) - 1
      /\ \A i \in 1..(Len(h) - 1) : Tail(h)[i] = h[i + 1]
      /\ Head(h) = h[1] /\ Head(h) \in Note
  OBVIOUS
<1>3. PICK t : Kept(t, Tail(h)) /\ PromptsIn(Tail(h)) = t[Len(h) - 1]
  BY <1>2, KeptSteps
<1>4. Head(h) \in Event
  BY <1>2, PromptOrNot
<1>5. ASSUME NEW k \in 0..(Len(h) - 1) PROVE t[k] \in Seq(Event)
  BY <1>2, <1>3, <1>5, KeptSoFar
<1> DEFINE T == {k \in Nat : k <= Len(h) - 1 => g[k + 1] = <<Head(h)>> \o t[k]}
<1>6. 0 \in T
  <2>1. 1 \in 1..Len(h) /\ 1 - 1 = 0
    BY <1>2
  <2>2. g[1] = KeepPrompt(<<>>, Head(h)) /\ t[0] = <<>>
    BY <1>1, <1>2, <1>3, <2>1 DEF Kept
  <2>3. g[1] = Append(<<>>, Head(h))
    BY <2>2 DEF KeepPrompt
  <2>4. Append(<<>>, Head(h)) = <<Head(h)>> \o <<>>
    BY <1>4
  <2>5. g[0 + 1] = <<Head(h)>> \o t[0]
    BY <2>2, <2>3, <2>4
  <2> QED
    BY <2>5
<1>7. ASSUME NEW k \in Nat, k \in T PROVE k + 1 \in T
  <2> SUFFICES ASSUME k + 1 <= Len(h) - 1 PROVE g[(k + 1) + 1] = <<Head(h)>> \o t[k + 1]
    OBVIOUS
  <2>1. /\ k <= Len(h) - 1 /\ k \in 0..(Len(h) - 1) /\ k + 1 \in 1..(Len(h) - 1) /\ (k + 1) - 1 = k
        /\ (k + 1) + 1 \in 1..Len(h) /\ ((k + 1) + 1) - 1 = k + 1
    BY <1>2
  <2>2. g[(k + 1) + 1] = KeepPrompt(g[k + 1], h[(k + 1) + 1])
    BY <1>1, <2>1 DEF Kept
  <2>3. t[k + 1] = KeepPrompt(t[k], h[(k + 1) + 1])
    BY <1>2, <1>3, <2>1 DEF Kept
  <2>4. g[k + 1] = <<Head(h)>> \o t[k] /\ t[k] \in Seq(Event)
    BY <1>5, <1>7, <2>1
  <2>5. h[(k + 1) + 1] \in Note
    BY <2>1
  <2>6. CASE IsPrompt(h[(k + 1) + 1])
    <3>1. h[(k + 1) + 1] \in Event
      BY <2>5, <2>6, PromptOrNot
    <3>2. /\ g[(k + 1) + 1] = Append(<<Head(h)>> \o t[k], h[(k + 1) + 1])
          /\ t[k + 1] = Append(t[k], h[(k + 1) + 1])
      BY <2>2, <2>3, <2>4, <2>6 DEF KeepPrompt
    <3>3. \A y \in Event : Append(<<Head(h)>> \o t[k], y) = <<Head(h)>> \o Append(t[k], y)
      <4>1. Head(h) \in Event /\ t[k] \in Seq(Event)
        BY <1>4, <2>4
      <4> SUFFICES ASSUME NEW y \in Event
                   PROVE  Append(<<Head(h)>> \o t[k], y) = <<Head(h)>> \o Append(t[k], y)
        OBVIOUS
      <4> HIDE DEF T
      <4> QED
        BY ONLY <4>1, y \in Event, AppendConcat
    <3> QED
      BY <3>1, <3>2, <3>3, Zenon
  <2>7. CASE ~IsPrompt(h[(k + 1) + 1])
    BY <2>2, <2>3, <2>4, <2>7 DEF KeepPrompt
  <2> QED
    BY <2>6, <2>7
<1> HIDE DEF T
<1>8. Nat \subseteq T
  BY <1>6, <1>7, ByInduction
<1>9. Len(h) - 1 \in Nat /\ (Len(h) - 1) + 1 = Len(h) /\ Len(h) - 1 \in 0..(Len(h) - 1)
  BY <1>2
<1>10. PromptsIn(h) = <<Head(h)>> \o PromptsIn(Tail(h)) /\ PromptsIn(Tail(h)) \in Seq(Event)
  BY <1>1, <1>3, <1>5, <1>8, <1>9 DEF T
<1> QED
  BY <1>4, <1>10, HeadConcat

-----------------------------------------------------------------------------
(***************************************************************************)
(* Subagent implements Permission: step by step, with the prompts in the   *)
(* queues of the waiting tasks for what those tasks hear.                  *)
(***************************************************************************)
Heard == [s \in Session |-> PromptsIn(heard[s])]

\* A child whose check waits for an answer is in a run.
Resting == \A c \in Child : ask[c] # None => c \in busy

LEMMA RestInit == Init => Resting
  BY Roles DEF Init, PermissionInit, Resting

\* A check ends or begins for one session.
LEMMA AskMoves ==
  ASSUME TypeOK, Prompts
  PROVE  \A c \in Child : ask'[c] = ask[c] \/ ask'[c] = None \/ c \in busy
<1>1. ASSUME NEW s \in Session, NEW r \in Req, NEW l \in Level, MayCall(s), Request(s, r, l)
      PROVE  \A c \in Child : ask'[c] = ask[c] \/ ask'[c] = None \/ c \in busy
  BY <1>1, Roles DEF Request, MayCall, TypeOK, CallsOK
<1>2. ASSUME NEW s \in Session, NEW end, Settle(s, end)
      PROVE  \A c \in Child : ask'[c] = ask[c] \/ ask'[c] = None \/ c \in busy
  BY <1>2, Roles DEF Settle, TypeOK, CallsOK
<1>3. ASSUME UNCHANGED ask
      PROVE  \A c \in Child : ask'[c] = ask[c] \/ ask'[c] = None \/ c \in busy
  BY <1>3
<1>4. CASE Terminal \/ Update
  BY <1>3, <1>4 DEF Terminal, Update, Show, Yolo, Toggle, Choose, Reply, SetLevel,
     SpawnUpdate, StoreLevel, prompts
<1>5. CASE \E s \in Session : Answered(s) \/ TimesOut(s) \/ (IsCancelled(s) /\ Cancelled(s))
  BY <1>2, <1>5 DEF Answered, TimesOut, Cancelled
<1>6. CASE \E c \in Child : Relay(c)
  BY <1>3, <1>6 DEF Relay, prompts
<1>7. CASE \E s \in Session, r \in Req, l \in Level \ {0} : MayCall(s) /\ Request(s, r, l)
  BY <1>1, <1>7
<1> QED
  BY <1>4, <1>5, <1>6, <1>7 DEF Prompts

LEMMA RestNext == TypeOK /\ Resting /\ [Next]_vars => Resting'
<1> SUFFICES ASSUME TypeOK, Resting, [Next]_vars PROVE Resting'
  OBVIOUS
<1>1. ASSUME UNCHANGED ask, busy \subseteq busy' PROVE Resting'
  BY <1>1 DEF Resting
<1>2. CASE Prompts
  <2>1. \A c \in Child : ask'[c] = ask[c] \/ ask'[c] = None \/ c \in busy
    BY <1>2, AskMoves
  <2>2. busy' = busy
    BY <1>2 DEF Prompts, agents
  <2> QED
    BY <2>1, <2>2 DEF Resting
<1>3. CASE ParentStep
  BY <1>1, <1>3 DEF ParentStep, StopParent, ParentLeaves, ParentPrepares, ParentEnters,
     Leave, Prepare, Enter, permission, prompts, agents
<1>4. ASSUME NEW c \in Child, ToolStep(c) PROVE Resting'
  <2>1. CASE \E m \in {"sync", "async"} : Launch(c, m)
    BY <1>1, <2>1 DEF Launch, Create, prompts, agents
  <2>2. CASE Begin(c)
    BY <1>1, <2>2 DEF Begin, Listen, prompts
  <2>3. CASE Finish(c) \/ GiveUp(c)
    BY <1>1, <2>3 DEF Finish, GiveUp, Unlisten, prompts, agents
  <2>4. CASE Post(c)
    BY <1>1, <2>4 DEF Post, permission, prompts
  <2> QED
    BY <1>4, <2>1, <2>2, <2>3, <2>4 DEF ToolStep
<1>5. ASSUME NEW c \in Child, ChildStep(c) PROVE Resting'
  <2>1. CASE ChildPrepares(c) \/ ChildEnters(c) \/ ChildLeaves(c)
    BY <1>1, <2>1 DEF ChildPrepares, ChildEnters, ChildLeaves, Prepare, Enter, Leave,
       prompts, agents
  <2>2. CASE Pull(c)
    BY <1>1, <2>2 DEF Pull, permission, prompts
  <2>3. ASSUME NEW end, EndRun(c, end) PROVE Resting'
    BY <2>3 DEF EndRun, AtRest, prompts, Resting
  <2>4. ASSUME NEW t, Say(c, t) PROVE Resting'
    BY <1>1, <2>4 DEF Say, permission, prompts, agents
  <2> QED
    BY <1>5, <2>1, <2>2, <2>3, <2>4 DEF ChildStep
<1>6. ASSUME NEW c \in Child, Observe(c) PROVE Resting'
  BY <1>1, <1>6 DEF Observe, permission, prompts, agents
<1>7. ASSUME NEW r \in relays, Forward(r[1], r[2]) PROVE Resting'
  BY <1>1, <1>7 DEF Forward, permission, prompts, agents
<1>8. CASE UNCHANGED vars
  BY <1>1, <1>8 DEF vars, permission, prompts, agents
<1> QED
  BY <1>2, <1>3, <1>4, <1>5, <1>6, <1>7, <1>8 DEF Next

\* A prompt that is published joins the prompts its listener hears.
LEMMA HeardEmit ==
  ASSUME TypeOK, NEW s \in Session, NEW e \in Event, Emit(s, e)
  PROVE  P!Emit(s, e)
<1>1. e \in Note /\ IsPrompt(e)
  BY PromptOrNot DEF Note
<1>2. /\ heard' \in [Session -> Seq(Note)]
      /\ \A d \in Session : heard'[d] = IF d = s /\ s \in listening
                                        THEN Append(heard[d], e) ELSE heard[d]
  BY <1>1, EmitHears
<1>3. \A d \in Session : heard[d] \in Seq(Note)
  BY DEF TypeOK, CallsOK
<1>4. \A d \in Session : PromptsIn(heard'[d]) = IF d = s /\ s \in listening
                                               THEN Append(PromptsIn(heard[d]), e)
                                               ELSE PromptsIn(heard[d])
  BY <1>1, <1>2, <1>3, PromptsAppend DEF KeepPrompt
<1>5. Heard' = IF s \in listening THEN [Heard EXCEPT ![s] = Append(@, e)] ELSE Heard
  BY <1>4 DEF Heard
<1> QED
  BY <1>5 DEF Emit, P!Emit, Heard

\* A Stopped does not.
LEMMA HeardStopped ==
  ASSUME TypeOK, NEW c \in Child, NEW k \in Run, Emit(c, Stopped(k))
  PROVE  Heard' = Heard /\ stream' = stream
<1>1. Stopped(k) \in Note /\ ~IsPrompt(Stopped(k)) /\ c \in Session /\ c # Root
  BY NoticeRun, PromptOrNot, Roles
<1>2. \A d \in Session : heard'[d] = IF d = c /\ c \in listening
                                     THEN Append(heard[d], Stopped(k)) ELSE heard[d]
  BY <1>1, EmitHears
<1>3. \A d \in Session : heard[d] \in Seq(Note)
  BY DEF TypeOK, CallsOK
<1>4. \A d \in Session : PromptsIn(heard'[d]) = PromptsIn(heard[d])
  BY <1>1, <1>2, <1>3, PromptsAppend DEF KeepPrompt
<1> QED
  BY <1>1, <1>4 DEF Heard, Emit

\* A prompt that is passed on is the first that is heard.
LEMMA HeardRelay ==
  ASSUME TypeOK, NEW c \in Child, Relay(c)
  PROVE  P!Relay(c)
<1>1. c \in Session /\ heard[c] \in Seq(Note) /\ heard[c] # <<>> /\ IsPrompt(Head(heard[c]))
  BY Roles DEF Relay, IsPrompt, TypeOK, CallsOK
<1>2. /\ PromptsIn(heard[c]) # <<>>
      /\ Head(PromptsIn(heard[c])) = Head(heard[c])
      /\ Tail(PromptsIn(heard[c])) = PromptsIn(Tail(heard[c]))
  BY <1>1, PromptsTail
<1>3. \A d \in Session : heard'[d] = IF d = c THEN Tail(heard[c]) ELSE heard[d]
  BY DEF Relay, TypeOK, CallsOK
<1>4. \A d \in Session : PromptsIn(heard'[d]) = IF d = c THEN Tail(PromptsIn(heard[c]))
                                               ELSE PromptsIn(heard[d])
  BY <1>2, <1>3
<1>5. Heard' = [Heard EXCEPT ![c] = Tail(@)]
  BY <1>4 DEF Heard
<1>6. Heard[c] = PromptsIn(heard[c])
  BY <1>1 DEF Heard
<1>7. /\ Heard[c] # <<>>
      /\ Head(Heard[c]).kind \in {"ask", "ack"}
      /\ stream' = Append(stream, Head(Heard[c]))
      /\ UNCHANGED <<place, prompts, listening, levels, unheard>>
  BY <1>2, <1>6 DEF Relay
<1> QED
  BY <1>5, <1>7 DEF P!Relay, Heard, P!prompts, prompts, P!levels, levels

\* What is dropped with the task of the prompts is what is heard of them.
LEMMA HeardUnlisten ==
  ASSUME TypeOK, NEW c \in Child, Unlisten(c)
  PROVE  P!Unlisten(c)
<1>1. c \in Session /\ heard[c] \in Seq(Note)
  BY Roles DEF TypeOK, CallsOK
<1>2. \A d \in Session : heard'[d] = IF d = c THEN <<>> ELSE heard[d]
  BY DEF Unlisten, TypeOK, CallsOK
<1>3. \A d \in Session : PromptsIn(heard'[d]) = IF d = c THEN <<>> ELSE PromptsIn(heard[d])
  BY <1>2, PromptsEmpty
<1>4. Heard' = [Heard EXCEPT ![c] = <<>>]
  BY <1>3 DEF Heard
<1>5. Heard[c] = PromptsIn(heard[c])
  BY <1>1 DEF Heard
<1>6. \A r \in Req : /\ Has(Heard[c], Ask(r)) <=> Has(heard[c], Ask(r))
                     /\ Has(Heard[c], Ack(r)) <=> Has(heard[c], Ack(r))
  BY <1>1, <1>5, PromptsQueue, PromptOrNot
<1>7. \A r \in Req : (\E i \in DOMAIN Heard[c] : Heard[c][i] \in {Ask(r), Ack(r)})
                       <=> (\E i \in DOMAIN heard[c] : heard[c][i] \in {Ask(r), Ack(r)})
  BY <1>6 DEF Has
<1>8. unheard' = unheard \cup
        {r \in Req : \E i \in DOMAIN Heard[c] : Heard[c][i] \in {Ask(r), Ack(r)}}
  BY <1>7 DEF Unlisten
<1>9. /\ listening' = listening \ {c}
      /\ UNCHANGED <<place, prompts, stream, levels>>
  BY DEF Unlisten
<1> QED
  BY <1>4, <1>8, <1>9 DEF P!Unlisten, Heard, P!prompts, prompts, P!levels, levels, P!Ask, Ask, P!Ack, Ack

LEMMA HeardSame == UNCHANGED heard => UNCHANGED Heard
  BY DEF Heard

LEMMA PermissionSame == UNCHANGED permission => UNCHANGED P!permission
  BY HeardSame DEF permission, lanes, prompts, levels, Heard,
     P!permission, P!lanes, P!prompts, P!levels

\* The terminal and a change of level do not touch what is heard.
LEMMA TerminalMaps == Terminal => P!Terminal
<1>1. Show => P!Show
  BY HeardSame DEF Show, Displaces, levels, Heard, P!Show, P!Displaces, P!levels
<1>2. ASSUME NEW answer, Reply(answer) PROVE P!Reply(answer)
  BY <1>2, HeardSame DEF Reply, lanes, Heard, P!Reply, P!lanes
<1>3. ASSUME NEW l, SetLevel(l) PROVE P!SetLevel(l)
  BY <1>3 DEF SetLevel, Written, P!SetLevel, P!Written
<1>4. Yolo => P!Yolo
  BY <1>2, <1>3 DEF Yolo, P!Yolo
<1>5. Toggle => P!Toggle
  <2> SUFFICES ASSUME Toggle PROVE P!Toggle
    OBVIOUS
  <2>1. P!SetLevel(IF row[Root] = 2 THEN 0 ELSE 2)
    BY <1>3 DEF Toggle
  <2> QED
    BY <2>1, HeardSame DEF Toggle, lanes, prompts, Heard, P!Toggle, P!lanes, P!prompts
<1>6. ASSUME NEW answer, Choose(answer) PROVE P!Choose(answer)
  BY <1>2, <1>6 DEF Choose, levels, P!Choose, P!levels
<1> QED
  BY <1>1, <1>4, <1>5, <1>6 DEF Terminal, P!Terminal

LEMMA UpdateMaps == Update => P!Update
<1>1. SpawnUpdate => P!SpawnUpdate
  BY HeardSame DEF SpawnUpdate, prompts, lanes, Heard, P!SpawnUpdate, P!prompts, P!lanes
<1>2. ASSUME NEW u, StoreLevel(u) PROVE P!StoreLevel(u)
  BY <1>2, HeardSame DEF StoreLevel, prompts, lanes, Heard, P!StoreLevel, P!prompts, P!lanes
<1> QED
  BY <1>1, <1>2 DEF Update, P!Update

\* Agents and calls come and go with what is heard as it was.
LEMMA AroundMaps ==
  ASSUME NEW s \in Session
  PROVE  /\ Prepare(s) => P!Prepare(s)
         /\ Enter(s) => P!Enter(s)
         /\ Leave(s) => P!Leave(s)
         /\ Create(s) => P!Create(s)
         /\ Listen(s) => P!Listen(s)
<1>1. Prepare(s) => P!Prepare(s)
  BY HeardSame DEF Prepare, prompts, lanes, Heard, P!Prepare, P!prompts, P!lanes
<1>2. Enter(s) => P!Enter(s)
  BY HeardSame DEF Enter, prompts, lanes, Heard, P!Enter, P!prompts, P!lanes
<1>3. Leave(s) => P!Leave(s)
  BY HeardSame DEF Leave, prompts, lanes, Heard, P!Leave, P!prompts, P!lanes
<1>4. Create(s) => P!Create(s)
  BY HeardSame DEF Create, prompts, lanes, Heard, P!Create, P!prompts, P!lanes
<1>5. Listen(s) => P!Listen(s)
  BY HeardSame DEF Listen, prompts, levels, Heard, P!Listen, P!prompts, P!levels
<1> QED
  BY <1>1, <1>2, <1>3, <1>4, <1>5

\* A check asks, and ends, as it does there.
LEMMA RequestMaps ==
  ASSUME TypeOK, NEW s \in Session, NEW r \in Req, NEW l, Request(s, r, l)
  PROVE  P!Request(s, r, l)
<1>1. Ask(r) \in Event /\ P!Ask(r) = Ask(r)
  BY DEF Ask, P!Ask, Event
<1>2. P!Emit(s, P!Ask(r))
  BY <1>1, HeardEmit DEF Request
<1> QED
  BY <1>2 DEF Request, MustAsk, Unheard, levels, P!Request, P!MustAsk, P!Unheard, P!levels

LEMMA SettleMaps ==
  ASSUME TypeOK, NEW s \in Session, NEW end, Settle(s, end)
  PROVE  P!Settle(s, end)
<1>1. ask[s] \in Req
  BY DEF Settle, TypeOK, CallsOK
<1>2. Ack(ask[s]) \in Event /\ P!Ack(ask[s]) = Ack(ask[s])
  BY <1>1 DEF Ack, P!Ack, Event
<1>3. P!Emit(s, P!Ack(ask[s]))
  BY <1>2, HeardEmit DEF Settle, Acks
<1> QED
  BY <1>3 DEF Settle, Unheard, P!Settle, P!Acks, P!Unheard

LEMMA CheckMaps ==
  ASSUME TypeOK, NEW s \in Session, Check(s)
  PROVE  P!Check(s)
<1>1. ASSUME NEW r \in Req, NEW l \in Level \ {0}, Request(s, r, l) PROVE P!Check(s)
  BY <1>1, RequestMaps DEF P!Check, P!Level, Level
<1>2. CASE Answered(s)
  BY <1>2, SettleMaps DEF Answered, Mine, P!Check, P!Answered, P!Mine
<1>3. CASE TimesOut(s) \/ Cancelled(s)
  BY <1>3, SettleMaps DEF TimesOut, Cancelled, P!Check, P!TimesOut, P!Cancelled
<1> QED
  BY <1>1, <1>2, <1>3 DEF Check

-----------------------------------------------------------------------------
\* The initial states map to initial states ...
LEMMA MapsInit == Init => P!PermissionInit
<1> SUFFICES ASSUME Init PROVE P!PermissionInit
  OBVIOUS
<1>1. PermissionInit
  BY DEF Init
<1>2. \A s \in Session : heard[s] = <<>>
  BY <1>1 DEF PermissionInit
<1>3. Heard = [s \in Session |-> <<>>]
  BY <1>2, PromptsEmpty DEF Heard
<1> QED
  BY <1>1, <1>3 DEF PermissionInit, P!PermissionInit, Heard

\* ... and every step to a step, or to none.
LEMMA MapsNext ==
  ASSUME Inv, Resting, [Next]_vars
  PROVE  [P!PermissionNext]_P!permission
<1>0. TypeOK
  BY DEF Inv
<1>1. ASSUME NEW s \in Session, P!Check(s) \/ P!Around(s) PROVE P!PermissionNext
  BY <1>1 DEF P!PermissionNext
<1>2. ASSUME NEW c \in Child, P!Below(c) PROVE P!PermissionNext
  BY <1>2 DEF P!PermissionNext, Child
<1>3. CASE Prompts
  <2>1. CASE Terminal \/ Update
    BY <2>1, TerminalMaps, UpdateMaps DEF P!PermissionNext
  <2>2. CASE \E s \in Session : Answered(s) \/ TimesOut(s)
    BY <1>0, <1>1, <2>2, CheckMaps DEF Check
  <2>3. CASE \E s \in Session, r \in Req, l \in Level \ {0} : MayCall(s) /\ Request(s, r, l)
    BY <1>0, <1>1, <2>3, CheckMaps DEF Check
  <2>4. CASE \E s \in Session : IsCancelled(s) /\ Cancelled(s)
    BY <1>0, <1>1, <2>4, CheckMaps DEF Check
  <2>5. CASE \E c \in Child : Relay(c)
    BY <1>0, <1>2, <2>5, HeardRelay DEF P!Below
  <2> QED
    BY <1>3, <2>1, <2>2, <2>3, <2>4, <2>5 DEF Prompts
<1>4. CASE ParentStep
  <2>1. CASE StopParent
    BY <2>1, PermissionSame DEF StopParent
  <2>2. CASE ParentLeaves
    BY <1>1, <2>2, AroundMaps, Roles DEF ParentLeaves, AtRest, P!Around
  <2>3. CASE ParentPrepares \/ ParentEnters
    BY <1>1, <2>3, AroundMaps, Roles DEF ParentPrepares, ParentEnters, P!Around
  <2> QED
    BY <1>4, <2>1, <2>2, <2>3 DEF ParentStep
<1>5. ASSUME NEW c \in Child, ToolStep(c) PROVE [P!PermissionNext]_P!permission
  <2>1. CASE \E m \in {"sync", "async"} : Launch(c, m)
    BY <1>2, <2>1, AroundMaps, Roles DEF Launch, P!Below
  <2>2. CASE Begin(c)
    BY <1>2, <2>2, AroundMaps, Roles DEF Begin, P!Below
  <2>3. CASE Finish(c) \/ GiveUp(c)
    BY <1>0, <1>2, <2>3, HeardUnlisten DEF Finish, GiveUp, P!Below
  <2>4. CASE Post(c)
    BY <2>4, PermissionSame DEF Post
  <2> QED
    BY <1>5, <2>1, <2>2, <2>3, <2>4 DEF ToolStep
<1>6. ASSUME NEW c \in Child, ChildStep(c) PROVE [P!PermissionNext]_P!permission
  <2>1. CASE ChildPrepares(c) \/ ChildEnters(c)
    BY <1>1, <2>1, AroundMaps, Roles DEF ChildPrepares, ChildEnters, P!Around
  <2>2. CASE Pull(c)
    BY <2>2, PermissionSame DEF Pull
  <2>3. CASE ChildLeaves(c)
    <3>1. ask[c] = None
      BY <2>3 DEF ChildLeaves, Resting
    <3> QED
      BY <1>1, <2>3, <3>1, AroundMaps, Roles DEF ChildLeaves, P!Around
  <2>4. ASSUME NEW end, EndRun(c, end) PROVE UNCHANGED P!permission
    <3>1. runs[c] \in Run
      BY <1>0, <2>4, SubagentAssumption
         DEF EndRun, Inv, Accounts, Stages, TypeOK, AgentsOK, Run
    <3>2. UNCHANGED <<Heard, stream>>
      BY <1>0, <2>4, <3>1, HeardStopped DEF EndRun
    <3> QED
      BY <2>4, <3>2 DEF EndRun, prompts, levels, Heard,
         P!permission, P!lanes, P!prompts, P!levels
  <2>5. ASSUME NEW t, Say(c, t) PROVE UNCHANGED P!permission
    BY <2>5, PermissionSame DEF Say
  <2> QED
    BY <1>6, <2>1, <2>2, <2>3, <2>4, <2>5 DEF ChildStep
<1>7. ASSUME NEW c \in Child, Observe(c) PROVE UNCHANGED P!permission
  BY <1>7, PermissionSame DEF Observe
<1>8. ASSUME NEW r \in relays, Forward(r[1], r[2]) PROVE UNCHANGED P!permission
  BY <1>8, PermissionSame DEF Forward
<1>9. CASE UNCHANGED vars
  BY <1>9, PermissionSame DEF vars
<1> QED
  BY <1>3, <1>4, <1>5, <1>6, <1>7, <1>8, <1>9 DEF Next

\* Agents, calls and waiting tasks do to the prompts only what Permission
\* leaves open to them: the prompts its tasks relay are those it speaks of.
THEOREM PromptsRefined == Spec => PermissionHolds
<1>1. Init => P!PermissionInit
  BY MapsInit
<1>2. Inv /\ Resting /\ [Next]_vars => [P!PermissionNext]_P!permission
  BY MapsNext
<1>3. Spec => []Resting
  <2>1. Inv /\ Resting /\ [Next]_vars => Resting'
    BY RestNext DEF Inv
  <2> QED
    BY <2>1, RestInit, InvAlways, PTL DEF Spec
<1> QED
  BY <1>1, <1>2, <1>3, InvAlways, PTL DEF Spec, PermissionHolds, P!PermissionSpec
=============================================================================
