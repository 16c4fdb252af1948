---------------------------- MODULE SessionProofs ----------------------------
(***************************************************************************)
(* Proofs about what a session keeps beside the loop of its agent.         *)
(*                                                                         *)
(* First Btw, its side questions, for any questions, cancellations and     *)
(* cleanup ticks.  Then Rewind, its checkpoints, for any files, messages   *)
(* and faults and any size of the manifest.                                *)
(***************************************************************************)
EXTENDS Btw, Rewind, FiniteSetTheorems, WellFoundedInduction, TLAPS

-----------------------------------------------------------------------------
(***************************************************************************)
(* The inductive invariant.                                                *)
(***************************************************************************)
Holding(t) == at[t] \in {"preparing", "registering"}

\* A question is started before anything else becomes of it.
LifeOfQuestion ==
  \A q \in Question :
    /\ Holding(q) \/ at[q] = "done" => q \in started
    /\ stream[q] # "none" => at[q] \in {"registering", "done"}

\* A question in the tracker is through with start_btw, and Done is still to
\* come for it, as it is for one that is not through.
DoneOutstanding ==
  \A q \in Question :
    /\ dones[q] <= 1
    /\ dones[q] = 1 => at[q] = "done"
    /\ handle = q => at[q] = "done" /\ dones[q] = 0

\* Who prepares or registers is a question with the lock that it has cloned.
HolderHolds == \A t \in Task : Holding(t) => t \in Question /\ held[arc[t]] = t

\* As long as no cleanup tick has come in between, all who want the lock or
\* have it mean the one in the map.
SameLock ==
  ~swept =>
    \A t \in Task : at[t] \notin {"new", "done"} => arc[t] = lock

\* Under that lock the last question has been replaced.
Replaced == ~swept => \A q \in Question : Holding(q) => handle = None

Inv ==
  /\ TypeOK
  /\ LifeOfQuestion
  /\ DoneOutstanding
  /\ HolderHolds
  /\ SameLock
  /\ Replaced
  /\ OneStream
  /\ StopHolds

-----------------------------------------------------------------------------
LEMMA Names ==
  /\ Question \subseteq Task
  /\ Stop \subseteq Task
  /\ \A q \in Question : q \notin Stop /\ q # None
  /\ \A t \in Task : t # None
  BY BtwAssumption DEF Task

LEMMA InitInv == Init => Inv
<1> SUFFICES ASSUME Init PROVE Inv
  OBVIOUS
<1> USE Names
<1>1. TypeOK
  BY DEF Init, TypeOK, Places, Streams
<1>2. LifeOfQuestion /\ HolderHolds /\ Replaced
  BY DEF Init, LifeOfQuestion, HolderHolds, Replaced, Holding
<1>3. DoneOutstanding
  <2>1. ASSUME NEW q \in Question
        PROVE  dones[q] <= 1 /\ dones[q] # 1 /\ handle # q
    BY DEF Init
  <2> QED
    BY <2>1 DEF DoneOutstanding
<1>4. SameLock /\ OneStream /\ StopHolds
  BY DEF Init, SameLock, OneStream, StopHolds
<1> QED
  BY <1>1, <1>2, <1>3, <1>4 DEF Inv

-----------------------------------------------------------------------------
(***************************************************************************)
(* The steps.                                                              *)
(***************************************************************************)
LEMMA AskInv == ASSUME Inv, NEW q \in Question, Ask(q) PROVE Inv'
<1> USE Names DEF Inv, Ask, CloneLock, Go, history
<1>1. TypeOK'
  BY DEF TypeOK, Places
<1>2. LifeOfQuestion' /\ HolderHolds' /\ DoneOutstanding'
  BY DEF TypeOK, LifeOfQuestion, HolderHolds, DoneOutstanding, Holding
<1>3. SameLock' /\ Replaced'
  BY DEF TypeOK, SameLock, Replaced, Holding
<1>4. OneStream' /\ StopHolds'
  BY DEF TypeOK, LifeOfQuestion, OneStream, StopHolds
<1> QED
  BY <1>1, <1>2, <1>3, <1>4

LEMMA BeginInv == ASSUME Inv, NEW q \in Question, Begin(q) PROVE Inv'
<1> USE Names DEF Inv, Begin, Free, Abort, Go
<1>1. TypeOK'
  BY DEF TypeOK, Places, Streams
<1>2. LifeOfQuestion' /\ DoneOutstanding'
  BY DEF TypeOK, LifeOfQuestion, DoneOutstanding, Holding
<1>3. HolderHolds'
  BY DEF TypeOK, HolderHolds, Holding
<1>4. SameLock' /\ Replaced'
  BY DEF TypeOK, SameLock, Replaced, Holding
<1>5. OneStream' /\ StopHolds'
  BY DEF TypeOK, OneStream, StopHolds
<1> QED
  BY <1>1, <1>2, <1>3, <1>4, <1>5
\* PrepareFails and GiveUp: the lock is given back with Done.
LEMMA EndInv ==
  ASSUME Inv, NEW q \in Question, PrepareFails(q) \/ GiveUp(q)
  PROVE  Inv'
<1> USE Names DEF Inv, PrepareFails, GiveUp, Done, Release, Go, tracker
<1>1. TypeOK'
  BY DEF TypeOK, Places
<1>2. LifeOfQuestion' /\ DoneOutstanding'
  BY DEF TypeOK, LifeOfQuestion, DoneOutstanding, Holding
<1>3. HolderHolds'
  BY DEF TypeOK, HolderHolds, Holding
<1>4. SameLock' /\ Replaced'
  BY DEF TypeOK, SameLock, Replaced, Holding
<1>5. OneStream' /\ StopHolds'
  BY DEF TypeOK, LifeOfQuestion, OneStream, StopHolds
<1> QED
  BY <1>1, <1>2, <1>3, <1>4, <1>5

\* Two questions that mean the same lock do not hold it both.
LEMMA OneHolder ==
  ASSUME Inv, ~swept, NEW p \in Question, NEW q \in Question,
         Holding(p), Holding(q)
  PROVE  p = q
  BY Names DEF Inv, HolderHolds, SameLock, Holding

LEMMA LaunchInv == ASSUME Inv, NEW q \in Question, Launch(q) PROVE Inv'
<1> USE Names DEF Inv, Launch, Overtaken, Go, tracker, history
<1>1. TypeOK'
  BY DEF TypeOK, Places, Streams
<1>2. LifeOfQuestion' /\ DoneOutstanding'
  BY DEF TypeOK, LifeOfQuestion, DoneOutstanding, Holding
<1>3. HolderHolds'
  BY DEF TypeOK, HolderHolds, Holding
<1>4. SameLock' /\ Replaced'
  BY DEF TypeOK, SameLock, Replaced, Holding
<1>5. ASSUME ~swept, NEW p \in Question, stream[p] = "running" PROVE FALSE
  <2>1. Holding(q) /\ handle = None
    BY <1>5 DEF Replaced, Holding
  <2>2. handle # p /\ at[p] = "registering"
    BY <1>5, <2>1 DEF OneStream
  <2> QED
    BY <1>5, <2>1, <2>2, OneHolder DEF Holding
<1>6. OneStream' /\ StopHolds'
  BY <1>5 DEF TypeOK, OneStream, StopHolds
<1> QED
  BY <1>1, <1>2, <1>3, <1>4, <1>6

LEMMA RegisterInv == ASSUME Inv, NEW q \in Question, Register(q) PROVE Inv'
<1> USE Names DEF Inv, Register, Release, Go, history
<1>1. TypeOK'
  BY DEF TypeOK, Places
<1>2. LifeOfQuestion'
  BY DEF TypeOK, LifeOfQuestion, Holding
<1>3. DoneOutstanding'
  <2>1. dones[q] \in Nat /\ dones[q] <= 1 /\ dones[q] # 1
    BY DEF TypeOK, DoneOutstanding
  <2>2. dones[q] = 0
    BY <2>1
  <2> QED
    BY <2>2 DEF TypeOK, DoneOutstanding
<1>4. HolderHolds'
  BY DEF TypeOK, HolderHolds, Holding
<1>5. SameLock' /\ Replaced'
  <2>1. ASSUME ~swept, NEW p \in Question, Holding(p) PROVE p = q
    BY <2>1, OneHolder DEF Holding
  <2> QED
    BY <2>1 DEF TypeOK, SameLock, Replaced, Holding
<1>6. OneStream' /\ StopHolds'
  <2>1. ASSUME ~swept, NEW p \in Question, stream[p] = "running", p # q PROVE FALSE
    <3>1. Holding(q) /\ handle = None
      BY <2>1 DEF Replaced, Holding
    <3>2. Holding(p)
      BY <2>1, <3>1 DEF OneStream, Holding
    <3> QED
      BY <2>1, <3>1, <3>2, OneHolder
  <2> QED
    BY <2>1 DEF TypeOK, OneStream, StopHolds
<1> QED
  BY <1>1, <1>2, <1>3, <1>4, <1>5, <1>6

LEMMA CompleteInv == ASSUME Inv, NEW q \in Question, Complete(q) PROVE Inv'
<1> USE Names DEF Inv, Complete, Wins, Done, tasks
<1>1. TypeOK'
  BY DEF TypeOK, Streams
<1>2. LifeOfQuestion' /\ DoneOutstanding'
  BY DEF TypeOK, LifeOfQuestion, DoneOutstanding, Holding
<1>3. HolderHolds' /\ SameLock' /\ Replaced'
  BY DEF TypeOK, HolderHolds, SameLock, Replaced, Holding
<1>4. OneStream' /\ StopHolds'
  BY DEF TypeOK, OneStream, StopHolds
<1> QED
  BY <1>1, <1>2, <1>3, <1>4

LEMMA AskCancelInv == ASSUME Inv, NEW c \in Stop, AskCancel(c) PROVE Inv'
<1> USE Names DEF Inv, AskCancel, CloneLock, Go, history
<1>1. TypeOK'
  BY DEF TypeOK, Places
<1>2. LifeOfQuestion' /\ HolderHolds' /\ DoneOutstanding'
  BY DEF TypeOK, LifeOfQuestion, HolderHolds, DoneOutstanding, Holding
<1>3. SameLock' /\ Replaced'
  BY DEF TypeOK, SameLock, Replaced, Holding
<1>4. OneStream' /\ StopHolds'
  BY DEF TypeOK, OneStream, StopHolds
<1> QED
  BY <1>1, <1>2, <1>3, <1>4

\* Nobody prepares or registers while a cancellation has the lock, so what
\* runs is in the tracker and is cut off.
LEMMA CancelInv == ASSUME Inv, NEW c \in Stop, Cancel(c) PROVE Inv'
<1> USE Names DEF Inv, Cancel, Free, Abort, Go
<1>1. TypeOK'
  BY DEF TypeOK, Places, Streams
<1>2. LifeOfQuestion' /\ DoneOutstanding'
  BY DEF TypeOK, LifeOfQuestion, DoneOutstanding, Holding
<1>3. HolderHolds'
  BY DEF TypeOK, HolderHolds, Holding
<1>4. SameLock' /\ Replaced'
  BY DEF TypeOK, SameLock, Replaced, Holding
<1>5. ASSUME ~swept, NEW q \in Question, stream[q] = "running" PROVE handle = q
  <2>1. arc[c] = lock /\ held[lock] = None
    BY <1>5 DEF SameLock
  <2>2. ~Holding(q)
    BY <1>5, <2>1 DEF HolderHolds, SameLock, Holding
  <2> QED
    BY <1>5, <2>2 DEF OneStream, Holding
<1>6. OneStream' /\ StopHolds'
  BY <1>5 DEF TypeOK, OneStream, StopHolds
<1> QED
  BY <1>1, <1>2, <1>3, <1>4, <1>6

LEMMA ShutdownInv == ASSUME Inv, Shutdown PROVE Inv'
<1> USE Names DEF Inv, Shutdown, Abort, tasks
<1>1. TypeOK'
  BY DEF TypeOK, Streams
<1>2. LifeOfQuestion' /\ DoneOutstanding'
  BY DEF TypeOK, LifeOfQuestion, DoneOutstanding, Holding
<1>3. HolderHolds' /\ SameLock' /\ Replaced'
  BY DEF TypeOK, HolderHolds, SameLock, Replaced, Holding
<1>4. OneStream' /\ StopHolds'
  BY DEF TypeOK, OneStream, StopHolds
<1> QED
  BY <1>1, <1>2, <1>3, <1>4

\* A tick drops no lock that is held, and one that is wanted goes on record.
LEMMA SweepInv == ASSUME Inv, NEW keep \in BOOLEAN, Sweep(keep) PROVE Inv'
<1> USE Names DEF Inv, Sweep, tasks
<1>1. TypeOK'
  BY DEF TypeOK
<1>2. LifeOfQuestion' /\ DoneOutstanding'
  BY DEF TypeOK, LifeOfQuestion, DoneOutstanding, Holding
<1>3. HolderHolds'
  BY DEF TypeOK, HolderHolds, Holding
<1>4. SameLock' /\ Replaced'
  <2>1. ASSUME ~swept', NEW t \in Task, at[t] \notin {"new", "done"} PROVE arc[t] = lock'
    <3>1. arc[t] = lock /\ lock # None
      BY <2>1 DEF SameLock, TypeOK
    <3>2. CASE at[t] = "locking"
      BY <2>1, <3>1, <3>2 DEF TypeOK
    <3>3. CASE at[t] \in {"preparing", "registering"}
      <4>1. t \in Question
        BY <3>3 DEF HolderHolds, Holding
      <4>2. held[lock] = t
        BY <3>1, <3>3 DEF HolderHolds, Holding
      <4> QED
        BY <3>1, <4>1, <4>2
    <3> QED
      BY <2>1, <3>2, <3>3 DEF TypeOK, Places
  <2>2. Replaced'
    BY DEF TypeOK, Replaced, Holding
  <2> QED
    BY <2>1, <2>2 DEF SameLock
<1>5. OneStream' /\ StopHolds'
  BY DEF TypeOK, OneStream, StopHolds
<1> QED
  BY <1>1, <1>2, <1>3, <1>4, <1>5

LEMMA StepInv == Inv /\ [Next]_vars => Inv'
<1> SUFFICES ASSUME Inv, [Next]_vars PROVE Inv'
  OBVIOUS
<1>1. ASSUME NEW q \in Question, Ask(q) \/ Answer(q) \/ Complete(q) PROVE Inv'
  BY <1>1, AskInv, BeginInv, EndInv, LaunchInv, RegisterInv, CompleteInv DEF Answer
<1>2. ASSUME NEW c \in Stop, AskCancel(c) \/ Cancel(c) PROVE Inv'
  BY <1>2, AskCancelInv, CancelInv
<1>3. ASSUME Shutdown \/ \E keep \in BOOLEAN : Sweep(keep) PROVE Inv'
  BY <1>3, ShutdownInv, SweepInv
<1>4. CASE UNCHANGED vars
  BY <1>4
  DEF vars, tracker, tasks, history, Inv, TypeOK, LifeOfQuestion, DoneOutstanding,
      HolderHolds, SameLock, Replaced, OneStream, StopHolds, Holding
<1> QED
  BY <1>1, <1>2, <1>3, <1>4 DEF Next

THEOREM Invariance == Spec => []Inv
  BY InitInv, StepInv, PTL DEF Spec

-----------------------------------------------------------------------------
(***************************************************************************)
(* The theorems.                                                           *)
(***************************************************************************)

\* Every variable of the tracker and of the tasks keeps its type.
THEOREM TypeCorrect == Spec => []TypeOK
<1>1. Inv => TypeOK
  BY DEF Inv
<1> QED
  BY <1>1, Invariance, PTL

\* A session has at most one side question running, and that one can be ended.
THEOREM OneAtATime == Spec => []OneStream
<1>1. Inv => OneStream
  BY DEF Inv
<1> QED
  BY <1>1, Invariance, PTL

\* Nothing asked before a /stop streams after it.
THEOREM StopsForGood == Spec => []StopHolds
<1>1. Inv => StopHolds
  BY DEF Inv
<1> QED
  BY <1>1, Invariance, PTL

\* Done comes at most once and never before Start.
THEOREM DoneAtMostOnce == Spec => []DoneOnce
<1>1. Inv => DoneOnce
  BY DEF Inv, LifeOfQuestion, DoneOutstanding, DoneOnce
<1> QED
  BY <1>1, Invariance, PTL

-----------------------------------------------------------------------------
(***************************************************************************)
(* Rewind: types, and what is at hand when.                                *)
(***************************************************************************)
Plain == Content \cup {Absent}
Account == [File -> Plain \cup {Skipped, Nothing}]
Directory == [objects : SUBSET Content, meta : Account]
Line == Nat \X Msg

\* Sequence numbers tell the lines of a manifest apart, and there is a highest one.
Numbered(L) ==
  /\ L \subseteq Line
  /\ \A l, k \in L : l[1] = k[1] => l = k
  /\ \E n \in Nat : \A l \in L : l[1] <= n

Turning == phase \in {"turn", "noted", "trimmed"}

WorkOK ==
  /\ disk \in [File -> Plain]
  /\ asked \in 0..MaxAsks /\ talk \in Seq(Msg)
  /\ phase \in {"idle", "turn", "noted", "trimmed", "restoring", "removing", "dropping"}
  /\ turn \in Msg \cup {Nothing} /\ (Turning => turn \in Msg)
  /\ tracked \in Account

CheckpointsOK ==
  /\ Numbered(listed) /\ list \subseteq listed
  /\ phase \notin {"noted", "trimmed"} => list = {}
  /\ dir \in [Msg -> Directory]
  /\ scope \in Targets
  /\ todo \subseteq File /\ doomed \subseteq Line
  /\ faults \in Nat

RewindTypeOK == WorkOK /\ CheckpointsOK

-----------------------------------------------------------------------------
(***************************************************************************)
(* Anchors.  The lines between two of one message belong to messages that  *)
(* have been cut from the conversation, so they are not written any more.  *)
(***************************************************************************)
Said(m) == m \in ToSet(talk)

TalkInOrder ==
  /\ \A i, j \in DOMAIN talk : i < j => talk[i] < talk[j]
  /\ \A i \in DOMAIN talk : talk[i] <= asked
  /\ \A l \in listed : l[2] <= asked

LinesInOrder ==
  /\ \A l, k \in listed : l[1] < k[1] /\ Said(l[2]) /\ Said(k[2]) => l[2] <= k[2]
  /\ Turning =>
       /\ Said(turn)
       /\ \A l \in listed : Said(l[2]) => l[2] <= turn

Between ==
  \A l, j, k \in listed :
    l[1] < j[1] /\ j[1] < k[1] /\ l[2] = k[2] /\ j[2] # l[2] => ~Said(j[2])

Anchored == TalkInOrder /\ LinesInOrder /\ Between

\* What an account refers to is in the objects beside it.
Backed ==
  /\ \A m \in Msg, f \in File :
       dir[m].meta[f] \in Content => dir[m].meta[f] \in dir[m].objects
  /\ phase = "turn" =>
       \A f \in File : tracked[f] \in Content => tracked[f] \in dir[turn].objects

-----------------------------------------------------------------------------
(***************************************************************************)
(* The way back to a message m.  Its first line and the later ones are     *)
(* what a rewind to m looks at.                                            *)
(***************************************************************************)
Since(L, m) == {l \in L : \E own \in Of(m, L) : own[1] <= l[1]}
Known(L, d, m, f) == {l \in Since(L, m) : d[l[2]].meta[f] # Nothing}

\* Up to the last line of l's message no other message has an account of f.
Alone(L, d, m, f, l) ==
  \A j \in Known(L, d, m, f), k \in Of(l[2], L) : l[1] < j[1] /\ j[1] < k[1] => j[2] = l[2]

\* The earliest account of f is the one to go by, and it says b.
Leads(L, d, m, f, l, b) ==
  /\ l \in Known(L, d, m, f)
  /\ \A k \in Known(L, d, m, f) : l[1] <= k[1]
  /\ d[l[2]].meta[f] = b /\ b \in Plain
  /\ Alone(L, d, m, f, l)

\* There is no account of f, and v is what it was.
Still(L, d, m, f, v, b) == Known(L, d, m, f) = {} /\ v = b /\ b \in Plain

Path(L, d, m, f, v, b) == Still(L, d, m, f, v, b) \/ \E l \in L : Leads(L, d, m, f, l, b)

Back(L, M, v) ==
  \A m \in M, f \in File : <<m, f>> \in lost \/ Path(L, dir, m, f, v[f], base[m][f])

\* In a turn: the file as it will be accounted for.
Found == [f \in File |-> IF Saved(f) THEN tracked[f] ELSE disk[f]]

\* The manifest as Save will leave it.
Extended == list \cup {<<Now, turn>>}

\* In a rewind, among the directories: the earliest account lies before the target, or the
\* file is back.
Halfway(m, f) ==
  \/ \E l \in listed \ Since(listed, turn) :
       /\ Leads(listed, dir, m, f, l, base[m][f])
       /\ l[2] \in Msgs(Since(listed, turn)) => disk[f] = base[m][f]
  \/ /\ Known(listed, dir, m, f) \subseteq Since(listed, turn)
     /\ disk[f] = base[m][f] /\ base[m][f] \in Plain

Behind(m) == m # turn /\ Of(m, listed) \subseteq Since(listed, turn)

Removing ==
  \A m \in Msgs(listed), f \in File :
    \/ <<m, f>> \in lost
    \/ Behind(m) /\ Path(listed, dir, m, f, disk[f], base[m][f])
    \/ ~Behind(m) /\ Halfway(m, f)

WaysBack ==
  /\ phase \in {"idle", "restoring", "dropping"} => Back(listed, Msgs(listed), disk)
  /\ Turning => Back(listed, Msgs(listed) \cup {turn}, Found)
  /\ phase \in {"noted", "trimmed"} => Back(Extended, Msgs(Extended), disk)
  /\ phase = "removing" => Removing

\* What is not to do any more is done.
Returned(f) ==
  \A l \in Known(listed, dir, turn, f) :
    /\ \A k \in Known(listed, dir, turn, f) : l[1] <= k[1]
    /\ dir[l[2]].meta[f] \in Plain
    => disk[f] = dir[l[2]].meta[f]

Progress ==
  /\ phase \in {"restoring", "removing"} => turn \in Msgs(listed)
  /\ phase = "noted" => list = listed
  /\ phase = "restoring" =>
       /\ doomed = Since(listed, turn)
       /\ \A f \in todo : Known(listed, dir, turn, f) # {}
       /\ \A f \in File \ todo : Returned(f)
  /\ phase = "removing" =>
       /\ Files(turn) = {}
       /\ \A m \in Msgs(Since(listed, turn)) : m \in Msgs(doomed) \/ Files(m) = {}
       /\ todo = {} /\ doomed \subseteq Since(listed, turn)

RewindInv == RewindTypeOK /\ Anchored /\ Backed /\ WaysBack /\ Progress

-----------------------------------------------------------------------------
(***************************************************************************)
(* Numbers and lines.                                                      *)
(***************************************************************************)
LEMMA Values ==
  /\ Absent \notin Content /\ Skipped \notin Plain /\ Nothing \notin Plain
  /\ Skipped # Nothing
  BY RewindAssumption DEF Plain

\* A set of numbers has a least one.
LEMMA LeastNumber ==
  ASSUME NEW S, S \subseteq Nat, S # {}
  PROVE  \E t \in S : \A u \in S : t <= u
<1> DEFINE Less == {ss \in Nat \X Nat : ss[1] < ss[2]}
<1>1. IsWellFoundedOn(Less, Nat)
  BY NatLessThanWellFounded, Zenon DEF OpToRel
<1>2. PICK t \in S : \A u \in S : <<u, t>> \notin Less
  <2> HIDE DEF Less
  <2> QED
    BY <1>1, WFMin
<1>3. ASSUME NEW u \in S PROVE t <= u
  <2>1. <<u, t>> \notin Less
    BY <1>2
  <2>2. u \in Nat /\ t \in Nat /\ <<u, t>>[1] = u /\ <<u, t>>[2] = t
    OBVIOUS
  <2>3. ~(u < t)
    BY <2>1, <2>2
  <2> QED
    BY <2>2, <2>3
<1> QED
  BY <1>3

\* Lines have an oldest one.
LEMMA OldestIn ==
  ASSUME NEW L, L \subseteq Line, L # {}
  PROVE  Oldest(L) \in L /\ \A k \in L : Oldest(L)[1] <= k[1]
<1> DEFINE S == {l[1] : l \in L}
<1>1. PICK t \in S : \A u \in S : t <= u
  <2>1. S \subseteq Nat /\ S # {}
    BY DEF Line
  <2> HIDE DEF S
  <2> QED
    BY <2>1, LeastNumber
<1>2. PICK l \in L : l[1] = t
  BY <1>1
<1>3. \A k \in L : l[1] <= k[1]
  <2> TAKE k \in L
  <2>1. k[1] \in S
    OBVIOUS
  <2> QED
    BY <1>1, <1>2, <2>1
<1> QED
  BY <1>2, <1>3 DEF Oldest

\* A bounded set of numbers has a greatest one.
LEMMA GreatestNumber ==
  ASSUME NEW k \in Nat, NEW S, S \subseteq 0..k, S # {}
  PROVE  Max(S) \in S /\ \A u \in S : u <= Max(S)
<1> DEFINE D == {k - u : u \in S}
<1>1. \A u \in S : u \in 0..k /\ k - u \in Nat
  OBVIOUS
<1>2. PICK x \in D : \A y \in D : x <= y
  <2>1. D \subseteq Nat /\ D # {}
    BY <1>1
  <2> HIDE DEF D
  <2> QED
    BY <2>1, LeastNumber
<1>3. PICK m \in S : x = k - m
  BY <1>2
<1>4. \A u \in S : u <= m
  <2> TAKE u \in S
  <2>1. k - u \in D
    OBVIOUS
  <2>2. x <= k - u
    BY <1>2, <2>1
  <2> QED
    BY <1>1, <1>3, <2>2
<1> QED
  BY <1>4 DEF Max

\* The next sequence number is higher than all.
LEMMA NowAbove ==
  ASSUME Numbered(listed)
  PROVE  Now \in Nat /\ \A l \in listed : l[1] < Now
<1>1. CASE listed = {}
  BY <1>1 DEF Now
<1>2. CASE listed # {}
  <2>1. PICK n \in Nat : \A l \in listed : l[1] <= n
    BY DEF Numbered
  <2> DEFINE S == {l[1] : l \in listed}
  <2>2. S \subseteq 0..n /\ S # {}
    BY <1>2, <2>1 DEF Numbered, Line
  <2>3. Now = 1 + Max(S)
    BY <1>2 DEF Now
  <2>4. \A l \in listed : l[1] \in S
    OBVIOUS
  <2> HIDE DEF S
  <2>5. Max(S) \in S /\ \A u \in S : u <= Max(S)
    BY <2>2, GreatestNumber
  <2>6. \A u \in S : u \in 0..n
    BY <2>2
  <2>7. Max(S) \in 0..n
    BY <2>5, <2>6
  <2>8. \A l \in listed : l[1] \in 0..n /\ l[1] <= Max(S)
    BY <2>4, <2>5, <2>6
  <2> QED
    BY <2>3, <2>7, <2>8
<1> QED
  BY <1>1, <1>2

LEMMA LineType ==
  ASSUME NEW L, L \subseteq Line, NEW l \in L
  PROVE  l[1] \in Nat /\ l[2] \in Msg /\ l = <<l[1], l[2]>>
  BY DEF Line

LEMMA PlaceIs ==
  ASSUME Numbered(listed), NEW m
  PROVE  /\ Place(m) \in Nat
         /\ Of(m, listed) = {} => Place(m) = Now
         /\ \A own \in Of(m, listed) : Place(m) <= own[1]
         /\ Of(m, listed) # {} => \E own \in Of(m, listed) : Place(m) = own[1]
<1>1. CASE Of(m, listed) = {}
  BY <1>1, NowAbove DEF Place
<1>2. CASE Of(m, listed) # {}
  <2>1. Of(m, listed) \subseteq Line
    BY DEF Of, Numbered
  <2>2. Oldest(Of(m, listed)) \in Of(m, listed)
          /\ \A k \in Of(m, listed) : Oldest(Of(m, listed))[1] <= k[1]
    BY <1>2, <2>1, OldestIn
  <2>3. Place(m) = Oldest(Of(m, listed))[1]
    BY <1>2 DEF Place
  <2>4. Oldest(Of(m, listed))[1] \in Nat
    BY <2>1, <2>2, LineType
  <2> QED
    BY <1>2, <2>2, <2>3, <2>4
<1> QED
  BY <1>1, <1>2

\* What is at a message's place or behind it.
LEMMA FromIs ==
  ASSUME Numbered(listed), NEW m
  PROVE  From(m) = Since(listed, m)
<1>1. ASSUME NEW l \in From(m) PROVE l \in Since(listed, m)
  <2>1. l \in listed /\ l[1] >= Place(m) /\ l[1] \in Nat
    BY <1>1, LineType DEF From, Numbered
  <2>2. Of(m, listed) # {}
    BY <2>1, PlaceIs, NowAbove
  <2>3. PICK own \in Of(m, listed) : Place(m) = own[1]
    BY <2>2, PlaceIs
  <2> QED
    BY <2>1, <2>3, PlaceIs DEF Since
<1>2. ASSUME NEW l \in Since(listed, m) PROVE l \in From(m)
  <2>1. PICK own \in Of(m, listed) : own[1] <= l[1]
    BY DEF Since
  <2>2. l \in listed /\ own \in listed
    BY <2>1 DEF Since, Of
  <2>3. l[1] \in Nat /\ own[1] \in Nat /\ Place(m) \in Nat /\ Place(m) <= own[1]
    BY <2>1, <2>2, LineType, PlaceIs DEF Numbered
  <2> QED
    BY <2>1, <2>2, <2>3 DEF From
<1> QED
  BY <1>1, <1>2

LEMMA KnowsIs ==
  ASSUME Numbered(listed), NEW m, NEW f \in File
  PROVE  Knows(m, f) = Known(listed, dir, m, f)
  BY FromIs DEF Knows, Known, Files

\* Of what is known the earliest is one, and there is no other.
LEMMA EarliestIs ==
  ASSUME Numbered(listed), NEW m, NEW f \in File, Known(listed, dir, m, f) # {}
  PROVE  /\ Earliest(m, f) \in Known(listed, dir, m, f)
         /\ \A k \in Known(listed, dir, m, f) : Earliest(m, f)[1] <= k[1]
         /\ Entry(m, f) = dir[Earliest(m, f)[2]].meta[f]
<1>1. Known(listed, dir, m, f) \subseteq Line
  BY DEF Known, Since, Numbered
<1>2. Earliest(m, f) = Oldest(Known(listed, dir, m, f))
  BY KnowsIs DEF Earliest
<1> QED
  BY <1>1, <1>2, OldestIn, KnowsIs DEF Entry

LEMMA SameEarliest ==
  ASSUME Numbered(listed), NEW m, NEW f \in File,
         NEW l \in Known(listed, dir, m, f), \A k \in Known(listed, dir, m, f) : l[1] <= k[1]
  PROVE  Earliest(m, f) = l /\ Entry(m, f) = dir[l[2]].meta[f]
<1>1. Earliest(m, f) \in Known(listed, dir, m, f) /\ Earliest(m, f)[1] <= l[1]
        /\ Entry(m, f) = dir[Earliest(m, f)[2]].meta[f]
  BY EarliestIs
<1>2. l[1] <= Earliest(m, f)[1]
  BY <1>1
<1>3. l \in listed /\ Earliest(m, f) \in listed
  BY <1>1 DEF Known, Since
<1>4. l[1] \in Nat /\ Earliest(m, f)[1] \in Nat
  BY <1>3, LineType DEF Numbered
<1> QED
  BY <1>1, <1>2, <1>3, <1>4 DEF Numbered

\* When the way back to m goes lost.
LEMMA LosesIf ==
  ASSUME Numbered(listed), NEW m \in Msgs(listed) \cup {turn}, NEW F, F \subseteq File, NEW f \in F,
         NEW k \in Nat,
         \/ \E own \in Of(m, listed) : own[1] <= k
         \/ Of(m, listed) = {} /\ Now <= k,
         \A l \in Known(listed, dir, m, f) : k <= l[1]
  PROVE  <<m, f>> \in Losing(F, k)
<1>1. Place(m) <= k
  <2>1. CASE Of(m, listed) = {} /\ Now <= k
    BY <2>1, PlaceIs
  <2>2. ASSUME NEW own \in Of(m, listed), own[1] <= k PROVE Place(m) <= k
    <3>1. own[1] \in Nat /\ Place(m) \in Nat /\ Place(m) <= own[1]
      BY PlaceIs, LineType DEF Numbered, Of
    <3> QED
      BY <2>2, <3>1
  <2> QED
    BY <2>1, <2>2
<1>2. \A l \in Knows(m, f) : l[1] >= k
  <2> TAKE l \in Knows(m, f)
  <2>1. l \in Known(listed, dir, m, f) /\ l \in listed
    BY KnowsIs DEF Known, Since
  <2>2. l[1] \in Nat
    BY <2>1, LineType DEF Numbered
  <2> QED
    BY <2>1, <2>2
<1> QED
  BY <1>1, <1>2 DEF Losing

LEMMA LosesOne ==
  ASSUME NEW F, NEW L, NEW l \in L, NEW x \in Losing(F, l[1])
  PROVE  x \in LosingAll(F, L)
  BY DEF LosingAll

-----------------------------------------------------------------------------
(***************************************************************************)
(* A checkpoint is removed.                                                *)
(***************************************************************************)
LEMMA EmptyMeta ==
  \A f \in File : NoDir.meta[f] = Nothing
  BY DEF NoDir, Untracked

\* The accounts without those of a message.
Without(d, x) == [d EXCEPT ![x] = NoDir]

KnownWithout(x, L, d, m, f) == {l \in Known(L, d, m, f) : l[2] # x}

LEMMA KnownRemoved ==
  ASSUME NEW L, L \subseteq Line, NEW d \in [Msg -> Directory], NEW x \in Msg,
         NEW L2, L2 \subseteq L, L \ Of(x, L) \subseteq L2,
         NEW m, Of(m, L2) = Of(m, L), NEW f \in File,
         NEW d2, d2 = Without(d, x)
  PROVE  Known(L2, d2, m, f) = KnownWithout(x, L, d, m, f)
<1>1. \A l \in L : l[2] \in Msg
  BY LineType
<1>2. ASSUME NEW l \in Known(L2, d2, m, f) PROVE l \in Known(L, d, m, f) /\ l[2] # x
  <2>1. l \in L2 /\ d2[l[2]].meta[f] # Nothing
    BY DEF Known, Since
  <2>2. PICK own \in Of(m, L2) : own[1] <= l[1]
    BY DEF Known, Since
  <2>3. l[2] # x
    BY <1>1, <2>1, EmptyMeta DEF Without
  <2>4. d2[l[2]] = d[l[2]]
    BY <1>1, <2>1, <2>3 DEF Without
  <2> QED
    BY <2>1, <2>2, <2>3, <2>4 DEF Known, Since
<1>3. ASSUME NEW l \in Known(L, d, m, f), l[2] # x PROVE l \in Known(L2, d2, m, f)
  <2>1. l \in L /\ d[l[2]].meta[f] # Nothing
    BY DEF Known, Since
  <2>2. PICK own \in Of(m, L) : own[1] <= l[1]
    BY DEF Known, Since
  <2>3. l \in L2
    BY <1>3, <2>1 DEF Of
  <2>4. d2[l[2]] = d[l[2]]
    BY <1>1, <1>3, <2>1 DEF Without
  <2> QED
    BY <2>1, <2>2, <2>3, <2>4 DEF Known, Since
<1> QED
  BY <1>2, <1>3 DEF KnownWithout

\* What leads on leads on, when fewer others are known.
LEMMA LeadsStill ==
  ASSUME NEW L, NEW L2, L2 \subseteq L, NEW d, NEW d2, NEW m, NEW f, NEW b, NEW l,
         Leads(L, d, m, f, l, b), l \in Known(L2, d2, m, f), d2[l[2]] = d[l[2]],
         Known(L2, d2, m, f) \subseteq Known(L, d, m, f)
  PROVE  Leads(L2, d2, m, f, l, b)
<1>1. Of(l[2], L2) \subseteq Of(l[2], L)
  BY DEF Of
<1> QED
  BY <1>1 DEF Leads, Alone

LEMMA PathRemoved ==
  ASSUME NEW L, L \subseteq Line, NEW d \in [Msg -> Directory], NEW x \in Msg,
         NEW L2, L2 \subseteq L, L \ Of(x, L) \subseteq L2,
         NEW m, Of(m, L2) = Of(m, L), NEW f \in File,
         NEW d2, d2 = Without(d, x),
         NEW v, NEW b, Path(L, d, m, f, v, b),
         \A l \in L : Leads(L, d, m, f, l, b) => l[2] # x
  PROVE  Path(L2, d2, m, f, v, b)
<1>0. Known(L2, d2, m, f) = KnownWithout(x, L, d, m, f)
  BY KnownRemoved
<1>1. Known(L2, d2, m, f) = {l \in Known(L, d, m, f) : l[2] # x}
  BY <1>0 DEF KnownWithout
<1>2. CASE Still(L, d, m, f, v, b)
  BY <1>1, <1>2 DEF Path, Still
<1>3. ASSUME NEW l \in L, Leads(L, d, m, f, l, b) PROVE Path(L2, d2, m, f, v, b)
  <2>1. l[2] # x /\ l[2] \in Msg /\ l \in Known(L, d, m, f)
    BY <1>3, LineType DEF Leads
  <2>2. l \in Known(L2, d2, m, f) /\ d2[l[2]] = d[l[2]]
    BY <1>1, <2>1 DEF Without
  <2>3. l \in L2
    BY <2>2 DEF Known, Since
  <2>4. Known(L2, d2, m, f) \subseteq Known(L, d, m, f)
    BY <1>1
  <2>5. Leads(L2, d2, m, f, l, b)
    BY <1>3, <2>2, <2>4, LeadsStill
  <2> QED
    BY <2>3, <2>5 DEF Path
<1> QED
  BY <1>2, <1>3 DEF Path

\* The way back is lost with the account that it goes by.
LEMMA LeadLost ==
  ASSUME Numbered(listed), NEW m \in Msgs(listed) \cup {turn}, NEW f \in File, NEW b, NEW l,
         Leads(listed, dir, m, f, l, b)
  PROVE  <<m, f>> \in LosingAll(Files(l[2]), Of(l[2], listed))
<1>1. l \in listed /\ dir[l[2]].meta[f] # Nothing /\ \E own \in Of(m, listed) : own[1] <= l[1]
  BY DEF Leads, Known, Since
<1>2. l[1] \in Nat /\ f \in Files(l[2]) /\ l \in Of(l[2], listed) /\ Files(l[2]) \subseteq File
  BY <1>1, LineType DEF Numbered, Files, Of
<1>3. \A k \in Known(listed, dir, m, f) : l[1] <= k[1]
  BY DEF Leads
<1>4. <<m, f>> \in Losing(Files(l[2]), l[1])
  BY <1>1, <1>2, <1>3, LosesIf
<1> QED
  BY <1>2, <1>4, LosesOne

\* The same without a claim about what the account says.
LEMMA FirstLost ==
  ASSUME Numbered(listed), NEW m \in Msgs(listed) \cup {turn}, NEW f \in File, NEW F,
         F \subseteq File, f \in F,
         NEW L, NEW l \in L, l \in listed, \E own \in Of(m, listed) : own[1] <= l[1],
         \A k \in Known(listed, dir, m, f) : l[1] <= k[1]
  PROVE  <<m, f>> \in LosingAll(F, L)
<1>1. l[1] \in Nat
  BY LineType DEF Numbered
<1>2. <<m, f>> \in Losing(F, l[1])
  BY <1>1, LosesIf
<1> QED
  BY <1>2, LosesOne

-----------------------------------------------------------------------------
(***************************************************************************)
(* Anchors.                                                                *)
(***************************************************************************)
LEMMA CutIs ==
  ASSUME talk \in Seq(Msg), NEW m
  PROVE  /\ Cut(m) \in Seq(Msg)
         /\ DOMAIN Cut(m) \subseteq DOMAIN talk
         /\ \A i \in DOMAIN Cut(m) : Cut(m)[i] = talk[i]
<1>1. CASE m \notin ToSet(talk)
  BY <1>1 DEF Cut
<1>2. CASE m \in ToSet(talk)
  <2>1. PICK i : i = CHOOSE j \in DOMAIN talk : talk[j] = m
    OBVIOUS
  <2>2. i \in DOMAIN talk
    BY <1>2, <2>1 DEF ToSet
  <2>3. Cut(m) = SubSeq(talk, 1, i - 1)
    BY <1>2, <2>1 DEF Cut
  <2>4. i \in 1..Len(talk) /\ i - 1 \in 0..Len(talk)
    BY <2>2
  <2>5. DOMAIN Cut(m) = 1..(i - 1)
    BY <2>3, <2>4
  <2>6. \A j \in 1..(i - 1) : Cut(m)[j] = talk[j]
    BY <2>3, <2>4
  <2>7. Cut(m) \in Seq(Msg)
    BY <2>3, <2>4
  <2> QED
    BY <2>4, <2>5, <2>6, <2>7
<1> QED
  BY <1>1, <1>2

LEMMA AnchorsShrink ==
  ASSUME RewindTypeOK, Anchored, asked' = asked, listed' \subseteq listed,
         DOMAIN talk' \subseteq DOMAIN talk, \A i \in DOMAIN talk' : talk'[i] = talk[i],
         Turning' => Turning /\ turn' = turn /\ talk' = talk
  PROVE  Anchored'
<1>1. \A m : Said(m)' => Said(m)
  BY DEF Said, ToSet
<1>2. TalkInOrder'
  BY DEF Anchored, TalkInOrder
<1>3. LinesInOrder'
  <2>1. \A l, k \in listed' : l[1] < k[1] /\ Said(l[2])' /\ Said(k[2])' => l[2] <= k[2]
    BY <1>1 DEF Anchored, LinesInOrder
  <2>2. ASSUME Turning' PROVE Said(turn)' /\ \A l \in listed' : Said(l[2])' => l[2] <= turn'
    <3>1. Turning /\ turn' = turn /\ talk' = talk
      BY <2>2
    <3> QED
      BY <1>1, <3>1 DEF Anchored, LinesInOrder, Said
  <2> QED
    BY <2>1, <2>2 DEF LinesInOrder
<1>4. Between'
  BY <1>1 DEF Anchored, Between
<1> QED
  BY <1>2, <1>3, <1>4 DEF Anchored

\* A new message is none that was checkpointed.
LEMMA AnchorsGrow ==
  ASSUME RewindTypeOK, Anchored, asked < MaxAsks, asked' = asked + 1,
         talk' = Append(talk, asked + 1),
         listed' = listed, \/ turn' = asked + 1 /\ Turning'
                           \/ turn' = turn /\ Turning
  PROVE  Anchored' /\ asked + 1 \in Msg /\ talk' \in Seq(Msg) /\ asked' \in 0..MaxAsks
<1>1. asked \in 0..MaxAsks /\ MaxAsks \in Nat /\ talk \in Seq(Msg)
  BY RewindAssumption DEF RewindTypeOK, WorkOK
<1>2. asked + 1 \in Msg /\ asked' \in 0..MaxAsks
  BY <1>1 DEF Msg
<1>3. talk' \in Seq(Msg)
  BY <1>1, <1>2
<1>4. /\ DOMAIN talk' = DOMAIN talk \cup {Len(talk) + 1}
      /\ \A i \in DOMAIN talk : talk'[i] = talk[i]
      /\ talk'[Len(talk) + 1] = asked + 1
  BY <1>1, <1>2
<1>5. \A m : Said(m)' <=> Said(m) \/ m = asked + 1
  BY <1>4 DEF Said, ToSet
<1>6. \A m \in Msg : m \in Nat
  BY <1>1 DEF Msg
<1>7. \A l \in listed : l[2] <= asked /\ l[2] \in Msg /\ l[2] # asked + 1
  <2> TAKE l \in listed
  <2>1. l[2] <= asked /\ l[2] \in Msg
    BY LineType DEF Anchored, TalkInOrder, RewindTypeOK, CheckpointsOK, Numbered
  <2> QED
    BY <1>1, <1>6, <2>1
<1>8. TalkInOrder'
  <2>1. \A i \in DOMAIN talk : talk[i] <= asked /\ talk[i] \in Nat /\ i \in Nat /\ i <= Len(talk)
    BY <1>1, <1>6 DEF Anchored, TalkInOrder
  <2>2. ASSUME NEW i \in DOMAIN talk', NEW j \in DOMAIN talk', i < j PROVE talk'[i] < talk'[j]
    <3>1. CASE j \in DOMAIN talk
      <4>1. i \in DOMAIN talk
        BY <1>1, <1>4, <2>2, <3>1
      <4> QED
        BY <1>4, <2>2, <3>1, <4>1 DEF Anchored, TalkInOrder
    <3>2. CASE j = Len(talk) + 1
      <4>1. i \in DOMAIN talk
        BY <1>1, <1>4, <2>2, <3>2
      <4>2. talk'[i] = talk[i] /\ talk'[j] = asked + 1 /\ talk[i] <= asked /\ talk[i] \in Nat
        BY <1>4, <2>1, <3>2, <4>1
      <4> QED
        BY <1>1, <4>2
    <3> QED
      BY <1>4, <3>1, <3>2
  <2>3. \A i \in DOMAIN talk' : talk'[i] <= asked'
    BY <1>1, <1>4, <2>1
  <2>4. \A l \in listed' : l[2] <= asked'
    BY <1>1, <1>6, <1>7
  <2> QED
    BY <2>2, <2>3, <2>4 DEF TalkInOrder
<1>9. LinesInOrder'
  <2>1. \A l, k \in listed : l[1] < k[1] /\ Said(l[2])' /\ Said(k[2])' => l[2] <= k[2]
    BY <1>5, <1>7 DEF Anchored, LinesInOrder
  <2>2. Said(turn)' /\ \A l \in listed : Said(l[2])' => l[2] <= turn'
    <3>1. CASE turn' = asked + 1
      BY <1>1, <1>5, <1>6, <1>7, <3>1 DEF Said
    <3>2. CASE turn' = turn /\ Turning
      BY <1>5, <1>7, <3>2 DEF Anchored, LinesInOrder, Said
    <3> QED
      BY <3>1, <3>2
  <2> QED
    BY <2>1, <2>2 DEF LinesInOrder
<1>10. Between'
  BY <1>5, <1>7 DEF Anchored, Between
<1> QED
  BY <1>2, <1>3, <1>8, <1>9, <1>10 DEF Anchored

LEMMA AnchorsContinue ==
  ASSUME RewindTypeOK, Anchored, talk # <<>>, asked' = asked, talk' = talk, listed' = listed,
         turn' = Last(talk)
  PROVE  Anchored' /\ Last(talk) \in Msg
<1>1. talk \in Seq(Msg) /\ Len(talk) \in DOMAIN talk /\ Last(talk) = talk[Len(talk)]
  BY DEF RewindTypeOK, WorkOK, Last
<1>2. Last(talk) \in Msg /\ \A m \in Msg : m \in Nat
  BY <1>1, RewindAssumption DEF Msg
<1>3. \A i \in DOMAIN talk : talk[i] <= Last(talk)
  <2> TAKE i \in DOMAIN talk
  <2>1. i = Len(talk) \/ i < Len(talk)
    BY <1>1
  <2>2. talk[i] \in Nat
    BY <1>1, <1>2
  <2> QED
    BY <1>1, <1>2, <2>1, <2>2 DEF Anchored, TalkInOrder
<1>4. Said(turn)' /\ \A l \in listed : Said(l[2])' => l[2] <= turn'
  BY <1>1, <1>3 DEF Said, ToSet
<1>5. \A m : Said(m)' <=> Said(m)
  BY DEF Said
<1>6. TalkInOrder'
  BY DEF Anchored, TalkInOrder
<1>7. LinesInOrder'
  <2>1. \A l, k \in listed : l[1] < k[1] /\ Said(l[2])' /\ Said(k[2])' => l[2] <= k[2]
    BY <1>5 DEF Anchored, LinesInOrder
  <2> QED
    BY <1>4, <2>1 DEF LinesInOrder
<1>8. Between'
  BY <1>5 DEF Anchored, Between
<1> QED
  BY <1>2, <1>6, <1>7, <1>8 DEF Anchored

\* A line is added behind all others.
LEMMA AnchorsSave ==
  ASSUME RewindTypeOK, Anchored, Turning, ~Turning', asked' = asked, talk' = talk,
         NEW n, n = <<Now, turn>>, listed' \subseteq listed \cup {n}
  PROVE  Anchored'
<1>1. Numbered(listed) /\ turn \in Msg /\ \A m \in Msg : m \in Nat
  BY RewindAssumption DEF RewindTypeOK, WorkOK, CheckpointsOK, Msg
<1>2. n[1] = Now /\ n[2] = turn /\ Now \in Nat /\ \A l \in listed : l[1] < Now /\ l[1] \in Nat
        /\ l[2] \in Msg
  BY <1>1, NowAbove, LineType DEF Numbered
<1>3. \A m : Said(m)' <=> Said(m)
  BY DEF Said
<1>4. \A l \in listed : Said(l[2]) => l[2] <= turn
  BY DEF Anchored, LinesInOrder
<1>5. TalkInOrder'
  <2>1. turn <= asked
    BY DEF Anchored, TalkInOrder, LinesInOrder, Said, ToSet
  <2> QED
    BY <1>2, <2>1 DEF Anchored, TalkInOrder
<1>6. LinesInOrder'
  <2>1. ASSUME NEW l \in listed', NEW k \in listed', l[1] < k[1], Said(l[2])', Said(k[2])'
        PROVE  l[2] <= k[2]
    <3>1. CASE l = n
      BY <1>2, <2>1, <3>1
    <3>2. CASE l \in listed /\ k = n
      BY <1>2, <1>3, <1>4, <2>1, <3>2
    <3>3. CASE l \in listed /\ k \in listed
      BY <1>3, <2>1, <3>3 DEF Anchored, LinesInOrder
    <3> QED
      BY <3>1, <3>2, <3>3
  <2> QED
    BY <2>1 DEF LinesInOrder
<1>7. Between'
  <2> SUFFICES ASSUME NEW l \in listed', NEW j \in listed', NEW k \in listed',
                      l[1] < j[1], j[1] < k[1], l[2] = k[2], j[2] # l[2], Said(j[2])'
               PROVE  FALSE
    BY DEF Between
  <2>1. l \in listed /\ j \in listed
    BY <1>2
  <2>2. CASE k \in listed
    BY <1>3, <2>1, <2>2 DEF Anchored, Between
  <2>3. CASE k = n
    <3>1. Said(l[2]) /\ Said(j[2]) /\ l[2] = turn
      BY <1>2, <1>3, <2>3 DEF Anchored, LinesInOrder
    <3>2. l[2] <= j[2] /\ j[2] <= turn
      BY <1>4, <2>1, <3>1 DEF Anchored, LinesInOrder
    <3> QED
      BY <1>1, <1>2, <2>1, <3>1, <3>2
  <2> QED
    BY <2>2, <2>3
<1> QED
  BY <1>5, <1>6, <1>7 DEF Anchored

-----------------------------------------------------------------------------
(***************************************************************************)
(* Ways back.                                                              *)
(***************************************************************************)
\* Only the accounts matter, not the objects.
SameMeta(d, d2) == \A m \in Msg : d2[m].meta = d[m].meta

LEMMA PathSameMeta ==
  ASSUME NEW L, L \subseteq Line, NEW d, NEW d2, SameMeta(d, d2),
         NEW m, NEW f, NEW v, NEW b, Path(L, d, m, f, v, b)
  PROVE  Path(L, d2, m, f, v, b)
<1>1. \A l \in L : d2[l[2]].meta = d[l[2]].meta
  BY LineType DEF SameMeta
<1>2. Known(L, d2, m, f) = Known(L, d, m, f)
  BY <1>1 DEF Known, Since
<1>3. \A l \in L : Leads(L, d, m, f, l, b) => Leads(L, d2, m, f, l, b)
  BY <1>1, <1>2 DEF Leads, Alone
<1> QED
  BY <1>2, <1>3 DEF Path, Still

\* A file that is written while no checkpoint knows it is lost.
LEMMA LostOrLed ==
  ASSUME Numbered(listed), NEW m \in Msgs(listed) \cup {turn}, NEW F, F \subseteq File, NEW f \in F,
         NEW v, NEW b, Path(listed, dir, m, f, v, b), NEW w
  PROVE  <<m, f>> \in Losing(F, Now) \/ Path(listed, dir, m, f, w, b)
<1>1. CASE Still(listed, dir, m, f, v, b)
  <2>1. Known(listed, dir, m, f) = {}
    BY <1>1 DEF Still
  <2>2. Now \in Nat /\ \A own \in Of(m, listed) : own[1] < Now /\ own[1] \in Nat
    BY NowAbove, LineType DEF Of, Numbered
  <2>3. \/ \E own \in Of(m, listed) : own[1] <= Now
        \/ Of(m, listed) = {} /\ Now <= Now
    BY <2>2
  <2> QED
    BY <2>1, <2>2, <2>3, LosesIf
<1>2. CASE ~Still(listed, dir, m, f, v, b)
  BY <1>2 DEF Path
<1> QED
  BY <1>1, <1>2

\* What a rewind restores is the earliest account, if it is any.
LEMMA RestoredIs ==
  ASSUME RewindTypeOK, Backed, NEW m, NEW f \in File,
         NEW l \in Known(listed, dir, m, f), \A k \in Known(listed, dir, m, f) : l[1] <= k[1],
         dir[l[2]].meta[f] \in Plain
  PROVE  Restored(m, f) = dir[l[2]].meta[f]
<1>1. Numbered(listed)
  BY DEF RewindTypeOK, CheckpointsOK
<1>2. Entry(m, f) = dir[l[2]].meta[f]
  BY <1>1, SameEarliest
<1>3. l \in From(m) /\ l[2] \in Msg
  BY <1>1, FromIs, LineType DEF Known, Since, Numbered
<1>4. CASE Entry(m, f) = Absent
  BY <1>2, <1>4, Values DEF Restored
<1>5. CASE Entry(m, f) \in Content
  <2>1. Stored(m, Entry(m, f))
    BY <1>2, <1>3, <1>5 DEF Stored, Backed
  <2> QED
    BY <1>2, <1>5, <2>1, Values DEF Restored
<1> QED
  BY <1>2, <1>4, <1>5 DEF Plain

LEMMA RestoredPlain ==
  ASSUME RewindTypeOK, NEW m, NEW f \in File
  PROVE  Restored(m, f) \in Plain
<1>1. disk[f] \in Plain
  BY DEF RewindTypeOK, WorkOK
<1> QED
  BY <1>1 DEF Restored, Plain

-----------------------------------------------------------------------------
(***************************************************************************)
(* What lies before the target of a rewind and what behind it.             *)
(***************************************************************************)
LEMMA PastIs ==
  ASSUME Numbered(listed), turn \in Msgs(listed), NEW m \in Msgs(listed)
  PROVE  m \in Past <=> Behind(m)
<1>1. \A l \in listed : l[1] \in Nat
  BY LineType DEF Numbered
<1>2. Of(m, listed) # {} /\ Of(turn, listed) # {} /\ Of(m, listed) \subseteq listed
        /\ Of(turn, listed) \subseteq listed
  BY DEF Msgs, Of
<1>3. PICK a \in Of(m, listed) : Place(m) = a[1]
  BY <1>2, PlaceIs
<1>4. PICK t \in Of(turn, listed) : Place(turn) = t[1]
  BY <1>2, PlaceIs
<1>5. \A own \in Of(m, listed) : a[1] <= own[1]
  BY <1>3, PlaceIs
<1>6. \A own \in Of(turn, listed) : t[1] <= own[1]
  BY <1>4, PlaceIs
<1>7. ASSUME m \in Past PROVE Behind(m)
  <2>1. a[1] > t[1]
    BY <1>3, <1>4, <1>7 DEF Past
  <2>2. m # turn
    BY <1>1, <1>2, <1>5, <2>1
  <2>3. \A own \in Of(m, listed) : own \in Since(listed, turn)
    <3> TAKE own \in Of(m, listed)
    <3>1. t[1] <= own[1] /\ own \in listed
      BY <1>1, <1>2, <1>5, <2>1
    <3> QED
      BY <3>1 DEF Since
  <2> QED
    BY <2>2, <2>3 DEF Behind
<1>8. ASSUME Behind(m) PROVE m \in Past
  <2>1. PICK u \in Of(turn, listed) : u[1] <= a[1]
    BY <1>8 DEF Behind, Since
  <2>2. t[1] <= a[1]
    BY <1>1, <1>2, <1>6, <2>1
  <2>3. t # a
    BY <1>8 DEF Behind, Of
  <2>4. t[1] # a[1]
    BY <1>2, <2>3 DEF Numbered
  <2>5. a[1] > t[1]
    BY <1>1, <1>2, <2>2, <2>4
  <2> QED
    BY <1>3, <1>4, <2>5 DEF Past
<1> QED
  BY <1>7, <1>8

LEMMA NotBehind ==
  ASSUME Numbered(listed), NEW m \in Msgs(listed), ~Behind(m)
  PROVE  /\ Since(listed, turn) \subseteq Since(listed, m)
         /\ \A f : Known(listed, dir, turn, f) \subseteq Known(listed, dir, m, f)
<1>1. \A l \in listed : l[1] \in Nat
  BY LineType DEF Numbered
<1>2. ASSUME NEW l \in Since(listed, turn) PROVE l \in Since(listed, m)
  <2>1. CASE m = turn
    BY <2>1
  <2>2. CASE m # turn
    <3>1. PICK a \in Of(m, listed) : a \notin Since(listed, turn)
      BY <2>2 DEF Behind
    <3>2. PICK own \in Of(turn, listed) : own[1] <= l[1]
      BY DEF Since
    <3>3. a \in listed /\ own \in listed /\ l \in listed
      BY DEF Of, Since
    <3>4. ~(own[1] <= a[1])
      BY <3>1, <3>3 DEF Since
    <3>5. a[1] <= l[1]
      BY <1>1, <3>2, <3>3, <3>4
    <3> QED
      BY <3>3, <3>5 DEF Since
  <2> QED
    BY <2>1, <2>2
<1> QED
  BY <1>2 DEF Known

\* What is not since a message is before all that is.
LEMMA Before ==
  ASSUME Numbered(listed), NEW m, NEW l \in listed, l \notin Since(listed, m),
         NEW k \in Since(listed, m)
  PROVE  l[1] < k[1]
<1>1. PICK own \in Of(m, listed) : own[1] <= k[1]
  BY DEF Since
<1>2. own \in listed /\ k \in listed
  BY DEF Of, Since
<1>3. ~(own[1] <= l[1])
  BY DEF Since
<1>4. own[1] \in Nat /\ k[1] \in Nat /\ l[1] \in Nat
  BY <1>2, LineType DEF Numbered
<1> QED
  BY <1>1, <1>3, <1>4

LEMMA After ==
  ASSUME Numbered(listed), NEW m, NEW l \in listed, NEW k \in Since(listed, m), k[1] <= l[1]
  PROVE  l \in Since(listed, m)
<1>1. PICK own \in Of(m, listed) : own[1] <= k[1]
  BY DEF Since
<1>2. own \in listed /\ k \in listed
  BY DEF Of, Since
<1>3. own[1] \in Nat /\ k[1] \in Nat /\ l[1] \in Nat
  BY <1>2, LineType DEF Numbered
<1> QED
  BY <1>1, <1>3 DEF Since

-----------------------------------------------------------------------------
(***************************************************************************)
(* Each action keeps the invariant of the rewinds: turns.                  *)
(***************************************************************************)
LEMMA RewindInitInv == RewindInit => RewindInv
<1> SUFFICES ASSUME RewindInit PROVE RewindInv
  OBVIOUS
<1>1. Msgs(listed) = {} /\ Numbered(listed)
  BY DEF RewindInit, Msgs, Numbered
<1>2. Untracked \in Account /\ \A f \in File : Untracked[f] = Nothing
  BY DEF Account, Untracked
<1>3. \A m \in Msg : dir[m] = NoDir /\ \A f \in File : dir[m].meta[f] = Nothing
  BY EmptyMeta DEF RewindInit
<1>4. RewindTypeOK
  <2>1. dir \in [Msg -> Directory]
    BY <1>2 DEF RewindInit, NoDir, Directory
  <2> QED
    BY <1>1, <1>2, <2>1, RewindAssumption
    DEF RewindInit, RewindTypeOK, WorkOK, CheckpointsOK, Turning, Plain, Targets
<1>5. Anchored
  BY DEF RewindInit, Anchored, TalkInOrder, LinesInOrder, Between, Turning
<1>6. Backed
  BY <1>3, Values DEF RewindInit, Backed, Plain
<1>7. WaysBack /\ Progress
  BY <1>1 DEF RewindInit, WaysBack, Progress, Back, Turning
<1> QED
  BY <1>4, <1>5, <1>6, <1>7 DEF RewindInv

LEMMA RewindStutters ==
  ASSUME RewindInv, UNCHANGED rewind
  PROVE  RewindInv'
<1> USE DEF rewind, work, store, accounts
<1>1. RewindTypeOK'
  BY DEF RewindInv, RewindTypeOK, WorkOK, CheckpointsOK, Turning
<1>2. Anchored'
  BY DEF RewindInv, Anchored, TalkInOrder, LinesInOrder, Between, Turning, Said
<1>3. Backed'
  BY DEF RewindInv, Backed
<1>4. WaysBack'
  BY DEF RewindInv, WaysBack, Turning, Back, Found, Saved, Extended, Now, Removing, Halfway, Behind
<1>5. Progress'
  BY DEF RewindInv, Progress, Returned, Files
<1> QED
  BY <1>1, <1>2, <1>3, <1>4, <1>5 DEF RewindInv

LEMMA StartTurnKeeps ==
  ASSUME RewindInv, NEW m \in Msg, StartTurn(m), Anchored', asked' \in 0..MaxAsks,
         talk' \in Seq(Msg)
  PROVE  RewindInv'
<1> USE DEF StartTurn, store
<1>1. Untracked \in Account /\ \A f \in File : Untracked[f] = Nothing
  BY DEF Account, Untracked
<1>2. RewindTypeOK'
  BY <1>1 DEF RewindInv, RewindTypeOK, WorkOK, CheckpointsOK, Turning
<1>3. Backed'
  BY <1>1, Values DEF RewindInv, Backed, Plain
<1>4. Found' = [f \in File |-> disk[f]]
  BY <1>1 DEF Found, Saved
<1>5. Back(listed, Msgs(listed), disk)
  BY DEF RewindInv, WaysBack
<1>6. ASSUME NEW x \in Msgs(listed) \cup {m}, NEW f \in File
      PROVE  <<x, f>> \in lost' \/ Path(listed, dir, x, f, disk[f], base'[x][f])
  <2>1. CASE x \in Msgs(listed)
    <3>1. x \in Msg
      BY <2>1, LineType DEF Msgs, RewindInv, RewindTypeOK, CheckpointsOK, Numbered
    <3>2. base'[x] = base[x]
      BY <2>1, <3>1
    <3>3. <<x, f>> \in lost => <<x, f>> \in lost'
      BY <2>1
    <3> QED
      BY <1>5, <2>1, <3>2, <3>3 DEF Back
  <2>2. CASE x \notin Msgs(listed)
    <3>1. base'[x] = disk
      BY <2>2
    <3>2. Known(listed, dir, x, f) = {}
      BY <2>2 DEF Known, Since, Of, Msgs
    <3>3. disk[f] \in Plain
      BY DEF RewindInv, RewindTypeOK, WorkOK
    <3> QED
      BY <3>1, <3>2, <3>3 DEF Path, Still
  <2> QED
    BY <2>1, <2>2
<1>7. WaysBack'
  BY <1>4, <1>6 DEF WaysBack, Back, Turning
<1>8. Progress'
  BY DEF Progress
<1> QED
  BY <1>2, <1>3, <1>7, <1>8 DEF RewindInv

LEMMA UserMessageKeeps ==
  ASSUME RewindInv, UserMessage
  PROVE  RewindInv'
<1>1. Anchored' /\ asked + 1 \in Msg /\ talk' \in Seq(Msg) /\ asked' \in 0..MaxAsks
  BY AnchorsGrow DEF RewindInv, UserMessage, StartTurn, store, Turning
<1> QED
  BY <1>1, StartTurnKeeps DEF UserMessage

LEMMA ContinueKeeps ==
  ASSUME RewindInv, Continue
  PROVE  RewindInv'
<1>1. Anchored' /\ Last(talk) \in Msg
  BY AnchorsContinue DEF RewindInv, Continue, StartTurn, store
<1>2. talk' \in Seq(Msg) /\ asked' \in 0..MaxAsks
  BY DEF RewindInv, RewindTypeOK, WorkOK, Continue
<1> QED
  BY <1>1, <1>2, StartTurnKeeps DEF Continue

\* The conversation changes, and nothing else.
LEMMA TalkChanges ==
  ASSUME RewindInv, UNCHANGED <<disk, work, store, accounts>>, faults' \in Nat,
         Anchored', asked' \in 0..MaxAsks, talk' \in Seq(Msg)
  PROVE  RewindInv'
<1> USE DEF work, store, accounts
<1>1. RewindTypeOK'
  BY DEF RewindInv, RewindTypeOK, WorkOK, CheckpointsOK, Turning
<1>2. Backed'
  BY DEF RewindInv, Backed
<1>3. WaysBack'
  BY DEF RewindInv, WaysBack, Turning, Back, Found, Saved, Extended, Now, Removing, Halfway, Behind
<1>4. Progress'
  BY DEF RewindInv, Progress, Returned, Files
<1> QED
  BY <1>1, <1>2, <1>3, <1>4 DEF RewindInv

LEMMA SteerKeeps ==
  ASSUME RewindInv, Steer
  PROVE  RewindInv'
<1>1. Anchored' /\ asked + 1 \in Msg /\ talk' \in Seq(Msg) /\ asked' \in 0..MaxAsks
  BY AnchorsGrow DEF RewindInv, Steer, work, store, Turning
<1>2. faults' \in Nat
  BY DEF RewindInv, RewindTypeOK, CheckpointsOK, Steer
<1> QED
  BY <1>1, <1>2, TalkChanges DEF Steer

LEMMA ClearKeeps ==
  ASSUME RewindInv, Clear
  PROVE  RewindInv'
<1>1. talk' \in Seq(Msg) /\ DOMAIN talk' = {} /\ asked' \in 0..MaxAsks /\ faults' \in Nat
  BY DEF Clear, RewindInv, RewindTypeOK, WorkOK, CheckpointsOK
<1>2. Anchored'
  BY <1>1, AnchorsShrink DEF RewindInv, Clear, work, store, Turning
<1> QED
  BY <1>1, <1>2, TalkChanges DEF Clear

LEMMA RewindTalkKeeps ==
  ASSUME RewindInv, NEW m, NEW s, RewindTalk(m, s)
  PROVE  RewindInv'
<1>1. talk \in Seq(Msg) /\ asked' \in 0..MaxAsks /\ faults' \in Nat
  BY RewindAssumption DEF RewindTalk, Fault, RewindInv, RewindTypeOK, WorkOK, CheckpointsOK
<1>2. talk' \in Seq(Msg) /\ DOMAIN talk' \subseteq DOMAIN talk
        /\ \A i \in DOMAIN talk' : talk'[i] = talk[i]
  BY <1>1, CutIs DEF RewindTalk
<1>3. Anchored'
  BY <1>2, AnchorsShrink DEF RewindInv, RewindTalk, work, store, Turning
<1> QED
  BY <1>1, <1>2, <1>3, TalkChanges DEF RewindTalk

-----------------------------------------------------------------------------
LEMMA EditKeeps ==
  ASSUME RewindInv, NEW f \in File, NEW c \in Content, Edit(f, c)
  PROVE  RewindInv'
<1> USE DEF Edit
<1>1. /\ turn \in Msg /\ disk \in [File -> Plain] /\ tracked \in Account
      /\ dir \in [Msg -> Directory] /\ Numbered(listed)
  BY DEF RewindInv, RewindTypeOK, WorkOK, CheckpointsOK, Turning
<1>2. tracked' \in Account
  BY <1>1 DEF Tracks, Account
<1>3. /\ dir' \in [Msg -> Directory]
      /\ \A m \in Msg : dir'[m].meta = dir[m].meta /\ dir[m].objects \subseteq dir'[m].objects
      /\ ~Saved(f) /\ disk[f] \in Content => disk[f] \in dir'[turn].objects
  <2>1. CASE Saved(f) \/ disk[f] = Absent
    BY <1>1, <2>1, Values
  <2>2. CASE ~Saved(f) /\ disk[f] # Absent
    <3>1. disk[f] \in Content
      BY <1>1, <2>2 DEF Plain
    <3>2. PICK t : t = dir[turn]
      OBVIOUS
    <3>3. t \in Directory
      BY <1>1, <3>2
    <3>4. dir' = [dir EXCEPT ![turn] = [t EXCEPT !.objects = @ \cup {disk[f]}]]
      BY <2>2, <3>2
    <3>5. /\ [t EXCEPT !.objects = @ \cup {disk[f]}] \in Directory
          /\ [t EXCEPT !.objects = @ \cup {disk[f]}].meta = t.meta
          /\ [t EXCEPT !.objects = @ \cup {disk[f]}].objects = t.objects \cup {disk[f]}
      BY <3>1, <3>3 DEF Directory
    <3> QED
      BY <1>1, <3>2, <3>4, <3>5
  <2> QED
    BY <2>1, <2>2
<1>4. RewindTypeOK'
  <2>1. disk' \in [File -> Plain]
    BY <1>1 DEF Plain
  <2> QED
    BY <1>2, <1>3, <2>1 DEF RewindInv, RewindTypeOK, WorkOK, CheckpointsOK, Turning
<1>5. Anchored'
  BY DEF RewindInv, Anchored, TalkInOrder, LinesInOrder, Between, Turning, Said
<1>6. Backed'
  <2>1. \A m \in Msg, g \in File :
           dir'[m].meta[g] \in Content => dir'[m].meta[g] \in dir'[m].objects
    BY <1>3 DEF RewindInv, Backed
  <2>2. \A g \in File : tracked'[g] \in Content => tracked'[g] \in dir'[turn].objects
    <3> TAKE g \in File
    <3>1. CASE tracked'[g] = tracked[g]
      BY <1>1, <1>3, <3>1 DEF RewindInv, Backed
    <3>2. CASE g = f /\ ~Saved(f)
      BY <1>1, <1>3, <3>2 DEF Tracks, Account
    <3> QED
      BY <1>1, <3>1, <3>2 DEF Tracks, Account
  <2> QED
    BY <2>1, <2>2 DEF Backed
<1>7. Found' = Found
  <2>1. ASSUME NEW g \in File
        PROVE  (IF tracked'[g] # Nothing THEN tracked'[g] ELSE disk'[g])
                 = (IF tracked[g] # Nothing THEN tracked[g] ELSE disk[g])
    <3>1. CASE g # f
      BY <1>1, <3>1 DEF Tracks, Account
    <3>2. CASE g = f /\ Saved(f)
      BY <1>1, <3>2 DEF Tracks, Saved
    <3>3. CASE g = f /\ ~Saved(f)
      <4>1. disk[f] # Nothing
        BY <1>1, Values
      <4> QED
        BY <1>1, <3>3, <4>1 DEF Tracks, Saved, Account
    <3> QED
      BY <3>1, <3>2, <3>3
  <2> QED
    BY <2>1 DEF Found, Saved
<1>8. WaysBack'
  <2>1. Back(listed, Msgs(listed) \cup {turn}, Found)
    BY DEF RewindInv, WaysBack, Turning
  <2>2. ASSUME NEW m, NEW g, NEW v, NEW b, Path(listed, dir, m, g, v, b)
        PROVE  Path(listed, dir', m, g, v, b)
    <3>1. listed \subseteq Line /\ SameMeta(dir, dir')
      BY <1>1, <1>3 DEF Numbered, SameMeta
    <3> QED
      BY <2>2, <3>1, PathSameMeta
  <2>3. Back(listed, Msgs(listed) \cup {turn}, Found)'
    BY <1>7, <2>1, <2>2 DEF Back, accounts
  <2> QED
    BY <2>3 DEF WaysBack, Turning
<1>9. Progress'
  BY DEF Progress
<1> QED
  BY <1>4, <1>5, <1>6, <1>8, <1>9 DEF RewindInv

\* A file was written that the turn had not backed up.
LEMMA WrittenUnsaved ==
  ASSUME RewindInv, NEW M, M \subseteq Msgs(listed) \cup {turn}, NEW f \in File, NEW v, NEW w,
         Back(listed, M, v), listed' = listed, dir' = dir, base' = base,
         \A g \in File \ {f} : w[g] = v[g],
         lost' = lost \cup Losing({f}, Now)
  PROVE  \A m \in M, g \in File : <<m, g>> \in lost' \/ Path(listed', dir', m, g, w[g], base'[m][g])
<1> TAKE m \in M, g \in File
<1>1. <<m, g>> \in lost \/ Path(listed, dir, m, g, v[g], base[m][g])
  BY DEF Back
<1>2. CASE g # f
  BY <1>1, <1>2
<1>3. CASE g = f
  <2>1. Numbered(listed)
    BY DEF RewindInv, RewindTypeOK, CheckpointsOK
  <2>2. ASSUME Path(listed, dir, m, g, v[g], base[m][g])
        PROVE  <<m, f>> \in Losing({f}, Now) \/ Path(listed, dir, m, f, w[g], base[m][g])
    BY <1>3, <2>1, <2>2, LostOrLed
  <2> QED
    BY <1>1, <1>3, <2>2
<1> QED
  BY <1>2, <1>3

LEMMA EditUnsavedKeeps ==
  ASSUME RewindInv, NEW f \in File, NEW c \in Content, EditUnsaved(f, c)
  PROVE  RewindInv'
<1> USE DEF EditUnsaved, store
<1>1. disk \in [File -> Plain] /\ tracked \in Account
  BY DEF RewindInv, RewindTypeOK, WorkOK
<1>2. tracked' \in Account /\ \A g \in File \ {f} : tracked'[g] = tracked[g]
  BY <1>1 DEF Account
<1>3. tracked'[f] \notin Content
  BY <1>1, Values DEF Saved, Account, Plain
<1>4. RewindTypeOK'
  <2>1. disk' \in [File -> Plain]
    BY <1>1 DEF Plain
  <2>2. faults' \in Nat
    BY DEF Fault, RewindInv, RewindTypeOK, CheckpointsOK
  <2> QED
    BY <1>2, <2>1, <2>2 DEF RewindInv, RewindTypeOK, WorkOK, CheckpointsOK, Turning
<1>5. Anchored'
  BY DEF RewindInv, Anchored, TalkInOrder, LinesInOrder, Between, Turning, Said
<1>6. Backed'
  BY <1>2, <1>3 DEF RewindInv, Backed
<1>7. WaysBack'
  <2>1. Back(listed, Msgs(listed) \cup {turn}, Found)
    BY DEF RewindInv, WaysBack, Turning
  <2>2. \A g \in File \ {f} : Found'[g] = Found[g]
    BY <1>1, <1>2 DEF Found, Saved
  <2>3. \A m \in Msgs(listed) \cup {turn}, g \in File :
           <<m, g>> \in lost' \/ Path(listed', dir', m, g, Found'[g], base'[m][g])
    BY <2>1, <2>2, WrittenUnsaved
  <2> QED
    BY <2>3 DEF WaysBack, Turning, Back
<1>8. Progress'
  BY DEF Progress
<1> QED
  BY <1>4, <1>5, <1>6, <1>7, <1>8 DEF RewindInv

LEMMA MeddleKeeps ==
  ASSUME RewindInv, NEW f \in File, NEW c \in Plain, Meddle(f, c)
  PROVE  RewindInv'
<1> USE DEF Meddle, work, store
<1>1. disk \in [File -> Plain] /\ tracked \in Account
  BY DEF RewindInv, RewindTypeOK, WorkOK
<1>2. disk' \in [File -> Plain] /\ \A g \in File \ {f} : disk'[g] = disk[g]
  BY <1>1
<1>3. RewindTypeOK'
  <2>1. faults' \in Nat
    BY DEF Fault, RewindInv, RewindTypeOK, CheckpointsOK
  <2> QED
    BY <1>2, <2>1 DEF RewindInv, RewindTypeOK, WorkOK, CheckpointsOK, Turning
<1>4. Anchored'
  BY DEF RewindInv, Anchored, TalkInOrder, LinesInOrder, Between, Turning, Said
<1>5. Backed'
  BY DEF RewindInv, Backed
<1>6. CASE phase = "turn"
  <2>1. Back(listed, Msgs(listed) \cup {turn}, Found)
    BY <1>6 DEF RewindInv, WaysBack, Turning
  <2>2. \A g \in File \ {f} : Found'[g] = Found[g]
    BY <1>1, <1>2 DEF Found, Saved
  <2>3. \A m \in Msgs(listed) \cup {turn}, g \in File :
           <<m, g>> \in lost' \/ Path(listed', dir', m, g, Found'[g], base'[m][g])
    <3>1. CASE Saved(f)
      <4>1. Found'[f] = Found[f]
        BY <3>1 DEF Found, Saved
      <4> QED
        BY <1>6, <2>1, <2>2, <3>1, <4>1 DEF Back
    <3>2. CASE ~Saved(f)
      BY <2>1, <2>2, <3>2, WrittenUnsaved
    <3> QED
      BY <3>1, <3>2
  <2> QED
    BY <1>3, <1>4, <1>5, <1>6, <2>3 DEF RewindInv, WaysBack, Progress, Turning, Back
<1>7. CASE phase = "idle"
  <2>1. Back(listed, Msgs(listed), disk)
    BY <1>7 DEF RewindInv, WaysBack
  <2>2. \A m \in Msgs(listed), g \in File :
           <<m, g>> \in lost' \/ Path(listed', dir', m, g, disk'[g], base'[m][g])
    BY <1>2, <1>7, <2>1, WrittenUnsaved
  <2> QED
    BY <1>3, <1>4, <1>5, <1>7, <2>2 DEF RewindInv, WaysBack, Progress, Turning, Back
<1> QED
  BY <1>6, <1>7

LEMMA TurnFailsKeeps ==
  ASSUME RewindInv, TurnFails
  PROVE  RewindInv'
<1> USE DEF TurnFails, store
<1>1. Numbered(listed) /\ \A g \in File : g \in {h \in File : Saved(h)} <=> Saved(g)
  BY DEF RewindInv, RewindTypeOK, CheckpointsOK
<1>2. RewindTypeOK'
  <2>1. faults' \in Nat /\ Untracked \in Account
    BY DEF Fault, RewindInv, RewindTypeOK, CheckpointsOK, Untracked, Account
  <2> QED
    BY <2>1 DEF RewindInv, RewindTypeOK, WorkOK, CheckpointsOK, Turning
<1>3. Anchored'
  BY AnchorsShrink DEF RewindInv, Turning
<1>4. Backed'
  BY DEF RewindInv, Backed
<1>5. Back(listed, Msgs(listed) \cup {turn}, Found)
  BY DEF RewindInv, WaysBack, Turning
<1>6. ASSUME NEW m \in Msgs(listed), NEW g \in File
      PROVE  <<m, g>> \in lost' \/ Path(listed, dir, m, g, disk[g], base[m][g])
  <2>1. <<m, g>> \in lost \/ Path(listed, dir, m, g, Found[g], base[m][g])
    BY <1>5 DEF Back
  <2>2. CASE Saved(g)
    <3>1. {h \in File : Saved(h)} \subseteq File /\ g \in {h \in File : Saved(h)}
      BY <2>2
    <3>2. ASSUME Path(listed, dir, m, g, Found[g], base[m][g])
          PROVE  \/ <<m, g>> \in Losing({h \in File : Saved(h)}, Now)
                 \/ Path(listed, dir, m, g, disk[g], base[m][g])
      BY <1>1, <3>1, <3>2, LostOrLed
    <3> QED
      BY <2>1, <3>2
  <2>3. CASE ~Saved(g)
    BY <2>1, <2>3 DEF Found
  <2> QED
    BY <2>2, <2>3
<1>7. WaysBack' /\ Progress'
  BY <1>6 DEF WaysBack, Progress, Turning, Back
<1> QED
  BY <1>2, <1>3, <1>4, <1>7 DEF RewindInv

-----------------------------------------------------------------------------
(***************************************************************************)
(* create_checkpoint.  X is the manifest without and with the new line.    *)
(***************************************************************************)
\* What a turn writes down is lost or at one with what was known before.
LEMMA NotedPath ==
  ASSUME RewindInv, WriteMeta, NEW n, n = <<Now, turn>>,
         NEW X, X = listed \/ X = listed \cup {n},
         NEW m \in Msgs(X) \cup {turn}, NEW f \in File, NEW v,
         v = Found[f] \/ (X # listed /\ v = disk[f]),
         <<m, f>> \notin lost'
  PROVE  Path(X, dir', m, f, v, base[m][f])
<1>1. Numbered(listed) /\ turn \in Msg /\ tracked \in Account /\ dir \in [Msg -> Directory]
  BY DEF WriteMeta, RewindInv, RewindTypeOK, WorkOK, CheckpointsOK, Turning
<1>2. /\ n[1] = Now /\ n[2] = turn /\ Now \in Nat
      /\ \A l \in listed : l[1] < Now /\ l[1] \in Nat /\ l[2] \in Msg
  BY <1>1, NowAbove, LineType DEF Numbered
<1>3. /\ m \in Msgs(listed) \cup {turn}
      /\ X \subseteq listed \cup {n} /\ listed \subseteq X
      /\ \A l \in X : l[1] \in Nat /\ l[2] \in Msg
  BY <1>1, <1>2 DEF Msgs
<1>4. Path(listed, dir, m, f, Found[f], base[m][f])
  <2>1. <<m, f>> \notin lost
    BY DEF WriteMeta
  <2> QED
    BY <1>3, <2>1 DEF WriteMeta, RewindInv, WaysBack, Turning, Back
<1>5. \A l \in X : dir'[l[2]].meta[f] = IF l[2] = turn THEN tracked[f] ELSE dir[l[2]].meta[f]
  <2>1. PICK t : t = dir[turn]
    OBVIOUS
  <2>2. t \in Directory /\ dir' = [dir EXCEPT ![turn] = [t EXCEPT !.meta = tracked]]
    BY <1>1, <2>1 DEF WriteMeta
  <2>3. [t EXCEPT !.meta = tracked].meta = tracked
    BY <2>2 DEF Directory
  <2> QED
    BY <1>1, <1>3, <2>2, <2>3
\* The new line is since all messages.
<1>6. n \in X => n \in Since(X, m)
  <2> HAVE n \in X
  <2>1. CASE m = turn
    BY <1>2, <2>1 DEF Since, Of
  <2>2. CASE m # turn
    <3>1. PICK own \in listed : own[2] = m
      BY <1>3, <2>2 DEF Msgs
    <3> QED
      BY <1>2, <1>3, <3>1 DEF Since, Of
  <2> QED
    BY <2>1, <2>2
\* The older lines are since m as before.
<1>7. \A l \in listed : l \in Since(X, m) <=> l \in Since(listed, m)
  BY <1>2, <1>3 DEF Since, Of
<1>8. Since(X, m) \subseteq X
  BY DEF Since
<1>9. CASE Still(listed, dir, m, f, Found[f], base[m][f])
  <2>1. ASSUME NEW l \in Known(X, dir', m, f) PROVE l[2] = turn /\ tracked[f] # Nothing
    <3>1. CASE l \in listed /\ l[2] # turn
      <4>1. l \in Known(listed, dir, m, f)
        BY <1>3, <1>5, <1>7, <3>1 DEF Known
      <4> QED
        BY <1>9, <4>1 DEF Still
    <3>2. CASE l[2] = turn
      BY <1>5, <1>8, <3>2 DEF Known
    <3> QED
      BY <1>2, <1>3, <1>8, <3>1, <3>2 DEF Known
  <2>2. CASE Known(X, dir', m, f) = {}
    <3>1. X # listed => tracked[f] = Nothing
      BY <1>2, <1>5, <1>6, <2>2 DEF Known
    <3>2. v = Found[f]
      BY <3>1 DEF Found, Saved
    <3> QED
      BY <1>9, <2>2, <3>2 DEF Path, Still
  <2>3. CASE Known(X, dir', m, f) # {}
    <3>1. Known(X, dir', m, f) \subseteq Line
      BY <1>3, <1>8, <1>1, <1>2 DEF Known, Numbered, Line
    <3>2. PICK l \in Known(X, dir', m, f) : \A k \in Known(X, dir', m, f) : l[1] <= k[1]
      BY <2>3, <3>1, OldestIn
    <3>3. l[2] = turn /\ tracked[f] # Nothing /\ l \in X
      BY <1>8, <2>1 DEF Known
    <3>4. dir'[l[2]].meta[f] = base[m][f] /\ base[m][f] \in Plain
      BY <1>5, <1>9, <3>3 DEF Still, Found, Saved
    <3>5. Alone(X, dir', m, f, l)
      BY <2>1, <3>3 DEF Alone
    <3> QED
      BY <3>2, <3>3, <3>4, <3>5 DEF Path, Leads
  <2> QED
    BY <2>2, <2>3
<1>10. ASSUME NEW l \in listed, Leads(listed, dir, m, f, l, base[m][f])
       PROVE  Path(X, dir', m, f, v, base[m][f])
  <2> DEFINE F == {g \in File : Knows(turn, g) # {}}
  <2>1. /\ l \in Known(listed, dir, m, f)
        /\ \A k \in Known(listed, dir, m, f) : l[1] <= k[1]
    BY <1>10 DEF Leads
  \* Were the turn's account of f anew or before l's, the way would be lost.
  <2>2. ASSUME NEW j \in Of(turn, listed), j \in Since(listed, m), j[1] <= l[1] PROVE FALSE
    <3>1. l \in Known(listed, dir, turn, f)
      BY <2>1, <2>2 DEF Known, Since
    <3>2. f \in F /\ F \subseteq File
      BY <1>1, <3>1, KnowsIs
    <3>3. j \in listed /\ \E own \in Of(m, listed) : own[1] <= j[1]
      BY <2>2 DEF Since
    <3>4. \A k \in Known(listed, dir, m, f) : j[1] <= k[1]
      <4> TAKE k \in Known(listed, dir, m, f)
      <4>1. l[1] <= k[1] /\ k \in listed
        BY <2>1 DEF Known, Since
      <4> QED
        BY <1>2, <2>2, <3>3, <4>1
    <3>5. <<m, f>> \in LosingAll(F, Of(turn, listed))
      <4> HIDE DEF F
      <4> QED
        BY <1>1, <1>3, <3>2, <3>3, <3>4, FirstLost
    <3> QED
      BY <3>5 DEF WriteMeta
  <2>3. l[2] # turn
    <3>1. l \in Since(listed, m) /\ l[1] <= l[1]
      BY <1>2, <2>1 DEF Known
    <3> QED
      BY <2>2, <3>1 DEF Of
  <2>4. l \in X /\ l \in Since(X, m)
    BY <1>3, <1>7, <2>1 DEF Known
  <2>5. l \in Known(X, dir', m, f) /\ dir'[l[2]].meta[f] = base[m][f] /\ base[m][f] \in Plain
    BY <1>5, <1>10, <2>3, <2>4, Values DEF Leads, Known
  <2>6. \A k \in Known(X, dir', m, f) : l[1] <= k[1]
    <3> TAKE k \in Known(X, dir', m, f)
    <3>1. k \in X /\ k \in Since(X, m) /\ dir'[k[2]].meta[f] # Nothing
      BY <1>8 DEF Known
    <3>2. CASE k = n
      BY <1>2, <3>2
    <3>3. CASE k \in listed /\ k[2] # turn
      <4>1. k \in Known(listed, dir, m, f)
        BY <1>5, <1>7, <3>1, <3>3 DEF Known
      <4> QED
        BY <2>1, <4>1
    <3>4. CASE k \in listed /\ k[2] = turn
      <4>1. k \in Of(turn, listed) /\ k \in Since(listed, m)
        BY <1>7, <3>1, <3>4 DEF Of
      <4>2. ~(k[1] <= l[1])
        BY <2>2, <4>1
      <4> QED
        BY <1>2, <3>4, <4>2
    <3> QED
      BY <1>3, <3>1, <3>2, <3>3, <3>4
  <2>7. Alone(X, dir', m, f, l)
    <3> SUFFICES ASSUME NEW j \in Known(X, dir', m, f), NEW k \in Of(l[2], X),
                        l[1] < j[1], j[1] < k[1], j[2] # l[2]
                 PROVE  FALSE
      BY DEF Alone
    <3>1. k \in listed /\ k[2] = l[2]
      BY <1>2, <1>3, <2>3 DEF Of
    <3>2. j \in listed /\ j \in Since(X, m) /\ dir'[j[2]].meta[f] # Nothing
      BY <1>2, <1>3, <1>8, <3>1 DEF Known
    <3>3. ~Said(j[2])
      BY <3>1, <3>2 DEF RewindInv, Anchored, Between
    <3>4. j[2] # turn
      BY <3>3 DEF WriteMeta, RewindInv, Anchored, LinesInOrder, Turning
    <3>5. j \in Known(listed, dir, m, f)
      BY <1>5, <1>7, <1>3, <3>2, <3>4 DEF Known
    <3> QED
      BY <1>10, <3>1, <3>5 DEF Leads, Alone, Of
  <2> QED
    BY <2>4, <2>5, <2>6, <2>7 DEF Path, Leads
<1> QED
  BY <1>4, <1>9, <1>10 DEF Path

LEMMA WriteMetaKeeps ==
  ASSUME RewindInv, WriteMeta
  PROVE  RewindInv'
<1>1. Numbered(listed) /\ turn \in Msg /\ tracked \in Account /\ dir \in [Msg -> Directory]
  BY DEF WriteMeta, RewindInv, RewindTypeOK, WorkOK, CheckpointsOK, Turning
<1>2. /\ dir' \in [Msg -> Directory]
      /\ \A m \in Msg : m # turn => dir'[m] = dir[m]
      /\ dir'[turn].meta = tracked /\ dir'[turn].objects = dir[turn].objects
  <2>1. PICK t : t = dir[turn]
    OBVIOUS
  <2>2. t \in Directory /\ dir' = [dir EXCEPT ![turn] = [t EXCEPT !.meta = tracked]]
    BY <1>1, <2>1 DEF WriteMeta
  <2>3. /\ [t EXCEPT !.meta = tracked] \in Directory
        /\ [t EXCEPT !.meta = tracked].meta = tracked
        /\ [t EXCEPT !.meta = tracked].objects = t.objects
    BY <1>1, <2>2 DEF Directory
  <2> QED
    BY <1>1, <2>1, <2>2, <2>3
<1>3. RewindTypeOK'
  BY <1>2 DEF WriteMeta, RewindInv, RewindTypeOK, WorkOK, CheckpointsOK, Turning
<1>4. Anchored'
  BY DEF WriteMeta, RewindInv, Anchored, TalkInOrder, LinesInOrder, Between, Turning, Said
<1>5. Backed'
  BY <1>2 DEF WriteMeta, RewindInv, Backed
<1>6. PICK n : n = <<Now, turn>>
  OBVIOUS
<1>7. ASSUME NEW X, X = listed \/ X = listed \cup {n}, NEW m \in Msgs(X) \cup {turn},
             NEW f \in File,
             NEW v, v = Found[f] \/ (X # listed /\ v = disk[f])
      PROVE  <<m, f>> \in lost' \/ Path(X, dir', m, f, v, base[m][f])
  BY <1>6, <1>7, NotedPath
<1>8. Back(listed, Msgs(listed) \cup {turn}, Found)'
  <2>1. Found' = Found
    BY DEF WriteMeta, Found, Saved
  <2> QED
    BY <1>7, <2>1 DEF WriteMeta, Back
<1>9. Back(Extended, Msgs(Extended), disk)'
  <2>1. Extended' = listed \cup {n}
    BY <1>6 DEF WriteMeta, Extended, Now
  <2>2. n \notin listed
    <3>1. n[1] = Now
      BY <1>6
    <3> QED
      BY <1>1, <3>1, NowAbove
  <2>3. \A m \in Msgs(listed \cup {n}), f \in File :
           <<m, f>> \in lost' \/ Path(listed \cup {n}, dir', m, f, disk[f], base[m][f])
    <3> TAKE m \in Msgs(listed \cup {n}), f \in File
    <3> QED
      BY <1>7, <2>2
  <2> QED
    BY <2>1, <2>3 DEF WriteMeta, Back
<1>10. WaysBack' /\ Progress'
  BY <1>8, <1>9 DEF WriteMeta, WaysBack, Progress, Turning
<1> QED
  BY <1>3, <1>4, <1>5, <1>10 DEF RewindInv

\* What else is kept when a checkpoint's directory goes.
LEMMA WithoutKeeps ==
  ASSUME RewindInv, NEW x \in Msg, dir' = Without(dir, x)
  PROVE  /\ dir' \in [Msg -> Directory]
         /\ \A m \in Msg, f \in File :
              dir'[m].meta[f] \in Content => dir'[m].meta[f] \in dir'[m].objects
         /\ \A m \in Msg, f \in File : dir'[m].meta[f] # Nothing => m # x
              /\ dir[m].meta[f] # Nothing
<1>1. dir \in [Msg -> Directory]
  BY DEF RewindInv, RewindTypeOK, CheckpointsOK
<1>2. NoDir \in Directory /\ \A f \in File : NoDir.meta[f] = Nothing
  BY EmptyMeta DEF NoDir, Untracked, Directory, Account
<1>3. dir'[x] = NoDir /\ \A m \in Msg : m # x => dir'[m] = dir[m]
  BY <1>1 DEF Without
<1>4. dir' \in [Msg -> Directory]
  BY <1>1, <1>2 DEF Without
<1>5. ASSUME NEW m \in Msg, NEW f \in File
      PROVE  dir'[m].meta[f] \in Content => dir'[m].meta[f] \in dir'[m].objects
  BY <1>2, <1>3, Values DEF RewindInv, Backed, Plain
<1>6. ASSUME NEW m \in Msg, NEW f \in File
      PROVE  dir'[m].meta[f] # Nothing => m # x /\ dir[m].meta[f] # Nothing
  BY <1>2, <1>3
<1> QED
  BY <1>4, <1>5, <1>6

LEMMA LosingMore ==
  ASSUME NEW F, NEW L, NEW L2, L \subseteq L2
  PROVE  LosingAll(F, L) \subseteq LosingAll(F, L2)
  BY DEF LosingAll

\* enforce_retention takes the oldest checkpoint from both manifests.
LEMMA TrimmedPaths ==
  ASSUME RewindInv, phase = "noted", NEW x \in Msg, dir' = Without(dir, x),
         NEW n, n = <<Now, turn>>,
         lost' = lost \cup LosingAll(Files(x), Of(x, list \cup {n})) \cup ({turn} \cap {x}) \X File
  PROVE  /\ \A m \in Msgs(listed) \cup {turn}, f \in File :
              <<m, f>> \in lost' \/ Path(listed, dir', m, f, Found[f], base[m][f])
         /\ \A m \in Msgs((list \ Of(x, list)) \cup {n}), f \in File :
              \/ <<m, f>> \in lost'
              \/ Path((list \ Of(x, list)) \cup {n}, dir', m, f, disk[f], base[m][f])
<1>1. Numbered(listed) /\ list = listed /\ turn \in Msg /\ dir \in [Msg -> Directory]
  BY DEF RewindInv, RewindTypeOK, WorkOK, CheckpointsOK, Turning, Progress
<1>2. /\ n[1] = Now /\ n[2] = turn /\ Now \in Nat
      /\ \A l \in listed : l[1] < Now /\ l[1] \in Nat /\ l[2] \in Msg
      /\ n \in Line
  BY <1>1, NowAbove, LineType DEF Numbered, Line
<1>3. ASSUME NEW m \in Msgs(listed) \cup {turn}, NEW f \in File, <<m, f>> \notin lost'
      PROVE  Path(listed, dir', m, f, Found[f], base[m][f])
  <2>1. Path(listed, dir, m, f, Found[f], base[m][f])
    BY <1>3 DEF RewindInv, WaysBack, Turning, Back
  <2>2. ASSUME NEW l \in listed, Leads(listed, dir, m, f, l, base[m][f]), l[2] = x PROVE FALSE
    <3>1. <<m, f>> \in LosingAll(Files(x), Of(x, listed))
      BY <1>1, <2>2, LeadLost
    <3>2. Of(x, listed) \subseteq Of(x, list \cup {n})
      BY <1>1 DEF Of
    <3> QED
      BY <1>3, <3>1, <3>2, LosingMore
  <2>3. listed \subseteq Line /\ listed \ Of(x, listed) \subseteq listed
    BY <1>1 DEF Numbered
  <2>4. \A l \in listed : Leads(listed, dir, m, f, l, base[m][f]) => l[2] # x
    BY <2>2
  <2> QED
    BY <1>1, <2>1, <2>3, <2>4, PathRemoved
<1>4. ASSUME NEW L2, L2 = (list \ Of(x, list)) \cup {n}, NEW m \in Msgs(L2), NEW f \in File,
             <<m, f>> \notin lost'
      PROVE  Path(L2, dir', m, f, disk[f], base[m][f])
  <2>1. PICK L : L = list \cup {n}
    OBVIOUS
  <2>2. L = Extended /\ L \subseteq Line /\ L2 \subseteq L /\ L \ Of(x, L) \subseteq L2
    BY <1>1, <1>2, <1>4, <2>1 DEF Extended, Of, Numbered
  <2>3. m # x /\ m \in Msgs(L)
    BY <1>2, <1>4, <2>1 DEF Msgs, Of
  <2>4. Of(m, L2) = Of(m, L)
    BY <1>4, <2>1, <2>3 DEF Of
  <2>5. Path(L, dir, m, f, disk[f], base[m][f])
    BY <1>4, <2>2, <2>3 DEF RewindInv, WaysBack, Back
  <2>6. ASSUME NEW l \in L, Leads(L, dir, m, f, l, base[m][f]), l[2] = x PROVE FALSE
    <3>1. /\ dir[x].meta[f] # Nothing
          /\ \A k \in Known(L, dir, m, f) : l[1] <= k[1]
      BY <2>6 DEF Leads, Known
    <3>2. PICK own \in Of(m, L) : own[1] <= l[1]
      BY <2>6 DEF Leads, Known, Since
    <3>3. m \in Msgs(listed) \cup {turn} /\ l[1] \in Nat /\ own[1] \in Nat
      BY <1>1, <1>2, <2>1, <2>3, <3>2 DEF Msgs, Of
    \* The new line is only m's own where it is not the one that leads.
    <3>4. own \in Of(m, listed)
      <4>1. CASE own = n
        <5>1. l[2] # turn
          BY <1>2, <2>3, <2>6, <3>2, <4>1 DEF Of
        <5>2. l \in listed
          BY <1>1, <1>2, <2>1, <5>1
        <5> QED
          BY <1>2, <3>2, <4>1, <5>2
      <4> QED
        BY <1>1, <2>1, <3>2, <4>1 DEF Of
    <3>5. Known(listed, dir, m, f) \subseteq Known(L, dir, m, f)
      BY <1>1, <2>1 DEF Known, Since, Of
    <3>6. \A k \in Known(listed, dir, m, f) : l[1] <= k[1]
      BY <3>1, <3>5
    <3>7. Files(x) \subseteq File /\ f \in Files(x) /\ l \in Of(x, L)
      BY <2>6, <3>1 DEF Files, Of
    <3>8. <<m, f>> \in Losing(Files(x), l[1])
      BY <1>1, <3>2, <3>3, <3>4, <3>6, <3>7, LosesIf
    <3> QED
      BY <1>4, <2>1, <3>7, <3>8, LosesOne
  <2>7. \A l \in L : Leads(L, dir, m, f, l, base[m][f]) => l[2] # x
    BY <2>6
  <2> QED
    BY <1>1, <2>2, <2>4, <2>5, <2>7, PathRemoved
<1> QED
  BY <1>3, <1>4

LEMMA TrimKeeps ==
  ASSUME RewindInv, Trim
  PROVE  RewindInv'
<1>1. phase = "noted" /\ phase' = "trimmed" /\ listed' = listed /\ turn' = turn
        /\ UNCHANGED <<disk, asked, talk, tracked, scope, todo, doomed, faults, base>>
  BY DEF Trim
<1>2. Numbered(listed) /\ list = listed /\ turn \in Msg
  BY <1>1 DEF RewindInv, RewindTypeOK, WorkOK, CheckpointsOK, Turning, Progress
<1>3. Found' = Found /\ Now' = Now
  BY <1>1 DEF Found, Saved, Now
<1>4. Anchored'
  BY <1>1 DEF RewindInv, Anchored, TalkInOrder, LinesInOrder, Between, Turning, Said
<1>5. CASE UNCHANGED <<list, dir, lost>>
  <2>1. RewindTypeOK' /\ Backed'
    BY <1>1, <1>5 DEF RewindInv, RewindTypeOK, WorkOK, CheckpointsOK, Turning, Backed
  <2>2. WaysBack' /\ Progress'
    BY <1>1, <1>3, <1>5 DEF RewindInv, WaysBack, Turning, Back, Extended, Progress
  <2> QED
    BY <1>4, <2>1, <2>2 DEF RewindInv
<1>6. ASSUME ~UNCHANGED <<list, dir, lost>>
      PROVE  RewindInv'
  <2>1. PICK x : x = Oldest(list)[2]
    OBVIOUS
  <2>2. PICK n : n = <<Now, turn>>
    OBVIOUS
  <2>3. /\ ~(Cardinality(list) < MaxListed)
        /\ list' = list \ Of(x, list)
        /\ dir' = Without(dir, x)
        /\ lost' = lost \cup LosingAll(Files(x), Of(x, list \cup {n}))
             \cup ({turn} \cap {x}) \X File
    BY <1>6, <2>1, <2>2 DEF Trim, Without
  <2>4. list # {}
    BY <2>3, FS_EmptySet, RewindAssumption
  <2>5. x \in Msg
    <3>1. list \subseteq Line
      BY <1>2 DEF Numbered
    <3>2. Oldest(list) \in list
      BY <2>4, <3>1, OldestIn
    <3> QED
      BY <2>1, <3>1, <3>2, LineType
  <2>6. RewindTypeOK' /\ Backed'
    <3>1. dir' \in [Msg -> Directory] /\ \A m \in Msg, f \in File :
              dir'[m].meta[f] \in Content => dir'[m].meta[f] \in dir'[m].objects
      BY <2>3, <2>5, WithoutKeeps
    <3> QED
      BY <1>1, <2>3, <3>1 DEF RewindInv, RewindTypeOK, WorkOK, CheckpointsOK, Turning, Backed
  <2>7. Back(listed, Msgs(listed) \cup {turn}, Found)'
    BY <1>1, <1>3, <2>2, <2>3, <2>5, TrimmedPaths DEF Back
  <2>8. Back(Extended, Msgs(Extended), disk)'
    <3>1. Extended' = (list \ Of(x, list)) \cup {n}
      BY <1>1, <1>3, <2>2, <2>3 DEF Extended
    <3> QED
      BY <1>1, <2>2, <2>3, <2>5, <3>1, TrimmedPaths DEF Back
  <2>9. WaysBack' /\ Progress'
    BY <1>1, <2>7, <2>8 DEF WaysBack, Progress, Turning
  <2> QED
    BY <1>4, <2>6, <2>9 DEF RewindInv
<1> QED
  BY <1>5, <1>6

LEMMA SaveKeeps ==
  ASSUME RewindInv, Save
  PROVE  RewindInv'
<1>1. Numbered(listed) /\ list \subseteq listed /\ turn \in Msg
  BY DEF Save, RewindInv, RewindTypeOK, WorkOK, CheckpointsOK, Turning
<1>2. PICK n : n = <<Now, turn>>
  OBVIOUS
<1>3. n[1] = Now /\ n[2] = turn /\ Now \in Nat /\ \A l \in listed : l[1] < Now
  BY <1>1, <1>2, NowAbove
<1>4. listed' = Extended /\ listed' = list \cup {n} /\ phase' = "idle" /\ list' = {}
  BY <1>2 DEF Save, Extended
<1>5. Numbered(listed')
  <2>1. listed' \subseteq Line
    BY <1>1, <1>2, <1>3, <1>4 DEF Numbered, Line
  <2>2. \A l, k \in listed' : l[1] = k[1] => l = k
    <3>1. \A l \in listed' : l # n => l \in listed /\ l[1] < Now /\ l[1] \in Nat
      BY <1>1, <1>3, <1>4, LineType DEF Numbered
    <3> QED
      BY <1>1, <1>3, <3>1 DEF Numbered
  <2>3. \A l \in listed' : l[1] <= Now
    <3>1. \A l \in listed : l[1] \in Nat
      BY <1>1, LineType DEF Numbered
    <3> QED
      BY <1>1, <1>3, <1>4, <3>1
  <2> QED
    BY <1>3, <2>1, <2>2, <2>3 DEF Numbered
<1>6. RewindTypeOK'
  <2>1. Untracked \in Account
    BY DEF Untracked, Account
  <2> QED
    BY <1>4, <1>5, <2>1 DEF Save, RewindInv, RewindTypeOK, WorkOK, CheckpointsOK, Turning
<1>7. Anchored'
  <2>1. Turning /\ ~Turning' /\ listed' \subseteq listed \cup {n}
    BY <1>1, <1>4 DEF Save, Turning
  <2> QED
    BY <1>2, <2>1, AnchorsSave DEF RewindInv, Save
<1>8. Backed'
  BY DEF Save, RewindInv, Backed
<1>9. WaysBack' /\ Progress'
  BY <1>4 DEF Save, RewindInv, WaysBack, Progress, Turning, Back, accounts
<1> QED
  BY <1>6, <1>7, <1>8, <1>9 DEF RewindInv

-----------------------------------------------------------------------------
(***************************************************************************)
(* The steps of a rewind.                                                  *)
(***************************************************************************)
LEMMA RewindBegins ==
  ASSUME RewindInv, NEW m \in Msg, NEW s \in Targets, Rewind(m, s)
  PROVE  RewindInv'
<1> USE DEF Rewind, store, accounts
<1>1. Numbered(listed) /\ ~Turning'
  BY DEF RewindInv, RewindTypeOK, CheckpointsOK, Turning
<1>2. doomed' = Since(listed, m)
  BY <1>1, FromIs
<1>3. RewindTypeOK'
  <2>1. doomed' \subseteq Line
    BY <1>1, <1>2 DEF Since, Numbered
  <2>2. todo' \subseteq File
    BY DEF RewindInv, RewindTypeOK, CheckpointsOK
  <2> QED
    BY <1>1, <2>1, <2>2 DEF RewindInv, RewindTypeOK, WorkOK, CheckpointsOK, Turning
<1>4. Anchored'
  BY <1>1, AnchorsShrink DEF RewindInv
<1>5. Backed'
  BY DEF RewindInv, Backed
<1>6. WaysBack'
  BY <1>1 DEF RewindInv, WaysBack, Back, Turning
<1>7. Progress'
  <2>1. CASE phase' = "dropping"
    BY <2>1 DEF Progress
  <2>2. CASE phase' = "restoring"
    <3>1. todo' = {f \in File : Entry(m, f) # Nothing}
      BY <2>2
    <3>2. \A f \in File : f \in todo' => Known(listed, dir, m, f) # {}
      BY <1>1, <3>1, KnowsIs DEF Entry
    <3>3. ASSUME NEW f \in File, f \notin todo' PROVE Known(listed, dir, m, f) = {}
      <4>1. SUFFICES ASSUME Known(listed, dir, m, f) # {} PROVE FALSE
        OBVIOUS
      <4>2. Earliest(m, f) \in Known(listed, dir, m, f)
              /\ Entry(m, f) = dir[Earliest(m, f)[2]].meta[f]
        BY <1>1, <4>1, EarliestIs
      <4>3. Entry(m, f) # Nothing
        BY <4>2 DEF Known
      <4> QED
        BY <3>1, <3>3, <4>3
    <3>4. \A f \in File \ todo' : Returned(f)'
      BY <3>3 DEF Returned
    <3>5. todo' \subseteq File
      BY <3>1
    <3> QED
      BY <1>2, <2>2, <3>2, <3>4, <3>5 DEF Progress
  <2> QED
    BY <2>1, <2>2
<1> QED
  BY <1>3, <1>4, <1>5, <1>6, <1>7 DEF RewindInv

LEMMA RestoreKeeps ==
  ASSUME RewindInv, NEW f \in File, Restore(f)
  PROVE  RewindInv'
<1> USE DEF Restore, store
<1>1. Numbered(listed) /\ turn \in Msgs(listed) /\ RewindTypeOK /\ Backed
  BY DEF RewindInv, RewindTypeOK, CheckpointsOK, Progress
<1>2. /\ disk' = [disk EXCEPT ![f] = Restored(turn, f)] /\ disk \in [File -> Plain]
      /\ Restored(turn, f) \in Plain
  BY <1>1, RestoredPlain DEF RewindTypeOK, WorkOK
<1>3. RewindTypeOK'
  <2>1. disk' \in [File -> Plain]
    BY <1>2
  <2> QED
    BY <2>1 DEF RewindInv, RewindTypeOK, WorkOK, CheckpointsOK, Turning
<1>4. Anchored'
  BY AnchorsShrink DEF RewindInv, Turning
<1>5. Backed'
  BY DEF RewindInv, Backed
<1>6. WaysBack'
  <2>1. Back(listed, Msgs(listed), disk)
    BY DEF RewindInv, WaysBack
  <2>2. ASSUME NEW m \in Msgs(listed), NEW g \in File, <<m, g>> \notin lost'
        PROVE  Path(listed, dir, m, g, disk'[g], base[m][g])
    <3>1. Path(listed, dir, m, g, disk[g], base[m][g])
      BY <2>1, <2>2 DEF Back
    <3>2. CASE g # f
      BY <1>2, <3>1, <3>2
    <3>3. ASSUME Still(listed, dir, m, g, disk[g], base[m][g]), g = f PROVE FALSE
      <4>1. Known(listed, dir, m, f) = {}
        BY <3>3 DEF Still
      <4>2. m \notin Past
        BY <1>1, <2>2, <3>3, <4>1, KnowsIs
      <4>3. Known(listed, dir, turn, f) \subseteq Known(listed, dir, m, f)
        BY <1>1, <4>2, PastIs, NotBehind
      <4> QED
        BY <4>1, <4>3 DEF RewindInv, Progress
    <3> QED
      BY <3>1, <3>2, <3>3 DEF Path
  <2> QED
    BY <2>2 DEF WaysBack, Back, Turning
<1>7. ASSUME NEW g \in File \ todo' PROVE Returned(g)'
  <2>1. CASE g # f
    <3>1. Returned(g) /\ disk'[g] = disk[g]
      BY <1>2, <1>7, <2>1 DEF RewindInv, Progress
    <3> QED
      BY <3>1 DEF Returned
  <2>2. CASE g = f
    <3>1. ASSUME NEW l \in Known(listed, dir, turn, f),
                 \A k \in Known(listed, dir, turn, f) : l[1] <= k[1],
                 dir[l[2]].meta[f] \in Plain
          PROVE  disk'[f] = dir[l[2]].meta[f]
      BY <1>1, <1>2, <3>1, RestoredIs
    <3> QED
      BY <2>2, <3>1 DEF Returned
  <2> QED
    BY <2>1, <2>2
<1>8. Progress'
  BY <1>7 DEF RewindInv, Progress
<1> QED
  BY <1>3, <1>4, <1>5, <1>6, <1>8 DEF RewindInv

\* What is known of f since a message, less the accounts of x.
LEMMA KnownLess ==
  ASSUME Numbered(listed), dir \in [Msg -> Directory], NEW x \in Msg, dir' = Without(dir, x),
         NEW m, NEW f \in File
  PROVE  /\ Known(listed, dir', m, f) = KnownWithout(x, listed, dir, m, f)
         /\ Known(listed, dir', m, f) \subseteq Known(listed, dir, m, f)
<1>1. listed \subseteq Line /\ listed \ Of(x, listed) \subseteq listed
  BY DEF Numbered
<1>2. Known(listed, dir', m, f) = KnownWithout(x, listed, dir, m, f)
  BY <1>1, KnownRemoved
<1> QED
  BY <1>2 DEF KnownWithout

\* What leads leads on without the accounts of another message.
LEMMA LeadsWithout ==
  ASSUME Numbered(listed), dir \in [Msg -> Directory], NEW x \in Msg, dir' = Without(dir, x),
         NEW m, NEW f \in File, NEW b, NEW l, Leads(listed, dir, m, f, l, b), l[2] # x
  PROVE  Leads(listed, dir', m, f, l, b)
<1>1. l \in Known(listed, dir, m, f) /\ l \in listed /\ l[2] \in Msg
  BY LineType DEF Leads, Known, Since, Numbered
<1>2. l \in Known(listed, dir', m, f)
        /\ Known(listed, dir', m, f) \subseteq Known(listed, dir, m, f)
  BY <1>1, KnownLess DEF KnownWithout
<1>3. dir'[l[2]] = dir[l[2]]
  BY <1>1 DEF Without
<1> QED
  BY <1>2, <1>3, LeadsStill

\* The way back to a later checkpoint holds or is given up.
LEMMA BehindRemoved ==
  ASSUME Numbered(listed), dir \in [Msg -> Directory], turn \in Msgs(listed),
         NEW x \in Msg, dir' = Without(dir, x),
         lost' = lost \cup {y \in LosingAll(Files(x), Of(x, listed)) : y[1] \in Past},
         NEW m \in Msgs(listed), Behind(m), NEW f \in File, NEW v, NEW b,
         Path(listed, dir, m, f, v, b), <<m, f>> \notin lost'
  PROVE  Path(listed, dir', m, f, v, b)
<1>1. ASSUME NEW l \in listed, Leads(listed, dir, m, f, l, b), l[2] = x PROVE FALSE
  <2>1. <<m, f>> \in LosingAll(Files(x), Of(x, listed))
    BY <1>1, LeadLost
  <2>2. m \in Past
    BY PastIs
  <2> QED
    BY <2>1, <2>2
<1>2. listed \subseteq Line /\ listed \ Of(x, listed) \subseteq listed
  BY DEF Numbered
<1>3. \A l \in listed : Leads(listed, dir, m, f, l, b) => l[2] # x
  BY <1>1
<1> QED
  BY <1>2, <1>3, PathRemoved

\* The files are back, and the directory of the target goes: half of the way.
LEMMA HalfwayBegins ==
  ASSUME RewindInv, phase = "restoring", todo = {}, dir' = Without(dir, turn),
         NEW m \in Msgs(listed), ~Behind(m), NEW f \in File, NEW b,
         Path(listed, dir, m, f, disk[f], b)
  PROVE  \/ \E l \in listed \ Since(listed, turn) :
              /\ Leads(listed, dir', m, f, l, b)
              /\ l[2] \in Msgs(Since(listed, turn)) => disk[f] = b
         \/ /\ Known(listed, dir', m, f) \subseteq Since(listed, turn)
            /\ disk[f] = b /\ b \in Plain
<1>1. Numbered(listed) /\ dir \in [Msg -> Directory] /\ turn \in Msgs(listed) /\ turn \in Msg
        /\ \A l \in listed : l[1] \in Nat
  BY LineType DEF RewindInv, RewindTypeOK, CheckpointsOK, Progress, Msgs, Numbered
<1>2. Returned(f)
  BY DEF RewindInv, Progress
<1>3. /\ Since(listed, turn) \subseteq Since(listed, m)
      /\ Known(listed, dir, turn, f) \subseteq Known(listed, dir, m, f)
  BY <1>1, NotBehind
<1>4. Known(listed, dir', m, f) \subseteq Known(listed, dir, m, f)
  BY <1>1, KnownLess
<1>5. CASE Still(listed, dir, m, f, disk[f], b)
  BY <1>4, <1>5 DEF Still
<1>6. ASSUME NEW l \in listed, Leads(listed, dir, m, f, l, b), l \notin Since(listed, turn)
      PROVE  /\ Leads(listed, dir', m, f, l, b)
             /\ l[2] \in Msgs(Since(listed, turn)) => disk[f] = b
  <2>1. l[2] # turn
    BY <1>1, <1>6 DEF Since, Of
  <2>2. Leads(listed, dir', m, f, l, b)
    BY <1>1, <1>6, <2>1, LeadsWithout
  <2>3. ASSUME l[2] \in Msgs(Since(listed, turn)) PROVE disk[f] = b
    <3>1. PICK k \in Since(listed, turn) : k[2] = l[2]
      BY <2>3 DEF Msgs
    <3>2. k \in Known(listed, dir, turn, f) /\ k \in Of(l[2], listed)
      BY <1>6, <3>1 DEF Leads, Known, Since, Of
    <3>3. Known(listed, dir, turn, f) \subseteq listed
      BY DEF Known, Since
    <3>4. PICK e \in Known(listed, dir, turn, f) :
                 \A j \in Known(listed, dir, turn, f) : e[1] <= j[1]
      BY <1>1, <3>2, <3>3, OldestIn DEF Numbered
    <3>5. l[1] < e[1] /\ e \in listed
      BY <1>1, <1>6, <3>3, <3>4, Before DEF Known
    <3>6. e[2] = l[2]
      <4>1. CASE e[1] = k[1]
        BY <1>1, <3>1, <3>2, <3>3, <3>5, <4>1 DEF Numbered
      <4>2. CASE e[1] < k[1]
        BY <1>3, <1>6, <3>2, <3>4, <3>5, <4>2 DEF Leads, Alone
      <4>3. e[1] <= k[1] /\ k \in listed
        BY <3>2, <3>3, <3>4
      <4> QED
        BY <1>1, <3>5, <4>1, <4>2, <4>3
    <3> QED
      BY <1>2, <1>6, <3>4, <3>6 DEF Returned, Leads
  <2> QED
    BY <2>2, <2>3
<1>7. ASSUME NEW l \in listed, Leads(listed, dir, m, f, l, b), l \in Since(listed, turn)
      PROVE  /\ Known(listed, dir', m, f) \subseteq Since(listed, turn)
             /\ disk[f] = b /\ b \in Plain
  <2>1. Known(listed, dir, m, f) \subseteq Since(listed, turn)
    <3> SUFFICES ASSUME NEW k \in Known(listed, dir, m, f) PROVE k \in Since(listed, turn)
      OBVIOUS
    <3>1. l[1] <= k[1] /\ k \in listed
      BY <1>7 DEF Leads, Known, Since
    <3> QED
      BY <1>1, <1>7, <3>1, After
  <2>2. /\ l \in Known(listed, dir, turn, f)
        /\ \A k \in Known(listed, dir, turn, f) : l[1] <= k[1]
        /\ dir[l[2]].meta[f] = b /\ b \in Plain
    BY <1>3, <1>7 DEF Leads, Known
  <2> QED
    BY <1>2, <1>4, <2>1, <2>2 DEF Returned
<1>8. CASE Still(listed, dir, m, f, disk[f], b) \/ \E l \in listed : Leads(listed, dir, m, f, l, b)
  BY <1>5, <1>6, <1>7, <1>8
<1> QED
  BY <1>8 DEF Path

\* Half of the way stays when another directory behind the target goes.
LEMMA HalfwayRemoved ==
  ASSUME Numbered(listed), dir \in [Msg -> Directory], NEW o \in Since(listed, turn),
         NEW x \in Msg, x = o[2],
         dir' = Without(dir, x), NEW m \in Msgs(listed), NEW f \in File, Halfway(m, f), NEW b,
         b = base[m][f]
  PROVE  \/ \E l \in listed \ Since(listed, turn) :
              /\ Leads(listed, dir', m, f, l, b)
              /\ l[2] \in Msgs(Since(listed, turn)) => disk[f] = b
         \/ /\ Known(listed, dir', m, f) \subseteq Since(listed, turn)
            /\ disk[f] = b /\ b \in Plain
<1>1. /\ Known(listed, dir', m, f) = KnownWithout(x, listed, dir, m, f)
      /\ Known(listed, dir', m, f) \subseteq Known(listed, dir, m, f)
  BY KnownLess
<1>2. CASE Known(listed, dir, m, f) \subseteq Since(listed, turn) /\ disk[f] = b /\ b \in Plain
  BY <1>1, <1>2
<1>3. ASSUME NEW l \in listed \ Since(listed, turn), Leads(listed, dir, m, f, l, b),
             l[2] \in Msgs(Since(listed, turn)) => disk[f] = b, l[2] # x
      PROVE  Leads(listed, dir', m, f, l, b)
  BY <1>3, LeadsWithout
<1>4. ASSUME NEW l \in listed \ Since(listed, turn), Leads(listed, dir, m, f, l, b),
             l[2] \in Msgs(Since(listed, turn)) => disk[f] = b, l[2] = x
      PROVE  /\ Known(listed, dir', m, f) \subseteq Since(listed, turn)
             /\ disk[f] = b /\ b \in Plain
  <2>1. o \in Of(l[2], listed) /\ l[2] \in Msgs(Since(listed, turn))
    BY <1>4 DEF Of, Since, Msgs
  <2>2. ASSUME NEW j \in Known(listed, dir, m, f), j[2] # x PROVE j \in Since(listed, turn)
    <3>1. j \in listed /\ l[1] <= j[1] /\ l \in listed /\ o \in listed
      BY <1>4 DEF Leads, Known, Since
    <3>2. j[1] \in Nat /\ l[1] \in Nat /\ o[1] \in Nat
      BY <3>1, LineType DEF Numbered
    <3>3. l[1] # j[1]
      BY <1>4, <2>2, <3>1 DEF Numbered
    <3>4. ~(l[1] < j[1] /\ j[1] < o[1])
      BY <1>4, <2>1, <2>2 DEF Leads, Alone
    <3>5. o[1] <= j[1]
      BY <3>1, <3>2, <3>3, <3>4
    <3> QED
      BY <3>1, <3>5, After
  <2> QED
    BY <1>1, <1>4, <2>1, <2>2 DEF KnownWithout, Leads
<1> QED
  BY <1>2, <1>3, <1>4 DEF Halfway

LEMMA RemoveDirKeeps ==
  ASSUME RewindInv, RemoveDir
  PROVE  RewindInv'
<1>0. PICK o, x : o = Oldest(doomed) /\ x = o[2]
  OBVIOUS
<1>1. /\ phase \in {"restoring", "removing"} /\ todo = {} /\ doomed # {} /\ phase' = "removing"
      /\ dir' = Without(dir, x)
      /\ lost' = lost \cup {y \in LosingAll(Files(x), Of(x, listed)) : y[1] \in Past}
      /\ doomed' = doomed \ {o}
      /\ UNCHANGED <<disk, asked, talk, turn, tracked, listed, list, scope, todo, faults, base>>
  BY <1>0 DEF RemoveDir, Undone, Without
<1>2. /\ Numbered(listed) /\ dir \in [Msg -> Directory] /\ turn \in Msgs(listed)
      /\ \A l \in listed : l[1] \in Nat /\ l[2] \in Msg
      /\ doomed \subseteq Since(listed, turn) /\ Since(listed, turn) \subseteq listed
  BY <1>1, LineType DEF RewindInv, RewindTypeOK, CheckpointsOK, Progress, Numbered, Since
<1>3. o \in doomed /\ \A k \in doomed : o[1] <= k[1]
  <2>1. doomed \subseteq Line
    BY DEF RewindInv, RewindTypeOK, CheckpointsOK
  <2> QED
    BY <1>0, <1>1, <2>1, OldestIn
<1>4. x \in Msg /\ o \in Since(listed, turn)
  BY <1>0, <1>2, <1>3
<1>5. /\ dir' \in [Msg -> Directory]
      /\ \A m \in Msg, f \in File :
           dir'[m].meta[f] \in Content => dir'[m].meta[f] \in dir'[m].objects
      /\ \A m \in Msg, f \in File : dir'[m].meta[f] # Nothing => m # x /\ dir[m].meta[f] # Nothing
  BY <1>1, <1>4, WithoutKeeps
<1>6. RewindTypeOK'
  BY <1>1, <1>5 DEF RewindInv, RewindTypeOK, WorkOK, CheckpointsOK, Turning
<1>7. Anchored'
  BY <1>1, AnchorsShrink DEF RewindInv, Turning
<1>8. Backed'
  BY <1>1, <1>5 DEF Backed
\* The first directory to go is the target's own.
<1>9. phase = "restoring" => doomed = Since(listed, turn) /\ x = turn
  <2> HAVE phase = "restoring"
  <2>1. doomed = Since(listed, turn)
    BY DEF RewindInv, Progress
  <2>2. PICK own \in Of(turn, listed) : own[1] <= o[1]
    BY <1>4 DEF Since
  <2>3. own \in Since(listed, turn) /\ own \in listed /\ own[2] = turn
    BY <1>2, <2>2 DEF Since, Of
  <2>4. o[1] <= own[1] /\ o \in listed
    BY <1>2, <1>3, <2>1, <2>3
  <2>5. o[1] = own[1]
    BY <1>2, <2>2, <2>3, <2>4
  <2>6. o = own
    BY <1>2, <2>3, <2>4, <2>5 DEF Numbered
  <2> QED
    BY <1>0, <2>1, <2>3, <2>6
<1>10. ASSUME NEW m \in Msgs(listed), NEW f \in File, <<m, f>> \notin lost', Behind(m)
       PROVE  Path(listed, dir', m, f, disk[f], base[m][f])
  <2>1. Path(listed, dir, m, f, disk[f], base[m][f])
    BY <1>1, <1>10 DEF RewindInv, WaysBack, Back, Removing
  <2> QED
    BY <1>1, <1>2, <1>4, <1>10, <2>1, BehindRemoved
<1>11. ASSUME NEW m \in Msgs(listed), NEW f \in File, <<m, f>> \notin lost', ~Behind(m)
       PROVE  \/ \E l \in listed \ Since(listed, turn) :
                   /\ Leads(listed, dir', m, f, l, base[m][f])
                   /\ l[2] \in Msgs(Since(listed, turn)) => disk[f] = base[m][f]
              \/ /\ Known(listed, dir', m, f) \subseteq Since(listed, turn)
                 /\ disk[f] = base[m][f] /\ base[m][f] \in Plain
  <2>1. CASE phase = "restoring"
    <3>1. Path(listed, dir, m, f, disk[f], base[m][f])
      BY <1>1, <1>11, <2>1 DEF RewindInv, WaysBack, Back
    <3>2. dir' = Without(dir, turn)
      BY <1>1, <1>9, <2>1
    <3> QED
      BY <1>1, <1>11, <2>1, <3>1, <3>2, HalfwayBegins
  <2>2. CASE phase = "removing"
    <3>1. Halfway(m, f)
      BY <1>1, <1>11, <2>2 DEF RewindInv, WaysBack, Removing
    <3> QED
      BY <1>0, <1>1, <1>2, <1>4, <3>1, HalfwayRemoved
  <2> QED
    BY <1>1, <2>1, <2>2
<1>12. Removing'
  <2>1. \A m : Behind(m)' <=> Behind(m)
    BY <1>1 DEF Behind
  <2>2. \A m \in Msgs(listed), f \in File :
          \/ <<m, f>> \in lost'
          \/ Behind(m) /\ Path(listed, dir', m, f, disk[f], base[m][f])
          \/ ~Behind(m) /\ Halfway(m, f)'
    BY <1>1, <1>10, <1>11 DEF Halfway
  <2> QED
    BY <1>1, <2>1, <2>2 DEF Removing
<1>13. WaysBack'
  BY <1>1, <1>12 DEF WaysBack, Turning
<1>14. Progress'
  <2>1. /\ \A m \in Msg : Files(m) = {} => Files(m)' = {}
        /\ Files(x)' = {}
    BY <1>4, <1>5 DEF Files
  <2>2. turn \in Msg /\ Files(turn)' = {}
    <3>1. turn \in Msg
      BY <1>2 DEF Msgs
    <3>2. phase = "restoring" => Files(turn)' = {}
      BY <1>1, <1>9, <2>1 DEF Files
    <3>3. phase = "removing" => Files(turn)' = {}
      BY <1>1, <2>1, <3>1 DEF RewindInv, Progress
    <3> QED
      BY <1>1, <3>1, <3>2, <3>3
  <2>3. ASSUME NEW m \in Msgs(Since(listed, turn)) PROVE m \in Msgs(doomed') \/ Files(m)' = {}
    <3>1. m \in Msg
      BY <1>2 DEF Msgs
    <3>2. m \in Msgs(doomed) \/ Files(m) = {}
      BY <1>1, <1>9 DEF RewindInv, Progress
    <3>3. CASE Files(m) = {}
      BY <2>1, <3>1, <3>3
    <3>4. CASE m \in Msgs(doomed)
      <4>1. PICK l \in doomed : l[2] = m
        BY <3>4 DEF Msgs
      <4>2. CASE l = o
        BY <1>0, <2>1, <4>1, <4>2
      <4>3. CASE l # o
        BY <1>1, <4>1, <4>3 DEF Msgs
      <4> QED
        BY <4>2, <4>3
    <3> QED
      BY <3>2, <3>3, <3>4
  <2> QED
    BY <1>1, <1>2, <2>2, <2>3 DEF Progress
<1> QED
  BY <1>6, <1>7, <1>8, <1>13, <1>14 DEF RewindInv

\* A checkpoint is dropped by itself, with its lines or, if that fails, without.
LEMMA DropsKeep ==
  ASSUME RewindInv, phase = "dropping", phase' = "dropping", doomed # {},
         NEW x, x = Oldest(doomed)[2], dir' = Without(dir, x),
         listed' = listed \/ listed' = listed \ Of(x, listed),
         lost' = lost \cup LosingAll(Files(x), Of(x, listed)),
         doomed' \subseteq doomed, faults' \in Nat,
         UNCHANGED <<disk, asked, talk, turn, tracked, scope, todo, base>>,
         list' = list, listed' = listed \/ list = {}
  PROVE  RewindInv'
<1>1. Numbered(listed) /\ dir \in [Msg -> Directory] /\ listed' \subseteq listed
        /\ listed \ Of(x, listed) \subseteq listed' /\ listed \subseteq Line
  BY DEF RewindInv, RewindTypeOK, CheckpointsOK, Numbered
<1>2. x \in Msg
  <2>1. doomed \subseteq Line
    BY DEF RewindInv, RewindTypeOK, CheckpointsOK
  <2>2. Oldest(doomed) \in doomed
    BY <2>1, OldestIn
  <2> QED
    BY <2>1, <2>2, LineType
<1>3. /\ dir' \in [Msg -> Directory]
      /\ \A m \in Msg, f \in File :
           dir'[m].meta[f] \in Content => dir'[m].meta[f] \in dir'[m].objects
  BY <1>2, WithoutKeeps
<1>4. RewindTypeOK'
  <2>1. Numbered(listed')
    BY <1>1 DEF Numbered
  <2> QED
    BY <1>1, <1>3, <2>1 DEF RewindInv, RewindTypeOK, WorkOK, CheckpointsOK, Turning
<1>5. Anchored'
  BY <1>1, AnchorsShrink DEF RewindInv, Turning
<1>6. Backed'
  BY <1>3 DEF Backed
<1>7. ASSUME NEW m \in Msgs(listed'), NEW f \in File, <<m, f>> \notin lost'
      PROVE  Path(listed', dir', m, f, disk[f], base[m][f])
  <2>1. m \in Msgs(listed)
    BY <1>1 DEF Msgs
  <2>2. Path(listed, dir, m, f, disk[f], base[m][f])
    BY <1>7, <2>1 DEF RewindInv, WaysBack, Back
  <2>3. Of(m, listed') = Of(m, listed)
    BY DEF Msgs, Of
  <2>4. \A l \in listed : Leads(listed, dir, m, f, l, base[m][f]) => l[2] # x
    <3> SUFFICES ASSUME NEW l \in listed, Leads(listed, dir, m, f, l, base[m][f]), l[2] = x
                 PROVE  FALSE
      OBVIOUS
    <3>1. <<m, f>> \in LosingAll(Files(x), Of(x, listed))
      BY <1>1, <2>1, LeadLost
    <3> QED
      BY <1>7, <3>1
  <2> QED
    BY <1>1, <1>2, <2>2, <2>3, <2>4, PathRemoved
<1>8. WaysBack' /\ Progress'
  BY <1>7 DEF WaysBack, Back, Progress, Turning
<1> QED
  BY <1>4, <1>5, <1>6, <1>8 DEF RewindInv

LEMMA DropKeeps ==
  ASSUME RewindInv, Drop
  PROVE  RewindInv'
<1>1. PICK x : x = Oldest(doomed)[2]
  OBVIOUS
<1>2. /\ dir' = Without(dir, x) /\ listed' = listed \ Of(x, listed)
      /\ lost' = lost \cup LosingAll(Files(x), Of(x, listed)) /\ doomed' \subseteq doomed
  BY <1>1 DEF Drop, Without
<1>3. /\ phase = "dropping" /\ phase' = "dropping" /\ doomed # {} /\ faults' \in Nat
      /\ list' = list /\ list = {}
      /\ UNCHANGED <<disk, asked, talk, turn, tracked, scope, todo, base>>
  BY DEF Drop, RewindInv, RewindTypeOK, CheckpointsOK
<1> QED
  BY <1>1, <1>2, <1>3, DropsKeep

LEMMA DropFailsKeeps ==
  ASSUME RewindInv, DropFails
  PROVE  RewindInv'
<1>1. PICK x : x = Oldest(doomed)[2]
  OBVIOUS
<1>2. /\ dir' = Without(dir, x) /\ listed' = listed
      /\ lost' = lost \cup LosingAll(Files(x), Of(x, listed)) /\ doomed' \subseteq doomed
  BY <1>1 DEF DropFails, Without
<1>3. /\ phase = "dropping" /\ phase' = "dropping" /\ doomed # {} /\ faults' \in Nat
      /\ list' = list
      /\ UNCHANGED <<disk, asked, talk, turn, tracked, scope, todo, base>>
  BY DEF DropFails, Fault, RewindInv, RewindTypeOK, CheckpointsOK
<1> QED
  BY <1>1, <1>2, <1>3, DropsKeep

\* What a rewind has left on its way is right.
LEMMA RemovedPath ==
  ASSUME RewindInv, phase = "removing", doomed = {}, NEW L,
         L = {l \in listed : l[2] \notin Msgs(From(turn))},
         NEW m \in Msgs(L), NEW f \in File, <<m, f>> \notin lost
  PROVE  Path(L, dir, m, f, disk[f], base[m][f])
<1>1. Numbered(listed) /\ turn \in Msgs(listed) /\ From(turn) = Since(listed, turn)
  BY FromIs DEF RewindInv, RewindTypeOK, CheckpointsOK, Progress
<1>2. m \in Msgs(listed) /\ L \subseteq listed /\ m \notin Msgs(Since(listed, turn))
  BY <1>1 DEF Msgs
<1>3. ~Behind(m)
  BY <1>2 DEF Behind, Msgs, Of
<1>4. Halfway(m, f)
  BY <1>2, <1>3 DEF RewindInv, WaysBack, Removing
<1>5. Of(m, L) = Of(m, listed)
  BY <1>1, <1>2 DEF Of
\* All that is removed has no account any more.
<1>6. ASSUME NEW k \in listed, dir[k[2]].meta[f] # Nothing
      PROVE  k[2] \notin Msgs(Since(listed, turn))
  <2>1. Files(k[2]) # {}
    BY <1>6 DEF Files
  <2>2. Msgs(doomed) = {}
    BY DEF Msgs
  <2> QED
    BY <2>1, <2>2 DEF RewindInv, Progress
<1>7. Known(L, dir, m, f) = Known(listed, dir, m, f)
  <2>1. Known(L, dir, m, f) \subseteq Known(listed, dir, m, f)
    BY <1>2, <1>5 DEF Known, Since
  <2>2. ASSUME NEW k \in Known(listed, dir, m, f) PROVE k \in Known(L, dir, m, f)
    <3>1. k \in listed /\ dir[k[2]].meta[f] # Nothing
      BY DEF Known, Since
    <3>2. k \in L
      BY <1>1, <1>6, <3>1
    <3> QED
      BY <1>5, <3>2 DEF Known, Since
  <2> QED
    BY <2>1, <2>2
<1>8. CASE Known(listed, dir, m, f) \subseteq Since(listed, turn) /\ disk[f] = base[m][f]
        /\ base[m][f] \in Plain
  <2>1. Known(listed, dir, m, f) = {}
    <3> SUFFICES ASSUME NEW k \in Known(listed, dir, m, f) PROVE FALSE
      OBVIOUS
    <3>1. k \in listed /\ dir[k[2]].meta[f] # Nothing /\ k[2] \in Msgs(Since(listed, turn))
      BY <1>8 DEF Known, Since, Msgs
    <3> QED
      BY <1>6, <3>1
  <2> QED
    BY <1>7, <1>8, <2>1 DEF Path, Still
<1>9. ASSUME NEW l \in listed, Leads(listed, dir, m, f, l, base[m][f])
      PROVE  Path(L, dir, m, f, disk[f], base[m][f])
  <2>1. l \in Known(L, dir, m, f)
    BY <1>7, <1>9 DEF Leads
  <2>2. Leads(L, dir, m, f, l, base[m][f])
    BY <1>2, <1>7, <1>9, <2>1, LeadsStill
  <2>3. l \in L
    BY <2>1 DEF Known, Since
  <2> QED
    BY <2>2, <2>3 DEF Path
<1> QED
  BY <1>4, <1>8, <1>9 DEF Halfway

LEMMA LandKeeps ==
  ASSUME RewindInv, Land
  PROVE  RewindInv'
<1>1. /\ phase \in {"removing", "dropping"} /\ doomed = {} /\ phase' = "idle"
      /\ turn' = Nothing /\ scope' = "both" /\ todo' = {} /\ doomed' = {}
      /\ UNCHANGED <<disk, asked, tracked, list, dir, faults, lost, base>>
  BY DEF Land, Rest, accounts
<1>2. listed' \subseteq listed /\ list = {} /\ Numbered(listed) /\ talk \in Seq(Msg)
  BY <1>1 DEF Land, RewindInv, RewindTypeOK, WorkOK, CheckpointsOK
<1>3. talk' \in Seq(Msg) /\ DOMAIN talk' \subseteq DOMAIN talk
        /\ \A i \in DOMAIN talk' : talk'[i] = talk[i]
  BY <1>2, CutIs DEF Land
<1>4. RewindTypeOK'
  <2>1. Numbered(listed')
    BY <1>2 DEF Numbered
  <2> QED
    BY <1>1, <1>2, <1>3, <2>1
    DEF RewindInv, RewindTypeOK, WorkOK, CheckpointsOK, Turning, Targets
<1>5. Anchored'
  BY <1>1, <1>2, <1>3, AnchorsShrink DEF RewindInv, Turning
<1>6. Backed'
  BY <1>1 DEF RewindInv, Backed
<1>7. ASSUME NEW m \in Msgs(listed'), NEW f \in File, <<m, f>> \notin lost
      PROVE  Path(listed', dir, m, f, disk[f], base[m][f])
  <2>1. CASE phase = "removing"
    <3>1. listed' = {l \in listed : l[2] \notin Msgs(From(turn))}
      BY <2>1 DEF Land
    <3> QED
      BY <1>1, <1>7, <2>1, <3>1, RemovedPath
  <2>2. CASE phase = "dropping"
    <3>1. listed' = listed
      BY <2>2 DEF Land
    <3> QED
      BY <1>7, <2>2, <3>1 DEF RewindInv, WaysBack, Back
  <2> QED
    BY <1>1, <2>1, <2>2
<1>8. WaysBack' /\ Progress'
  BY <1>1, <1>7 DEF WaysBack, Back, Progress, Turning
<1> QED
  BY <1>4, <1>5, <1>6, <1>8 DEF RewindInv

LEMMA RewindFailsKeeps ==
  ASSUME RewindInv, RewindFails
  PROVE  RewindInv'
<1>1. /\ phase \in {"restoring", "removing", "dropping"} /\ phase' = "idle"
      /\ turn' = Nothing /\ scope' = "both" /\ todo' = {} /\ doomed' = {}
      /\ faults' \in Nat /\ lost \subseteq lost'
      /\ UNCHANGED <<disk, asked, talk, tracked, list, listed, dir, base>>
  BY DEF RewindFails, Rest, Fault, store, RewindInv, RewindTypeOK, CheckpointsOK
<1>2. Numbered(listed) /\ \A l \in listed : l[1] \in Nat
  BY LineType DEF RewindInv, RewindTypeOK, CheckpointsOK, Numbered
<1>3. RewindTypeOK'
  BY <1>1 DEF RewindInv, RewindTypeOK, WorkOK, CheckpointsOK, Turning, Targets
<1>4. Anchored'
  BY <1>1, AnchorsShrink DEF RewindInv, Turning
<1>5. Backed'
  BY <1>1 DEF RewindInv, Backed
<1>6. ASSUME NEW m \in Msgs(listed), NEW f \in File, <<m, f>> \notin lost'
      PROVE  Path(listed, dir, m, f, disk[f], base[m][f])
  <2>1. <<m, f>> \notin lost
    BY <1>1, <1>6
  <2>2. CASE phase # "removing"
    BY <1>1, <2>1, <2>2 DEF RewindInv, WaysBack, Back
  <2>3. CASE phase = "removing" /\ Behind(m)
    BY <2>1, <2>3 DEF RewindInv, WaysBack, Removing
  <2>4. CASE phase = "removing" /\ ~Behind(m)
    <3>1. Halfway(m, f) /\ turn \in Msgs(listed) /\ Files(turn) = {}
      BY <2>1, <2>4 DEF RewindInv, WaysBack, Removing, Progress
    <3>2. CASE Known(listed, dir, m, f) = {}
      BY <3>1, <3>2 DEF Halfway, Leads, Path, Still
    <3>3. CASE \E l \in listed \ Since(listed, turn) : Leads(listed, dir, m, f, l, base[m][f])
      BY <3>3 DEF Path
    <3>4. ASSUME Known(listed, dir, m, f) # {},
                 Known(listed, dir, m, f) \subseteq Since(listed, turn)
          PROVE  FALSE
      <4>1. PICK e : e = Earliest(m, f)
        OBVIOUS
      <4>2. e \in Since(listed, turn) /\ e \in listed /\ dir[e[2]].meta[f] # Nothing
        BY <1>2, <3>4, <4>1, EarliestIs DEF Known, Since
      <4>3. e[2] # turn
        BY <3>1, <4>2 DEF Files
      <4>4. PICK own \in Of(turn, listed) : Place(turn) = own[1]
        BY <1>2, <3>1, PlaceIs DEF Msgs, Of
      <4>5. e \in From(turn) /\ own \in listed /\ own[2] = turn
        BY <1>2, <4>2, <4>4, FromIs DEF Of
      <4>6. e[1] >= Place(turn) /\ e[1] # own[1]
        BY <1>2, <4>2, <4>3, <4>5 DEF From, Numbered
      <4>7. Earliest(m, f)[1] > Place(turn)
        BY <1>2, <4>1, <4>2, <4>4, <4>5, <4>6
      <4>8. m \notin Past /\ Knows(m, f) # {}
        BY <1>2, <2>4, <3>1, <3>4, PastIs, KnowsIs
      <4>9. <<m, f>> \in Astray
        BY <4>7, <4>8 DEF Astray
      <4> QED
        BY <1>6, <2>4, <4>9 DEF RewindFails
    <3> QED
      BY <3>1, <3>2, <3>3, <3>4 DEF Halfway
  <2> QED
    BY <2>2, <2>3, <2>4
<1>7. WaysBack' /\ Progress'
  BY <1>1, <1>6 DEF WaysBack, Back, Progress, Turning
<1> QED
  BY <1>3, <1>4, <1>5, <1>7 DEF RewindInv

-----------------------------------------------------------------------------
(***************************************************************************)
(* Theorems.                                                               *)
(***************************************************************************)
LEMMA RewindKeeps ==
  ASSUME RewindInv, [RewindNext]_rewind
  PROVE  RewindInv'
<1>1. CASE UserMessage \/ Continue \/ Steer \/ Clear
  BY <1>1, UserMessageKeeps, ContinueKeeps, SteerKeeps, ClearKeeps
<1>2. ASSUME NEW f \in File, NEW c \in Content, Edit(f, c) \/ EditUnsaved(f, c) PROVE RewindInv'
  BY <1>2, EditKeeps, EditUnsavedKeeps
<1>3. ASSUME NEW f \in File, NEW c \in Content \cup {Absent}, Meddle(f, c) PROVE RewindInv'
  BY <1>3, MeddleKeeps DEF Plain
<1>4. CASE WriteMeta \/ Trim \/ Save \/ TurnFails
  BY <1>4, WriteMetaKeeps, TrimKeeps, SaveKeeps, TurnFailsKeeps
<1>5. ASSUME NEW m \in Msg, NEW s \in Targets, Rewind(m, s) \/ RewindTalk(m, s) PROVE RewindInv'
  BY <1>5, RewindBegins, RewindTalkKeeps
<1>6. ASSUME NEW f \in File, Restore(f) PROVE RewindInv'
  BY <1>6, RestoreKeeps
<1>7. CASE RemoveDir \/ Drop \/ Land \/ RewindFails \/ DropFails
  BY <1>7, RemoveDirKeeps, DropKeeps, LandKeeps, RewindFailsKeeps, DropFailsKeeps
<1>8. CASE UNCHANGED rewind
  BY <1>8, RewindStutters
<1> QED
  BY <1>1, <1>2, <1>3, <1>4, <1>5, <1>6, <1>7, <1>8 DEF RewindNext

LEMMA RewindInvariance == RewindSpec => []RewindInv
<1>1. RewindInv /\ [RewindNext]_rewind => RewindInv'
  BY RewindKeeps
<1> QED
  BY RewindInitInv, <1>1, PTL DEF RewindSpec

LEMMA RewindInvUndoes == RewindInv => RewindUndoes
<1> SUFFICES ASSUME RewindInv, phase = "idle", NEW m \in Msgs(listed), NEW f \in File,
                    <<m, f>> \notin lost
             PROVE  Restored(m, f) = base[m][f]
  BY DEF RewindUndoes
<1>1. RewindTypeOK /\ Backed /\ Numbered(listed)
  BY DEF RewindInv, RewindTypeOK, CheckpointsOK
<1>2. Path(listed, dir, m, f, disk[f], base[m][f])
  BY DEF RewindInv, WaysBack, Back
<1>3. CASE Still(listed, dir, m, f, disk[f], base[m][f])
  <2>1. Knows(m, f) = {}
    BY <1>1, <1>3, KnowsIs DEF Still
  <2>2. Entry(m, f) = Nothing
    BY <2>1 DEF Entry
  <2> QED
    BY <1>3, <2>2, RewindAssumption DEF Restored, Still
<1>4. ASSUME NEW l \in listed, Leads(listed, dir, m, f, l, base[m][f])
      PROVE  Restored(m, f) = base[m][f]
  BY <1>1, <1>4, RestoredIs DEF Leads
<1> QED
  BY <1>2, <1>3, <1>4 DEF Path

\* From the first directory that goes on, the files are as they were.
LEMMA LandsRight ==
  ASSUME RewindInv, phase = "removing", NEW f \in File
  PROVE  <<turn, f>> \in lost \/ disk[f] = base[turn][f]
<1>1. turn \in Msgs(listed) /\ ~Behind(turn)
  BY DEF RewindInv, Progress, Behind
<1>2. <<turn, f>> \in lost \/ Halfway(turn, f)
  BY <1>1 DEF RewindInv, WaysBack, Removing
<1>3. ASSUME NEW l \in listed \ Since(listed, turn) PROVE l \notin Known(listed, dir, turn, f)
  BY DEF Known
<1> QED
  BY <1>2, <1>3 DEF Halfway, Leads

\* The types of the checkpoints and of the work on them (checkpoint/store.rs, agent/turn.rs).
THEOREM RewindTypes == RewindSpec => []RewindTypeOK
<1>1. RewindInv => RewindTypeOK
  BY DEF RewindInv
<1> QED
  BY RewindInvariance, <1>1, PTL

\* Whatever was edited, continued, rewound, trimmed or broken off, a rewind to a checkpoint would
\* bring back what its turn found, but for what is listed as lost (checkpoint/store.rs:451-454).
THEOREM UndoesAll == RewindSpec => []RewindUndoes
  BY RewindInvariance, RewindInvUndoes, PTL

\* A rewind that comes to its end has brought it back (agent/agent.rs, process_rewind).
THEOREM LandsBack == RewindSpec => RewindLands
<1>1. RewindInv /\ [RewindNext]_rewind =>
        [phase = "removing" /\ phase' = "idle" /\ faults' = faults =>
           \A f \in File : <<turn, f>> \in lost \/ disk[f] = base[turn][f]]_rewind
  BY LandsRight
<1> QED
  BY RewindInvariance, <1>1, PTL DEF RewindSpec, RewindLands
=============================================================================
