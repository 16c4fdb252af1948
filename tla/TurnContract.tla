--------------------------- MODULE TurnContract ---------------------------
(***************************************************************************)
(* What an agent promises those who listen to its turns (hooks, channels,  *)
(* the headless CLI): every turn_start is followed by one turn_end, the    *)
(* turn_end by one Stopped with the same reason, and no turn starts before *)
(* the last one has been closed and announced.                             *)
(***************************************************************************)
EXTENDS Naturals, Sequences

CONSTANT Reason

VARIABLES
  open,    \* a turn is open: turn_start fired, turn_end not yet
  turns,   \* number of turns started
  heard    \* the last of turn_start, turn_end and Stopped that was sent out

Owing == heard[1] = "turn_end"

Init ==
  /\ open = FALSE
  /\ turns = 0
  /\ heard = <<"nothing">>

TurnStart ==
  /\ ~open
  /\ ~Owing
  /\ open' = TRUE
  /\ turns' = turns + 1
  /\ heard' = <<"turn_start">>

TurnEnd(r) ==
  /\ open
  /\ open' = FALSE
  /\ heard' = <<"turn_end", r>>
  /\ UNCHANGED turns

\* Also sent for work without a turn, such as a compaction that is cancelled.
Stopped(r) ==
  /\ ~open
  /\ Owing => heard[2] = r
  /\ heard' = <<"stopped", r>>
  /\ UNCHANGED <<open, turns>>

Next == TurnStart \/ \E r \in Reason : TurnEnd(r) \/ Stopped(r)

Spec == Init /\ [][Next]_<<open, turns, heard>>
=============================================================================
