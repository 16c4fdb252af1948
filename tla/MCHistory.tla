----------------------------- MODULE MCHistory -----------------------------
EXTENDS History

CONSTANTS x, y

\* A batch of two calls.
MCBatches == <<<<x, y>>>>

\* The snapshots an agent may still put back.
InHand ==
  IF \/ stopping /\ faults = MaxFaults
     \/ spawns = MaxSpawns /\ (stopping \/ run = "none")
    THEN {} ELSE saved

\* Bound: the two queues together hold three events, two after a fault; with a snapshot in
\* hand they hold one each, none of them metadata.
FewOnTheWay ==
  /\ Len(queue) + Len(pool) + faults <= 3
  /\ InHand # {} => Len(queue) <= 1 /\ Len(pool) <= 1 /\ noted = {}

\* View: snapshots are read by agents only.
WhatMatters == <<disk, queue, repairs, InHand, agent, counts, accounts>>
=============================================================================
