---------------------------- MODULE MCConductor ----------------------------
EXTENDS Conductor

\* A tick that took something from under a task is the end of a behaviour:
\* every property of the run excepts what comes after it.
Unswept == ~swept

\* An edit meets messages, /stops and the deletion, but neither a tick nor the
\* shutdown.
EditsApart == edits = 0 \/ (sweeps = 0 /\ stopping = "up")
=============================================================================
