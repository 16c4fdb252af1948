------------------------------- MODULE MCHub -------------------------------
(* TLC instance of Hub.                                                    *)
EXTENDS Hub

\* The last run only has to make a card that somebody late may come upon.
LastRunPlain ==
  run = MaxRuns =>
    home = "here" /\ ~posts /\ ~posting /\ beat = Off /\ Len(rx) + Len(jobs) <= 1
=============================================================================
