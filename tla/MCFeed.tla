------------------------------- MODULE MCFeed -------------------------------
EXTENDS Feed

\* Bound: with two subscriptions there are two events.
TwoForTwo == (\A k \in Keys : Registered(k)) => published <= 2

\* There are searches still to come.
Searches ==
  \/ tries < MaxTries
  \/ \E k \in Keys : subs[k].at = "replaying" /\ subs[k].after # 0
  \/ \E r \in ToSet(requests) : r.after # 0

\* View: what a later step or a property can still read.  The accounts of a subscription that
\* has ended, or has no events, are not; a cursor after its replay, or when no call is left;
\* the order of ids after the last search; what the receivers of all events were given.
Account(k) ==
  IF Registered(k) THEN <<due[k], sent[k], brought[k], excused[k], late[k]>> ELSE <<>>

Subscription(k) ==
  IF subs[k].at = "replaying" THEN subs[k] ELSE [subs[k] EXCEPT !.after = 0]

WhatMatters ==
  <<queue, held, buffer, [k \in Keys |-> Subscription(k)], client, published, tries,
    IF Searches THEN stamp ELSE <<>>, [k \in Keys |-> Account(k)], strayed,
    IF tries < MaxTries THEN got[Session] ELSE {}, link, requests, wire>>
=============================================================================
