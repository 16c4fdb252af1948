------------------------------- MODULE MCCron -------------------------------
EXTENDS Cron
MCEvery == [j \in Job |-> IF j = CHOOSE k \in Job : TRUE THEN 1 ELSE 2]
MCLimit == [j \in Job |-> IF j = CHOOSE k \in Job : TRUE THEN 1 ELSE 0]
NoLimit == [j \in Job |-> 0]
MCExpiry == [j \in Job |-> IF j = CHOOSE k \in Job : TRUE THEN 0 ELSE 2]
=============================================================================
