---------------------------- MODULE MCBackupRun ----------------------------
(* Instances of BackupRun for TLC. *)
EXTENDS BackupRun

CONSTANTS b1, b2, b3, b4, other, x, y, z

ThreeRuns == <<b1, b2, b3>>
FourRuns == <<b1, b2, b3, b4>>

\* A run each hour, in UTC.
Hourly == [f \in Files |-> CASE f = b1 -> 0 [] f = b2 -> 2 [] f = b3 -> 4 [] f = b4 -> 6]
Utc == [f \in Files |-> 0]

\* Half-hourly runs in Berlin's last night of summer time: 02:30+02:00 and 02:00+01:00.
BackToWinter == [f \in Files |-> CASE f = b1 -> 5 [] f = b2 -> 4 [] f = b3 -> 5 [] f = b4 -> 6]
Berlin == [f \in Files |-> IF f = b1 THEN 4 ELSE 2]

KeepOne == [value |-> 1, unit |-> "c"]
KeepTwo == [value |-> 2, unit |-> "c"]
TwoHours == [value |-> 2, unit |-> "h"]

Nobody == {}
OnePruner == {other}

\* Three databases of which one is excluded; no list of those to include.
Three == {x, y, z}
All == {}
WithoutZ == {z}

Always == {TRUE}
BothWays == BOOLEAN

NoTarget == {}
EveryTarget == Targets
FirstTarget == {1}
============================================================================
