------------------------------ MODULE MCPrune ------------------------------
(* Instances of Prune for TLC. *)
EXTENDS Prune

CONSTANTS b1, b2, b3, b4, readme, p, q

TwoPruners == {p, q}
OnePruner == {p}

FiveFiles == {b1, b2, b3, b4, readme}
FourFiles == {b1, b2, b3, readme}
BackupFiles == [f \in Files |-> f # readme]

\* Four backups, an hour of two ticks apart; readme is not a backup, its stamp is unused.
Hourly == [f \in Files |->
  CASE f = b1 -> 0 [] f = b2 -> 2 [] f = b3 -> 4 [] f = b4 -> 6 [] OTHER -> 99]

Utc == [f \in Files |-> 0]

\* One hour west of Greenwich: -01:00.
West == [f \in Files |-> -2]

\* Names are listed from the oldest on.  The first target answers two files at once, or each
\* of them answers all.
OldestFirst == [f \in Files |->
  CASE f = b1 -> 1 [] f = b2 -> 2 [] f = b3 -> 3 [] f = b4 -> 4 [] OTHER -> 5]
TwoAtOnce == [t \in Targets |-> IF t = 1 THEN 2 ELSE Cardinality(Files)]
AllAtOnce == [t \in Targets |-> Cardinality(Files)]

KeepTwo == [value |-> 2, unit |-> "c"]
KeepOne == [value |-> 1, unit |-> "c"]
TwoHours == [value |-> 2, unit |-> "h"]

\* Two backups on every target, or on the first one only.
TwoEach == {[t \in Targets |-> {b1, b2, readme}]}
SomeStores == {s \in [Targets -> {{b1}, {b1, b2, readme}}] : s[1] = {b1, b2, readme}}

\* "3d is the same as 72h, and 4w is the same as 28d is the same as 672h" (docs/prune.md:51)
ASSUME UnitsAgree ==
  /\ 3 * HoursIn.d = 72 * HoursIn.h
  /\ 4 * HoursIn.w = 28 * HoursIn.d
  /\ 28 * HoursIn.d = 672 * HoursIn.h
============================================================================
