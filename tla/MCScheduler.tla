---------------------------- MODULE MCScheduler ----------------------------
(* Instances of Scheduler for TLC. *)
EXTENDS Scheduler

NoBegin == [kind |-> "none"]
In(n) == [kind |-> "rel", ticks |-> n]
At(t) == [kind |-> "abs", at |-> t]
BadBegin == [kind |-> "bad"]

\* Every combination that the environment or a configuration file can set.
AnyOptions ==
  [once : BOOLEAN, cron : {"none", "ok", "bad"}, frequency : {0, 1, 4},
   begin : {NoBegin, BadBegin, In(0), In(2), At(1), At(3)}]

\* What the command line lets through: --once excludes the other schedules.
CommandLineOnce == [once : {TRUE}, cron : {"none"}, frequency : {4}, begin : {In(0)}]

CronOnly == [once : {FALSE}, cron : {"ok"}, frequency : {4}, begin : {In(0)}]
\* A configuration file may have both once and a schedule.
ConfiguredOnce == [once : {TRUE}, cron : {"ok"}, frequency : {4}, begin : {In(0)}]

OnceOrCron == CommandLineOnce \cup ConfiguredOnce \cup CronOnly
============================================================================
