----------------------------- MODULE Scheduler -----------------------------
(***************************************************************************)
(* Executor.Timer and Timer (pkg/core/timer.go): the main goroutine, which *)
(* sleeps until the first run and then runs the command at every update it *)
(* receives, and the timer goroutine, which offers an update on an         *)
(* unbuffered channel without waiting for anyone to take it, sleeps, and   *)
(* offers the next.                                                        *)
(*                                                                         *)
(* Time is counted in ticks.  The time of day "phase" = k stands for the   *)
(* instants between k and k + 1; a sleep never ends early and the code     *)
(* between two sleeps takes no tick.  The cron schedule matches at every   *)
(* multiple of Period.  Sleeps follow the monotonic clock; the wall clock, *)
(* which cron and begin are read against, may be set at any moment, to any *)
(* time of day.                                                            *)
(***************************************************************************)
EXTENDS Integers

CONSTANTS
  TimerOptions,  \* those the process may be started with
  Day,           \* ticks in a day
  Period,        \* ticks between two matches of the cron expression
  MaxSince       \* bound on the time since the last start

\* once \in BOOLEAN; cron: "none", "ok" or "bad"; frequency in ticks; begin is "+ticks"
\* (rel), a time of day (abs), nothing, or neither of the two formats (bad).
Begins == [kind : {"none", "bad"}] \cup [kind : {"rel"}, ticks : Nat] \cup [kind : {"abs"}, at : 0..(Day - 1)]

ASSUME SchedulerAssumption ==
  /\ Day \in Nat \ {0}
  /\ Period \in 1..Day
  /\ Day % Period = 0
  /\ \A o \in TimerOptions :
       /\ o.once \in BOOLEAN
       /\ o.cron \in {"none", "ok", "bad"}
       /\ o.frequency \in Nat
       /\ o.begin \in Begins
  /\ MaxSince \in Nat

VARIABLES
  opts,     \* the options of this process
  phase,    \* the time of day
  main,     \* where the main goroutine is
  timer,    \* where the timer goroutine is
  wait,     \* ticks until the sleep of either ends (they never sleep together)
  last,     \* Last of the update main has received
  runs,     \* how often the command was started: 0, 1 or 2 for more
  since,    \* ticks since it was last started, up to MaxSince
  stepped   \* the wall clock was set since the delay of the last sleep was worked out

timerVars == <<opts, phase, main, timer, wait, last, runs, since, stepped>>

\* waitForCron: the next match, strictly later than any instant of this tick
WaitForCron == Period - (phase % Period)

\* waitForBeginTime: "+MM" minutes from now, or HHMM, tomorrow unless it is still to come
WaitForBegin ==
  CASE opts.begin.kind = "rel" -> opts.begin.ticks
    [] opts.begin.kind = "abs" ->
         IF opts.begin.at > phase THEN opts.begin.at - phase
                                  ELSE opts.begin.at + Day - phase

---------------------------------------------------------------------------
TimerInit ==
  /\ opts \in TimerOptions
  /\ phase \in 0..(Day - 1)
  /\ main = "start"
  /\ timer = "none"
  /\ wait = 0
  /\ last = FALSE
  /\ runs = 0
  /\ since = MaxSince
  /\ stepped = FALSE

(* Before the channel exists. *)

\* mutant: the delay of begin is added to that of cron
BothDelays ==
  /\ main = "start"
  /\ wait' = (IF opts.cron = "ok" THEN WaitForCron ELSE 0)
               + (IF opts.begin.kind \in {"rel", "abs"} THEN WaitForBegin ELSE 0)
  /\ main' = "sleeping"
  /\ stepped' = FALSE
  /\ UNCHANGED <<opts, phase, timer, last, runs, since>>

\* cron wins over begin; a format error ends the process (os.Exit)
FirstDelay ==
  /\ main = "start"
  /\ IF opts.cron = "bad" \/ (opts.cron = "none" /\ opts.begin.kind = "bad")
       THEN main' = "exit" /\ UNCHANGED wait
       ELSE /\ wait' = IF opts.cron = "ok" THEN WaitForCron
                       ELSE IF opts.begin.kind = "none" THEN 0 ELSE WaitForBegin
            /\ main' = "sleeping"
  /\ stepped' = FALSE
  /\ UNCHANGED <<opts, phase, timer, last, runs, since>>

\* time.Sleep returns; the channel is made and the timer goroutine started
StartTimer ==
  /\ main = "sleeping"
  /\ wait = 0
  /\ main' = "starting"
  /\ timer' = "offering"
  /\ UNCHANGED <<opts, phase, wait, last, runs, since, stepped>>

---------------------------------------------------------------------------
(* The timer goroutine. *)

\* sendTimer: the update is taken by a receiver that waits, or lost
SendTimer(isLast) ==
  IF main = "receiving"
    THEN /\ main' = "running"
         /\ last' = isLast
         /\ runs' = IF runs = 0 THEN 1 ELSE 2
         /\ since' = 0
    ELSE UNCHANGED <<main, last, runs, since>>

\* once: one update, the last, and the channel is closed
OfferOnce ==
  /\ timer = "offering"
  /\ opts.once
  /\ SendTimer(TRUE)
  /\ timer' = "closed"
  /\ UNCHANGED <<opts, phase, wait, stepped>>

\* mutant: the delay runs from midnight instead of from the last run
OfferFromMidnight ==
  /\ timer = "offering"
  /\ ~opts.once
  /\ opts.cron = "ok" \/ opts.frequency > 0
  /\ wait' = IF opts.cron = "ok" THEN WaitForCron
                                ELSE opts.frequency - (phase % opts.frequency)
  /\ SendTimer(FALSE)
  /\ timer' = "sleeping"
  /\ stepped' = FALSE
  /\ UNCHANGED <<opts, phase>>

\* One turn of the loop up to its sleep.  The delay is computed before the update is
\* offered; lastRun and now are read one after the other, so that no minute lies between
\* them, the clock is not set there, and the delay is one whole frequency.
Offer ==
  /\ timer = "offering"
  /\ ~opts.once
  /\ opts.cron = "ok" \/ opts.frequency > 0
  /\ wait' = IF opts.cron = "ok" THEN WaitForCron ELSE opts.frequency
  /\ SendTimer(FALSE)
  /\ timer' = "sleeping"
  /\ stepped' = FALSE
  /\ UNCHANGED <<opts, phase>>

\* diff % opts.Frequency with a frequency of 0 panics, which ends the process
Panic ==
  /\ timer = "offering"
  /\ ~opts.once /\ opts.cron # "ok" /\ opts.frequency = 0
  /\ main' = "exit"
  /\ timer' = "closed"
  /\ UNCHANGED <<opts, phase, wait, last, runs, since, stepped>>

\* the loop's time.Sleep returns
Wake ==
  /\ timer = "sleeping"
  /\ wait = 0
  /\ timer' = "offering"
  /\ UNCHANGED <<opts, phase, main, wait, last, runs, since, stepped>>

---------------------------------------------------------------------------
(* The main goroutine. *)

\* for update := range c
Receive ==
  /\ main = "starting"
  /\ main' = "receiving"
  /\ UNCHANGED <<opts, phase, timer, wait, last, runs, since, stepped>>

\* the channel is closed: the loop ends and Timer returns nil
Closed ==
  /\ main = "receiving"
  /\ timer = "closed"
  /\ main' = "done"
  /\ UNCHANGED <<opts, phase, timer, wait, last, runs, since, stepped>>

\* mutant: every update is taken for the last
CommandOkEnds ==
  /\ main = "running"
  /\ main' = "done"
  /\ UNCHANGED <<opts, phase, timer, wait, last, runs, since, stepped>>

\* cmd returns nil: after the last update Timer returns, else it receives again
CommandOk ==
  /\ main = "running"
  /\ main' = IF last THEN "done" ELSE "receiving"
  /\ UNCHANGED <<opts, phase, timer, wait, last, runs, since, stepped>>

\* cmd returns an error: Timer returns it, and there are no more runs
CommandFails ==
  /\ main = "running"
  /\ main' = "failed"
  /\ UNCHANGED <<opts, phase, timer, wait, last, runs, since, stepped>>

---------------------------------------------------------------------------
(* Time. *)

TimerOver == main \in {"done", "failed", "exit"}

\* Nothing can be done at once: both goroutines sleep, wait for the other or run the command.
Idle ==
  /\ main \in {"sleeping", "receiving", "running"}
  /\ timer \in {"none", "sleeping", "closed"}
  /\ main = "sleeping" \/ timer = "sleeping" => wait > 0
  /\ main = "receiving" => timer # "closed"

Tick ==
  /\ Idle
  /\ phase' = (phase + 1) % Day
  /\ wait' = IF wait > 0 THEN wait - 1 ELSE 0
  /\ since' = IF since < MaxSince THEN since + 1 ELSE since
  /\ UNCHANGED <<opts, main, timer, last, runs, stepped>>

\* The wall clock is set, forward or back, by hand or by a time server; sleeps go on.
SetClock ==
  /\ \E p \in 0..(Day - 1) \ {phase} : phase' = p
  /\ stepped' = TRUE
  /\ UNCHANGED <<opts, main, timer, wait, last, runs, since>>

TimerEnded == TimerOver /\ UNCHANGED timerVars

Starting == FirstDelay \/ StartTimer \/ Receive \/ Closed
Timing == OfferOnce \/ Offer \/ Panic \/ Wake
Command == CommandOk \/ CommandFails

TimerNext ==
  \/ ~TimerOver /\ (Starting \/ Timing \/ Command \/ Tick \/ SetClock)
  \/ TimerEnded

TimerSpec == TimerInit /\ [][TimerNext]_timerVars

\* Goroutines that can run do, time passes, and the command returns.
FairTimerSpec ==
  /\ TimerSpec
  /\ WF_timerVars(~TimerOver /\ Starting) /\ WF_timerVars(~TimerOver /\ Timing)
  /\ WF_timerVars(~TimerOver /\ Tick) /\ WF_timerVars(~TimerOver /\ Command)

---------------------------------------------------------------------------
(* Properties. *)

\* Each variable holds a value of its type.
TimerTypeOK ==
  /\ opts \in TimerOptions
  /\ phase \in 0..(Day - 1)
  /\ main \in {"start", "sleeping", "starting", "receiving", "running", "done", "failed", "exit"}
  /\ timer \in {"none", "offering", "sleeping", "closed"}
  /\ wait \in Nat
  /\ last \in BOOLEAN
  /\ runs \in 0..2
  /\ since \in 0..MaxSince
  /\ stepped \in BOOLEAN

StartsRun == main # "running" /\ main' = "running"

\* "it runs according to the cron schedule, ignoring frequency and delayed start", and a
\* match that falls into a run "will be skipped" and is not made up for when the run ends
\* (docs/scheduling.md:18,63): every run starts at a match.  The exception are runs that end
\* a sleep during which the clock was set: it costs that run and none after it, as every
\* delay is worked out from the clock anew.
CronOnSlot ==
  [][~opts.once /\ opts.cron = "ok" /\ StartsRun => stepped \/ phase % Period = 0]_timerVars

\* "waits for the next matching cron time" (docs/scheduling.md:60), whatever is done to the
\* clock meanwhile.  It does not: what is left of a sleep is not worked out again.
CronAlwaysOnSlot ==
  [][~opts.once /\ opts.cron = "ok" /\ StartsRun => phase % Period = 0]_timerVars

\* "make sure we at least wait one full frequency" (timer.go:89): between two starts lies
\* at least one frequency, however long the runs take and whenever they end.
FrequencyApart ==
  [][~opts.once /\ opts.cron = "none" /\ StartsRun /\ runs > 0 => since >= opts.frequency]_timerVars

\* As long as no run fails, a schedule goes on running the command for ever: a lost update
\* never leaves the two goroutines waiting for each other.
ScheduleGoesOn ==
  (opts.once \/ opts.cron = "bad" \/ (opts.cron = "none" /\ (opts.begin.kind = "bad" \/ opts.frequency = 0)))
  \/ []<>(main = "running") \/ <>(main = "failed")

\* "If run once is set, it will run immediately and exit, ignoring all other scheduling
\* options" (docs/scheduling.md:17; "if once, ignore all delays and go", timer.go:69): no time
\* passes before the run.
OnceAtOnce == [][opts.once /\ runs = 0 => ~Tick]_timerVars

\* "the backup will run once and then exit" (docs/scheduling.md:36).
OnceRunsOnce == opts.once /\ main = "done" => runs = 1
============================================================================
