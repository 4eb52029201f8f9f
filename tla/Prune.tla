------------------------------- MODULE Prune -------------------------------
(***************************************************************************)
(* Executor.Prune and pruneTarget (pkg/core/prune.go): list a target, work *)
(* out from the file names alone which backups are outside the retention,  *)
(* and remove those one at a time, target after target.                    *)
(*                                                                         *)
(* Several pruners may work on one store: "prune" processes on their own   *)
(* schedules and every "dump" process with a retention.  Other processes   *)
(* keep adding backups.  Nothing locks the store.                          *)
(*                                                                         *)
(* A file is a model value.  IsBackup says that filenameRE matches its     *)
(* name and that the date in it parses, Stamp is that date read as UTC,    *)
(* and Zone is the offset that follows it: the backup was started at       *)
(* Stamp - Zone.  Time is counted in ticks, TicksPerHour to the hour.      *)
(***************************************************************************)
EXTENDS Integers, FiniteSets

CONSTANTS
  Pruners,        \* the processes that prune
  NumTargets,     \* len(opts.Targets)
  Files,          \* every file that is or will be in a target
  IsBackup,       \* file -> filenameRE matches and the date parses
  Stamp,          \* file -> the date in its name, in ticks
  Zone,           \* file -> the UTC offset in its name, in ticks
  Retention,      \* opts.Retention: [value |-> a number, unit |-> a letter]
  TicksPerHour,
  PageSize,       \* target -> how many files a listing of it answers at most
  ByName,         \* file -> the place of its name in the order of a listing
  InitStores,     \* the files that may be in the targets at the start
  ClockAtStart,
  MaxClock        \* bound on the clock

Targets == 1..NumTargets

\* convertToHours and convertToCount; 0 stands for the error each of them answers to the
\* other's letter
HoursIn == [h |-> 1, d |-> 24, w |-> 24 * 7, m |-> 24 * 30, y |-> 24 * 365]
RetainHours == IF Retention.unit = "c" THEN 0 ELSE Retention.value * HoursIn[Retention.unit]
RetainCount == IF Retention.unit = "c" THEN Retention.value ELSE 0
InvalidRetention == RetainHours <= 0 /\ RetainCount <= 0

ASSUME PruneAssumption ==
  /\ NumTargets \in Nat
  /\ IsFiniteSet(Files)
  /\ IsBackup \in [Files -> BOOLEAN]
  /\ Stamp \in [Files -> Int]
  /\ Zone \in [Files -> Int]
  /\ Retention.value \in Nat
  /\ Retention.unit \in {"h", "d", "w", "m", "y", "c"}
  /\ TicksPerHour \in Nat \ {0}
  /\ PageSize \in [Targets -> Nat]
  /\ ByName \in [Files -> Int]
  /\ InitStores \subseteq [Targets -> SUBSET Files]
  /\ ClockAtStart \in Int
  /\ MaxClock \in Int

VARIABLES
  store,        \* target -> the files in it
  due,          \* target -> the files other processes have yet to add
  clock,        \* the time, in ticks
  pc,           \* pruner -> "idle", "list", "remove", "ok" or "error"
  now,          \* pruner -> opts.Now, or the time at which Prune was called
  target,       \* pruner -> the target it works on
  candidates,   \* pruner -> the files of the target still to be removed
  atStart       \* pruner -> the store when its run began (read by properties only)

vars == <<store, due, clock, pc, now, target, candidates, atStart>>

Backups(files) == {f \in files : IsBackup[f]}
StartedAt(f) == Stamp[f] - Zone[f]

\* What ReadDir answers of these files of target t.  The servers of an s3 target answer the
\* first page of the listing, and nobody asks for the next.
Listing(t, files) ==
  {f \in files : Cardinality({g \in files : ByName[g] < ByName[f]}) < PageSize[t]}

---------------------------------------------------------------------------
(* What pruneTarget picks. *)

\* mutant: the age is rounded up to the hour
TooOldRounded(files, time) ==
  {f \in Backups(files) :
     time - Stamp[f] > (RetainHours - 1) * TicksPerHour}

\* "any whose timestamp is older than now-retainHours"
TooOld(files, time) ==
  {f \in Backups(files) : time - Stamp[f] >= RetainHours * TicksPerHour}

\* mutant: the loop over the sorted files starts one early
BeyondCountOffByOne(files) ==
  LET dated == Backups(files) IN
  IF Cardinality(dated) <= RetainCount THEN {{}}
  ELSE {dated \ kept : kept \in {k \in SUBSET dated :
          /\ Cardinality(k) = RetainCount - 1
          /\ \A f \in k, g \in dated \ k : Stamp[f] >= Stamp[g]}}

\* mutant: the sorted files are not reversed
BeyondCountUnreversed(files) ==
  LET dated == Backups(files) IN
  IF Cardinality(dated) <= RetainCount THEN {{}}
  ELSE {dated \ kept : kept \in {k \in SUBSET dated :
          /\ Cardinality(k) = RetainCount
          /\ \A f \in k, g \in dated \ k : Stamp[f] <= Stamp[g]}}

\* "all except the retainCount most recent": the sort leaves files with one stamp in any order
BeyondCount(files) ==
  LET dated == Backups(files) IN
  IF Cardinality(dated) <= RetainCount THEN {{}}
  ELSE {dated \ kept : kept \in {k \in SUBSET dated :
          /\ Cardinality(k) = RetainCount
          /\ \A f \in k, g \in dated \ k : Stamp[f] >= Stamp[g]}}

\* The lists the code may draw up for a directory: retainHours is looked at first.
Picks(files, time) ==
  IF RetainHours > 0 THEN {TooOld(files, time)} ELSE BeyondCount(files)

\* The order of removal: that of the listing, which is the store's own, or, for a count,
\* most recent first.
Foremost(f, picked) ==
  RetainHours > 0 \/ \A g \in picked : Stamp[f] >= Stamp[g]

---------------------------------------------------------------------------
Init ==
  /\ store \in InitStores
  /\ due = [t \in Targets |-> Files \ store[t]]
  /\ clock = ClockAtStart
  /\ pc = [p \in Pruners |-> "idle"]
  /\ now = [p \in Pruners |-> ClockAtStart]
  /\ target = [p \in Pruners |-> 1]
  /\ candidates = [p \in Pruners |-> {}]
  /\ atStart = [p \in Pruners |-> store]

prunerVars == <<pc, now, target, candidates, atStart>>

(* Around the pruners. *)

\* Time passes.
Tick ==
  /\ clock < MaxClock
  /\ clock' = clock + 1
  /\ UNCHANGED <<store, due>> /\ UNCHANGED prunerVars

\* Another process adds a file; a backup is named at the start of its run, and arrives later.
Arrive ==
  \E t \in Targets, f \in Files :
    /\ f \in due[t]
    /\ StartedAt(f) <= clock
    /\ store' = [store EXCEPT ![t] = @ \cup {f}]
    /\ due' = [due EXCEPT ![t] = @ \ {f}]
    /\ UNCHANGED clock /\ UNCHANGED prunerVars

---------------------------------------------------------------------------
(* A pruner. *)

outside == <<due, clock>>

\* Prune is called, for the first time or by the schedule: no targets and a retention that
\* makes no sense are errors.
Start(p) ==
  /\ pc[p] \in {"idle", "ok", "error"}
  /\ now' = [now EXCEPT ![p] = clock]
  /\ target' = [target EXCEPT ![p] = 1]
  /\ candidates' = [candidates EXCEPT ![p] = {}]
  /\ atStart' = [atStart EXCEPT ![p] = store]
  /\ pc' = [pc EXCEPT ![p] = IF NumTargets = 0 \/ InvalidRetention THEN "error" ELSE "list"]
  /\ UNCHANGED store /\ UNCHANGED outside

\* target.ReadDir, and the list of candidates
ListTarget(p) ==
  /\ pc[p] = "list"
  /\ \E picked \in Picks(Listing(target[p], store[target[p]]), now[p]) :
       candidates' = [candidates EXCEPT ![p] = picked]
  /\ pc' = [pc EXCEPT ![p] = "remove"]
  /\ UNCHANGED <<store, now, target, atStart>> /\ UNCHANGED outside

\* target.Remove of the next candidate.  One that is gone already (another pruner's work)
\* is an error for some stores and none for others.
Remove(p) ==
  /\ pc[p] = "remove"
  /\ \E f \in candidates[p] :
       /\ Foremost(f, candidates[p])
       /\ store' = [store EXCEPT ![target[p]] = @ \ {f}]
       /\ candidates' = [candidates EXCEPT ![p] = @ \ {f}]
  /\ UNCHANGED <<pc, now, target, atStart>> /\ UNCHANGED outside

\* Listing or removing fails: return, leaving what is left of this target and the targets
\* after it.  The store may have removed the file all the same.
FailListing(p) ==
  /\ pc[p] = "list"
  /\ pc' = [pc EXCEPT ![p] = "error"]
  /\ UNCHANGED <<store, now, target, candidates, atStart>> /\ UNCHANGED outside

\* mutant: a file that cannot be removed is passed over
PassOver(p) ==
  /\ pc[p] = "remove"
  /\ \E f \in candidates[p] :
       /\ Foremost(f, candidates[p])
       /\ candidates' = [candidates EXCEPT ![p] = @ \ {f}]
  /\ UNCHANGED <<store, pc, now, target, atStart>> /\ UNCHANGED outside

FailRemoving(p) ==
  /\ pc[p] = "remove"
  /\ \E f \in candidates[p] :
       /\ Foremost(f, candidates[p])
       /\ \/ store' = store
          \/ store' = [store EXCEPT ![target[p]] = @ \ {f}]
  /\ pc' = [pc EXCEPT ![p] = "error"]
  /\ UNCHANGED <<now, target, candidates, atStart>> /\ UNCHANGED outside

\* mutant: the loop over the targets ends after the first one
OnlyFirstTarget(p) ==
  /\ pc[p] = "remove"
  /\ candidates[p] = {}
  /\ pc' = [pc EXCEPT ![p] = "ok"]
  /\ UNCHANGED <<store, now, target, candidates, atStart>> /\ UNCHANGED outside

\* mutant: the next target starts with the index of the first
NeverNextTarget(p) ==
  /\ pc[p] = "remove"
  /\ candidates[p] = {}
  /\ pc' = [pc EXCEPT ![p] = "list"]
  /\ UNCHANGED <<store, now, target, candidates, atStart>> /\ UNCHANGED outside

\* Nothing is left to remove: the next target, or the answer.
NextTarget(p) ==
  /\ pc[p] = "remove"
  /\ candidates[p] = {}
  /\ IF target[p] < NumTargets
       THEN /\ target' = [target EXCEPT ![p] = @ + 1]
            /\ pc' = [pc EXCEPT ![p] = "list"]
       ELSE /\ pc' = [pc EXCEPT ![p] = "ok"]
            /\ UNCHANGED target
  /\ UNCHANGED <<store, now, candidates, atStart>> /\ UNCHANGED outside

\* The process is killed in the middle and started again later.
Crash(p) ==
  /\ pc[p] \in {"list", "remove"}
  /\ pc' = [pc EXCEPT ![p] = "idle"]
  /\ UNCHANGED <<store, now, target, candidates, atStart>> /\ UNCHANGED outside

---------------------------------------------------------------------------
Working(p) == ListTarget(p) \/ Remove(p) \/ FailListing(p) \/ FailRemoving(p) \/ NextTarget(p)

Pruner(p) == Start(p) \/ Working(p) \/ Crash(p)

Next == Tick \/ Arrive \/ \E p \in Pruners : Pruner(p)

Spec == Init /\ [][Next]_vars

\* Every call to a store returns.
FairSpec == Spec /\ \A p \in Pruners : WF_vars(Working(p))

---------------------------------------------------------------------------
(* Properties. *)

\* Each variable holds a value of its type, and what is in a target is not due there.
TypeOK ==
  /\ store \in [Targets -> SUBSET Files]
  /\ due \in [Targets -> SUBSET Files]
  /\ clock \in Int
  /\ pc \in [Pruners -> {"idle", "list", "remove", "ok", "error"}]
  /\ now \in [Pruners -> Int]
  /\ target \in [Pruners -> Nat \ {0}]
  /\ \A p \in Pruners : pc[p] \in {"list", "remove"} => target[p] \in Targets
  /\ candidates \in [Pruners -> SUBSET Files]
  /\ atStart \in [Pruners -> [Targets -> SUBSET Files]]

Lost(t) == store[t] \ store'[t]

\* "all except the retainCount most recent" (prune.go:119), however many pruners work on
\* the target from listings of different ages: a step that removes a backup leaves
\* RetainCount backups at least as recent in that target.
RecentKept ==
  [][RetainCount > 0 =>
       \A t \in Targets : \A f \in Lost(t) :
         /\ IsBackup[f]
         /\ Cardinality({g \in Backups(store'[t]) : Stamp[g] >= Stamp[f]}) >= RetainCount]_vars

\* "If it is 167 hours and 59 minutes old, it will not be pruned" (docs/prune.md:54): a
\* step that removes a backup under a retention by age removes one that was started at
\* least that long ago.
YoungKept ==
  [][RetainHours > 0 =>
       \A t \in Targets : \A f \in Lost(t) :
         /\ IsBackup[f]
         /\ clock - StartedAt(f) >= RetainHours * TicksPerHour]_vars

\* What was in target t when pruner p was called is down to what the retention keeps.
Pruned(p, t) ==
  LET left == Backups(atStart[p][t] \cap store[t]) IN
  IF RetainHours > 0 THEN left \cap TooOld(Files, now[p]) = {}
                     ELSE Cardinality(left) <= RetainCount

\* Prune answers nil only when that is so of every target that answers its whole listing: no
\* target is skipped, no failure is passed over (prune.go:48-54, 143-148).
OkMeansPruned ==
  \A p \in Pruners : pc[p] = "ok" =>
    \A t \in Targets : Cardinality(Files) <= PageSize[t] => Pruned(p, t)

\* "it will prune any backups that fit the pruning criteria" (docs/prune.md:28), on every
\* target.
OkMeansPrunedEverywhere ==
  \A p \in Pruners : pc[p] = "ok" => \A t \in Targets : Pruned(p, t)

\* A run of Prune ends, whatever the other pruners remove under it.
RunsEnd ==
  \A p \in Pruners : pc[p] \in {"list", "remove"} ~> pc[p] \in {"idle", "ok", "error"}
============================================================================
