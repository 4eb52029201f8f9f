-------------------------- MODULE BackupRunProofs --------------------------
(***************************************************************************)
(* Proofs about BackupRun, for any names, targets, retention and number of *)
(* other pruners.                                                          *)
(*                                                                         *)
(* A run's backup is safe from every pruner because it is the newest when  *)
(* the pruner looks.  Others may look during one run and remove during the *)
(* next, so that the invariant follows their lists too: no list holds the  *)
(* backup of the latest run.                                               *)
(***************************************************************************)
EXTENDS BackupRun, FiniteSetTheorems, TLAPS

Processes == {Self} \cup Others

\* Each run is named after the one before it, in the text of the names and in fact.
InOrder ==
  \A i, j \in 1..Len(Names) : i < j =>
    /\ Stamp[Names[i]] < Stamp[Names[j]]
    /\ P!StartedAt(Names[i]) < P!StartedAt(Names[j])

\* No name's offset lies west of Greenwich by as much as a retention by age.
NearGreenwich ==
  P!RetainHours > 0 => \A f \in Files : 0 - Zone[f] < P!RetainHours * TicksPerHour

\* The list of databases is read to its end, or not read at all, and an archive whose end
\* cannot be written is an error.
LossesShow == (Include # {} \/ ~ListingLost) /\ ~EndLost

\* The backups of the runs up to run n.
UpTo(n) == {Names[i] : i \in 1..n}

---------------------------------------------------------------------------
(* The parts of the invariant. *)

Types ==
  /\ run \in 0..Len(Names)
  /\ stage \in Busy \cup {"waiting", "exited"}
  /\ stage \in Busy => run > 0
  /\ run > 0 => clock = P!StartedAt(Mine)
  /\ clock \in Int
  /\ dest \in Nat \ {0}
  /\ store \in [Targets -> SUBSET UpTo(run)]
  /\ whole \in [Targets -> SUBSET Files]
  /\ \A t \in Targets : whole[t] \subseteq store[t]
  /\ pc \in [Processes -> {"idle", "list", "remove", "ok", "error"}]
  /\ now \in [Processes -> Int]
  /\ target \in [Processes -> Nat \ {0}]
  /\ candidates \in [Processes -> SUBSET Files]

\* Nothing is left on disk but by runs that were killed, and by the run that is under way.
Tidy ==
  /\ run \in Nat
  /\ temp \subseteq Nat \X {"tmpdir", "workdir"}
  /\ TidyUnlessKilled

\* What a pruner at work removes does not include the latest backup.
Spared ==
  \A p \in Processes : pc[p] \in {"list", "remove"} =>
    /\ run > 0
    /\ target[p] \in Targets
    /\ now[p] <= clock
    /\ ~P!InvalidRetention
    /\ pc[p] = "remove" => candidates[p] \subseteq UpTo(run) \ {Mine}

\* Where the latest backup is, as the stages go.
Delivered ==
  /\ succeeded => stage = "waiting"
  /\ stage \in {"dumping", "archiving"} => dbnames = Wanted
  /\ stage \in {"postscripts", "uploading"} => archive = "whole"
  /\ stage = "uploading" => \A t \in Targets : t < dest => Mine \in whole[t]
  /\ stage = "pruning" \/ (stage = "waiting" /\ succeeded) =>
       run > 0 /\ \A t \in Targets : Mine \in whole[t]

---------------------------------------------------------------------------
(* Temporary directories. *)

LEMMA InitTidy == Init => Tidy
BY DEF Init, Tidy, TidyUnlessKilled

LEMMA GoneWithTheRun ==
  ASSUME Tidy, temp' = temp \ {<<run, "tmpdir">>, <<run, "workdir">>}, UNCHANGED <<run, killed>>
  PROVE  Tidy'
<1>1. ASSUME NEW d \in temp' PROVE d[1] \in killed
  <2>1. d = <<d[1], d[2]>> /\ d[2] \in {"tmpdir", "workdir"}
    BY <1>1 DEF Tidy
  <2>2. d[1] # run
    BY <1>1, <2>1
  <2> QED BY <1>1, <2>2 DEF Tidy, TidyUnlessKilled
<1> QED BY <1>1 DEF Tidy, TidyUnlessKilled

\* The directories of a run are removed by whatever ends it, but for a kill.
LEMMA TidyStep == Tidy /\ [Next]_vars => Tidy'
<1> SUFFICES ASSUME Tidy, [Next]_vars PROVE Tidy'
  OBVIOUS
<1> USE DEF Tidy, TidyUnlessKilled, dumpVars, DumpStages
<1>1. CASE Begin
  BY <1>1 DEF Begin
<1>2. CASE PreScripts
  BY <1>2 DEF PreScripts
<1>3. CASE ListDatabases
  BY <1>3 DEF ListDatabases
<1>4. CASE DumpDatabases
  BY <1>4 DEF DumpDatabases
<1>5. CASE Archive
  BY <1>5 DEF Archive
<1>6. CASE PostScripts
  BY <1>6 DEF PostScripts
<1>7. CASE PushBegin
  BY <1>7 DEF PushBegin
<1>8. CASE PushDone
  BY <1>8 DEF PushDone
<1>9. CASE Uploaded
  <2>1. temp' = temp \ {<<run, "tmpdir">>, <<run, "workdir">>} /\ UNCHANGED <<run, killed>>
    BY <1>9 DEF Uploaded
  <2> QED BY <2>1, GoneWithTheRun
<1>10. CASE Pruning
  BY <1>10 DEF Pruning
<1>11. CASE PruneEnds
  BY <1>11 DEF PruneEnds
<1>12. CASE OtherPrunes
  BY <1>12 DEF OtherPrunes
<1>13. CASE Fail
  <2>1. temp' = temp \ {<<run, "tmpdir">>, <<run, "workdir">>} /\ UNCHANGED <<run, killed>>
    BY <1>13 DEF Fail
  <2> QED BY <2>1, GoneWithTheRun
<1>14. CASE Crash
  BY <1>14 DEF Crash
<1>15. CASE Restart
  BY <1>15 DEF Restart
<1>16. CASE UNCHANGED vars
  BY <1>16 DEF vars
<1> QED BY <1>1, <1>2, <1>3, <1>4, <1>5, <1>6, <1>7, <1>8, <1>9, <1>10, <1>11, <1>12, <1>13,
           <1>14, <1>15, <1>16 DEF Next, Step, Finished

\* A run leaves temporary directories behind only when it is killed (dump.go:75, 86).
THEOREM NothingLeftBehind == Spec => []TidyUnlessKilled
<1>1. Tidy => TidyUnlessKilled
  BY DEF Tidy
<1> QED BY <1>1, InitTidy, TidyStep, PTL DEF Spec

---------------------------------------------------------------------------
(* What a pruner may pick, and remove. *)

LEMMA RetentionTypes == P!RetainHours \in Nat /\ P!RetainCount \in Nat
<1>1. P!HoursIn \in [{"h", "d", "w", "m", "y"} -> Nat]
  BY DEF P!HoursIn
<1>2. CASE Retention.unit = "c"
  BY <1>2, BackupAssumption DEF P!RetainHours, P!RetainCount
<1>3. CASE Retention.unit # "c"
  <2>1. P!HoursIn[Retention.unit] \in Nat
    BY <1>1, <1>3, BackupAssumption
  <2> QED BY <2>1, <1>3, BackupAssumption DEF P!RetainHours, P!RetainCount
<1> QED BY <1>2, <1>3

\* The names of the runs so far are files; a new run adds its own, which is not one of them.
LEMMA NamesAreFiles ==
  ASSUME NEW n \in 0..Len(Names)
  PROVE  /\ UpTo(n) \subseteq Files
         /\ n > 0 => Names[n] \in UpTo(n)
         /\ n < Len(Names) => UpTo(n) \subseteq UpTo(n + 1) /\ n + 1 \in 1..Len(Names)
         /\ n < Len(Names) /\ InOrder => Names[n + 1] \notin UpTo(n)
<1>1. Len(Names) \in Nat
  BY BackupAssumption
<1>2. UpTo(n) \subseteq Files
  BY <1>1 DEF UpTo, Files
<1>3. n > 0 => Names[n] \in UpTo(n)
  BY <1>1 DEF UpTo
<1>4. n < Len(Names) => UpTo(n) \subseteq UpTo(n + 1) /\ n + 1 \in 1..Len(Names)
  BY <1>1 DEF UpTo
<1>5. ASSUME n < Len(Names), InOrder, NEW i \in 1..n PROVE Names[i] # Names[n + 1]
  <2>1. i \in 1..Len(Names) /\ n + 1 \in 1..Len(Names) /\ i < n + 1
    BY <1>1, <1>5
  <2>2. Stamp[Names[i]] < Stamp[Names[n + 1]]
    BY <1>5, <2>1 DEF InOrder
  <2>3. Stamp[Names[i]] \in Int /\ Stamp[Names[n + 1]] \in Int
    BY <2>1, BackupAssumption DEF Files
  <2> QED BY <2>2, <2>3
<1> QED BY <1>2, <1>3, <1>4, <1>5 DEF UpTo

\* The cardinality Prune uses is that of the library.
LEMMA OneCardinality == \A S : P!Cardinality(S) = Cardinality(S)
BY DEF P!Cardinality, Cardinality

\* Of the backups so far the newest is never picked.
LEMMA NewestIsNotPicked ==
  ASSUME InOrder, NearGreenwich, ~P!InvalidRetention,
         NEW n \in 1..Len(Names), NEW S \in SUBSET UpTo(n), NEW t,
         NEW time \in Int, time <= P!StartedAt(Names[n]),
         NEW picked \in P!Picks(P!Listing(t, S), time)
  PROVE  picked \subseteq UpTo(n) \ {Names[n]}
<1> DEFINE L == P!Listing(t, S)
           newest == Names[n]
<1>1. L \subseteq UpTo(n) /\ UpTo(n) \subseteq Files /\ newest \in Files
  BY NamesAreFiles DEF P!Listing, Files
<1>2. /\ Stamp[newest] \in Int /\ Zone[newest] \in Int
      /\ P!RetainHours \in Nat /\ P!RetainCount \in Nat /\ TicksPerHour \in Nat
      /\ P!RetainHours * TicksPerHour \in Int
  <2>1. Stamp[newest] \in Int /\ Zone[newest] \in Int /\ TicksPerHour \in Nat
    BY <1>1, BackupAssumption
  <2>2. P!RetainHours \in Nat /\ P!RetainCount \in Nat
    BY RetentionTypes
  <2>3. P!RetainHours * TicksPerHour \in Int
    BY ONLY <2>1, <2>2
  <2> QED BY <2>1, <2>2, <2>3
<1>3. CASE P!RetainHours > 0
  <2>1. picked = P!TooOld(L, time)
    BY <1>3 DEF P!Picks
  <2>2. picked \subseteq L
    BY <2>1 DEF P!TooOld, P!Backups
  <2>3. 0 - Zone[newest] < P!RetainHours * TicksPerHour
    BY <1>1, <1>3 DEF NearGreenwich
  <2>4. time <= Stamp[newest] - Zone[newest]
    BY DEF P!StartedAt
  <2>5. newest \in picked => time - Stamp[newest] >= P!RetainHours * TicksPerHour
    BY <2>1 DEF P!TooOld, P!Backups
  <2>6. ~(time - Stamp[newest] >= P!RetainHours * TicksPerHour)
    BY <1>2, <2>3, <2>4
  <2> QED BY <1>1, <2>2, <2>5, <2>6
<1>4. CASE ~(P!RetainHours > 0)
  <2>1. P!RetainCount > 0
    BY <1>2, <1>4 DEF P!InvalidRetention
  <2>2. picked \in P!BeyondCount(L)
    BY <1>4 DEF P!Picks
  <2>3. CASE picked = {}
    BY <2>3
  <2>4. CASE picked # {}
    <3>1. PICK kept \in SUBSET P!Backups(L) :
            /\ picked = P!Backups(L) \ kept
            /\ Cardinality(kept) = P!RetainCount
            /\ \A f \in kept, g \in P!Backups(L) \ kept : Stamp[f] >= Stamp[g]
      BY <2>2, <2>4, OneCardinality DEF P!BeyondCount
    <3>2. PICK f \in kept : TRUE
      <4>1. Cardinality({}) = 0
        BY FS_EmptySet
      <4>2. Cardinality(kept) # 0
        BY <1>2, <2>1, <3>1
      <4>3. kept # {}
        BY <4>1, <4>2, Zenon
      <4> QED BY <4>3
    <3>3. P!Backups(L) \subseteq L
      BY DEF P!Backups
    <3>4. ASSUME newest \in picked PROVE FALSE
      <4>1. f \in UpTo(n) /\ f # newest /\ Stamp[f] >= Stamp[newest]
        BY <1>1, <3>1, <3>2, <3>3, <3>4
      <4>2. PICK i \in 1..n : f = Names[i]
        BY <4>1 DEF UpTo
      <4>3. i < n
        BY <4>1, <4>2
      <4>4. Stamp[f] < Stamp[newest]
        <5>1. Len(Names) \in Nat
          BY BackupAssumption
        <5>2. i \in 1..Len(Names) /\ n \in 1..Len(Names)
          BY <5>1
        <5>3. \A j, k \in 1..Len(Names) : j < k => Stamp[Names[j]] < Stamp[Names[k]]
          BY DEF InOrder
        <5> QED BY <4>2, <4>3, <5>2, <5>3
      <4>5. Stamp[f] \in Int
        BY <1>1, <4>1, BackupAssumption
      <4> QED BY <1>2, <4>1, <4>4, <4>5
    <3> QED BY <1>1, <3>1, <3>3, <3>4
  <2> QED BY <2>3, <2>4
<1> QED BY <1>3, <1>4

\* A step of a pruner takes nothing from a target but one of its candidates.
LEMMA PrunerSteps ==
  ASSUME InOrder, NearGreenwich, Types, Spared, NEW p \in Processes, P!Working(p), UNCHANGED run
  PROVE  /\ UNCHANGED <<clock, now>>
         /\ store' \in [Targets -> SUBSET UpTo(run)]
         /\ \A t \in Targets : Mine \in store[t] => Mine \in store'[t]
         /\ \A t \in Targets : store'[t] \subseteq store[t]
         /\ pc' \in [Processes -> {"idle", "list", "remove", "ok", "error"}]
         /\ target' \in [Processes -> Nat \ {0}]
         /\ candidates' \in [Processes -> SUBSET Files]
         /\ \A q \in Processes \ {p} : pc'[q] = pc[q]
         /\ Spared'
<1> USE DEF P!outside
<1>a. Mine' = Mine /\ P!InvalidRetention' = P!InvalidRetention
  BY DEF Mine, P!InvalidRetention, P!RetainHours, P!RetainCount
<1>b. run \in 0..Len(Names) /\ Len(Names) \in Nat /\ NumTargets \in Nat
  BY BackupAssumption DEF Types
<1>0. /\ Mine' = Mine /\ P!InvalidRetention' = P!InvalidRetention
      /\ run \in Nat /\ run <= Len(Names) /\ NumTargets \in Nat /\ UpTo(run) \subseteq Files
  BY <1>a, <1>b, NamesAreFiles
<1>1. CASE P!ListTarget(p)
  <2>1. PICK picked \in P!Picks(P!Listing(target[p], store[target[p]]), now[p]) :
          candidates' = [candidates EXCEPT ![p] = picked]
    BY <1>1 DEF P!ListTarget
  <2>2. /\ pc[p] = "list" /\ pc' = [pc EXCEPT ![p] = "remove"]
        /\ UNCHANGED <<store, now, target, clock>>
    BY <1>1 DEF P!ListTarget
  <2>3. /\ run > 0 /\ target[p] \in Targets /\ now[p] <= P!StartedAt(Names[run])
        /\ ~P!InvalidRetention /\ now[p] \in Int
    BY <2>2 DEF Spared, Types, Mine
  <2>4. store[target[p]] \in SUBSET UpTo(run)
    BY <2>3 DEF Types
  <2>5. run \in 1..Len(Names)
    BY <1>0, <2>3
  <2>6. picked \subseteq UpTo(run) \ {Mine}
    BY <2>1, <2>3, <2>4, <2>5, NewestIsNotPicked DEF Mine
  <2>7. candidates' \in [Processes -> SUBSET Files]
    BY <1>0, <2>1, <2>6 DEF Types
  <2>8. Spared'
    BY <1>0, <2>1, <2>2, <2>3, <2>6 DEF Spared, Types
  <2> QED BY <2>2, <2>7, <2>8 DEF Types
<1>2. CASE P!Remove(p)
  <2>1. PICK f \in candidates[p] :
          /\ store' = [store EXCEPT ![target[p]] = @ \ {f}]
          /\ candidates' = [candidates EXCEPT ![p] = @ \ {f}]
    BY <1>2 DEF P!Remove
  <2>2. pc[p] = "remove" /\ UNCHANGED <<pc, now, target, clock>>
    BY <1>2 DEF P!Remove
  <2>3. f # Mine
    BY <2>1, <2>2 DEF Spared
  <2>4. store' \in [Targets -> SUBSET UpTo(run)] /\ \A t \in Targets : Mine \in store[t] => Mine \in store'[t]
    BY <2>1, <2>3 DEF Types
  <2>7. \A t \in Targets : store'[t] \subseteq store[t]
    BY <2>1 DEF Types
  <2>5. candidates' \in [Processes -> SUBSET Files] /\ \A q \in Processes : candidates'[q] \subseteq candidates[q]
    BY <2>1 DEF Types
  <2>6. Spared'
    BY <1>0, <2>2, <2>5 DEF Spared, Types
  <2> QED BY <2>2, <2>4, <2>5, <2>6, <2>7 DEF Types
<1>3. CASE P!FailListing(p)
  <2>1. /\ pc' = [pc EXCEPT ![p] = "error"] /\ UNCHANGED <<store, now, target, candidates, clock>>
    BY <1>3 DEF P!FailListing
  <2>2. Spared'
    BY <1>0, <2>1 DEF Spared, Types
  <2> QED BY <2>1, <2>2 DEF Types
<1>4. CASE P!FailRemoving(p)
  <2>1. PICK f \in candidates[p] :
          store' = store \/ store' = [store EXCEPT ![target[p]] = @ \ {f}]
    BY <1>4 DEF P!FailRemoving
  <2>2. /\ pc[p] = "remove" /\ pc' = [pc EXCEPT ![p] = "error"]
        /\ UNCHANGED <<now, target, candidates, clock>>
    BY <1>4 DEF P!FailRemoving
  <2>3. f # Mine
    BY <2>1, <2>2 DEF Spared
  <2>4. store' \in [Targets -> SUBSET UpTo(run)] /\ \A t \in Targets : Mine \in store[t] => Mine \in store'[t]
    BY <2>1, <2>3 DEF Types
  <2>7. \A t \in Targets : store'[t] \subseteq store[t]
    BY <2>1 DEF Types
  <2>5. Spared'
    BY <1>0, <2>2 DEF Spared, Types
  <2> QED BY <2>2, <2>4, <2>5, <2>7 DEF Types
<1>5. CASE P!NextTarget(p)
  <2>1. /\ pc[p] = "remove" /\ UNCHANGED <<store, now, candidates, clock>>
        /\ \/ /\ target[p] < NumTargets
              /\ target' = [target EXCEPT ![p] = @ + 1]
              /\ pc' = [pc EXCEPT ![p] = "list"]
           \/ pc' = [pc EXCEPT ![p] = "ok"] /\ UNCHANGED target
    BY <1>5 DEF P!NextTarget
  <2>2. target' \in [Processes -> Nat \ {0}]
    BY <2>1 DEF Types
  <2>3. Spared'
    BY <1>0, <2>1, <2>2 DEF Spared, Types, Targets
  <2> QED BY <2>1, <2>2, <2>3 DEF Types
<1> QED BY <1>1, <1>2, <1>3, <1>4, <1>5 DEF P!Working

---------------------------------------------------------------------------
(* The invariant, action by action. *)

Inv == Types /\ Spared /\ Delivered

LEMMA InitInv == Init => Inv
<1> SUFFICES ASSUME Init PROVE Inv
  OBVIOUS
<1>1. Len(Names) \in Nat /\ UpTo(0) = {}
  BY BackupAssumption DEF UpTo
<1>2. Types
  BY <1>1 DEF Init, Types, Processes, Busy, DumpStages
<1>3. Spared /\ Delivered
  BY DEF Init, Spared, Delivered, Processes
<1> QED BY <1>2, <1>3 DEF Inv

\* What pruners rely on does not change when neither they nor the clock move.
LEMMA SparedStays ==
  ASSUME Spared, UNCHANGED <<run, clock, pc, now, target, candidates>>
  PROVE  Spared'
BY DEF Spared, Mine, P!InvalidRetention, P!RetainHours, P!RetainCount

\* A new run: its backup is in no list, and the clock has not gone back.
LEMMA BeginKeeps == ASSUME InOrder, Inv, Begin PROVE Inv'
<1> USE DEF Inv
<1>1. /\ run \in 0..Len(Names) /\ run < Len(Names) /\ Len(Names) \in Nat /\ run' = run + 1
      /\ clock' = P!StartedAt(Names[run + 1]) /\ stage' = "prescripts" /\ succeeded' = FALSE
      /\ UNCHANGED <<store, whole, dest, pc, now, target, candidates>>
  BY BackupAssumption DEF Begin, Types, pruneVars
<1>2. UpTo(run) \subseteq UpTo(run') /\ run' \in 1..Len(Names) /\ Names[run'] \notin UpTo(run)
  BY <1>1, NamesAreFiles
<1>3. clock' \in Int
  <2>1. Names[run + 1] \in Files
    BY <1>1, <1>2 DEF Files
  <2> QED BY <1>1, <2>1, BackupAssumption DEF P!StartedAt
<1>4. run > 0 => clock <= clock'
  <2>1. ASSUME run > 0 PROVE clock < clock'
    <3>1. run \in 1..Len(Names) /\ run' \in 1..Len(Names) /\ run < run'
      BY <1>1, <1>2, <2>1
    <3> QED BY <1>1, <2>1, <3>1 DEF InOrder, Types, Mine
  <2> QED BY <1>3, <2>1 DEF Types
<1>5. Types'
  BY <1>1, <1>2, <1>3 DEF Types, Mine, Busy, DumpStages
<1>6. Spared'
  <2> SUFFICES ASSUME NEW p \in Processes, pc[p] \in {"list", "remove"}
               PROVE  /\ run' > 0 /\ target[p] \in Targets /\ now[p] <= clock'
                      /\ ~P!InvalidRetention
                      /\ pc[p] = "remove" => candidates[p] \subseteq UpTo(run') \ {Mine'}
    BY <1>1 DEF Spared, P!InvalidRetention, P!RetainHours, P!RetainCount
  <2>1. now[p] \in Int /\ clock \in Int
    BY DEF Types
  <2> QED BY <1>1, <1>2, <1>3, <1>4, <2>1 DEF Spared, Mine
<1>7. Delivered'
  BY <1>1 DEF Delivered
<1> QED BY <1>5, <1>6, <1>7

LEMMA StagesKeep ==
  ASSUME LossesShow, Inv,
         PreScripts \/ ListDatabases \/ DumpDatabases \/ Archive \/ PostScripts \/ Fail \/ Restart
  PROVE  Inv'
<1> USE DEF Inv
<1>1. UNCHANGED <<run, store, whole, clock, pc, now, target, candidates>>
  BY DEF PreScripts, ListDatabases, DumpDatabases, Archive, PostScripts, Fail, Restart, pruneVars, dumpVars
<1>2. Spared'
  BY <1>1, SparedStays
<1>3. Types'
  <2>1. stage' \in Busy \cup {"waiting", "exited"} /\ (stage' \in Busy => run > 0) /\ dest' \in Nat \ {0}
    BY DEF PreScripts, ListDatabases, DumpDatabases, Archive, PostScripts, Fail, Restart, Types, Busy,
           DumpStages, dumpVars
  <2> QED BY <1>1, <2>1 DEF Types, Mine
<1>4. Delivered'
  <2> USE DEF Delivered, Mine, Wanted
  <2>1. CASE PreScripts
    BY <2>1 DEF PreScripts
  <2>2. CASE ListDatabases
    <3>1. PICK asked \in GetSchemas : dbnames' = asked \ Exclude
      BY <2>2 DEF ListDatabases
    <3>2. asked = IF Include = {} THEN Databases ELSE Include
      BY <3>1 DEF GetSchemas, LossesShow
    <3> QED BY <2>2, <3>1, <3>2 DEF ListDatabases
  <2>3. CASE DumpDatabases
    BY <2>3 DEF DumpDatabases
  <2>4. CASE Archive
    BY <2>4 DEF Archive, LossesShow
  <2>5. CASE PostScripts
    BY <2>5 DEF PostScripts, Targets
  <2>6. CASE Fail
    BY <2>6 DEF Fail, DumpStages
  <2>7. CASE Restart
    <3>1. stage' = "waiting" /\ UNCHANGED <<dumpVars, whole>>
      BY <2>7 DEF Restart
    <3> QED BY <3>1 DEF dumpVars
  <2> QED BY <2>1, <2>2, <2>3, <2>4, <2>5, <2>6, <2>7
<1> QED BY <1>2, <1>3, <1>4

\* The loop over the targets: those before dest have the whole backup.
LEMMA UploadKeeps == ASSUME Inv, PushBegin \/ PushDone PROVE Inv'
<1> USE DEF Inv
<1>1. UNCHANGED <<run, stage, succeeded, clock, archive, pc, now, target, candidates>> /\ Mine' = Mine
  BY DEF PushBegin, PushDone, pruneVars, Mine
<1>2. Spared'
  BY <1>1, SparedStays
<1>3. run > 0 /\ stage = "uploading" /\ run \in 0..Len(Names)
  BY DEF PushBegin, PushDone, Types, Busy, DumpStages
<1>4. Mine \in UpTo(run) /\ Mine \in Files
  BY <1>3, NamesAreFiles DEF Mine
<1>5. CASE PushBegin
  <2>1. /\ UNCHANGED <<whole, dest>>
        /\ store' \in [Targets -> SUBSET UpTo(run)]
        /\ \A t \in Targets : whole[t] \subseteq store'[t]
    BY <1>4, <1>5 DEF PushBegin, Types
  <2> QED BY <1>1, <1>2, <1>3, <2>1 DEF Types, Delivered, Mine
<1>6. CASE PushDone
  <2>1. /\ dest' = dest + 1
        /\ store' \in [Targets -> SUBSET UpTo(run)]
        /\ whole' = [whole EXCEPT ![dest] = @ \cup {Mine}]
    BY <1>3, <1>4, <1>6 DEF PushDone, Types, Delivered
  <2>2. dest' \in Nat \ {0}
    BY <2>1 DEF Types
  <2>6. whole' \in [Targets -> SUBSET Files]
    BY <1>4, <2>1 DEF Types
  <2>7. \A t \in Targets : whole'[t] \subseteq store'[t]
    BY <1>6, <2>1 DEF PushDone, Types
  <2>3. Types'
    BY <1>1, <2>1, <2>2, <2>6, <2>7 DEF Types
  <2>4. ASSUME NEW t \in Targets, t < dest' PROVE Mine \in whole'[t]
    <3>1. t < dest \/ t = dest
      BY <2>1, <2>4, BackupAssumption DEF Types, Targets
    <3> QED BY <1>3, <2>1, <3>1 DEF Types, Delivered
  <2>5. Delivered'
    BY <1>1, <1>3, <2>4 DEF Delivered
  <2> QED BY <1>2, <2>3, <2>5
<1> QED BY <1>5, <1>6

\* Prune is called, by this process or another.
LEMMA StartKeeps ==
  ASSUME Types, Spared, NEW p \in Processes, P!Start(p), run > 0, UNCHANGED run
  PROVE  /\ UNCHANGED <<store, clock>>
         /\ pc' \in [Processes -> {"idle", "list", "remove", "ok", "error"}]
         /\ now' \in [Processes -> Int]
         /\ target' \in [Processes -> Nat \ {0}]
         /\ candidates' \in [Processes -> SUBSET Files]
         /\ \A q \in Processes \ {p} : pc'[q] = pc[q] /\ candidates'[q] = candidates[q]
         /\ Spared'
<1>1. /\ pc' = [pc EXCEPT ![p] = IF NumTargets = 0 \/ P!InvalidRetention THEN "error" ELSE "list"]
      /\ now' = [now EXCEPT ![p] = clock]
      /\ target' = [target EXCEPT ![p] = 1]
      /\ candidates' = [candidates EXCEPT ![p] = {}]
      /\ UNCHANGED <<store, clock>>
  BY DEF P!Start, P!outside
<1>2. /\ pc' \in [Processes -> {"idle", "list", "remove", "ok", "error"}]
      /\ now' \in [Processes -> Int]
      /\ target' \in [Processes -> Nat \ {0}]
      /\ candidates' \in [Processes -> SUBSET Files]
  BY <1>1 DEF Types
<1>3. Mine' = Mine /\ P!InvalidRetention' = P!InvalidRetention
  BY DEF Mine, P!InvalidRetention, P!RetainHours, P!RetainCount
<1>4. ASSUME NEW q \in Processes, pc'[q] \in {"list", "remove"}
      PROVE  /\ target'[q] \in Targets
             /\ now'[q] <= clock
             /\ ~P!InvalidRetention
             /\ pc'[q] = "remove" => candidates'[q] \subseteq UpTo(run) \ {Mine}
  <2>1. CASE q = p
    <3>1. NumTargets # 0 /\ ~P!InvalidRetention /\ pc'[q] = "list" /\ target'[q] = 1 /\ now'[q] = clock
      BY <1>1, <1>4, <2>1 DEF Types
    <3> QED BY <3>1, BackupAssumption DEF Targets, Types
  <2>2. CASE q # p
    BY <1>1, <1>4, <2>2 DEF Types, Spared
  <2> QED BY <2>1, <2>2
<1>5. Spared'
  BY <1>1, <1>3, <1>4 DEF Spared
<1> QED BY <1>1, <1>2, <1>5 DEF Types

\* Both kinds of pruners, and what they leave whole.
LEMMA PruningKeeps == ASSUME InOrder, NearGreenwich, Inv, Uploaded \/ Pruning \/ PruneEnds \/ OtherPrunes PROVE Inv'
<1> USE DEF Inv
<1>1. UNCHANGED run /\ Mine' = Mine
  BY DEF Uploaded, Pruning, PruneEnds, OtherPrunes, dumpVars, Mine
<1>2. CASE Uploaded
  <2>1. /\ stage = "uploading" /\ dest > NumTargets
        /\ UNCHANGED <<dest, whole, dbnames, archive>>
    BY <1>2 DEF Uploaded
  <2>2. run > 0 /\ Self \in Processes
    BY <2>1 DEF Types, Busy, DumpStages, Processes
  <2>3. \A t \in Targets : Mine \in whole[t]
    <3>1. \A t \in Targets : t < dest
      BY <2>1, BackupAssumption DEF Types, Targets
    <3> QED BY <2>1, <3>1 DEF Delivered
  <2>4. CASE P!Start(Self) /\ stage' = "pruning" /\ UNCHANGED succeeded
    <3>1. Types' /\ Spared'
      BY <1>1, <2>1, <2>2, <2>4, StartKeeps DEF Types, Busy
    <3>2. Delivered'
      BY <1>1, <2>1, <2>2, <2>3, <2>4 DEF Delivered
    <3> QED BY <3>1, <3>2
  <2>5. CASE /\ stage' = "waiting" /\ succeeded' = TRUE
             /\ UNCHANGED <<store, clock, pc, now, target, candidates>>
    <3>1. Spared'
      BY <1>1, <2>5, SparedStays
    <3>2. Types'
      BY <1>1, <2>1, <2>5 DEF Types
    <3>3. Delivered'
      BY <1>1, <2>1, <2>2, <2>3, <2>5 DEF Delivered
    <3> QED BY <3>1, <3>2, <3>3
  <2> QED BY <1>2, <2>4, <2>5 DEF Uploaded, pruneVars
<1>3. CASE PruneEnds
  <2>1. /\ stage = "pruning" /\ stage' \in {"waiting", "exited"} /\ (succeeded' => stage' = "waiting")
        /\ UNCHANGED <<store, whole, clock, dest, pc, now, target, candidates>>
    BY <1>3 DEF PruneEnds, pruneVars
  <2>2. Spared'
    BY <1>1, <2>1, SparedStays
  <2> QED BY <1>1, <2>1, <2>2 DEF Types, Delivered, Busy, DumpStages
<1>4. ASSUME NEW p \in Processes, P!Working(p),
             whole' = [t \in Targets |-> whole[t] \cap store'[t]],
             UNCHANGED <<dumpVars, stage>>
      PROVE  Inv'
  <2>1. /\ UNCHANGED <<clock, now>>
        /\ store' \in [Targets -> SUBSET UpTo(run)]
        /\ \A t \in Targets : Mine \in store[t] => Mine \in store'[t]
        /\ pc' \in [Processes -> {"idle", "list", "remove", "ok", "error"}]
        /\ target' \in [Processes -> Nat \ {0}]
        /\ candidates' \in [Processes -> SUBSET Files]
        /\ Spared'
    BY <1>1, <1>4, PrunerSteps
  <2>2. whole' \in [Targets -> SUBSET Files] /\ \A t \in Targets : whole'[t] \subseteq store'[t]
    BY <1>4 DEF Types
  <2>3. Types'
    BY <1>1, <1>4, <2>1, <2>2 DEF Types, dumpVars
  <2>4. \A t \in Targets : Mine \in whole[t] => Mine \in whole'[t]
    BY <1>4, <2>1 DEF Types
  <2>5. Delivered'
    BY <1>1, <1>4, <2>4 DEF Delivered, dumpVars, Wanted
  <2> QED BY <2>1, <2>3, <2>5
<1>5. CASE Pruning
  BY <1>4, <1>5 DEF Pruning, Processes
<1>6. CASE OtherPrunes
  <2>1. PICK p \in Others :
          \/ pc[p] = "idle" /\ run > 1 /\ stage \in Busy /\ P!Start(p)
          \/ P!Working(p)
    BY <1>6 DEF OtherPrunes
  <2>2. p \in Processes
    BY DEF Processes
  <2>3. CASE P!Working(p)
    BY <1>4, <1>6, <2>2, <2>3 DEF OtherPrunes
  <2>4. CASE run > 1 /\ P!Start(p)
    <3>1. run > 0
      BY <2>4 DEF Types
    <3>2. UNCHANGED store /\ UNCHANGED <<dumpVars, stage>> /\ whole' = [t \in Targets |-> whole[t] \cap store'[t]]
      BY <1>1, <1>6, <2>2, <2>4, <3>1, StartKeeps DEF OtherPrunes
    <3>3. whole' = whole
      BY <3>2 DEF Types
    <3>4. Types' /\ Spared'
      BY <1>1, <2>2, <2>4, <3>1, <3>2, <3>3, StartKeeps DEF Types, dumpVars
    <3>5. Delivered'
      BY <1>1, <3>2, <3>3 DEF Delivered, dumpVars, Wanted
    <3> QED BY <3>4, <3>5
  <2> QED BY <2>1, <2>3, <2>4
<1> QED BY <1>2, <1>3, <1>5, <1>6

\* A kill takes nothing away.
LEMMA CrashKeeps == ASSUME Inv, Crash PROVE Inv'
<1> USE DEF Inv
<1>1. /\ UNCHANGED <<run, store, whole, clock, dest, succeeded>> /\ stage' = "exited" /\ stage \in Busy
      /\ UNCHANGED <<now, target, candidates>>
      /\ \/ pc' = [pc EXCEPT ![Self] = "idle"]
         \/ UNCHANGED pc
  BY DEF Crash, P!Crash, P!outside, pruneVars
<1>2. Self \in Processes /\ Mine' = Mine /\ P!InvalidRetention' = P!InvalidRetention
  BY <1>1 DEF Processes, Mine, P!InvalidRetention, P!RetainHours, P!RetainCount
<1>3. pc' \in [Processes -> {"idle", "list", "remove", "ok", "error"}]
      /\ \A q \in Processes : pc'[q] = pc[q] \/ pc'[q] = "idle"
  BY <1>1, <1>2 DEF Types
<1>4. Types'
  BY <1>1, <1>2, <1>3 DEF Types, Busy, DumpStages
<1>5. Spared'
  BY <1>1, <1>2, <1>3 DEF Spared
<1>6. Delivered'
  BY <1>1 DEF Delivered, Busy, DumpStages
<1> QED BY <1>4, <1>5, <1>6

LEMMA StepInv ==
  ASSUME InOrder, NearGreenwich, LossesShow, Inv, [Next]_vars
  PROVE  Inv'
<1>1. CASE UNCHANGED vars
  <2>1. UNCHANGED <<run, stage, dbnames, archive, succeeded, dest, whole, store, clock, pc, now, target, candidates>>
    BY <1>1 DEF vars, dumpVars, pruneVars
  <2> QED BY <2>1, SparedStays DEF Inv, Types, Delivered, Mine
<1> QED
  BY <1>1, BeginKeeps, StagesKeep, UploadKeeps, PruningKeeps, CrashKeeps DEF Next, Step, Finished

---------------------------------------------------------------------------
(* The theorems. *)

\* The invariant of the run, where the names are in order, the offsets are not further west
\* than the retention and neither the list of databases nor the archive breaks off unseen.
THEOREM Invariance ==
  ASSUME InOrder, NearGreenwich, LossesShow PROVE Spec => []Inv
BY InitInv, StepInv, PTL DEF Spec

\* An ok run has its backup, with every database, on every target, whatever other pruners do
\* at the time (dump.go:90-98, 199-230, cmd/dump.go:340-357).
THEOREM OkRunsDeliver ==
  ASSUME InOrder, NearGreenwich, LossesShow PROVE Spec => []OkMeansEverywhere
<1>1. Inv => OkMeansEverywhere
  BY DEF Inv, Delivered, OkMeansEverywhere
<1> QED BY <1>1, Invariance, PTL

\* The process prunes only when its new backup is complete on every target (dump.go:201-224
\* before cmd/dump.go:348-355).
THEOREM PrunesLast ==
  ASSUME InOrder, NearGreenwich, LossesShow PROVE Spec => PruneLast
<1> DEFINE Last ==
      (pc'[Self] # pc[Self] \/ candidates'[Self] # candidates[Self]) =>
        \A t \in Targets : store[t] \subseteq store'[t] \/ \A u \in Targets : Mine \in whole[u]
<1>1. ASSUME Inv, [Next]_vars PROVE Last
  <2>1. CASE stage = "pruning"
    BY <1>1, <2>1 DEF Inv, Delivered
  <2>2. CASE stage # "pruning" /\ (Uploaded \/ Crash \/ PushBegin \/ PushDone)
    <3>1. CASE Uploaded
      BY <3>1 DEF Uploaded, P!Start, pruneVars
    <3>2. CASE Crash
      BY <3>2 DEF Crash, P!Crash
    <3>3. CASE PushBegin \/ PushDone
      BY <3>3 DEF PushBegin, PushDone, pruneVars
    <3> QED BY <2>2, <3>1, <3>2, <3>3
  <2>3. CASE OtherPrunes
    <3>1. PICK p \in Others : P!Start(p) \/ P!Working(p)
      BY <2>3 DEF OtherPrunes
    <3>2. p # Self /\ p \in Processes /\ Self \in Processes
      BY <3>1, BackupAssumption DEF Processes
    <3>3. pc'[Self] = pc[Self] /\ candidates'[Self] = candidates[Self]
      BY <1>1, <3>1, <3>2 DEF Inv, Types, P!Start, P!Working, P!ListTarget, P!Remove, P!FailListing,
           P!FailRemoving, P!NextTarget
    <3> QED BY <3>3
  <2>4. CASE Begin \/ PreScripts \/ ListDatabases \/ DumpDatabases \/ Archive \/ PostScripts \/ Fail
               \/ Restart \/ UNCHANGED vars
    BY <2>4 DEF Begin, PreScripts, ListDatabases, DumpDatabases, Archive, PostScripts, Fail, Restart,
         vars, pruneVars
  <2>5. CASE Pruning \/ PruneEnds
    BY <2>1, <2>5 DEF Pruning, PruneEnds
  <2> QED BY <1>1, <2>1, <2>2, <2>3, <2>4, <2>5 DEF Next, Step, Finished
<1>2. Inv /\ [Next]_vars => [Last]_vars
  BY <1>1
<1> QED BY <1>2, Invariance, PTL DEF Spec, PruneLast

\* "prune older backups" (docs/prune.md:27): nothing is removed but backups of runs before
\* the latest.
THEOREM OldersArePruned ==
  ASSUME InOrder, NearGreenwich, LossesShow PROVE Spec => OlderPruned
<1> DEFINE Older ==
      \A t \in Targets : \A f \in store[t] \ store'[t] : P!StartedAt(f) < P!StartedAt(Mine)
<1>1. ASSUME Inv, [Next]_vars PROVE Older
  <2>1. ASSUME NEW p \in Processes, P!Working(p), UNCHANGED run PROVE Older
    <3> SUFFICES ASSUME NEW t \in Targets, NEW f \in store[t], f \notin store'[t]
                 PROVE  P!StartedAt(f) < P!StartedAt(Mine)
      OBVIOUS
    <3>1. f \in UpTo(run) /\ run \in 0..Len(Names)
      BY <1>1 DEF Inv, Types
    <3>2. f # Mine
      BY <1>1, <2>1, PrunerSteps DEF Inv
    <3>3. PICK i \in 1..run : f = Names[i]
      BY <3>1 DEF UpTo
    <3>4. i < run /\ i \in 1..Len(Names) /\ run \in 1..Len(Names)
      <4>1. Len(Names) \in Nat /\ i # run
        BY <3>2, <3>3, BackupAssumption DEF Mine
      <4> QED BY ONLY <3>1, <3>3, <4>1
    <3> QED BY <3>3, <3>4 DEF InOrder, Mine
  <2>2. ASSUME \A t \in Targets : store[t] \subseteq store'[t] PROVE Older
    BY <2>2
  <2>3. CASE Pruning
    BY <2>1, <2>3 DEF Pruning, Processes, dumpVars
  <2>4. CASE OtherPrunes
    <3>1. PICK p \in Others : P!Start(p) \/ P!Working(p)
      BY <2>4 DEF OtherPrunes
    <3>2. CASE P!Working(p)
      BY <2>1, <2>4, <3>2 DEF OtherPrunes, Processes, dumpVars
    <3>3. CASE P!Start(p)
      BY <2>2, <3>3 DEF P!Start
    <3> QED BY <3>1, <3>2, <3>3
  <2>5. CASE PushBegin \/ PushDone
    BY <1>1, <2>2, <2>5 DEF PushBegin, PushDone, Inv, Types
  <2>6. CASE Begin \/ PreScripts \/ ListDatabases \/ DumpDatabases \/ Archive \/ PostScripts \/ Uploaded
               \/ PruneEnds \/ Fail \/ Crash \/ Restart \/ UNCHANGED vars
    <3>1. UNCHANGED store
      BY <2>6 DEF Begin, PreScripts, ListDatabases, DumpDatabases, Archive, PostScripts, Uploaded,
           PruneEnds, Fail, Crash, Restart, P!Start, P!Crash, vars
    <3> QED BY <2>2, <3>1
  <2> QED BY <1>1, <2>3, <2>4, <2>5, <2>6 DEF Next, Step, Finished
<1>2. Inv /\ [Next]_vars => [Older]_vars
  BY <1>1
<1> QED BY <1>2, Invariance, PTL DEF Spec, OlderPruned

---------------------------------------------------------------------------
(* Complete backups. *)

\* Those of a target that are named after f.
Newer(S, f) == {g \in S : Stamp[g] > Stamp[f]}

\* A target that shows complete files only holds nothing else.
OnlyWhole == \A t \in Atomic : store[t] = whole[t]

\* Every candidate of every pruner has as many newer files above it as are to be kept.
Outnumbered ==
  P!RetainCount > 0 =>
    \A p \in Processes : pc[p] = "remove" =>
      \A f \in candidates[p] : Cardinality(Newer(store[target[p]], f)) >= P!RetainCount

LEMMA FilesFinite == IsFiniteSet(Files)
BY BackupAssumption DEF Files, IsFiniteSet

LEMMA NewerGrows ==
  ASSUME NEW T \in SUBSET Files, NEW S \in SUBSET T, NEW f
  PROVE  /\ Cardinality(Newer(S, f)) \in Nat /\ Cardinality(Newer(T, f)) \in Nat
         /\ Cardinality(Newer(S, f)) <= Cardinality(Newer(T, f))
<1>1. Newer(T, f) \subseteq Files /\ Newer(S, f) \subseteq Newer(T, f)
  BY DEF Newer
<1>2. IsFiniteSet(Newer(T, f))
  BY <1>1, FilesFinite, FS_Subset
<1>3. IsFiniteSet(Newer(S, f)) /\ Cardinality(Newer(S, f)) <= Cardinality(Newer(T, f))
  BY <1>1, <1>2, FS_Subset
<1> QED BY <1>2, <1>3, FS_CardinalityType

\* Removing h, which n newer files outnumber, leaves n above f: when h is above f, those
\* above h are.
LEMMA NewerSurvives ==
  ASSUME NEW S \in SUBSET Files, NEW f \in Files, NEW h \in Files, NEW n \in Nat,
         Cardinality(Newer(S, f)) >= n, Cardinality(Newer(S, h)) >= n
  PROVE  Cardinality(Newer(S \ {h}, f)) >= n
<1>0. Stamp[f] \in Int /\ Stamp[h] \in Int /\ \A g \in S : Stamp[g] \in Int
  BY BackupAssumption
<1>1. CASE Stamp[h] > Stamp[f]
  <2>2. IsFiniteSet(Newer(S \ {h}, f))
    BY FilesFinite, FS_Subset DEF Newer
  <2>3. Newer(S, h) \in SUBSET Newer(S \ {h}, f)
    BY <1>0, <1>1 DEF Newer
  <2>4. Cardinality(Newer(S, h)) <= Cardinality(Newer(S \ {h}, f))
    BY <2>2, <2>3, FS_Subset
  <2>5. Cardinality(Newer(S \ {h}, f)) \in Nat /\ Cardinality(Newer(S, h)) \in Nat
    BY NewerGrows
  <2> QED BY <2>4, <2>5
<1>2. CASE ~(Stamp[h] > Stamp[f])
  <2>1. Newer(S, f) = Newer(S \ {h}, f)
    BY <1>2 DEF Newer
  <2> QED BY <2>1
<1> QED BY <1>1, <1>2

LEMMA PickedAreOutnumbered ==
  ASSUME InOrder, P!RetainCount > 0, NEW S \in SUBSET Files, NEW t, NEW time,
         NEW picked \in P!Picks(P!Listing(t, S), time), NEW f \in picked
  PROVE  Cardinality(Newer(S, f)) >= P!RetainCount
<1> DEFINE dated == P!Backups(P!Listing(t, S))
<1>1. dated \subseteq S
  BY DEF P!Backups, P!Listing
<1>2. P!RetainCount \in Nat /\ ~(P!RetainHours > 0)
  BY RetentionTypes DEF P!RetainHours, P!RetainCount
<1>3. picked \in P!BeyondCount(P!Listing(t, S))
  BY <1>2 DEF P!Picks
<1>4. PICK kept \in SUBSET dated :
        /\ picked = dated \ kept
        /\ Cardinality(kept) = P!RetainCount
        /\ \A g \in kept, h \in dated \ kept : Stamp[g] >= Stamp[h]
  BY <1>3, OneCardinality DEF P!BeyondCount
<1>5. ASSUME NEW g \in kept PROVE Stamp[g] > Stamp[f]
  <2>1. g \in Files /\ f \in Files /\ g # f /\ Stamp[g] >= Stamp[f]
    BY <1>1, <1>4
  <2>2. PICK i \in 1..Len(Names), j \in 1..Len(Names) : g = Names[i] /\ f = Names[j]
    BY <2>1 DEF Files
  <2>3. i < j \/ j < i
    BY <2>1, <2>2, BackupAssumption
  <2>4. Stamp[g] # Stamp[f]
    BY <2>1, <2>2, <2>3, BackupAssumption DEF InOrder
  <2> QED BY <2>1, <2>4, BackupAssumption
<1>6. kept \in SUBSET Newer(S, f)
  BY <1>1, <1>5 DEF Newer
<1>7. IsFiniteSet(Newer(S, f)) /\ Cardinality(Newer(S, f)) \in Nat
  BY FilesFinite, FS_Subset, NewerGrows DEF Newer
<1>8. Cardinality(kept) <= Cardinality(Newer(S, f))
  BY <1>6, <1>7, FS_Subset
<1> QED BY <1>2, <1>4, <1>7, <1>8

\* A pruner at work takes candidates only.
LEMMA LostWasCandidate ==
  ASSUME Types, Spared, NEW p \in Processes, P!Working(p), NEW t \in Targets,
         NEW f \in store[t], f \notin store'[t]
  PROVE  /\ pc[p] = "remove" /\ target[p] = t /\ f \in candidates[p]
         /\ store'[t] = store[t] \ {f}
<1>1. PICK h \in candidates[p] :
        pc[p] = "remove" /\ store' = [store EXCEPT ![target[p]] = @ \ {h}]
  BY DEF P!Working, P!ListTarget, P!Remove, P!FailListing, P!FailRemoving, P!NextTarget
<1>2. store'[t] = IF t = target[p] THEN store[t] \ {h} ELSE store[t]
  BY <1>1 DEF Types
<1> QED BY <1>1, <1>2

\* What is outnumbered stays so: when its target only grows, and when a candidate is removed.
LEMMA GrowthKeepsOutnumbered ==
  ASSUME Types, Outnumbered, P!RetainCount > 0, NEW q \in Processes, pc[q] = "remove",
         target[q] \in Targets, NEW f \in candidates[q],
         store[target[q]] \subseteq store'[target[q]], store'[target[q]] \subseteq Files
  PROVE  Cardinality(Newer(store'[target[q]], f)) >= P!RetainCount
<1>1. Cardinality(Newer(store[target[q]], f)) >= P!RetainCount
  BY DEF Outnumbered
<1> QED BY <1>1, RetentionTypes, NewerGrows

LEMMA RemovalKeepsOutnumbered ==
  ASSUME Types, Spared, Outnumbered, P!RetainCount > 0,
         NEW p \in Processes, pc[p] = "remove", NEW h \in candidates[p],
         store' = [store EXCEPT ![target[p]] = @ \ {h}],
         NEW q \in Processes, pc[q] = "remove", NEW f \in candidates[q]
  PROVE  Cardinality(Newer(store'[target[q]], f)) >= P!RetainCount
<1>1. /\ target[p] \in Targets /\ target[q] \in Targets /\ f \in Files /\ h \in Files
      /\ run \in 0..Len(Names)
  BY DEF Types, Spared
<1>2. store[target[p]] \in SUBSET Files
  BY <1>1, NamesAreFiles DEF Types
<1>3. /\ Cardinality(Newer(store[target[q]], f)) >= P!RetainCount
      /\ Cardinality(Newer(store[target[p]], h)) >= P!RetainCount
  BY DEF Outnumbered
<1>4. CASE target[q] = target[p]
  <2>1. store'[target[q]] = store[target[p]] \ {h}
    BY <1>1, <1>4 DEF Types
  <2> QED BY <1>1, <1>2, <1>3, <1>4, <2>1, NewerSurvives, RetentionTypes
<1>5. CASE target[q] # target[p]
  <2>1. store'[target[q]] = store[target[q]]
    BY <1>1, <1>5 DEF Types
  <2> QED BY <1>3, <2>1
<1> QED BY <1>4, <1>5

\* A step of a pruner keeps every pruner's candidates outnumbered.
LEMMA PrunerKeepsOutnumbered ==
  ASSUME InOrder, Types, Spared, Outnumbered, NEW p \in Processes, P!Working(p)
  PROVE  Outnumbered'
<1>0. P!RetainCount' = P!RetainCount
  BY DEF P!RetainCount
<1> SUFFICES ASSUME P!RetainCount > 0, NEW q \in Processes, pc'[q] = "remove", NEW f \in candidates'[q]
             PROVE  Cardinality(Newer(store'[target'[q]], f)) >= P!RetainCount
  BY <1>0 DEF Outnumbered, Newer
<1>1. ASSUME pc[q] = "remove", f \in candidates[q], target'[q] = target[q], store' = store
      PROVE  Cardinality(Newer(store'[target'[q]], f)) >= P!RetainCount
  BY <1>1 DEF Outnumbered
<1>2. CASE P!ListTarget(p)
  <2>1. PICK picked \in P!Picks(P!Listing(target[p], store[target[p]]), now[p]) :
          candidates' = [candidates EXCEPT ![p] = picked]
    BY <1>2 DEF P!ListTarget
  <2>2. pc[p] = "list" /\ pc' = [pc EXCEPT ![p] = "remove"] /\ UNCHANGED <<store, target>>
    BY <1>2 DEF P!ListTarget
  <2>3. CASE q = p
    <3>1. f \in picked
      BY <2>1, <2>3 DEF Types
    <3>2. store[target[p]] \in SUBSET Files
      BY <2>2, NamesAreFiles DEF Types, Spared
    <3>3. Cardinality(Newer(store[target[p]], f)) >= P!RetainCount
      BY <2>1, <3>1, <3>2, PickedAreOutnumbered
    <3> QED BY <2>2, <2>3, <3>3
  <2>4. CASE q # p
    BY <1>1, <2>1, <2>2, <2>4 DEF Types
  <2> QED BY <2>3, <2>4
<1>3. CASE P!Remove(p)
  <2>1. PICK h \in candidates[p] :
          /\ store' = [store EXCEPT ![target[p]] = @ \ {h}]
          /\ candidates' = [candidates EXCEPT ![p] = @ \ {h}]
    BY <1>3 DEF P!Remove
  <2>2. pc[p] = "remove" /\ pc[q] = "remove" /\ f \in candidates[q] /\ target' = target
    BY <1>3, <2>1 DEF P!Remove, Types
  <2> QED BY <2>1, <2>2, RemovalKeepsOutnumbered
<1>4. CASE P!FailListing(p)
  BY <1>1, <1>4 DEF P!FailListing, Types
<1>5. CASE P!FailRemoving(p)
  <2>1. PICK h \in candidates[p] :
          store' = store \/ store' = [store EXCEPT ![target[p]] = @ \ {h}]
    BY <1>5 DEF P!FailRemoving
  <2>2. pc[p] = "remove" /\ pc[q] = "remove" /\ f \in candidates[q] /\ target' = target
    BY <1>5 DEF P!FailRemoving, Types
  <2> QED BY <1>1, <2>1, <2>2, RemovalKeepsOutnumbered
<1>6. CASE P!NextTarget(p)
  <2>1. q # p
    BY <1>6 DEF P!NextTarget, Types
  <2> QED BY <1>1, <1>6, <2>1 DEF P!NextTarget, Types
<1> QED BY <1>2, <1>3, <1>4, <1>5, <1>6 DEF P!Working

Kept == Inv /\ OnlyWhole /\ Outnumbered

LEMMA InitKept == Init => Kept
<1> SUFFICES ASSUME Init PROVE Kept
  OBVIOUS
<1>1. OnlyWhole
  BY BackupAssumption DEF Init, OnlyWhole
<1>2. Outnumbered
  BY DEF Init, Outnumbered, Processes
<1> QED BY <1>1, <1>2, InitInv DEF Kept

LEMMA StepKept ==
  ASSUME InOrder, NearGreenwich, LossesShow, Kept, [Next]_vars
  PROVE  Kept'
<1> USE DEF Kept
<1>0. Inv'
  BY StepInv
<1>1. P!RetainCount' = P!RetainCount
  BY DEF P!RetainCount
<1>2. ASSUME UNCHANGED <<store, whole>> PROVE OnlyWhole'
  BY <1>2 DEF OnlyWhole
<1>3. ASSUME UNCHANGED <<store, target, candidates>>,
             \A q \in Processes : pc'[q] = pc[q] \/ pc'[q] # "remove"
      PROVE  Outnumbered'
  BY <1>1, <1>3 DEF Outnumbered, Newer
<1>4. ASSUME NEW p \in Processes, P!Start(p), UNCHANGED whole PROVE OnlyWhole' /\ Outnumbered'
  <2>1. /\ pc' = [pc EXCEPT ![p] = IF NumTargets = 0 \/ P!InvalidRetention THEN "error" ELSE "list"]
        /\ target' = [target EXCEPT ![p] = 1]
        /\ candidates' = [candidates EXCEPT ![p] = {}]
        /\ UNCHANGED store
    BY <1>4 DEF P!Start
  <2>2. \A q \in Processes : pc'[q] = "remove" =>
          pc[q] = "remove" /\ target'[q] = target[q] /\ candidates'[q] = candidates[q]
    BY <2>1 DEF Inv, Types
  <2>3. Outnumbered'
    BY <1>1, <2>1, <2>2 DEF Outnumbered, Newer
  <2> QED BY <1>2, <1>4, <2>1, <2>3
<1>5. ASSUME NEW p \in Processes, P!Working(p), UNCHANGED run,
             whole' = [t \in Targets |-> whole[t] \cap store'[t]]
      PROVE  OnlyWhole' /\ Outnumbered'
  <2>1. \A t \in Targets : store'[t] \subseteq store[t]
    BY <1>5, PrunerSteps DEF Inv
  <2>2. OnlyWhole'
    BY <1>5, <2>1, BackupAssumption DEF OnlyWhole
  <2> QED BY <1>5, <2>2, PrunerKeepsOutnumbered DEF Inv
<1>6. CASE PushBegin \/ PushDone
  <2>1. /\ UNCHANGED <<run, pc, target, candidates>> /\ stage = "uploading" /\ dest \in Nat
        /\ \A t \in Targets : store[t] \subseteq store'[t]
    BY <1>6 DEF PushBegin, PushDone, pruneVars, Inv, Types
  <2>2. OnlyWhole'
    <3>1. CASE PushBegin
      BY <3>1, BackupAssumption DEF PushBegin, OnlyWhole, Inv, Types
    <3>2. CASE PushDone
      <4>1. whole' = [whole EXCEPT ![dest] = @ \cup {Mine}] /\ store' = [store EXCEPT ![dest] = @ \cup {Mine}]
        BY <2>1, <3>2 DEF PushDone, Inv, Delivered
      <4> QED BY <4>1, BackupAssumption DEF OnlyWhole, Inv, Types
    <3> QED BY <1>6, <3>1, <3>2
  <2>3. \A t \in Targets : store'[t] \subseteq Files
    BY <1>0, <2>1, NamesAreFiles DEF Inv, Types
  <2>4. ASSUME P!RetainCount > 0, NEW q \in Processes, pc[q] = "remove", NEW f \in candidates[q]
        PROVE  Cardinality(Newer(store'[target[q]], f)) >= P!RetainCount
    <3>1. target[q] \in Targets
      BY <2>4 DEF Inv, Spared
    <3> QED BY <2>1, <2>3, <2>4, <3>1, GrowthKeepsOutnumbered DEF Inv
  <2>5. Outnumbered'
    BY <1>1, <2>1, <2>4 DEF Outnumbered, Newer
  <2> QED BY <1>0, <2>2, <2>5
<1>7. CASE Uploaded
  <2>1. UNCHANGED whole /\ (P!Start(Self) \/ UNCHANGED <<store, target, candidates, pc>>)
    BY <1>7 DEF Uploaded, pruneVars
  <2> QED BY <1>0, <1>2, <1>3, <1>4, <2>1 DEF Processes
<1>8. CASE Pruning
  BY <1>0, <1>5, <1>8 DEF Pruning, Processes, dumpVars
<1>9. CASE OtherPrunes
  <2>1. PICK p \in Others : P!Start(p) \/ P!Working(p)
    BY <1>9 DEF OtherPrunes
  <2>2. whole' = [t \in Targets |-> whole[t] \cap store'[t]] /\ UNCHANGED run /\ p \in Processes
    BY <1>9 DEF OtherPrunes, dumpVars, Processes
  <2>3. CASE P!Start(p)
    <3>1. UNCHANGED store
      BY <2>3 DEF P!Start
    <3>2. UNCHANGED whole
      BY <2>2, <3>1 DEF Inv, Types
    <3> QED BY <1>0, <1>4, <2>2, <2>3, <3>2
  <2>4. CASE P!Working(p)
    BY <1>0, <1>5, <2>2, <2>4
  <2> QED BY <2>1, <2>3, <2>4
<1>10. CASE Crash
  <2>1. /\ UNCHANGED <<store, whole, target, candidates>>
        /\ pc' = [pc EXCEPT ![Self] = "idle"] \/ UNCHANGED pc
    BY <1>10 DEF Crash, P!Crash, pruneVars
  <2>2. \A q \in Processes : pc'[q] = pc[q] \/ pc'[q] # "remove"
    BY <2>1 DEF Inv, Types
  <2> QED BY <1>0, <1>2, <1>3, <2>1, <2>2
<1>11. CASE Begin \/ PreScripts \/ ListDatabases \/ DumpDatabases \/ Archive \/ PostScripts
              \/ PruneEnds \/ Fail \/ Restart \/ UNCHANGED vars
  <2>1. UNCHANGED <<store, whole, target, candidates, pc>>
    BY <1>11 DEF Begin, PreScripts, ListDatabases, DumpDatabases, Archive, PostScripts, PruneEnds,
         Fail, Restart, vars, pruneVars
  <2> QED BY <1>0, <1>2, <1>3, <2>1
<1> QED BY <1>6, <1>7, <1>8, <1>9, <1>10, <1>11 DEF Next, Step, Finished

\* "how many backup to keep" (docs/prune.md:49): where a file appears only when its upload is
\* complete, that many complete backups stay through every run, kill and pruning.
THEOREM CompleteBackupsSurvive ==
  ASSUME InOrder, NearGreenwich, LossesShow PROVE Spec => CompleteKept
<1> DEFINE Enough == \A t \in Atomic : LeavesEnough(t)
<1>1. ASSUME Kept, [Next]_vars PROVE Enough
  <2> SUFFICES ASSUME NEW t \in Atomic, P!RetainCount > 0, NEW f \in whole[t], f \notin whole'[t]
               PROVE  Cardinality({g \in whole'[t] : P!StartedAt(g) >= P!StartedAt(f)}) >= P!RetainCount
    BY DEF LeavesEnough
  <2>0. Kept' /\ t \in Targets /\ f \in store[t]
    BY <1>1, StepKept, BackupAssumption DEF Kept, OnlyWhole
  <2>1. PICK p \in Processes : P!Working(p) /\ UNCHANGED run /\ f \notin store'[t]
    <3>1. CASE Pruning
      BY <1>1, <2>0, <3>1 DEF Pruning, Processes, dumpVars
    <3>2. CASE OtherPrunes
      <4>1. PICK p \in Others : P!Start(p) \/ P!Working(p)
        BY <3>2 DEF OtherPrunes
      <4>2. f \notin store'[t] /\ p \in Processes /\ UNCHANGED run
        BY <2>0, <3>2 DEF OtherPrunes, Processes, dumpVars
      <4>3. ~P!Start(p)
        BY <2>0, <4>2 DEF P!Start
      <4> QED BY <4>1, <4>2, <4>3
    <3>3. CASE PushDone
      <4>1. whole[t] \subseteq whole'[t]
        BY <1>1, <2>0, <3>3 DEF PushDone, Kept, Inv, Types
      <4> QED BY <4>1
    <3>4. CASE Begin \/ PreScripts \/ ListDatabases \/ DumpDatabases \/ Archive \/ PostScripts
                 \/ PushBegin \/ Uploaded \/ PruneEnds \/ Fail \/ Crash \/ Restart \/ UNCHANGED vars
      <4>1. UNCHANGED whole
        BY <3>4 DEF Begin, PreScripts, ListDatabases, DumpDatabases, Archive, PostScripts, PushBegin,
             Uploaded, PruneEnds, Fail, Crash, Restart, dumpVars, vars
      <4> QED BY <4>1
    <3> QED BY <1>1, <3>1, <3>2, <3>3, <3>4 DEF Next, Step, Finished
  <2>2. /\ pc[p] = "remove" /\ target[p] = t /\ f \in candidates[p]
        /\ store'[t] = store[t] \ {f}
    BY <1>1, <2>0, <2>1, LostWasCandidate DEF Kept, Inv
  <2>3. Cardinality(Newer(store[t], f)) >= P!RetainCount
    BY <1>1, <2>2 DEF Kept, Outnumbered
  <2>4. whole'[t] = store[t] \ {f} /\ whole'[t] \in SUBSET Files /\ f \in Files
    BY <1>1, <2>0, <2>2 DEF Kept, OnlyWhole, Inv, Types
  <2> DEFINE Left == {g \in whole'[t] : P!StartedAt(g) >= P!StartedAt(f)}
  <2>5. ASSUME NEW g \in Newer(store[t], f) PROVE g \in Left
    <3>1. g \in whole'[t] /\ g \in Files /\ Stamp[g] > Stamp[f] /\ g # f
      BY <2>4, BackupAssumption DEF Newer
    <3>2. PICK i \in 1..Len(Names), j \in 1..Len(Names) : g = Names[i] /\ f = Names[j]
      BY <2>4, <3>1 DEF Files
    <3>3. j < i \/ i < j
      BY <3>1, <3>2, BackupAssumption
    <3>4. j < i
      <4>1. ~(Stamp[g] < Stamp[f])
        BY <2>4, <3>1, BackupAssumption
      <4> QED BY <3>2, <3>3, <4>1 DEF InOrder
    <3>5. P!StartedAt(f) < P!StartedAt(g)
      BY <3>2, <3>4 DEF InOrder
    <3>6. P!StartedAt(f) \in Int /\ P!StartedAt(g) \in Int
      <4>1. Stamp[f] \in Int /\ Zone[f] \in Int /\ Stamp[g] \in Int /\ Zone[g] \in Int
        BY <2>4, <3>1, BackupAssumption
      <4> QED BY <4>1 DEF P!StartedAt
    <3> QED BY <3>1, <3>5, <3>6
  <2>6. IsFiniteSet(Left) /\ Newer(store[t], f) \in SUBSET Left
    <3>1. Left \in SUBSET Files
      BY <2>4
    <3> QED BY <2>5, <3>1, FilesFinite, FS_Subset
  <2>7. Cardinality(Newer(store[t], f)) <= Cardinality(Left)
    BY <2>6, FS_Subset
  <2>8. Cardinality(Left) \in Nat /\ Cardinality(Newer(store[t], f)) \in Nat /\ P!RetainCount \in Nat
    BY <2>6, FS_CardinalityType, FS_Subset, RetentionTypes
  <2> HIDE DEF Left
  <2> QED BY <2>3, <2>7, <2>8 DEF Left
<1>2. Kept /\ [Next]_vars => [Enough]_vars
  BY <1>1
<1>3. Kept /\ [Next]_vars => Kept'
  BY StepKept
<1> QED BY <1>2, <1>3, InitKept, PTL DEF Spec, CompleteKept
============================================================================
