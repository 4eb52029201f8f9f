---------------------------- MODULE TargetProofs ----------------------------
(***************************************************************************)
(* Proofs about what is on the targets: Prune, for any number of pruners   *)
(* and targets, any files and any retention, and Storage and TargetCall,   *)
(* for any directory, any names and any files of others on the server.     *)
(*                                                                         *)
(* RecentKept needs more than what one pruner knows: the backups it found  *)
(* to be more recent than a candidate may be removed by another pruner     *)
(* while it works.  The invariant Outnumbered says that enough of them are *)
(* there at every step, and its proof is that whatever removes one of them *)
(* is itself outnumbered by still more recent ones.                        *)
(*                                                                         *)
(* OkMeansPruned needs that a name, once removed, does not come back:      *)
(* then what a pruner has put behind it stays within the retention.        *)
(*                                                                         *)
(* Of the calls: the four of them agree on where a backup is, and whatever *)
(* step of a call fails, what it has opened is closed.                     *)
(***************************************************************************)
EXTENDS Prune, TargetCall, FiniteSetTheorems, TLAPS

\* No two backups have one and the same date in their names.
DistinctStamps ==
  \A f, g \in Files : IsBackup[f] /\ IsBackup[g] /\ Stamp[f] = Stamp[g] => f = g

\* No name has an offset west of Greenwich.
NoWest == \A f \in Files : Zone[f] >= 0

NewerIn(S, f) == {g \in Backups(S) : Stamp[g] > Stamp[f]}

\* The retention is read as hours or as a count, never as both.
LEMMA OneRetention == RetainHours \in Nat /\ RetainCount \in Nat /\ (RetainCount > 0 => RetainHours = 0)
<1>1. HoursIn \in [{"h", "d", "w", "m", "y"} -> Nat]
  BY DEF HoursIn
<1>2. CASE Retention.unit = "c"
  BY <1>2, PruneAssumption DEF RetainHours, RetainCount
<1>3. CASE Retention.unit # "c"
  <2>1. HoursIn[Retention.unit] \in Nat
    BY <1>1, <1>3, PruneAssumption
  <2>2. RetainHours \in Nat
    BY <2>1, <1>3, PruneAssumption DEF RetainHours
  <2> QED BY <2>2, <1>3 DEF RetainCount
<1> QED BY <1>2, <1>3

\* The sets of backups more recent than a file are finite and grow with the directory.
LEMMA NewerFinite ==
  ASSUME NEW S \in SUBSET Files, NEW f \in Files
  PROVE  IsFiniteSet(NewerIn(S, f)) /\ Cardinality(NewerIn(S, f)) \in Nat
<1>1. NewerIn(S, f) \subseteq Files
  BY DEF NewerIn, Backups
<1>2. IsFiniteSet(NewerIn(S, f))
  BY <1>1, PruneAssumption, FS_Subset
<1> QED BY <1>2, FS_CardinalityType

LEMMA NewerGrows ==
  ASSUME NEW S \in SUBSET Files, NEW T \in SUBSET Files, NEW f \in Files, S \subseteq T
  PROVE  Cardinality(NewerIn(T, f)) >= Cardinality(NewerIn(S, f))
<1>1. NewerIn(S, f) \subseteq NewerIn(T, f)
  BY DEF NewerIn, Backups
<1>2. Cardinality(NewerIn(S, f)) <= Cardinality(NewerIn(T, f))
  BY <1>1, NewerFinite, FS_Subset
<1> QED BY <1>2, NewerFinite

\* Removing a file that n backups outnumber leaves n above every other such file: when it
\* was one of those above f, those above it are above f too.
LEMMA NewerSurvives ==
  ASSUME NEW S \in SUBSET Files, NEW f \in Files, NEW h \in Files, NEW n \in Nat,
         Cardinality(NewerIn(S, f)) >= n, Cardinality(NewerIn(S, h)) >= n
  PROVE  Cardinality(NewerIn(S \ {h}, f)) >= n
<1>0. /\ NewerIn(S \ {h}, f) \subseteq Files
      /\ IsFiniteSet(NewerIn(S \ {h}, f))
      /\ Cardinality(NewerIn(S \ {h}, f)) \in Nat
      /\ Cardinality(NewerIn(S, f)) \in Nat /\ Cardinality(NewerIn(S, h)) \in Nat
  <2>1. S \ {h} \in SUBSET Files
    OBVIOUS
  <2> QED BY <2>1, NewerFinite DEF NewerIn, Backups
<1>1. CASE Stamp[h] > Stamp[f]
  <2>1. NewerIn(S, h) \subseteq NewerIn(S \ {h}, f)
    BY <1>1, PruneAssumption DEF NewerIn, Backups
  <2>2. Cardinality(NewerIn(S, h)) <= Cardinality(NewerIn(S \ {h}, f))
    BY <2>1, <1>0, FS_Subset
  <2> QED BY <2>2, <1>0
<1>2. CASE ~(Stamp[h] > Stamp[f])
  <2>1. NewerIn(S, f) = NewerIn(S \ {h}, f)
    BY <1>2 DEF NewerIn, Backups
  <2> QED BY <2>1
<1> QED BY <1>1, <1>2

---------------------------------------------------------------------------
(* Types. *)

LEMMA PicksAreBackups ==
  ASSUME NEW S \in SUBSET Files, NEW time, NEW picked \in Picks(S, time)
  PROVE  picked \subseteq Backups(S) /\ picked \subseteq Files
BY DEF Picks, TooOld, BeyondCount, Backups

\* A listing holds some of the files that are there.
LEMMA ListingIsPart ==
  ASSUME NEW S \in SUBSET Files, NEW t
  PROVE  Listing(t, S) \subseteq S /\ Listing(t, S) \in SUBSET Files
BY DEF Listing

LEMMA InitType == Init => TypeOK
<1> SUFFICES ASSUME Init PROVE TypeOK
  OBVIOUS
<1>1. store \in [Targets -> SUBSET Files]
  BY PruneAssumption DEF Init
<1> QED BY <1>1, PruneAssumption DEF Init, TypeOK, Targets

LEMMA StepType == TypeOK /\ [Next]_vars => TypeOK'
<1> SUFFICES ASSUME TypeOK, [Next]_vars PROVE TypeOK'
  OBVIOUS
<1> USE DEF TypeOK, outside, prunerVars
<1>1. CASE Tick
  BY <1>1, PruneAssumption DEF Tick
<1>2. CASE Arrive
  BY <1>2 DEF Arrive
<1>3. ASSUME NEW p \in Pruners, Start(p) PROVE TypeOK'
  BY <1>3, PruneAssumption DEF Start, Targets
<1>4. ASSUME NEW p \in Pruners, ListTarget(p) PROVE TypeOK'
  <2>1. PICK picked \in Picks(Listing(target[p], store[target[p]]), now[p]) :
          candidates' = [candidates EXCEPT ![p] = picked]
    BY <1>4 DEF ListTarget
  <2>2. Listing(target[p], store[target[p]]) \in SUBSET Files
    BY <1>4, ListingIsPart DEF ListTarget
  <2>3. picked \subseteq Files
    BY <2>1, <2>2, PicksAreBackups
  <2> QED BY <2>1, <2>3, <1>4 DEF ListTarget
<1>5. ASSUME NEW p \in Pruners, Remove(p) PROVE TypeOK'
  BY <1>5 DEF Remove
<1>6. ASSUME NEW p \in Pruners, FailListing(p) PROVE TypeOK'
  BY <1>6 DEF FailListing
<1>7. ASSUME NEW p \in Pruners, FailRemoving(p) PROVE TypeOK'
  BY <1>7 DEF FailRemoving
<1>8. ASSUME NEW p \in Pruners, NextTarget(p) PROVE TypeOK'
  <2>1. CASE target[p] < NumTargets
    <3>1. target[p] + 1 \in Targets /\ target[p] + 1 \in Nat \ {0}
      BY <2>1, PruneAssumption DEF Targets
    <3>2. /\ target' = [target EXCEPT ![p] = target[p] + 1]
          /\ pc' = [pc EXCEPT ![p] = "list"]
      BY <1>8, <2>1 DEF NextTarget
    <3> QED BY <1>8, <3>1, <3>2 DEF NextTarget
  <2>2. CASE ~(target[p] < NumTargets)
    BY <1>8, <2>2 DEF NextTarget
  <2> QED BY <2>1, <2>2
<1>9. ASSUME NEW p \in Pruners, Crash(p) PROVE TypeOK'
  BY <1>9 DEF Crash
<1>10. CASE UNCHANGED vars
  BY <1>10 DEF vars
<1> QED BY <1>1, <1>2, <1>3, <1>4, <1>5, <1>6, <1>7, <1>8, <1>9, <1>10
        DEF Next, Pruner, Working

\* The variables keep their types.
THEOREM TypeCorrect == Spec => []TypeOK
BY InitType, StepType, PTL DEF Spec

---------------------------------------------------------------------------
(* A retention by count. *)

\* Every candidate is a backup, and enough more recent backups are in its target now.
Outnumbered ==
  RetainCount > 0 =>
    \A p \in Pruners : pc[p] = "remove" =>
      \A f \in candidates[p] :
        IsBackup[f] /\ Cardinality(NewerIn(store[target[p]], f)) >= RetainCount

\* What the code picks under a count is outnumbered when it is picked.
LEMMA PickedAreOutnumbered ==
  ASSUME DistinctStamps, RetainCount > 0,
         NEW S \in SUBSET Files, NEW time, NEW picked \in Picks(S, time), NEW f \in picked
  PROVE  f \in Files /\ IsBackup[f] /\ Cardinality(NewerIn(S, f)) >= RetainCount
<1>1. f \in Backups(S) /\ f \in Files /\ IsBackup[f]
  BY PicksAreBackups DEF Backups
<1>2. picked \in BeyondCount(S)
  BY OneRetention DEF Picks
<1>3. PICK k \in SUBSET Backups(S) :
        /\ Cardinality(k) = RetainCount
        /\ \A a \in k, b \in Backups(S) \ k : Stamp[a] >= Stamp[b]
        /\ picked = Backups(S) \ k
  BY <1>2, OneRetention DEF BeyondCount
<1>4. k \subseteq NewerIn(S, f)
  <2> SUFFICES ASSUME NEW a \in k PROVE a \in Backups(S) /\ Stamp[a] > Stamp[f]
    BY DEF NewerIn
  <2>1. a \in Files /\ IsBackup[a] /\ a # f
    BY <1>3 DEF Backups
  <2>2. Stamp[a] >= Stamp[f] /\ Stamp[a] # Stamp[f]
    BY <2>1, <1>1, <1>3 DEF DistinctStamps
  <2> QED BY <2>1, <2>2, <1>1, <1>3, PruneAssumption
<1>5. Cardinality(k) <= Cardinality(NewerIn(S, f))
  BY <1>1, <1>4, NewerFinite, FS_Subset
<1> QED BY <1>1, <1>3, <1>5, NewerFinite, OneRetention

\* Removing a candidate of p leaves every candidate outnumbered.
LEMMA RemovalKeepsOutnumbered ==
  ASSUME TypeOK, Outnumbered, RetainCount > 0,
         NEW p \in Pruners, pc[p] = "remove", NEW h \in candidates[p],
         store' = [store EXCEPT ![target[p]] = @ \ {h}],
         NEW q \in Pruners, pc[q] = "remove", NEW f \in candidates[q]
  PROVE  IsBackup[f] /\ Cardinality(NewerIn(store'[target[q]], f)) >= RetainCount
<1>1. /\ target[p] \in Targets /\ target[q] \in Targets
      /\ f \in Files /\ h \in Files
      /\ store[target[p]] \in SUBSET Files
  BY DEF TypeOK
<1>2. /\ IsBackup[f] /\ Cardinality(NewerIn(store[target[q]], f)) >= RetainCount
      /\ Cardinality(NewerIn(store[target[p]], h)) >= RetainCount
  BY DEF Outnumbered
<1>3. CASE target[q] = target[p]
  <2>1. store'[target[q]] = store[target[p]] \ {h}
    BY <1>1, <1>3 DEF TypeOK
  <2> QED BY <2>1, <1>1, <1>2, <1>3, NewerSurvives, OneRetention
<1>4. CASE target[q] # target[p]
  <2>1. store'[target[q]] = store[target[q]]
    BY <1>1, <1>4 DEF TypeOK
  <2> QED BY <2>1, <1>2
<1> QED BY <1>3, <1>4

LEMMA OutnumberedStep ==
  ASSUME DistinctStamps, TypeOK, Outnumbered, [Next]_vars
  PROVE  Outnumbered'
<1> USE DEF outside, prunerVars
<1> SUFFICES ASSUME RetainCount > 0, NEW q \in Pruners, pc'[q] = "remove",
                    NEW f \in candidates'[q]
             PROVE  IsBackup[f] /\ Cardinality(NewerIn(store'[target'[q]], f)) >= RetainCount
  <2>1. Outnumbered' <=> (RetainCount > 0 =>
          \A p \in Pruners : pc'[p] = "remove" =>
            \A f \in candidates'[p] :
              IsBackup[f] /\ Cardinality(NewerIn(store'[target'[p]], f)) >= RetainCount)
    BY DEF Outnumbered, NewerIn, Backups
  <2> QED BY <2>1
<1>0. ASSUME pc[q] = "remove", f \in candidates[q], target'[q] = target[q],
             store'[target[q]] = store[target[q]]
      PROVE  IsBackup[f] /\ Cardinality(NewerIn(store'[target'[q]], f)) >= RetainCount
  BY <1>0 DEF Outnumbered
<1>1. CASE Tick
  BY <1>1, <1>0 DEF Tick
<1>2. CASE Arrive
  <2>1. pc[q] = "remove" /\ f \in candidates[q] /\ target'[q] = target[q]
    BY <1>2 DEF Arrive
  <2>2. PICK t \in Targets, g \in Files : store' = [store EXCEPT ![t] = @ \cup {g}]
    BY <1>2 DEF Arrive
  <2>3. target[q] \in Targets /\ f \in Files
    BY <2>1 DEF TypeOK
  <2>4. /\ store[target[q]] \in SUBSET Files /\ store'[target[q]] \in SUBSET Files
        /\ store[target[q]] \subseteq store'[target[q]]
    BY <2>2, <2>3 DEF TypeOK
  <2>5. Cardinality(NewerIn(store'[target[q]], f)) >= Cardinality(NewerIn(store[target[q]], f))
    BY <2>3, <2>4, NewerGrows
  <2>6. IsBackup[f] /\ Cardinality(NewerIn(store[target[q]], f)) >= RetainCount
    BY <2>1 DEF Outnumbered
  <2> QED BY <2>1, <2>3, <2>4, <2>5, <2>6, NewerFinite, OneRetention
<1>3. ASSUME NEW p \in Pruners, Start(p)
      PROVE  IsBackup[f] /\ Cardinality(NewerIn(store'[target'[q]], f)) >= RetainCount
  <2>1. q # p
    BY <1>3 DEF Start, TypeOK
  <2> QED BY <2>1, <1>0, <1>3 DEF Start, TypeOK
<1>4. ASSUME NEW p \in Pruners, ListTarget(p)
      PROVE  IsBackup[f] /\ Cardinality(NewerIn(store'[target'[q]], f)) >= RetainCount
  <2>1. PICK picked \in Picks(Listing(target[p], store[target[p]]), now[p]) :
          candidates' = [candidates EXCEPT ![p] = picked]
    BY <1>4 DEF ListTarget
  <2>2. store[target[p]] \in SUBSET Files
    BY <1>4 DEF ListTarget, TypeOK
  <2> DEFINE listing == Listing(target[p], store[target[p]])
  <2>5. listing \subseteq store[target[p]] /\ listing \in SUBSET Files
    BY <2>2, ListingIsPart
  <2> HIDE DEF listing
  <2>3. CASE q = p
    <3>1. f \in picked
      BY <2>1, <2>3 DEF TypeOK
    <3>2. f \in Files /\ IsBackup[f] /\ Cardinality(NewerIn(listing, f)) >= RetainCount
      BY <3>1, <2>1, <2>5, PickedAreOutnumbered DEF listing
    <3>4. Cardinality(NewerIn(store[target[p]], f)) >= RetainCount
      <4>1. Cardinality(NewerIn(store[target[p]], f)) >= Cardinality(NewerIn(listing, f))
        BY <3>2, <2>2, <2>5, NewerGrows
      <4> QED BY <4>1, <3>2, <2>2, <2>5, NewerFinite, OneRetention
    <3>3. store' = store /\ target' = target
      BY <1>4 DEF ListTarget
    <3> QED BY <3>2, <3>3, <3>4, <2>3
  <2>4. CASE q # p
    BY <2>4, <2>1, <1>0, <1>4 DEF ListTarget, TypeOK
  <2> QED BY <2>3, <2>4
<1>5. ASSUME NEW p \in Pruners, Remove(p)
      PROVE  IsBackup[f] /\ Cardinality(NewerIn(store'[target'[q]], f)) >= RetainCount
  <2>1. PICK h \in candidates[p] :
          /\ store' = [store EXCEPT ![target[p]] = @ \ {h}]
          /\ candidates' = [candidates EXCEPT ![p] = @ \ {h}]
    BY <1>5 DEF Remove
  <2>2. pc[p] = "remove" /\ pc[q] = "remove" /\ f \in candidates[q] /\ target' = target
    BY <1>5, <2>1 DEF Remove, TypeOK
  <2> QED BY <2>1, <2>2, RemovalKeepsOutnumbered
<1>6. ASSUME NEW p \in Pruners, FailListing(p)
      PROVE  IsBackup[f] /\ Cardinality(NewerIn(store'[target'[q]], f)) >= RetainCount
  BY <1>6, <1>0 DEF FailListing, TypeOK
<1>7. ASSUME NEW p \in Pruners, FailRemoving(p)
      PROVE  IsBackup[f] /\ Cardinality(NewerIn(store'[target'[q]], f)) >= RetainCount
  <2>1. PICK h \in candidates[p] :
          store' = store \/ store' = [store EXCEPT ![target[p]] = @ \ {h}]
    BY <1>7 DEF FailRemoving
  <2>2. pc[p] = "remove" /\ pc[q] = "remove" /\ f \in candidates[q] /\ target' = target
    BY <1>7 DEF FailRemoving, TypeOK
  <2>3. CASE store' = store
    BY <2>2, <2>3, <1>0
  <2>4. CASE store' = [store EXCEPT ![target[p]] = @ \ {h}]
    BY <2>2, <2>4, RemovalKeepsOutnumbered
  <2> QED BY <2>1, <2>3, <2>4
<1>8. ASSUME NEW p \in Pruners, NextTarget(p)
      PROVE  IsBackup[f] /\ Cardinality(NewerIn(store'[target'[q]], f)) >= RetainCount
  <2>1. q # p
    BY <1>8 DEF NextTarget, TypeOK
  <2> QED BY <2>1, <1>0, <1>8 DEF NextTarget, TypeOK
<1>9. ASSUME NEW p \in Pruners, Crash(p)
      PROVE  IsBackup[f] /\ Cardinality(NewerIn(store'[target'[q]], f)) >= RetainCount
  BY <1>9, <1>0 DEF Crash, TypeOK
<1>10. CASE UNCHANGED vars
  BY <1>10, <1>0 DEF vars
<1> QED BY <1>1, <1>2, <1>3, <1>4, <1>5, <1>6, <1>7, <1>8, <1>9, <1>10
        DEF Next, Pruner, Working

LEMMA InitOutnumbered == Init => Outnumbered
BY DEF Init, Outnumbered

\* A step that loses a file removes it on behalf of a pruner that had it as a candidate.
LEMMA LostWasCandidate ==
  ASSUME TypeOK, [Next]_vars, NEW t \in Targets, NEW f \in store[t], f \notin store'[t]
  PROVE  \E p \in Pruners :
           /\ pc[p] = "remove" /\ target[p] = t /\ f \in candidates[p]
           /\ store' = [store EXCEPT ![t] = @ \ {f}]
           /\ UNCHANGED clock
<1> USE DEF outside, prunerVars
<1>1. CASE UNCHANGED store
  BY <1>1
<1>2. CASE Arrive
  BY <1>2 DEF Arrive, TypeOK
<1>3. ASSUME NEW p \in Pruners, NEW h \in candidates[p], pc[p] = "remove",
             store' = [store EXCEPT ![target[p]] = @ \ {h}], UNCHANGED clock
      PROVE  /\ target[p] = t /\ f \in candidates[p]
             /\ store' = [store EXCEPT ![t] = @ \ {f}]
  <2>1. target[p] = t
    BY <1>3 DEF TypeOK
  <2>2. f = h
    BY <1>3, <2>1 DEF TypeOK
  <2> QED BY <1>3, <2>1, <2>2
<1>4. ASSUME NEW p \in Pruners, Remove(p)
      PROVE  \E r \in Pruners :
               /\ pc[r] = "remove" /\ target[r] = t /\ f \in candidates[r]
               /\ store' = [store EXCEPT ![t] = @ \ {f}]
               /\ UNCHANGED clock
  <2>1. PICK h \in candidates[p] : store' = [store EXCEPT ![target[p]] = @ \ {h}]
    BY <1>4 DEF Remove
  <2>2. pc[p] = "remove" /\ UNCHANGED clock
    BY <1>4 DEF Remove
  <2> QED BY <2>1, <2>2, <1>3
<1>5. ASSUME NEW p \in Pruners, FailRemoving(p)
      PROVE  \E r \in Pruners :
               /\ pc[r] = "remove" /\ target[r] = t /\ f \in candidates[r]
               /\ store' = [store EXCEPT ![t] = @ \ {f}]
               /\ UNCHANGED clock
  <2>1. PICK h \in candidates[p] :
          store' = store \/ store' = [store EXCEPT ![target[p]] = @ \ {h}]
    BY <1>5 DEF FailRemoving
  <2>2. pc[p] = "remove" /\ UNCHANGED clock
    BY <1>5 DEF FailRemoving
  <2> QED BY <2>1, <2>2, <1>1, <1>3
<1>6. ASSUME NEW p \in Pruners,
             Start(p) \/ ListTarget(p) \/ FailListing(p) \/ NextTarget(p) \/ Crash(p)
      PROVE  UNCHANGED store
  BY <1>6 DEF Start, ListTarget, FailListing, NextTarget, Crash
<1>7. CASE Tick
  BY <1>7, <1>1 DEF Tick
<1>8. CASE UNCHANGED vars
  BY <1>8, <1>1 DEF vars
<1> QED BY <1>1, <1>2, <1>4, <1>5, <1>6, <1>7, <1>8 DEF Next, Pruner, Working

\* When names never share a date, any number of pruners, crashing and starting as they
\* like, leave the RetainCount most recent backups of every target alone.
THEOREM RecentBackupsSurvive == ASSUME DistinctStamps PROVE Spec => RecentKept
<1> DEFINE Kept ==
      RetainCount > 0 =>
        \A t \in Targets : \A f \in Lost(t) :
          /\ IsBackup[f]
          /\ Cardinality({g \in Backups(store'[t]) : Stamp[g] >= Stamp[f]}) >= RetainCount
<1>1. TypeOK /\ Outnumbered /\ [Next]_vars => Kept
  <2> SUFFICES ASSUME TypeOK, Outnumbered, [Next]_vars, RetainCount > 0,
                      NEW t \in Targets, NEW f \in Lost(t)
               PROVE  /\ IsBackup[f]
                      /\ Cardinality({g \in Backups(store'[t]) : Stamp[g] >= Stamp[f]})
                           >= RetainCount
    OBVIOUS
  <2> DEFINE atLeast == {g \in Backups(store'[t]) : Stamp[g] >= Stamp[f]}
  <2>1. f \in store[t] /\ f \notin store'[t]
    BY DEF Lost
  <2>2. PICK p \in Pruners :
          /\ pc[p] = "remove" /\ target[p] = t /\ f \in candidates[p]
          /\ store' = [store EXCEPT ![t] = @ \ {f}]
    BY <2>1, LostWasCandidate
  <2>3. IsBackup[f] /\ Cardinality(NewerIn(store[t], f)) >= RetainCount
    BY <2>2 DEF Outnumbered
  <2>4. store[t] \in SUBSET Files /\ f \in Files /\ store'[t] = store[t] \ {f}
    BY <2>1, <2>2 DEF TypeOK
  <2>5. NewerIn(store[t], f) \subseteq atLeast /\ atLeast \subseteq Files
    BY <2>4, PruneAssumption DEF NewerIn, Backups
  <2>6. IsFiniteSet(atLeast) /\ Cardinality(atLeast) \in Nat
    BY <2>5, PruneAssumption, FS_Subset, FS_CardinalityType
  <2>7. Cardinality(NewerIn(store[t], f)) <= Cardinality(atLeast)
    BY <2>5, <2>6, FS_Subset
  <2> HIDE DEF atLeast
  <2>8. Cardinality(atLeast) >= RetainCount
    BY <2>3, <2>4, <2>6, <2>7, NewerFinite, OneRetention
  <2> QED BY <2>3, <2>8 DEF atLeast
<1>2. TypeOK /\ Outnumbered /\ [Next]_vars => Outnumbered'
  BY OutnumberedStep
<1> QED BY InitType, StepType, InitOutnumbered, <1>1, <1>2, PTL DEF Spec, RecentKept

---------------------------------------------------------------------------
(* A retention by age. *)

\* Every candidate has the age, at a time that has passed.
OldEnough ==
  RetainHours > 0 =>
    \A p \in Pruners :
      /\ now[p] <= clock
      /\ pc[p] = "remove" =>
           \A f \in candidates[p] :
             IsBackup[f] /\ now[p] - Stamp[f] >= RetainHours * TicksPerHour

LEMMA OldEnoughStep == TypeOK /\ OldEnough /\ [Next]_vars => OldEnough'
<1> SUFFICES ASSUME TypeOK, OldEnough, [Next]_vars, RetainHours > 0, NEW q \in Pruners
             PROVE  /\ now'[q] <= clock'
                    /\ pc'[q] = "remove" =>
                         \A f \in candidates'[q] :
                           IsBackup[f] /\ now'[q] - Stamp[f] >= RetainHours * TicksPerHour
  BY DEF OldEnough
<1> USE DEF outside, prunerVars
<1>0. /\ now[q] <= clock /\ now[q] \in Int /\ clock \in Int
      /\ pc[q] = "remove" =>
           \A f \in candidates[q] :
             IsBackup[f] /\ now[q] - Stamp[f] >= RetainHours * TicksPerHour
  BY DEF OldEnough, TypeOK
<1>1. CASE Tick
  BY <1>0, <1>1 DEF Tick
<1>2. CASE Arrive
  BY <1>0, <1>2 DEF Arrive
<1>3. ASSUME NEW p \in Pruners, Start(p)
      PROVE  now'[q] <= clock' /\ (pc'[q] = "remove" => UNCHANGED <<now[q], candidates[q], pc[q]>>)
  BY <1>0, <1>3 DEF Start, TypeOK
<1>4. ASSUME NEW p \in Pruners, ListTarget(p)
      PROVE  pc'[q] = "remove" =>
               \A f \in candidates'[q] :
                 IsBackup[f] /\ now'[q] - Stamp[f] >= RetainHours * TicksPerHour
  <2>1. PICK picked \in Picks(Listing(target[p], store[target[p]]), now[p]) :
          candidates' = [candidates EXCEPT ![p] = picked]
    BY <1>4 DEF ListTarget
  <2>2. \A f \in picked : IsBackup[f] /\ now[p] - Stamp[f] >= RetainHours * TicksPerHour
    BY <2>1 DEF Picks, TooOld, Backups
  <2> QED BY <2>1, <2>2, <1>0, <1>4 DEF ListTarget, TypeOK
<1>5. ASSUME NEW p \in Pruners, Remove(p)
      PROVE  /\ UNCHANGED <<now, clock, pc>>
             /\ candidates'[q] \subseteq candidates[q]
  BY <1>5 DEF Remove, TypeOK
<1>6. ASSUME NEW p \in Pruners,
             FailListing(p) \/ FailRemoving(p) \/ NextTarget(p) \/ Crash(p)
      PROVE  /\ UNCHANGED <<now, clock, candidates>>
             /\ pc'[q] = "remove" => pc[q] = "remove"
  BY <1>6 DEF FailListing, FailRemoving, NextTarget, Crash, TypeOK
<1>7. CASE UNCHANGED vars
  BY <1>0, <1>7 DEF vars
<1>8. ASSUME NEW p \in Pruners, ListTarget(p) PROVE UNCHANGED <<now, clock>>
  BY <1>8 DEF ListTarget
<1> QED BY <1>0, <1>1, <1>2, <1>3, <1>4, <1>5, <1>6, <1>7, <1>8 DEF Next, Pruner, Working

\* When no name carries an offset west of Greenwich, no pruner removes a backup before
\* its age has reached the retention.
THEOREM YoungBackupsSurvive == ASSUME NoWest PROVE Spec => YoungKept
<1> DEFINE Kept ==
      RetainHours > 0 =>
        \A t \in Targets : \A f \in Lost(t) :
          /\ IsBackup[f]
          /\ clock - StartedAt(f) >= RetainHours * TicksPerHour
<1>1. Init => OldEnough
  BY PruneAssumption DEF Init, OldEnough
<1>2. TypeOK /\ OldEnough /\ [Next]_vars => Kept
  <2> SUFFICES ASSUME TypeOK, OldEnough, [Next]_vars, RetainHours > 0,
                      NEW t \in Targets, NEW f \in Lost(t)
               PROVE  IsBackup[f] /\ clock - StartedAt(f) >= RetainHours * TicksPerHour
    OBVIOUS
  <2>1. f \in store[t] /\ f \notin store'[t] /\ f \in Files
    BY DEF Lost, TypeOK
  <2>2. PICK p \in Pruners : pc[p] = "remove" /\ f \in candidates[p]
    BY <2>1, LostWasCandidate
  <2>3. /\ IsBackup[f] /\ now[p] - Stamp[f] >= RetainHours * TicksPerHour
        /\ now[p] <= clock
    BY <2>2 DEF OldEnough
  <2>4. /\ Stamp[f] \in Int /\ Zone[f] \in Int /\ Zone[f] >= 0
        /\ clock \in Int /\ now[p] \in Int
    BY <2>1, PruneAssumption DEF TypeOK, NoWest
  <2>5. RetainHours * TicksPerHour \in Int
    BY OneRetention, PruneAssumption
  <2>6. clock - StartedAt(f) >= now[p] - Stamp[f]
    BY <2>3, <2>4 DEF StartedAt
  <2> QED BY <2>3, <2>4, <2>5, <2>6 DEF StartedAt
<1> QED BY InitType, StepType, OldEnoughStep, <1>1, <1>2, PTL DEF Spec, YoungKept

---------------------------------------------------------------------------
(* What an ok answer means. *)

\* These files are within the retention.
Within(files, time) ==
  IF RetainHours > 0 THEN files \cap TooOld(Files, time) = {}
                     ELSE Cardinality(files) <= RetainCount

\* The backups pruner p found in target t at its start that are still there.
Left(p, t) == Backups(atStart[p][t] \cap store[t])

\* A file that is removed does not come back: it arrives once.
OnceOnly ==
  \A t \in Targets :
    /\ due[t] \cap store[t] = {}
    /\ \A p \in Pruners : due[t] \cap atStart[p][t] = {}

\* The targets behind the pruner are within the retention; the one it works on will be when
\* the candidates are gone.
WorkedOff(p, t) ==
  Cardinality(Files) <= PageSize[t] =>
    /\ pc[p] \in {"list", "remove"} /\ t < target[p] => Within(Left(p, t), now[p])
    /\ pc[p] = "ok" => Within(Left(p, t), now[p])
    /\ pc[p] = "remove" /\ t = target[p] => Within(Left(p, t) \ candidates[p], now[p])

AllWorkedOff == \A p \in Pruners, t \in Targets : WorkedOff(p, t)

LEMMA WithinShrinks ==
  ASSUME NEW S \in SUBSET Files, NEW T \in SUBSET S, NEW time, Within(S, time)
  PROVE  Within(T, time)
<1>1. IsFiniteSet(S) /\ Cardinality(T) <= Cardinality(S)
  BY PruneAssumption, FS_Subset
<1>2. IsFiniteSet(T) /\ Cardinality(T) \in Nat /\ Cardinality(S) \in Nat
  BY <1>1, FS_Subset, FS_CardinalityType
<1> QED BY <1>1, <1>2, OneRetention DEF Within

\* A page that is long enough holds every file.
LEMMA ListsAll ==
  ASSUME NEW S \in SUBSET Files, NEW t \in Targets, Cardinality(Files) <= PageSize[t]
  PROVE  Listing(t, S) = S
<1> SUFFICES ASSUME NEW f \in S
             PROVE  Cardinality({g \in S : ByName[g] < ByName[f]}) < PageSize[t]
  BY DEF Listing
<1> DEFINE before == {g \in S : ByName[g] < ByName[f]}
<1>1. before \subseteq Files \ {f}
  BY PruneAssumption
<1>2. /\ IsFiniteSet(Files) /\ IsFiniteSet(Files \ {f})
      /\ Cardinality(Files \ {f}) = Cardinality(Files) - 1
  BY PruneAssumption, FS_RemoveElement
<1>3. /\ IsFiniteSet(before) /\ Cardinality(before) <= Cardinality(Files \ {f})
  BY <1>1, <1>2, FS_Subset
<1>4. Cardinality(before) \in Nat /\ Cardinality(Files) \in Nat /\ PageSize[t] \in Nat
  BY <1>2, <1>3, PruneAssumption, FS_CardinalityType
<1> HIDE DEF before
<1> QED BY <1>2, <1>3, <1>4 DEF before

\* What is not picked is within the retention.
LEMMA UnpickedAreWithin ==
  ASSUME NEW S \in SUBSET Files, NEW time, NEW picked \in Picks(S, time)
  PROVE  Within(Backups(S) \ picked, time)
<1>1. CASE RetainHours > 0
  BY <1>1 DEF Picks, TooOld, Within, Backups
<1>2. CASE ~(RetainHours > 0)
  <2>0. picked \in BeyondCount(S) /\ RetainCount \in Nat
    BY <1>2, OneRetention DEF Picks
  <2>1. CASE Cardinality(Backups(S)) <= RetainCount
    <3>1. picked = {}
      BY <2>0, <2>1 DEF BeyondCount
    <3>2. Backups(S) \ picked = Backups(S)
      BY <3>1
    <3> QED BY <1>2, <2>1, <3>2 DEF Within
  <2>2. CASE ~(Cardinality(Backups(S)) <= RetainCount)
    <3>1. PICK k \in SUBSET Backups(S) : Cardinality(k) = RetainCount /\ picked = Backups(S) \ k
      BY <2>0, <2>2 DEF BeyondCount
    <3>2. Backups(S) \ picked = k
      BY <3>1
    <3> QED BY <1>2, <2>0, <3>1, <3>2 DEF Within
  <2> QED BY <2>1, <2>2
<1> QED BY <1>1, <1>2

LEMMA InitWorkedOff == Init => OnceOnly /\ AllWorkedOff
<1> SUFFICES ASSUME Init PROVE OnceOnly /\ AllWorkedOff
  OBVIOUS
<1>1. OnceOnly
  BY PruneAssumption DEF Init, OnceOnly
<1>2. AllWorkedOff
  BY DEF Init, AllWorkedOff, WorkedOff
<1> QED BY <1>1, <1>2

LEMMA OnceOnlyStep == TypeOK /\ OnceOnly /\ [Next]_vars => OnceOnly'
<1> SUFFICES ASSUME TypeOK, OnceOnly, [Next]_vars PROVE OnceOnly'
  OBVIOUS
<1> USE DEF outside, prunerVars
<1>1. CASE Tick
  BY <1>1 DEF Tick, OnceOnly
<1>2. CASE Arrive
  <2>1. PICK u \in Targets, f \in Files :
          /\ f \in due[u]
          /\ store' = [store EXCEPT ![u] = @ \cup {f}]
          /\ due' = [due EXCEPT ![u] = @ \ {f}]
    BY <1>2 DEF Arrive
  <2> QED BY <1>2, <2>1 DEF Arrive, OnceOnly, TypeOK
<1>3. ASSUME NEW p \in Pruners, Start(p) PROVE OnceOnly'
  BY <1>3 DEF Start, OnceOnly, TypeOK
<1>4. ASSUME NEW p \in Pruners, Remove(p) \/ FailRemoving(p) PROVE OnceOnly'
  <2>1. PICK h : store' = store \/ store' = [store EXCEPT ![target[p]] = @ \ {h}]
    BY <1>4 DEF Remove, FailRemoving
  <2>2. \A t \in Targets : store'[t] \subseteq store[t]
    BY <2>1 DEF TypeOK
  <2>3. UNCHANGED <<due, atStart>>
    BY <1>4 DEF Remove, FailRemoving
  <2> QED BY <2>2, <2>3 DEF OnceOnly
<1>5. ASSUME NEW p \in Pruners, ListTarget(p) \/ FailListing(p) \/ NextTarget(p) \/ Crash(p)
      PROVE  OnceOnly'
  BY <1>5 DEF ListTarget, FailListing, NextTarget, Crash, OnceOnly
<1>6. CASE UNCHANGED vars
  BY <1>6 DEF vars, OnceOnly
<1> QED BY <1>1, <1>2, <1>3, <1>4, <1>5, <1>6 DEF Next, Pruner, Working

\* What was there at a start only gets less.
LEMMA LeftShrinks ==
  ASSUME TypeOK, OnceOnly, [Next]_vars, NEW q \in Pruners, NEW t \in Targets,
         UNCHANGED atStart[q]
  PROVE  Left(q, t)' \subseteq Left(q, t) /\ Left(q, t) \in SUBSET Files
<1> USE DEF outside, prunerVars
<1>1. atStart[q][t] \cap store'[t] \subseteq store[t]
  <2>1. CASE Arrive
    <3>1. PICK u \in Targets, f \in Files :
            f \in due[u] /\ store' = [store EXCEPT ![u] = @ \cup {f}]
      BY <2>1 DEF Arrive
    <3> QED BY <3>1 DEF OnceOnly, TypeOK
  <2>2. ASSUME NEW p \in Pruners, Remove(p) \/ FailRemoving(p) PROVE store'[t] \subseteq store[t]
    <3>1. PICK h : store' = store \/ store' = [store EXCEPT ![target[p]] = @ \ {h}]
      BY <2>2 DEF Remove, FailRemoving
    <3> QED BY <3>1 DEF TypeOK
  <2>3. ASSUME NEW p \in Pruners,
               Start(p) \/ ListTarget(p) \/ FailListing(p) \/ NextTarget(p) \/ Crash(p)
        PROVE  UNCHANGED store
    BY <2>3 DEF Start, ListTarget, FailListing, NextTarget, Crash
  <2>4. CASE Tick \/ UNCHANGED vars
    BY <2>4 DEF Tick, vars
  <2> QED BY <2>1, <2>2, <2>3, <2>4 DEF Next, Pruner, Working
<1>2. Left(q, t)' = Backups(atStart[q][t] \cap store'[t])
  BY DEF Left, Backups
<1> QED BY <1>1, <1>2 DEF Left, Backups, TypeOK

LEMMA StandingWorkedOff ==
  ASSUME TypeOK, OnceOnly, [Next]_vars, NEW q \in Pruners, NEW t \in Targets, WorkedOff(q, t),
         UNCHANGED <<atStart[q], now[q], pc[q], target[q], candidates[q]>>
  PROVE  WorkedOff(q, t)'
<1>1. Left(q, t)' \subseteq Left(q, t) /\ Left(q, t) \in SUBSET Files
  BY LeftShrinks
<1>2. Within(Left(q, t), now[q]) => Within(Left(q, t)', now[q])
  BY <1>1, WithinShrinks
<1>3. Within(Left(q, t) \ candidates[q], now[q]) => Within(Left(q, t)' \ candidates[q], now[q])
  BY <1>1, WithinShrinks
<1> QED BY <1>2, <1>3 DEF WorkedOff

\* A pruner's own steps.
LEMMA OwnStepWorkedOff ==
  ASSUME TypeOK, OnceOnly, [Next]_vars, NEW q \in Pruners, NEW t \in Targets, WorkedOff(q, t),
         Pruner(q), Cardinality(Files) <= PageSize[t]
  PROVE  WorkedOff(q, t)'
<1> USE DEF outside, prunerVars
<1>0. /\ target[q] \in Nat \ {0} /\ candidates[q] \in SUBSET Files /\ store[t] \in SUBSET Files
      /\ pc[q] \in {"list", "remove"} => target[q] \in Targets
  BY DEF TypeOK
<1>1. ASSUME UNCHANGED atStart[q]
      PROVE  /\ Left(q, t)' \subseteq Left(q, t) /\ Left(q, t) \in SUBSET Files
             /\ Within(Left(q, t), now[q]) => Within(Left(q, t)', now[q])
  <2>1. Left(q, t)' \subseteq Left(q, t) /\ Left(q, t) \in SUBSET Files
    BY <1>1, LeftShrinks
  <2> QED BY <2>1, WithinShrinks
<1>2. CASE Start(q)
  <2>1. pc'[q] \in {"list", "error"} /\ target'[q] = 1
    BY <1>2 DEF Start, TypeOK
  <2> QED BY <2>1, PruneAssumption DEF WorkedOff, Targets
<1>3. CASE ListTarget(q)
  <2>1. /\ pc[q] = "list" /\ pc'[q] = "remove"
        /\ UNCHANGED <<store, atStart, now[q], target[q], atStart[q]>>
    BY <1>3 DEF ListTarget, TypeOK
  <2>2. PICK picked \in Picks(Listing(target[q], store[target[q]]), now[q]) : candidates'[q] = picked
    BY <1>3 DEF ListTarget, TypeOK
  <2>3. CASE t = target[q]
    <3>1. picked \in Picks(store[t], now[q])
      BY <1>0, <2>2, <2>3, ListsAll
    <3>2. Within(Backups(store[t]) \ picked, now[q])
      BY <1>0, <3>1, UnpickedAreWithin
    <3>3. Left(q, t)' \ picked \subseteq Backups(store[t]) \ picked
      BY <2>1 DEF Left, Backups
    <3>4. Backups(store[t]) \ picked \in SUBSET Files
      BY <1>0 DEF Backups
    <3>5. Within(Left(q, t)' \ picked, now[q])
      BY <3>2, <3>3, <3>4, WithinShrinks
    <3> QED BY <1>0, <2>1, <2>2, <2>3, <3>5 DEF WorkedOff
  <2>4. CASE t # target[q]
    BY <1>1, <2>1, <2>4 DEF WorkedOff
  <2> QED BY <2>3, <2>4
<1>4. CASE Remove(q)
  <2>1. /\ pc[q] = "remove" /\ UNCHANGED <<pc[q], now[q], target[q], atStart[q], atStart>>
    BY <1>4 DEF Remove
  <2>2. PICK f \in candidates[q] : /\ store' = [store EXCEPT ![target[q]] = @ \ {f}]
                                  /\ candidates'[q] = candidates[q] \ {f}
    BY <1>4 DEF Remove, TypeOK
  <2>3. CASE t = target[q]
    <3>1. f \notin Left(q, t)'
      BY <2>1, <2>2, <2>3 DEF Left, Backups, TypeOK
    <3>2. Left(q, t)' \ candidates'[q] \subseteq Left(q, t) \ candidates[q]
      BY <1>1, <2>1, <2>2, <3>1
    <3>3. Left(q, t) \ candidates[q] \in SUBSET Files
      BY <1>1, <2>1
    <3>4. Within(Left(q, t) \ candidates[q], now[q])
      BY <2>1, <2>3 DEF WorkedOff
    <3>5. Within(Left(q, t)' \ candidates'[q], now[q])
      BY <3>2, <3>3, <3>4, WithinShrinks
    <3> QED BY <1>0, <2>1, <2>3, <3>5 DEF WorkedOff
  <2>4. CASE t # target[q]
    BY <1>1, <2>1, <2>4 DEF WorkedOff
  <2> QED BY <2>3, <2>4
<1>5. CASE FailListing(q) \/ FailRemoving(q) \/ Crash(q)
  <2>1. pc'[q] \in {"error", "idle"}
    BY <1>5 DEF FailListing, FailRemoving, Crash, TypeOK
  <2> QED BY <2>1 DEF WorkedOff
<1>6. CASE NextTarget(q)
  <2>1. /\ pc[q] = "remove" /\ candidates[q] = {}
        /\ UNCHANGED <<now[q], atStart[q], candidates[q]>>
    BY <1>6 DEF NextTarget
  <2>2. t <= target[q] => Within(Left(q, t)', now[q])
    <3>1. CASE t = target[q]
      <4>1. Within(Left(q, t) \ {}, now[q])
        BY <2>1, <3>1 DEF WorkedOff
      <4>2. Left(q, t) \ {} = Left(q, t)
        OBVIOUS
      <4> QED BY <1>1, <2>1, <4>1, <4>2
    <3>2. CASE t < target[q]
      BY <1>1, <2>1, <3>2 DEF WorkedOff
    <3> QED BY <1>0, <3>1, <3>2 DEF Targets
  <2>3. CASE target[q] < NumTargets
    <3>1. pc'[q] = "list" /\ target'[q] = target[q] + 1
      BY <1>6, <2>3 DEF NextTarget, TypeOK
    <3> QED BY <1>0, <2>1, <2>2, <3>1 DEF WorkedOff, Targets
  <2>4. CASE ~(target[q] < NumTargets)
    <3>1. pc'[q] = "ok" /\ t <= target[q]
      BY <1>0, <1>6, <2>1, <2>4, PruneAssumption DEF NextTarget, TypeOK, Targets
    <3> QED BY <2>1, <2>2, <3>1 DEF WorkedOff
  <2> QED BY <2>3, <2>4
<1> QED BY <1>2, <1>3, <1>4, <1>5, <1>6 DEF Pruner, Working

LEMMA WorkedOffStep == TypeOK /\ OnceOnly /\ AllWorkedOff /\ [Next]_vars => AllWorkedOff'
<1> SUFFICES ASSUME TypeOK, OnceOnly, AllWorkedOff, [Next]_vars,
                    NEW q \in Pruners, NEW t \in Targets
             PROVE  WorkedOff(q, t)'
  BY DEF AllWorkedOff
<1> USE DEF outside, prunerVars
<1>0. WorkedOff(q, t)
  BY DEF AllWorkedOff
<1>1. CASE Tick \/ Arrive \/ UNCHANGED vars
  <2>1. UNCHANGED <<atStart[q], now[q], pc[q], target[q], candidates[q]>>
    BY <1>1 DEF Tick, Arrive, vars
  <2> QED BY <1>0, <2>1, StandingWorkedOff
<1>2. ASSUME NEW p \in Pruners, Pruner(p), p # q PROVE WorkedOff(q, t)'
  <2>1. UNCHANGED <<atStart[q], now[q], pc[q], target[q], candidates[q]>>
    BY <1>2 DEF Pruner, Working, Start, ListTarget, Remove, FailListing, FailRemoving, NextTarget,
                Crash, TypeOK
  <2> QED BY <1>0, <2>1, StandingWorkedOff
<1>3. CASE Pruner(q)
  <2>1. CASE Cardinality(Files) <= PageSize[t]
    BY <1>0, <1>3, <2>1, OwnStepWorkedOff
  <2>2. CASE ~(Cardinality(Files) <= PageSize[t])
    BY <2>2 DEF WorkedOff
  <2> QED BY <2>1, <2>2
<1> QED BY <1>1, <1>2, <1>3 DEF Next

\* An ok answer is true of every target that lists all it has (prune.go:48-54, 143-148), however
\* many others add, prune, fail and are killed meanwhile, and it stays true.
THEOREM OkIsPruned == Spec => []OkMeansPruned
<1>1. AllWorkedOff => OkMeansPruned
  <2> SUFFICES ASSUME AllWorkedOff, NEW p \in Pruners, pc[p] = "ok", NEW t \in Targets,
                      Cardinality(Files) <= PageSize[t]
               PROVE  Pruned(p, t)
    BY DEF OkMeansPruned
  <2>1. Within(Left(p, t), now[p])
    BY DEF AllWorkedOff, WorkedOff
  <2> QED BY <2>1 DEF Within, Left, Pruned
<1> QED BY <1>1, InitType, StepType, InitWorkedOff, OnceOnlyStep, WorkedOffStep, PTL DEF Spec

---------------------------------------------------------------------------
(* Storage and TargetCall. *)

callAndStorage == <<storageVars, callVars>>

\* What each name leads to: the pushed file is there until it is removed.
Types ==
  /\ protocol \in {"file", "smb", "s3", "scp"}
  /\ pushes \in Nat
  /\ latest \in [Name -> Nat]

Kept ==
  \A n \in Name : latest[n] # 0 =>
    /\ PushPlace(Clean(n)) \in Places
    /\ objects[PushPlace(Clean(n))] = latest[n]

\* Of a target that is not scp everything that is open has its deferred call.
Covered ==
  /\ returning => call # "none"
  /\ call \in Calls \cup {"none"}
  /\ call # "none" => opened \in Nat
  /\ protocol # "scp" => held = deferred
  /\ call = "none" => deferred = {}

---------------------------------------------------------------------------
(* The names. *)

LEMMA CleanName == ASSUME NEW n \in Name PROVE Clean(n) \in Name
BY DEF Clean, Dashes, Name

\* Different names lead to different places.
LEMMA OnePlaceEach ==
  ASSUME NEW n, NEW m, PushPlace(n) = PushPlace(m) PROVE n = m
BY DEF PushPlace, At

\* The prefix of a target's keys fits every place in its directory.
LEMMA OwnDirectoryHasPrefix == ASSUME NEW n PROVE HasPrefix(At(Dir, n))
<1> DEFINE path == Append(Dir, FileSegment)
<1> DEFINE Segments == STRING \cup {FileSegment}
<1>1. Dir \in Seq(Segments) /\ FileSegment \in Segments
  BY StorageAssumption
<1>2. /\ Len(path) = Len(Dir) + 1 /\ Len(Dir) \in Nat
      /\ \A i \in 1..Len(Dir) : path[i] = Dir[i]
  BY <1>1
<1>3. At(Dir, n).dir = Dir
  BY DEF At
<1>4. CASE Dir = <<>>
  BY <1>4 DEF HasPrefix
<1>5. CASE Dir # <<>>
  <2>1. Len(Dir) \in 1..Len(Dir)
    BY <1>1, <1>5
  <2> QED BY <1>2, <1>3, <2>1 DEF HasPrefix
<1> QED BY <1>4, <1>5

\* What is pushed is listed.
LEMMA PushIsListed == ASSUME Types, NEW n PROVE Lists(PushPlace(n))
BY OwnDirectoryHasPrefix DEF Types, Lists, PushPlace, At

\* But for smb, a file is pulled from where it was pushed.
LEMMA PullsWherePushed ==
  ASSUME Types, protocol # "smb", NEW n PROVE PullPlace(n) = PushPlace(n)
BY DEF Types, PullPlace, PushPlace

\* ReadDir answers nothing but what is there and matches.
LEMMA ListsTheMatching ==
  ASSUME ReadDir
  PROVE  /\ \A p \in listed' : p \in Places /\ Lists(p)
         /\ UNCHANGED <<protocol, objects, pushes, latest, pulled>>
BY DEF ReadDir, Listings, Matching

---------------------------------------------------------------------------
(* The work of the calls. *)

\* Every file that was pushed and is still there is one that ReadDir asks for.
PushedMatches == \A p \in Places : objects[p] # 0 => Lists(p)

Right == PushedMatches /\ Kept

LEMMA InitStorage == StorageInit => Types /\ Right
<1> SUFFICES ASSUME StorageInit PROVE Types /\ Right
  OBVIOUS
<1>1. Types
  BY StorageAssumption DEF StorageInit, Types
<1>2. PushedMatches
  BY DEF StorageInit, PushedMatches, Places
<1>3. Kept
  BY DEF StorageInit, Kept
<1> QED BY <1>1, <1>2, <1>3 DEF StorageInit, Right

LEMMA PushKeeps == ASSUME Types, Right, Push PROVE Types' /\ Right'
<1>1. PICK n \in Name :
        /\ objects' = [p \in Places \cup {PushPlace(Clean(n))} |->
                         IF p = PushPlace(Clean(n)) THEN pushes + 1 ELSE objects[p]]
        /\ latest' = [m \in Name |-> IF Clean(m) = Clean(n) THEN pushes + 1 ELSE latest[m]]
  BY DEF Push
<1>2. pushes' = pushes + 1 /\ UNCHANGED protocol
  BY DEF Push
<1>3. Types'
  BY <1>1, <1>2 DEF Types
<1>4. Places' = Places \cup {PushPlace(Clean(n))}
  BY <1>1 DEF Places
<1>5. \A p : Lists(p)' <=> Lists(p)
  BY <1>2 DEF Lists, HasPrefix
<1>6. PushedMatches'
  BY <1>1, <1>4, <1>5, PushIsListed DEF Right, PushedMatches
<1>7. \A m : PushPlace(Clean(m))' = PushPlace(Clean(m))
  BY <1>2 DEF PushPlace, Clean
<1>8. ASSUME NEW m \in Name, latest'[m] # 0
      PROVE  /\ PushPlace(Clean(m)) \in Places'
             /\ objects'[PushPlace(Clean(m))] = latest'[m]
  <2>1. CASE Clean(m) = Clean(n)
    BY <1>1, <1>4, <2>1
  <2>2. CASE Clean(m) # Clean(n)
    <3>1. PushPlace(Clean(m)) # PushPlace(Clean(n))
      BY <2>2, OnePlaceEach
    <3>2. latest'[m] = latest[m]
      BY <1>1, <2>2
    <3>3. PushPlace(Clean(m)) \in Places /\ objects[PushPlace(Clean(m))] = latest[m]
      BY <1>8, <3>2 DEF Right, Kept
    <3> QED BY <1>1, <1>4, <3>1, <3>2, <3>3
  <2> QED BY <2>1, <2>2
<1>9. Kept'
  BY <1>7, <1>8 DEF Kept
<1> QED BY <1>2, <1>3, <1>6, <1>9 DEF Right

LEMMA RemoveKeeps == ASSUME Types, Right, RemoveListed PROVE Types' /\ Right'
<1>1. PICK p \in listed :
        /\ objects' = [q \in Places \ {RemovePlace(p)} |-> objects[q]]
        /\ latest' = [n \in Name |->
                        IF PushPlace(Clean(n)) = RemovePlace(p) THEN 0 ELSE latest[n]]
  BY DEF RemoveListed
<1>2. UNCHANGED <<protocol, pushes>>
  BY DEF RemoveListed
<1>3. Types'
  BY <1>1, <1>2 DEF Types
<1>4. Places' = Places \ {RemovePlace(p)}
  BY <1>1 DEF Places
<1>5. \A q : (Lists(q)' <=> Lists(q)) /\ PushPlace(Clean(q))' = PushPlace(Clean(q))
  BY <1>2 DEF Lists, HasPrefix, PushPlace, Clean
<1>6. PushedMatches'
  BY <1>1, <1>4, <1>5 DEF Right, PushedMatches
<1>7. Kept'
  BY <1>1, <1>4, <1>5 DEF Right, Kept
<1> QED BY <1>2, <1>3, <1>6, <1>7 DEF Right

LEMMA PullKeeps == ASSUME Types, Right, Pull PROVE Types' /\ Right'
<1>1. UNCHANGED <<protocol, objects, pushes, latest>>
  BY DEF Pull
<1> QED BY <1>1 DEF Types, Right, PushedMatches, Kept, Places, Lists, HasPrefix, PushPlace, Clean

\* A pull takes the file from where the last push of the name has put it.
LEMMA PullGetsIt == ASSUME "smb" \notin Restored, Types, Right, Pull PROVE PullGetsPushed'
<1>1. PICK n \in Name :
        /\ latest[n] # 0 /\ n = Clean(n)
        /\ pulled' = <<n, latest[n], IF PullPlace(n) \in Places THEN objects[PullPlace(n)] ELSE -1>>
  BY DEF Pull
<1>2. protocol # "smb"
  BY DEF Pull
<1>3. PullPlace(n) = PushPlace(Clean(n))
  BY <1>1, <1>2, PullsWherePushed
<1> QED BY <1>1, <1>3 DEF Right, Kept, PullGetsPushed

---------------------------------------------------------------------------
(* What a call opens. *)

\* Nothing that is left open by design is opened for the other protocols.
LEMMA ClosesWhatItOpens ==
  ASSUME Types, protocol # "scp", NEW c \in Calls, NEW i \in 1..Len(Opens(c))
  PROVE  Defers(Opens(c)[i]) = {Opens(c)[i]}
<1>1. CASE protocol = "file"
  BY <1>1 DEF Opens, Defers, Calls, Copies
<1>2. CASE protocol = "s3"
  BY <1>2 DEF Opens, Defers, Calls, Copies
<1>3. CASE protocol = "smb"
  <2>1. CASE c = "Push"
    BY <1>3, <2>1 DEF Opens, Defers
  <2>2. CASE c = "Pull"
    BY <1>3, <2>2 DEF Opens, Defers
  <2>3. CASE c \notin {"Push", "Pull"}
    BY <1>3, <2>3 DEF Opens, Defers
  <2> QED BY <2>1, <2>2, <2>3
<1> QED BY <1>1, <1>2, <1>3 DEF Types

Inv == Types /\ Right /\ Covered

LEMMA InitCall == CallInit => Inv
BY InitStorage DEF CallInit, Inv, Covered

LEMMA StepCall ==
  ASSUME Inv, [CallNext]_callAndStorage PROVE Inv'
<1> USE DEF Inv
<1>1. ASSUME UNCHANGED storageVars PROVE Types' /\ Right'
  BY <1>1 DEF storageVars, Types, Right, PushedMatches, Kept, Places, Lists, HasPrefix, PushPlace, Clean
<1>2. CASE Begin
  BY <1>1, <1>2 DEF Begin, Covered, storageVars
<1>3. CASE Open
  <2>1. Covered'
    <3>1. protocol # "scp" => held' = deferred'
      <4> SUFFICES ASSUME protocol # "scp" PROVE held' = deferred'
        OBVIOUS
      <4>1. opened + 1 \in 1..Len(Opens(call)) /\ call \in Calls
        BY <1>3 DEF Open, Covered
      <4>2. Defers(Opens(call)[opened + 1]) = {Opens(call)[opened + 1]}
        BY <4>1, ClosesWhatItOpens
      <4> QED BY <1>3, <4>2 DEF Open, Covered
    <3> QED BY <1>3, <3>1 DEF Open, Covered, storageVars
  <2> QED BY <1>1, <1>3, <2>1 DEF Open
<1>4. CASE OpenFails \/ WorkFails
  BY <1>1, <1>4 DEF OpenFails, WorkFails, Covered, storageVars
<1>5. CASE Work
  <2>1. Types' /\ Right'
    <3>1. CASE Push
      BY <3>1, PushKeeps
    <3>2. CASE ReadDir
      BY <3>2, ListsTheMatching
         DEF Types, Right, PushedMatches, Kept, Places, Lists, HasPrefix, PushPlace, Clean
    <3>3. CASE RemoveListed
      BY <3>3, RemoveKeeps
    <3>4. CASE Pull
      BY <3>4, PullKeeps
    <3> QED BY <1>5, <3>1, <3>2, <3>3, <3>4 DEF Work
  <2>2. UNCHANGED protocol
    BY <1>5 DEF Work, Push, ReadDir, RemoveListed, Pull
  <2> QED BY <1>5, <2>1, <2>2 DEF Work, Covered
<1>6. CASE Return
  BY <1>1, <1>6 DEF Return, Covered, storageVars
<1>7. CASE UNCHANGED callAndStorage
  BY <1>1, <1>7 DEF callAndStorage, callVars, storageVars, Covered
<1> QED BY <1>2, <1>3, <1>4, <1>5, <1>6, <1>7 DEF CallNext

---------------------------------------------------------------------------
(* The theorems. *)

\* The invariant: where a pushed file is, and that what is open has its deferred call.
THEOREM Invariance == CallSpec => []Inv
BY InitCall, StepCall, PTL DEF CallSpec, callAndStorage

\* A prune sees every backup that was pushed and is still there, whatever the directory of the
\* URL, if one page holds what it asks for (ReadDir against Push of each protocol).
THEOREM PrunesSeeAll == CallSpec => []PushedIsListed
<1>1. Inv => PushedIsListed
  BY DEF Inv, Right, PushedMatches, PushedIsListed, Listings, Matching
<1> QED BY <1>1, Invariance, PTL

\* A call that has returned, at whatever step it failed, holds nothing open on a file, smb or s3
\* target (file.go:66-82, smb.go:134-176, s3.go:70-128).
THEOREM NothingStaysOpen == CallSpec => []HoldsNothing
<1>1. Inv => HoldsNothing
  BY DEF Inv, Covered, HoldsNothing
<1> QED BY <1>1, Invariance, PTL

\* A restore gets what was last pushed under the name (Pull against Push of file, s3 and scp;
\* that of smb takes another name).
THEOREM RestoresGetIt == ASSUME "smb" \notin Restored PROVE CallSpec => []PullGetsPushed
<1>1. CallInit => PullGetsPushed
  BY DEF CallInit, StorageInit, PullGetsPushed
<1>2. ASSUME Inv, PullGetsPushed, [CallNext]_callAndStorage PROVE PullGetsPushed'
  <2>1. CASE Pull
    BY <1>2, <2>1, PullGetsIt DEF Inv
  <2>2. CASE UNCHANGED pulled
    BY <1>2, <2>2 DEF PullGetsPushed
  <2>3. UNCHANGED pulled \/ Pull
    BY <1>2 DEF CallNext, Begin, Open, OpenFails, Work, WorkFails, Return, Push, ReadDir, RemoveListed,
         callAndStorage, storageVars
  <2> QED BY <2>1, <2>2, <2>3
<1> QED BY <1>1, <1>2, Invariance, PTL DEF CallSpec, callAndStorage

---------------------------------------------------------------------------
(* What a prune removes. *)

\* What others have put on the server has names like those of backups, and no colons in the
\* directory of an smb target, which does not take them.
ProperPlaces ==
  \A others \in OtherPlaces : \A p \in others :
    /\ p = At(p.dir, p.name) /\ p.name \in Name
    /\ "smb" \in Protocols /\ p.dir = Dir => ~p.name.colons

\* scp logins start in the directory of the URL, and no other directory of a bucket starts
\* with its name.
OwnDirectory ==
  /\ "scp" \in Protocols => Home = Dir
  /\ "s3" \in Protocols =>
       \A others \in OtherPlaces : \A p \in others : HasPrefix(p) => p.dir = Dir

Proper(p) ==
  /\ p = At(p.dir, p.name) /\ p.name \in Name
  /\ protocol = "smb" /\ p.dir = Dir => ~p.name.colons

\* Every place, and every one that is listed.
AllProper ==
  /\ \A p \in Places : Proper(p)
  /\ \A p \in listed : Proper(p) /\ Lists(p)

AllOwn ==
  /\ protocol = "scp" => Home = Dir
  /\ \A p \in Places : Lists(p) => p.dir = Dir
  /\ \A p \in listed : p.dir = Dir

\* Remove takes the entry it is given.
LEMMA RemovesTheEntry ==
  ASSUME Types, NEW p, Proper(p), Lists(p) PROVE RemovePlace(p) = p
<1>1. CASE protocol = "smb"
  <2>1. p = At(Dir, p.name) /\ p.name \in Name /\ ~p.name.colons
    BY <1>1 DEF Proper, Lists
  <2>2. Dashes(p.name) = p.name
    BY <2>1 DEF Dashes, Name
  <2> QED BY <1>1, <2>1, <2>2 DEF RemovePlace
<1>2. CASE protocol = "s3"
  BY <1>2 DEF RemovePlace
<1>3. CASE protocol = "file"
  BY <1>3 DEF RemovePlace, Proper, Lists
<1>4. CASE protocol = "scp"
  BY <1>4 DEF RemovePlace, Proper, Lists
<1> QED BY <1>1, <1>2, <1>3, <1>4 DEF Types

\* A place of a push is proper, and in the target's own directory.
LEMMA PushesProperly ==
  ASSUME Types, NEW n \in Name
  PROVE  /\ Proper(PushPlace(Clean(n)))
         /\ (protocol = "scp" => Home = Dir) => PushPlace(Clean(n)).dir = Dir
<1>1. Clean(n) \in Name
  BY CleanName
<1>2. protocol = "smb" => ~Clean(n).colons
  BY DEF Clean, Dashes, Name
<1> QED BY <1>1, <1>2 DEF Proper, PushPlace, At

\* What the calls do to the places and the list.
LEMMA PlacesChange ==
  ASSUME [CallNext]_callAndStorage
  PROVE  /\ UNCHANGED protocol
         /\ \/ UNCHANGED <<listed, gone>> /\ (UNCHANGED objects \/ Push)
            \/ ReadDir
            \/ RemoveListed
<1>1. CASE Work
  BY <1>1 DEF Work, Push, ReadDir, RemoveListed, Pull
<1>2. CASE ~Work
  <2>1. UNCHANGED storageVars
    BY <1>2 DEF CallNext, Begin, Open, OpenFails, WorkFails, Return, callAndStorage
  <2> QED BY <2>1 DEF storageVars
<1> QED BY <1>1, <1>2

LEMMA PushAdds ==
  ASSUME Push PROVE \E n \in Name : Places' = Places \cup {PushPlace(Clean(n))}
BY DEF Push, Places

LEMMA RemoveTakes ==
  ASSUME RemoveListed
  PROVE  \E p \in listed : /\ Places' = Places \ {RemovePlace(p)}
                           /\ listed' = listed \ {p} /\ gone' = gone \cup {p}
BY DEF RemoveListed, Places

LEMMA ProperStep == ASSUME Types, AllProper, [CallNext]_callAndStorage PROVE AllProper'
<1>1. UNCHANGED protocol /\ \A p : (Proper(p)' <=> Proper(p)) /\ (Lists(p)' <=> Lists(p))
  BY PlacesChange DEF Proper, Lists, HasPrefix
<1>2. CASE ReadDir
  BY <1>1, <1>2, ListsTheMatching DEF AllProper, Places
<1>3. CASE RemoveListed
  BY <1>1, <1>3, RemoveTakes DEF AllProper
<1>4. CASE UNCHANGED listed /\ Push
  BY <1>1, <1>4, PushAdds, PushesProperly DEF AllProper
<1>5. CASE UNCHANGED <<listed, objects>>
  BY <1>1, <1>5 DEF AllProper, Places
<1> QED BY <1>2, <1>3, <1>4, <1>5, PlacesChange

LEMMA OwnStep == ASSUME Types, AllOwn, [CallNext]_callAndStorage PROVE AllOwn'
<1>1. UNCHANGED protocol /\ \A p : Lists(p)' <=> Lists(p)
  BY PlacesChange DEF Lists, HasPrefix
<1>2. CASE ReadDir
  BY <1>1, <1>2, ListsTheMatching DEF AllOwn, Places
<1>3. CASE RemoveListed
  BY <1>1, <1>3, RemoveTakes DEF AllOwn
<1>4. CASE UNCHANGED listed /\ Push
  BY <1>1, <1>4, PushAdds, PushesProperly DEF AllOwn
<1>5. CASE UNCHANGED <<listed, objects>>
  BY <1>1, <1>5 DEF AllOwn, Places
<1> QED BY <1>2, <1>3, <1>4, <1>5, PlacesChange

\* Removing a listed entry removes that entry and nothing else (prune.go:143-148, Remove
\* against ReadDir of each protocol).
THEOREM RemovesTheListed == ASSUME ProperPlaces PROVE CallSpec => RemovesWhatItListed
<1> DEFINE Exactly == \A p \in gone' \ gone : Places \ Places' = {p} \cap Places
<1>1. CallInit => AllProper
  <2> SUFFICES ASSUME CallInit PROVE AllProper
    OBVIOUS
  <2>1. PICK others \in OtherPlaces : Places = others
    BY DEF CallInit, StorageInit, Places
  <2> QED BY <2>1 DEF CallInit, StorageInit, AllProper, Proper, ProperPlaces
<1>2. ASSUME Inv, AllProper, [CallNext]_callAndStorage PROVE AllProper' /\ Exactly
  <2>1. AllProper'
    BY <1>2, ProperStep DEF Inv
  <2>2. CASE RemoveListed
    <3>1. PICK p \in listed : Places' = Places \ {RemovePlace(p)} /\ gone' = gone \cup {p}
      BY <2>2, RemoveTakes
    <3>2. RemovePlace(p) = p
      BY <1>2, <3>1, RemovesTheEntry DEF Inv, AllProper
    <3> QED BY <2>1, <3>1, <3>2
  <2>3. CASE gone' \subseteq gone
    BY <2>1, <2>3
  <2> QED BY <1>2, <2>2, <2>3, PlacesChange DEF ReadDir
<1>3. Inv /\ AllProper /\ [CallNext]_callAndStorage => AllProper' /\ [Exactly]_storageVars
  BY <1>2
<1> QED BY <1>1, <1>3, Invariance, PTL DEF CallSpec, callAndStorage, RemovesWhatItListed

\* "must be to a directory in the S3 bucket" (docs/backup.md:184): a prune removes nothing
\* outside the directory of the target's URL.
THEOREM RemovesOwnOnly == ASSUME OwnDirectory PROVE CallSpec => RemovesOnlyOwn
<1> DEFINE Inside == \A p \in Places \ Places' : p.dir = Dir
<1>1. CallInit => AllOwn
  <2> SUFFICES ASSUME CallInit PROVE AllOwn
    OBVIOUS
  <2>1. PICK others \in OtherPlaces : Places = others
    BY DEF CallInit, StorageInit, Places
  <2>2. protocol \in Protocols /\ listed = {} /\ protocol \in {"file", "smb", "s3", "scp"}
    BY StorageAssumption DEF CallInit, StorageInit
  <2> QED BY <2>1, <2>2 DEF AllOwn, OwnDirectory, Lists
<1>2. ASSUME Inv, AllOwn, [CallNext]_callAndStorage PROVE AllOwn' /\ Inside
  <2>1. AllOwn'
    BY <1>2, OwnStep DEF Inv
  <2>2. CASE RemoveListed
    <3>1. PICK p \in listed : Places' = Places \ {RemovePlace(p)}
      BY <2>2, RemoveTakes
    <3>2. RemovePlace(p).dir = Dir
      BY <1>2, <3>1 DEF Inv, Types, AllOwn, RemovePlace, At
    <3> QED BY <2>1, <3>1, <3>2
  <2>3. CASE Places \subseteq Places'
    BY <2>1, <2>3
  <2>4. ReadDir \/ UNCHANGED objects \/ Push => Places \subseteq Places'
    BY PushAdds DEF ReadDir, Places
  <2> QED BY <1>2, <2>2, <2>3, <2>4, PlacesChange
<1>3. Inv /\ AllOwn /\ [CallNext]_callAndStorage => AllOwn' /\ [Inside]_storageVars
  BY <1>2
<1> QED BY <1>1, <1>3, Invariance, PTL DEF CallSpec, callAndStorage, RemovesOnlyOwn

=============================================================================
