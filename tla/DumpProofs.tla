------------------------------ MODULE DumpProofs ------------------------------
(***************************************************************************)
(* Proofs about DumpPool, for every number of writers, every parallelism   *)
(* and every list of schemas; and about ArchiveWriter, for archives of any *)
(* length and any number of failing writes.  They share no lemma: each has *)
(* its own part, with its inductive invariant first.                       *)
(***************************************************************************)
EXTENDS DumpPool, ArchiveWriter, FiniteSetTheorems, SequenceTheorems, TLAPS

(* The dump pool. *)

WorkingSet == {w \in Writers : Working(w)}
LiveSet == {w \in Writers : pc[w] \notin {"none", "exited"}}

\* How far the caller is fixes what it has done.
Phases ==
  /\ spawner # "spawning" => next = NumWriters + 1
  /\ closed <=> spawner \in {"collecting", "returned"}
  /\ verdict = "none" <=> spawner # "returned"
  /\ verdict = "ok" => errCh = <<>>
  /\ verdict = "error" => errCh # <<>>

\* The inductive invariant: the counters count the goroutines, so sem <= Slots bounds
\* the working ones and wg = 0 means that none is left.
IInv ==
  /\ TypeOK
  /\ Accounting
  /\ sem <= Slots
  /\ Phases
  /\ ClosedMeansQuiet

---------------------------------------------------------------------------
(* Lemmas on the pool and on the counters. *)

\* What the pool hands out, keeps and takes back are connections.
LEMMA PoolTyping ==
  ASSUME idle \in Seq(Selectable), NEW s \in Selectable
  PROVE  /\ Checkout \in Selectable
         /\ AfterCheckout \in Seq(Selectable)
         /\ PutBack(s) \in Seq(Selectable)
<1>1. Checkout \in Selectable
  BY DEF Checkout, Selectable
<1>2. AfterCheckout \in Seq(Selectable)
  <2>1. CASE idle = <<>>
    BY <2>1 DEF AfterCheckout
  <2>2. CASE idle # <<>>
    BY <2>2 DEF AfterCheckout
  <2> QED BY <2>1, <2>2
<1>3. PutBack(s) \in Seq(Selectable)
  BY DEF PutBack
<1> QED BY <1>1, <1>2, <1>3

LEMMA OneMore ==
  ASSUME NEW S, IsFiniteSet(S), NEW x, x \notin S
  PROVE  Cardinality(S \cup {x}) = Cardinality(S) + 1
BY FS_AddElement

\* The sets of goroutines are finite.
LEMMA FiniteGoroutines ==
  /\ IsFiniteSet(WorkingSet) /\ Cardinality(WorkingSet) \in Nat
  /\ IsFiniteSet(LiveSet) /\ Cardinality(LiveSet) \in Nat
<1>1. IsFiniteSet(Writers)
  BY PoolAssumption, FS_Interval DEF Writers
<1>2. WorkingSet \in SUBSET Writers /\ LiveSet \in SUBSET Writers
  BY DEF WorkingSet, LiveSet
<1> QED BY <1>1, <1>2, FS_Subset, FS_CardinalityType

\* A step inside Data.Dump, or out of it towards the deferred calls, moves no counter.
LEMMA CountsKept ==
  ASSUME pc \in [Writers -> Stages], NEW w \in Writers, NEW p \in Stages,
         Working(w), p \in InDump \cup {"report", "release"},
         pc' = [pc EXCEPT ![w] = p]
  PROVE  WorkingSet' = WorkingSet /\ LiveSet' = LiveSet
BY DEF WorkingSet, LiveSet, Working, InDump, Stages

\* Nothing moves them when no goroutine moves.
LEMMA CountsUnchanged ==
  ASSUME pc' = pc
  PROVE  WorkingSet' = WorkingSet /\ LiveSet' = LiveSet
BY DEF WorkingSet, LiveSet, Working

\* Slots is a positive number.
LEMMA SlotsPositive == Slots \in Nat /\ Slots >= 1
BY PoolAssumption DEF Slots

---------------------------------------------------------------------------
(* The invariant is inductive: one lemma for each group of actions. *)

LEMMA InvInit == Init => IInv
<1> SUFFICES ASSUME Init PROVE IInv
  OBVIOUS
<1> USE PoolAssumption DEF Init
<1>1. WorkingSet = {} /\ LiveSet = {}
  BY DEF WorkingSet, LiveSet, Working, InDump
<1>2. TypeOK
  <2>1. idle \in Seq(Selectable)
    OBVIOUS
  <2>2. at \in [Writers -> Nat \ {0}] /\ \A w \in Writers : at[w] <= Len(SchemasOf[w])
    OBVIOUS
  <2>3. dumped \in [Writers -> Seq(Selectable)] /\ errCh \in Seq(Writers)
    OBVIOUS
  <2>4. conn \in [Writers -> Selectable \cup {NoConn}]
    OBVIOUS
  <2>5. pc \in [Writers -> Stages]
    BY DEF Stages
  <2>6. next \in 1..(NumWriters + 1)
    <3>1. next = 1 /\ NumWriters \in Nat
      OBVIOUS
    <3> QED BY ONLY <3>1
  <2>7. /\ spawner \in {"spawning", "waiting", "collecting", "returned"}
        /\ sem \in Nat /\ wg \in Nat
        /\ closed \in BOOLEAN
        /\ verdict \in {"none", "ok", "error"}
    <3>1. /\ spawner = "spawning" /\ sem = 0 /\ wg = 0
          /\ closed = FALSE /\ verdict = "none"
      OBVIOUS
    <3> QED BY ONLY <3>1
  <2> QED BY ONLY <2>1, <2>2, <2>3, <2>4, <2>5, <2>6, <2>7 DEF TypeOK
<1>3. Accounting
  <2>1. sem = Cardinality(WorkingSet) /\ wg = Cardinality(LiveSet)
    BY <1>1, FS_EmptySet
  <2>2. \A w \in Writers : w < next <=> pc[w] # "none"
    BY DEF Writers
  <2>3. \A w \in Writers : Progress(w)
    BY DEF Progress, GaveUp, InDump
  <2> QED BY <2>1, <2>2, <2>3 DEF Accounting, WorkingSet, LiveSet, Holding
<1>4. sem <= Slots
  BY SlotsPositive
<1>5. Phases /\ ClosedMeansQuiet
  BY DEF Phases, ClosedMeansQuiet
<1> QED BY <1>2, <1>3, <1>4, <1>5 DEF IInv

\* Steps of the caller's goroutine.
LEMMA InvCaller == IInv /\ Caller => IInv'
<1> SUFFICES ASSUME IInv, Caller PROVE IInv'
  OBVIOUS
<1> USE PoolAssumption DEF IInv, TypeOK, poolVars
<1>1. CASE Spawn
  <2> USE <1>1 DEF Spawn
  <2>1. next \in Writers /\ pc[next] = "none"
    BY DEF Accounting, Writers
  <2>2. WorkingSet' = WorkingSet \cup {next} /\ next \notin WorkingSet
    BY <2>1 DEF WorkingSet, Working, InDump, Stages
  <2>3. LiveSet' = LiveSet \cup {next} /\ next \notin LiveSet
    BY <2>1 DEF LiveSet, Stages
  <2>4. TypeOK'
    BY <2>1 DEF Stages, InDump, Writers
  <2>5. Accounting'
    <3>1. sem' = Cardinality(WorkingSet') /\ wg' = Cardinality(LiveSet')
      <4>1. sem = Cardinality(WorkingSet) /\ wg = Cardinality(LiveSet)
        BY DEF Accounting, WorkingSet, LiveSet
      <4>2. Cardinality(WorkingSet') = Cardinality(WorkingSet) + 1
        BY ONLY <2>2, FiniteGoroutines, OneMore
      <4>3. Cardinality(LiveSet') = Cardinality(LiveSet) + 1
        BY ONLY <2>3, FiniteGoroutines, OneMore
      <4> QED BY <4>1, <4>2, <4>3
    <3>2. \A w \in Writers : (w < next <=> pc[w] # "none")'
      <4> SUFFICES ASSUME NEW w \in Writers PROVE w < next' <=> pc'[w] # "none"
        OBVIOUS
      <4>1. w < next <=> pc[w] # "none"
        BY DEF Accounting
      <4>2. /\ w = next => pc'[w] # "none"
            /\ w # next => pc'[w] = pc[w]
        BY <2>1
      <4>3. next' = next + 1 /\ next \in Nat /\ w \in Nat
        BY <2>1 DEF Writers
      <4> QED BY ONLY <4>1, <4>2, <4>3
    <3>3. \A w \in Writers : (conn[w] # NoConn <=> pc[w] \in Holding)'
      BY <2>1 DEF Accounting, Holding, Stages
    <3>4. \A w \in Writers : Progress(w)'
      BY <2>1 DEF Accounting, Progress, GaveUp, InDump, Stages
    <3> QED BY <3>1, <3>2, <3>3, <3>4 DEF Accounting, WorkingSet, LiveSet
  <2>6. sem' <= Slots'
    BY SlotsPositive DEF Slots
  <2>7. Phases' /\ ClosedMeansQuiet'
    BY DEF Phases, ClosedMeansQuiet
  <2> QED BY <2>4, <2>5, <2>6, <2>7
<1>2. CASE LastSpawned
  <2> USE <1>2 DEF LastSpawned
  <2>1. Accounting'
    BY CountsUnchanged DEF Accounting, Progress, GaveUp, WorkingSet, LiveSet, Working
  <2>2. Phases' /\ ClosedMeansQuiet'
    BY DEF Phases, ClosedMeansQuiet
  <2> QED BY <2>1, <2>2 DEF Slots
<1>3. CASE WaitAndClose
  <2> USE <1>3 DEF WaitAndClose
  <2>1. Accounting'
    BY CountsUnchanged DEF Accounting, Progress, GaveUp, WorkingSet, LiveSet, Working
  <2>2. LiveSet = {}
    BY FiniteGoroutines, FS_EmptySet DEF Accounting, LiveSet
  <2>3. \A w \in Writers : pc[w] = "exited"
    <3>1. \A w \in Writers : pc[w] # "none"
      BY DEF Accounting, Phases, Writers
    <3> QED BY <2>2, <3>1 DEF LiveSet
  <2>4. Phases' /\ ClosedMeansQuiet'
    BY <2>3 DEF Phases, ClosedMeansQuiet
  <2> QED BY <2>1, <2>4 DEF Slots
<1>4. CASE Return
  <2> USE <1>4 DEF Return
  <2>1. Accounting'
    BY CountsUnchanged DEF Accounting, Progress, GaveUp, WorkingSet, LiveSet, Working
  <2>2. Phases' /\ ClosedMeansQuiet'
    BY DEF Phases, ClosedMeansQuiet
  <2> QED BY <2>1, <2>2 DEF Slots
<1> QED BY <1>1, <1>2, <1>3, <1>4 DEF Caller

\* Steps inside Data.Dump: the goroutine keeps its slot.
LEMMA InvDumping ==
  ASSUME IInv, NEW w \in Writers,
         \/ TakeForUse(w) \/ UseSchema(w) \/ BeginTx(w) \/ BeginFails(w)
         \/ ReadTables(w) \/ DumpFails(w) \/ DumpDone(w)
  PROVE  IInv'
<1> USE PoolAssumption DEF IInv, TypeOK, poolVars, onlyPoolAndPc, Goto
<1>1. conn[w] # NoConn => conn[w] \in Selectable
  OBVIOUS
<1>2. Schema(w) \in Selectable
  BY DEF Schema, Selectable
<1>3. ~closed
  BY DEF ClosedMeansQuiet, TakeForUse, UseSchema, BeginTx, BeginFails, ReadTables,
         DumpFails, DumpDone
<1>4. ASSUME NEW p \in InDump \cup {"report", "release"}, pc' = [pc EXCEPT ![w] = p],
             pc[w] \in InDump,
             UNCHANGED <<spawner, next, sem, wg, errCh, closed, verdict>>,
             at' \in [Writers -> Nat \ {0}],
             \A x \in Writers : at'[x] <= Len(SchemasOf[x]),
             conn' \in [Writers -> Selectable \cup {NoConn}],
             idle' \in Seq(Selectable),
             dumped' \in [Writers -> Seq(Selectable)],
             \A x \in Writers \ {w} :
               conn'[x] = conn[x] /\ at'[x] = at[x] /\ dumped'[x] = dumped[x],
             conn'[w] # NoConn <=> p \in Holding,
             IF p = "release" THEN Len(dumped'[w]) = Len(SchemasOf[w])
             ELSE Len(dumped'[w]) = at'[w] - 1
      PROVE  IInv'
  <2> USE <1>4
  <2>1. p \in Stages /\ Working(w)
    BY DEF Stages, InDump, Working
  <2>2. WorkingSet' = WorkingSet /\ LiveSet' = LiveSet
    BY <2>1, CountsKept
  <2>3. TypeOK'
    BY <2>1
  <2>4. Accounting'
    <3>1. sem' = Cardinality(WorkingSet') /\ wg' = Cardinality(LiveSet')
      BY <2>2 DEF Accounting, WorkingSet, LiveSet
    <3>2. \A x \in Writers : (x < next <=> pc[x] # "none")'
      BY DEF Accounting, InDump
    <3>3. \A x \in Writers : (conn[x] # NoConn <=> pc[x] \in Holding)'
      BY DEF Accounting
    <3>4. \A x \in Writers : Progress(x)'
      <4>1. \A x \in Writers : GaveUp(x)' = GaveUp(x)
        BY DEF GaveUp
      <4>2. \A x \in Writers \ {w} : Progress(x)'
        BY <4>1 DEF Accounting, Progress
      <4>3. ~GaveUp(w)
        BY DEF Accounting, Progress
      <4>4. Progress(w)'
        BY <4>1, <4>3 DEF Progress, InDump
      <4> QED BY <4>2, <4>4
    <3> QED BY <3>1, <3>2, <3>3, <3>4 DEF Accounting, WorkingSet, LiveSet
  <2>5. Phases' /\ ClosedMeansQuiet' /\ sem' <= Slots'
    BY <1>3 DEF Phases, ClosedMeansQuiet, Slots
  <2> QED BY <2>3, <2>4, <2>5
<1>5. pc[w] \in InDump => Len(dumped[w]) = at[w] - 1
  BY DEF Accounting, Progress
<1>6. CASE TakeForUse(w)
  BY <1>6, <1>4, <1>5, PoolTyping, <1>2 DEF TakeForUse, InDump, Holding, Selectable
<1>7. CASE UseSchema(w)
  BY <1>7, <1>4, <1>5, PoolTyping, <1>2 DEF UseSchema, InDump, Holding
<1>8. CASE BeginTx(w)
  BY <1>8, <1>4, <1>5, PoolTyping, <1>2 DEF BeginTx, InDump, Holding, Selectable
<1>9. CASE BeginFails(w)
  <2>1. ~(conn[w] # NoConn)
    BY <1>9 DEF BeginFails, Accounting, Holding
  <2> QED BY <2>1, <1>9, <1>4, <1>5, PoolTyping, <1>2 DEF BeginFails, InDump, Holding
<1>10. CASE ReadTables(w)
  <2>1. conn[w] # NoConn
    BY <1>10 DEF ReadTables, Accounting, Holding
  <2> QED BY <2>1, <1>10, <1>4, <1>5 DEF ReadTables, InDump, Holding
<1>11. CASE DumpFails(w)
  <2>1. conn[w] \in Selectable
    BY <1>1, <1>11 DEF DumpFails, Accounting, Holding
  <2> QED BY <2>1, <1>11, <1>4, <1>5, PoolTyping DEF DumpFails, PutBackOrDrop, InDump, Holding
<1>12. CASE DumpDone(w)
  <2> USE <1>12 DEF DumpDone
  <2>1. conn[w] \in Selectable
    BY <1>1 DEF Accounting, Holding
  <2>2. idle' \in Seq(Selectable)
    BY <2>1, PoolTyping DEF PutBackOrDrop
  <2>3. /\ dumped' \in [Writers -> Seq(Selectable)]
        /\ Len(dumped'[w]) = Len(dumped[w]) + 1
        /\ \A x \in Writers \ {w} : dumped'[x] = dumped[x]
    BY <2>1
  <2>4. conn' \in [Writers -> Selectable \cup {NoConn}] /\ conn'[w] = NoConn
    OBVIOUS
  <2>5. pc[w] \in InDump /\ Len(dumped'[w]) = at[w]
    BY <2>3, <1>5 DEF InDump
  <2>6. CASE at[w] < Len(SchemasOf[w])
    <3>0. at' = [at EXCEPT ![w] = at[w] + 1] /\ at \in [Writers -> Nat \ {0}]
      BY <2>6
    <3>1. at' \in [Writers -> Nat \ {0}] /\ at'[w] = at[w] + 1
      BY ONLY <3>0, w \in Writers
    <3>2. \A x \in Writers : at'[x] <= Len(SchemasOf[x])
      <4>1. \A x \in Writers : Len(SchemasOf[x]) \in Nat
        BY PoolAssumption
      <4>2. \A x \in Writers : at[x] <= Len(SchemasOf[x])
        BY ONLY TypeOK DEF TypeOK
      <4>3. \A x \in Writers : x # w => at'[x] = at[x]
        BY ONLY <3>0
      <4> QED BY ONLY <2>6, <3>0, <3>1, <4>1, <4>2, <4>3, w \in Writers
    <3>3. /\ pc' = [pc EXCEPT ![w] = "use"] /\ "use" \in InDump /\ "use" \notin Holding
          /\ UNCHANGED <<spawner, next, sem, wg, errCh, closed, verdict>>
      BY <2>6 DEF Goto, InDump, Holding
    <3>4. \A x \in Writers \ {w} : conn'[x] = conn[x] /\ at'[x] = at[x] /\ dumped'[x] = dumped[x]
      BY <2>3, <3>0
    <3>5. Len(dumped'[w]) = at'[w] - 1
      BY ONLY <2>5, <3>0, <3>1, w \in Writers
    <3> QED BY ONLY <1>4, <2>2, <2>3, <2>4, <2>5, <3>1, <3>2, <3>3, <3>4, <3>5
  <2>7. CASE ~(at[w] < Len(SchemasOf[w]))
    <3>1. at[w] = Len(SchemasOf[w])
      BY <2>7
    <3> QED BY <2>2, <2>3, <2>4, <2>5, <2>7, <3>1, <1>4 DEF InDump, Holding
  <2> QED BY <2>6, <2>7
<1> QED BY <1>6, <1>7, <1>8, <1>9, <1>10, <1>11, <1>12

\* A goroutine hands in its error: errCh now names it.
LEMMA InvReport ==
  ASSUME IInv, NEW w \in Writers, Report(w)
  PROVE  IInv'
<1> USE PoolAssumption DEF IInv, TypeOK, poolVars, Goto, Report
<1>1. WorkingSet' = WorkingSet /\ LiveSet' = LiveSet
  BY CountsKept DEF Working, Stages, InDump
<1>2. TypeOK'
  BY DEF Stages
<1>3. \A x \in Writers : GaveUp(x)' <=> (GaveUp(x) \/ x = w)
  <2>1. /\ errCh' \in Seq(Writers) /\ Len(errCh) \in Nat
        /\ Len(errCh') = Len(errCh) + 1
        /\ errCh'[Len(errCh) + 1] = w
        /\ \A i \in 1..Len(errCh) : errCh'[i] = errCh[i]
    OBVIOUS
  <2>2. 1..Len(errCh') = 1..Len(errCh) \cup {Len(errCh) + 1}
    BY ONLY <2>1
  <2>3. ASSUME NEW x \in Writers PROVE GaveUp(x)' <=> (GaveUp(x) \/ x = w)
    BY ONLY <2>1, <2>2 DEF GaveUp
  <2> QED BY <2>3
<1>4. Accounting'
  <2>1. sem' = Cardinality(WorkingSet') /\ wg' = Cardinality(LiveSet')
    BY <1>1 DEF Accounting, WorkingSet, LiveSet
  <2>2. \A x \in Writers : (x < next <=> pc[x] # "none")'
    BY DEF Accounting
  <2>3. \A x \in Writers : (conn[x] # NoConn <=> pc[x] \in Holding)'
    BY DEF Accounting, Holding
  <2>4. Len(dumped[w]) = at[w] - 1
    BY DEF Accounting, Progress
  <2>5. \A x \in Writers : Progress(x)'
    BY <1>3, <2>4 DEF Accounting, Progress, InDump
  <2> QED BY <2>1, <2>2, <2>3, <2>5 DEF Accounting, WorkingSet, LiveSet
<1>5. Phases' /\ ClosedMeansQuiet' /\ sem' <= Slots'
  BY DEF Phases, ClosedMeansQuiet, Slots
<1> QED BY <1>2, <1>4, <1>5

\* A goroutine gives its slot back: one fewer is working.
LEMMA InvRelease ==
  ASSUME IInv, NEW w \in Writers, Release(w)
  PROVE  IInv'
<1> USE PoolAssumption DEF IInv, TypeOK, poolVars, Goto, Release
<1>1. WorkingSet' = WorkingSet \ {w} /\ w \in WorkingSet
  BY DEF WorkingSet, Working, InDump, Stages
<1>2. LiveSet' = LiveSet
  BY DEF LiveSet, Stages
<1>3. sem' = Cardinality(WorkingSet') /\ wg' = Cardinality(LiveSet')
  <2>1. sem = Cardinality(WorkingSet) /\ wg = Cardinality(LiveSet)
    BY DEF Accounting, WorkingSet, LiveSet
  <2> QED BY <1>1, <1>2, <2>1, FiniteGoroutines, FS_RemoveElement
<1>4. sem' \in Nat
  <2>1. Cardinality(WorkingSet \ {w}) \in Nat
    BY FiniteGoroutines, FS_RemoveElement, FS_CardinalityType
  <2> QED BY <2>1, <1>1, <1>3
<1>5. TypeOK'
  BY <1>4 DEF Stages
<1>6. Accounting'
  <2>1. \A x \in Writers : (x < next <=> pc[x] # "none")'
    BY DEF Accounting
  <2>2. \A x \in Writers : (conn[x] # NoConn <=> pc[x] \in Holding)'
    BY DEF Accounting, Holding
  <2>3. \A x \in Writers : Progress(x)'
    BY DEF Accounting, Progress, GaveUp, InDump
  <2> QED BY <1>3, <2>1, <2>2, <2>3 DEF Accounting, WorkingSet, LiveSet
<1>7. Phases' /\ ClosedMeansQuiet' /\ sem' <= Slots'
  BY SlotsPositive DEF Phases, ClosedMeansQuiet, Slots
<1> QED BY <1>5, <1>6, <1>7

\* A goroutine ends: one fewer is waited for.
LEMMA InvDone ==
  ASSUME IInv, NEW w \in Writers, Done(w)
  PROVE  IInv'
<1> USE PoolAssumption DEF IInv, TypeOK, poolVars, Goto, Done
<1>1. LiveSet' = LiveSet \ {w} /\ w \in LiveSet
  BY DEF LiveSet, Stages
<1>2. WorkingSet' = WorkingSet
  BY DEF WorkingSet, Working, InDump, Stages
<1>3. sem' = Cardinality(WorkingSet') /\ wg' = Cardinality(LiveSet')
  <2>1. sem = Cardinality(WorkingSet) /\ wg = Cardinality(LiveSet)
    BY DEF Accounting, WorkingSet, LiveSet
  <2> QED BY <1>1, <1>2, <2>1, FiniteGoroutines, FS_RemoveElement
<1>4. wg' \in Nat
  <2>1. Cardinality(LiveSet \ {w}) \in Nat
    BY FiniteGoroutines, FS_RemoveElement, FS_CardinalityType
  <2> QED BY <2>1, <1>1, <1>3
<1>5. TypeOK'
  BY <1>4 DEF Stages
<1>6. Accounting'
  <2>1. \A x \in Writers : (x < next <=> pc[x] # "none")'
    BY DEF Accounting
  <2>2. \A x \in Writers : (conn[x] # NoConn <=> pc[x] \in Holding)'
    BY DEF Accounting, Holding
  <2>3. \A x \in Writers : Progress(x)'
    BY DEF Accounting, Progress, GaveUp, InDump
  <2> QED BY <1>3, <2>1, <2>2, <2>3 DEF Accounting, WorkingSet, LiveSet
<1>7. Phases' /\ ClosedMeansQuiet' /\ sem' <= Slots'
  BY DEF Phases, ClosedMeansQuiet, Slots
<1> QED BY <1>5, <1>6, <1>7

\* The server drops an idle connection: only the pool changes.
LEMMA InvDropIdle == IInv /\ DropIdle => IInv'
<1> SUFFICES ASSUME IInv, DropIdle PROVE IInv'
  OBVIOUS
<1> USE PoolAssumption DEF IInv, TypeOK, DropIdle
<1>1. idle' \in Seq(Selectable)
  OBVIOUS
<1>2. Accounting'
  BY CountsUnchanged DEF Accounting, Progress, GaveUp, WorkingSet, LiveSet, Working
<1>3. Phases' /\ ClosedMeansQuiet' /\ sem' <= Slots'
  BY DEF Phases, ClosedMeansQuiet, Slots
<1> QED BY <1>1, <1>2, <1>3

\* Stuttering changes nothing.
LEMMA InvStutter == IInv /\ UNCHANGED vars => IInv'
<1> SUFFICES ASSUME IInv, UNCHANGED vars PROVE IInv'
  OBVIOUS
<1> USE DEF IInv, vars
<1>1. TypeOK'
  BY DEF TypeOK
<1>2. Accounting'
  BY CountsUnchanged DEF Accounting, Progress, GaveUp, WorkingSet, LiveSet, Working
<1>3. Phases' /\ ClosedMeansQuiet' /\ sem' <= Slots'
  BY DEF Phases, ClosedMeansQuiet, Slots
<1> QED BY <1>1, <1>2, <1>3

LEMMA InvNext == IInv /\ [Next]_vars => IInv'
<1> SUFFICES ASSUME IInv, [Next]_vars PROVE IInv'
  OBVIOUS
<1>1. CASE Caller
  BY <1>1, InvCaller
<1>2. CASE \E w \in Writers : Worker(w)
  BY <1>2, InvDumping, InvReport, InvRelease, InvDone DEF Worker
<1>3. CASE DropIdle
  BY <1>3, InvDropIdle
<1>4. CASE Returned
  BY <1>4, InvStutter DEF Returned
<1>5. CASE UNCHANGED vars
  BY <1>5, InvStutter
<1> QED BY <1>1, <1>2, <1>3, <1>4, <1>5 DEF Next

---------------------------------------------------------------------------
(* The theorems. *)

\* The inductive invariant holds in every reachable state.
THEOREM Invariance == Spec => []IInv
BY InvInit, InvNext, PTL DEF Spec

\* Type correctness, for every number of writers: in particular neither the semaphore
\* nor the WaitGroup is ever given back more often than it was taken.
THEOREM TypeCorrect == Spec => []TypeOK
<1>1. IInv => TypeOK
  BY DEF IInv
<1> QED BY <1>1, Invariance, PTL

\* The semaphore and the WaitGroup count the goroutines, and errCh names the failed ones.
THEOREM AccountingHolds == Spec => []Accounting
<1>1. IInv => Accounting
  BY DEF IInv
<1> QED BY <1>1, Invariance, PTL

\* At most opts.Parallelism goroutines work, and only those hold a connection.
THEOREM ParallelismRespected == Spec => []ConnectionsBounded
<1>1. IInv => ConnectionsBounded
  BY DEF IInv, Accounting, ConnectionsBounded, Working, Holding, InDump
<1> QED BY <1>1, Invariance, PTL

\* No goroutine is left when the error channel is closed and the files are archived.
THEOREM NothingRunsAfterClose == Spec => []ClosedMeansQuiet
<1>1. IInv => ClosedMeansQuiet
  BY DEF IInv
<1> QED BY <1>1, Invariance, PTL

\* Dump returns nil exactly when every schema was dumped to the end.
THEOREM AnswerIsTrue == Spec => []ResultTruth
<1>1. IInv => ResultTruth
  <2> SUFFICES ASSUME IInv PROVE ResultTruth
    OBVIOUS
  <2> USE DEF IInv, Phases
  <2>1. verdict # "none" => \A w \in Writers : pc[w] = "exited"
    BY DEF ClosedMeansQuiet
  <2>2. ASSUME verdict = "ok" PROVE \A w \in Writers : FullyDumped(w)
    <3>1. \A w \in Writers : ~GaveUp(w)
      BY <2>2 DEF GaveUp
    <3> QED BY <2>1, <2>2, <3>1 DEF Accounting, Progress, FullyDumped
  <2>3. ASSUME verdict = "error" PROVE \E w \in Writers : ~FullyDumped(w)
    <3>1. errCh \in Seq(Writers) /\ Len(errCh) >= 1
      BY <2>3 DEF TypeOK
    <3>2. errCh[1] \in Writers /\ GaveUp(errCh[1])
      BY <3>1 DEF GaveUp
    <3>3. Len(dumped[errCh[1]]) = at[errCh[1]] - 1 /\ at[errCh[1]] <= Len(SchemasOf[errCh[1]])
      BY <2>1, <2>3, <3>2 DEF Accounting, Progress, TypeOK
    <3>4. Len(SchemasOf[errCh[1]]) \in Nat /\ at[errCh[1]] \in Nat
      BY <3>2, PoolAssumption DEF TypeOK
    <3> QED BY <3>2, <3>3, <3>4 DEF FullyDumped
  <2> QED BY <2>2, <2>3 DEF ResultTruth
<1> QED BY <1>1, Invariance, PTL

---------------------------------------------------------------------------
(* DumpPool implements DumpJob. *)

\* While Data.Dump runs the writer is pending and the call has not answered.
LEMMA PendingWhileDumping ==
  ASSUME IInv, NEW w \in Writers, pc[w] \in InDump
  PROVE  Settled(w) = "pending" /\ verdict = "none"
<1>1. ~GaveUp(w) /\ Len(dumped[w]) = at[w] - 1 /\ at[w] <= Len(SchemasOf[w])
  BY DEF IInv, Accounting, Progress, TypeOK
<1>2. Len(SchemasOf[w]) \in Nat /\ at[w] \in Nat
  BY PoolAssumption DEF IInv, TypeOK
<1>3. ~FullyDumped(w)
  BY <1>1, <1>2 DEF FullyDumped
<1>4. verdict = "none"
  BY DEF IInv, ClosedMeansQuiet, Phases, InDump
<1> QED BY <1>1, <1>3, <1>4 DEF Settled, InDump

\* A step that leaves the errors, the results and the set of reporting goroutines alone
\* settles nobody.
LEMMA SettledFrame ==
  ASSUME NEW x \in Writers, errCh' = errCh, dumped'[x] = dumped[x],
         pc'[x] = "report" <=> pc[x] = "report"
  PROVE  Settled(x)' = Settled(x)
BY DEF Settled, GaveUp, FullyDumped

\* Going from the dump to "report" settles the writer as failed.
LEMMA FailureSettles ==
  ASSUME IInv, NEW w \in Writers, pc[w] \in InDump,
         pc' = [pc EXCEPT ![w] = "report"],
         errCh' = errCh, dumped' = dumped, verdict' = verdict
  PROVE  Job!Settle(w)
<1>1. Settled(w) = "pending" /\ verdict = "none"
  BY PendingWhileDumping
<1>2. Settled(w)' = "failed"
  BY DEF Settled, IInv, TypeOK
<1>3. \A x \in Writers \ {w} : Settled(x)' = Settled(x)
  BY SettledFrame DEF IInv, TypeOK
<1>4. [x \in Writers |-> Settled(x)]'
        = [[x \in Writers |-> Settled(x)] EXCEPT ![w] = "failed"]
  BY <1>2, <1>3
<1> QED BY <1>1, <1>4 DEF Job!Settle

LEMMA JobStep == IInv /\ [Next]_vars => [Job!Next]_Job!jobVars
<1> SUFFICES ASSUME IInv, [Next]_vars PROVE [Job!Next]_Job!jobVars
  OBVIOUS
<1> USE DEF Job!jobVars
<1>1. ASSUME \A x \in Writers : Settled(x)' = Settled(x), verdict' = verdict
      PROVE  [Job!Next]_Job!jobVars
  BY <1>1
<1>2. CASE Caller
  <2>1. CASE Spawn
    <3>1. pc[next] = "none"
      BY <2>1 DEF Spawn, IInv, Accounting, TypeOK, Writers
    <3>2. \A x \in Writers : Settled(x)' = Settled(x)
      BY <2>1, <3>1, SettledFrame DEF Spawn, IInv, TypeOK
    <3> QED BY <2>1, <3>2, <1>1 DEF Spawn
  <2>2. CASE LastSpawned
    BY <2>2, <1>1, SettledFrame DEF LastSpawned
  <2>3. CASE WaitAndClose
    BY <2>3, <1>1, SettledFrame DEF WaitAndClose
  <2>4. CASE Return
    <3> USE <2>4 DEF Return
    <3>1. verdict = "none" /\ \A x \in Writers : pc[x] = "exited"
      BY DEF IInv, Phases, ClosedMeansQuiet
    <3>2. \A x \in Writers : Settled(x) = (IF GaveUp(x) THEN "failed" ELSE "ok")
      BY <3>1 DEF Settled, FullyDumped, IInv, Accounting, Progress
    <3>3. \A x \in Writers : Settled(x)' = Settled(x)
      BY SettledFrame
    <3>4. (\E x \in Writers : GaveUp(x)) <=> errCh # <<>>
      <4>1. CASE errCh = <<>>
        BY <4>1 DEF GaveUp
      <4>2. CASE errCh # <<>>
        <5>1. Len(errCh) >= 1 /\ errCh[1] \in Writers
          BY <4>2 DEF IInv, TypeOK
        <5>2. 1 \in 1..Len(errCh)
          BY <5>1 DEF IInv, TypeOK
        <5>3. GaveUp(errCh[1])
          BY <5>2 DEF GaveUp
        <5> QED BY <4>2, <5>1, <5>3
      <4> QED BY <4>1, <4>2
    <3>5. Job!Answer
      BY <3>1, <3>2, <3>3, <3>4 DEF Job!Answer
    <3> QED BY <3>5 DEF Job!Next
  <2> QED BY <1>2, <2>1, <2>2, <2>3, <2>4 DEF Caller
<1>3. CASE \E w \in Writers : Worker(w)
  <2> SUFFICES ASSUME NEW w \in Writers, Worker(w) PROVE [Job!Next]_Job!jobVars
    BY <1>3
  <2> USE DEF Goto, onlyPoolAndPc, poolVars
  <2>0. pc \in [Writers -> Stages]
    BY DEF IInv, TypeOK
  <2>1. CASE TakeForUse(w) \/ UseSchema(w) \/ BeginTx(w) \/ ReadTables(w)
    <3>1. \A x \in Writers : Settled(x)' = Settled(x)
      BY <2>0, <2>1, SettledFrame DEF TakeForUse, UseSchema, BeginTx, ReadTables
    <3> QED BY <2>1, <3>1, <1>1 DEF TakeForUse, UseSchema, BeginTx, ReadTables
  <2>2. CASE BeginFails(w) \/ DumpFails(w)
    BY <2>2, FailureSettles DEF BeginFails, DumpFails, InDump, Job!Next
  <2>3. CASE DumpDone(w)
    <3> USE <2>3 DEF DumpDone
    <3>1. Settled(w) = "pending" /\ verdict = "none" /\ ~GaveUp(w)
      BY PendingWhileDumping DEF InDump, IInv, Accounting, Progress
    <3>2. /\ Len(dumped'[w]) = at[w]
          /\ \A x \in Writers \ {w} : dumped'[x] = dumped[x]
      <4>1. Len(dumped[w]) = at[w] - 1 /\ conn[w] \in Selectable
        BY DEF IInv, Accounting, Progress, InDump, Holding, TypeOK
      <4> QED BY <4>1 DEF IInv, TypeOK
    <3>3. \A x \in Writers \ {w} : Settled(x)' = Settled(x)
      BY <2>0, <3>2, SettledFrame
    <3>4. pc'[w] # "report" /\ ~GaveUp(w)'
      BY <2>0, <3>1 DEF GaveUp
    <3>5. at[w] \in Nat /\ Len(SchemasOf[w]) \in Nat /\ at[w] <= Len(SchemasOf[w])
      BY PoolAssumption DEF IInv, TypeOK
    <3>6. CASE at[w] < Len(SchemasOf[w])
      <4>1. Settled(w)' = "pending"
        BY <3>2, <3>4, <3>5, <3>6 DEF Settled, FullyDumped
      <4> QED BY <4>1, <3>1, <3>3, <1>1
    <3>7. CASE at[w] = Len(SchemasOf[w])
      <4>1. Settled(w)' = "ok"
        BY <3>2, <3>4, <3>7 DEF Settled, FullyDumped
      <4>2. [x \in Writers |-> Settled(x)]'
              = [[x \in Writers |-> Settled(x)] EXCEPT ![w] = "ok"]
        BY <4>1, <3>3
      <4>3. Job!Settle(w)
        BY <4>2, <3>1 DEF Job!Settle
      <4> QED BY <4>3 DEF Job!Next
    <3> QED BY <3>5, <3>6, <3>7
  <2>4. CASE Report(w)
    <3> USE <2>4 DEF Report
    <3>1. /\ Len(errCh') = Len(errCh) + 1 /\ Len(errCh) \in Nat
          /\ errCh'[Len(errCh) + 1] = w
          /\ \A i \in 1..Len(errCh) : errCh'[i] = errCh[i]
      BY DEF IInv, TypeOK
    <3>2. 1..Len(errCh') = 1..Len(errCh) \cup {Len(errCh) + 1}
      BY ONLY <3>1
    <3>3. \A x \in Writers : GaveUp(x)' <=> (GaveUp(x) \/ x = w)
      BY <3>1, <3>2 DEF GaveUp
    <3>4. \A x \in Writers : Settled(x)' = Settled(x)
      BY <2>0, <3>3 DEF Settled, FullyDumped
    <3> QED BY <3>4, <1>1
  <2>5. CASE Release(w) \/ Done(w)
    <3>1. \A x \in Writers : Settled(x)' = Settled(x)
      BY <2>0, <2>5, SettledFrame DEF Release, Done
    <3> QED BY <2>5, <3>1, <1>1 DEF Release, Done
  <2> QED BY <2>1, <2>2, <2>3, <2>4, <2>5 DEF Worker
<1>4. CASE DropIdle
  BY <1>4, <1>1, SettledFrame DEF DropIdle
<1>5. CASE UNCHANGED vars
  BY <1>5, <1>1, SettledFrame DEF vars
<1> QED BY <1>2, <1>3, <1>4, <1>5 DEF Next, Returned

\* The goroutines, the semaphore, the error channel and the pool together keep the
\* promise of DumpJob: each writer is settled once, and the answer comes after all of
\* them and tells whether one failed.
THEOREM Implementation == Spec => ImplementsDumpJob
<1>1. Init => Job!Init
  <2> SUFFICES ASSUME Init PROVE Job!Init
    OBVIOUS
  <2>1. \A w \in Writers : Settled(w) = "pending"
    BY PoolAssumption DEF Init, Settled, GaveUp, FullyDumped
  <2> QED BY <2>1 DEF Init, Job!Init
<1> QED BY <1>1, JobStep, Invariance, PTL DEF Spec, Job!Spec, ImplementsDumpJob

---------------------------------------------------------------------------
(* With one slot, USE and BeginTx of a dump reach the same connection. *)

\* The pool and the one goroutine at work: while a connection is held the pool is
\* empty, so the free list never has two entries; between USE and BeginTx its only entry
\* is the connection USE was sent on.  RightSchema needs it, since by itself it says
\* nothing of a dump that has not ended.
OneConnection ==
  /\ Len(idle) <= 1
  /\ \A w \in Writers : conn[w] # NoConn => idle = <<>>
  /\ \A w \in Writers : pc[w] = "begin" => idle \in {<<>>, <<Schema(w)>>}
  /\ \A w \in Writers : pc[w] = "tables" => conn[w] \in {Schema(w), NoSchema}
  /\ \A w \in Writers : pc[w] = "write" => conn[w] = Schema(w)
  /\ RightSchema

\* With one slot two working goroutines are the same one.
LEMMA OneWorker ==
  ASSUME IInv, Slots = 1, NEW w \in Writers, NEW x \in Writers, Working(w), Working(x)
  PROVE  w = x
<1>1. Cardinality(WorkingSet) <= 1 /\ w \in WorkingSet /\ x \in WorkingSet
  BY DEF IInv, Accounting, WorkingSet
<1>2. Cardinality(WorkingSet \ {w}) = Cardinality(WorkingSet) - 1
      /\ IsFiniteSet(WorkingSet \ {w}) /\ Cardinality(WorkingSet \ {w}) \in Nat
  BY <1>1, FiniteGoroutines, FS_RemoveElement, FS_CardinalityType
<1>3. WorkingSet \ {w} = {}
  <2>1. Cardinality(WorkingSet \ {w}) = 0
    BY <1>1, <1>2, FiniteGoroutines
  <2> QED BY <2>1, <1>2, FS_EmptySet
<1> QED BY <1>1, <1>3

\* What goes back to an empty pool is alone in it.
LEMMA PutOnEmpty ==
  ASSUME idle = <<>>, NEW s \in Selectable
  PROVE  Len(PutBack(s)) <= 1
<1>1. Len(<<>>) = 0 /\ Len(Append(<<>>, s)) = 1
  OBVIOUS
<1>2. CASE Len(idle) < MaxIdle
  BY <1>1, <1>2 DEF PutBack
<1>3. CASE ~(Len(idle) < MaxIdle)
  BY <1>1, <1>3 DEF PutBack
<1> QED BY <1>2, <1>3

LEMMA OneConnectionStep ==
  ASSUME Slots = 1, IInv, OneConnection, [Next]_vars
  PROVE  OneConnection'
<1> USE PoolAssumption DEF OneConnection, TypeOK, poolVars, onlyPoolAndPc, Goto
<1>0. TypeOK
  BY DEF IInv
<1>1. CASE Caller
  <2>1. idle' = idle /\ conn' = conn /\ dumped' = dumped /\ at' = at
    BY <1>1 DEF Caller, Spawn, LastSpawned, WaitAndClose, Return
  <2>2. \A w \in Writers : pc'[w] \in {"begin", "tables", "write"} => pc'[w] = pc[w]
    BY <1>0, <1>1 DEF Caller, Spawn, LastSpawned, WaitAndClose, Return
  <2> QED BY <2>1, <2>2 DEF RightSchema, Schema
<1>2. ASSUME NEW w \in Writers, Worker(w) PROVE OneConnection'
  <2>1. \A x \in Writers \ {w} : Working(w) => ~Working(x)
    BY OneWorker DEF IInv
  <2>2. \A x \in Writers : conn[x] # NoConn => Working(x)
    BY DEF IInv, Accounting, Holding, Working, InDump
  <2>3. \A x \in Writers \ {w} : Working(w) => conn[x] = NoConn
    BY <2>1, <2>2
  <2>4. \A x \in Writers \ {w} :
          Working(w) => pc[x] \notin {"begin", "tables", "write"}
    BY <2>1 DEF Working, InDump
  <2>5. CASE TakeForUse(w)
    <3> USE <2>5 DEF TakeForUse
    <3>1. idle' = <<>> /\ Working(w)
      BY <1>0 DEF AfterCheckout, Working, InDump
    <3>2. RightSchema'
      BY DEF RightSchema
    <3> QED BY <1>0, <2>3, <2>4, <3>1, <3>2
  <2>6. CASE UseSchema(w)
    <3> USE <2>6 DEF UseSchema
    <3>1. idle = <<>> /\ Working(w)
      BY DEF IInv, Accounting, Holding, Working, InDump
    <3>2. idle' \in {<<>>, <<Schema(w)>>} /\ Len(idle') <= 1
      BY <3>1 DEF PutBack
    <3>3. RightSchema' /\ Schema(w)' = Schema(w)
      BY DEF RightSchema, Schema
    <3>4. \A x \in Writers : conn'[x] = NoConn
      BY <1>0, <2>3, <3>1
    <3>5. \A x \in Writers : pc'[x] = "begin" => x = w
      BY <1>0, <2>4, <3>1
    <3>6. \A x \in Writers : pc'[x] \notin {"tables", "write"}
      BY <1>0, <2>4, <3>1
    <3> QED BY <3>2, <3>3, <3>4, <3>5, <3>6
  <2>7. CASE BeginTx(w)
    <3> USE <2>7 DEF BeginTx
    <3>1. Working(w) /\ idle \in {<<>>, <<Schema(w)>>}
      BY DEF Working, InDump
    <3>2. Checkout \in {Schema(w), NoSchema} /\ idle' = <<>>
      BY <3>1 DEF Checkout, AfterCheckout
    <3>3. RightSchema' /\ \A x \in Writers : Schema(x)' = Schema(x)
      BY DEF RightSchema, Schema
    <3>4. conn'[w] = Checkout /\ pc'[w] = "tables"
      BY <1>0
    <3>5. \A x \in Writers \ {w} : pc'[x] \notin {"begin", "tables", "write"}
      BY <1>0, <2>4, <3>1
    <3> QED BY <3>2, <3>3, <3>4, <3>5
  <2>8. CASE BeginFails(w)
    <3> USE <2>8 DEF BeginFails
    <3>1. Working(w) /\ idle \in {<<>>, <<Schema(w)>>}
      BY DEF Working, InDump
    <3>2. idle' \in {<<>>, <<Schema(w)>>} /\ Len(idle') <= 1
      BY <3>1 DEF AfterCheckout
    <3>3. \A x \in Writers : conn'[x] = NoConn
      BY <2>3, <3>1 DEF IInv, Accounting, Holding
    <3>4. \A x \in Writers : pc'[x] \notin {"begin", "tables", "write"}
      BY <1>0, <2>4, <3>1
    <3>5. RightSchema'
      BY DEF RightSchema
    <3> QED BY <3>2, <3>3, <3>4, <3>5
  <2>9. CASE ReadTables(w)
    <3> USE <2>9 DEF ReadTables
    <3>1. RightSchema' /\ \A x \in Writers : Schema(x)' = Schema(x)
      BY DEF RightSchema, Schema
    <3>2. conn[w] = Schema(w) /\ pc'[w] = "write"
      BY <1>0
    <3>3. \A x \in Writers \ {w} : pc'[x] = pc[x]
      BY <1>0
    <3> QED BY <3>1, <3>2, <3>3
  <2>10. CASE DumpFails(w)
    <3> USE <2>10 DEF DumpFails
    <3>1. idle = <<>> /\ Working(w)
      BY DEF IInv, Accounting, Holding, Working, InDump
    <3>2. Len(idle') <= 1
      <4>1. conn[w] \in Selectable
        BY <1>0, <3>1 DEF IInv, Accounting, Holding
      <4>2. Len(PutBack(conn[w])) <= 1
        BY <4>1, <3>1, PutOnEmpty
      <4>3. CASE idle' = PutBack(conn[w])
        BY ONLY <4>2, <4>3
      <4>4. CASE idle' = idle
        BY <4>4
      <4> QED BY <4>3, <4>4 DEF PutBackOrDrop
    <3>3. \A x \in Writers : conn'[x] = NoConn
      BY <1>0, <2>3, <3>1
    <3>4. \A x \in Writers : pc'[x] \notin {"begin", "tables", "write"}
      BY <1>0, <2>4, <3>1
    <3>5. RightSchema'
      BY DEF RightSchema
    <3> QED BY <3>2, <3>3, <3>4, <3>5
  <2>11. CASE DumpDone(w)
    <3> USE <2>11 DEF DumpDone
    <3>1. idle = <<>> /\ Working(w) /\ conn[w] = Schema(w)
      BY DEF IInv, Accounting, Holding, Working, InDump
    <3>2. Len(idle') <= 1
      <4>1. conn[w] \in Selectable
        BY <1>0, <3>1 DEF IInv, Accounting, Holding
      <4>2. Len(PutBack(conn[w])) <= 1
        BY <4>1, <3>1, PutOnEmpty
      <4>3. CASE idle' = PutBack(conn[w])
        BY ONLY <4>2, <4>3
      <4>4. CASE idle' = idle
        BY <4>4
      <4> QED BY <4>3, <4>4 DEF PutBackOrDrop
    <3>3. \A x \in Writers : conn'[x] = NoConn
      BY <1>0, <2>3, <3>1
    <3>4. \A x \in Writers : pc'[x] \notin {"begin", "tables", "write"}
      BY <1>0, <2>4, <3>1
    <3>5. RightSchema'
      <4>1. Len(dumped[w]) = at[w] - 1 /\ at[w] \in Nat \ {0}
        BY <1>0 DEF IInv, Accounting, Progress, InDump
      <4>2. /\ Len(dumped'[w]) = at[w]
            /\ dumped'[w][at[w]] = Schema(w)
            /\ \A i \in 1..(at[w] - 1) : dumped'[w][i] = dumped[w][i]
            /\ \A x \in Writers \ {w} : dumped'[x] = dumped[x]
        BY <1>0, <3>1, <4>1
      <4>3. \A i \in 1..Len(dumped'[w]) : dumped'[w][i] = SchemasOf[w][i]
        BY <4>1, <4>2 DEF RightSchema, Schema
      <4>4. \A x \in Writers \ {w} :
              \A i \in 1..Len(dumped'[x]) : dumped'[x][i] = SchemasOf[x][i]
        BY <4>2 DEF RightSchema
      <4> QED BY ONLY <4>3, <4>4 DEF RightSchema
    <3> QED BY <3>2, <3>3, <3>4, <3>5
  <2>12. CASE Report(w) \/ Release(w) \/ Done(w)
    <3>1. idle' = idle /\ conn' = conn /\ dumped' = dumped /\ at' = at
      BY <2>12 DEF Report, Release, Done
    <3>2. \A x \in Writers : pc'[x] \in {"begin", "tables", "write"} => pc'[x] = pc[x]
      BY <1>0, <2>12 DEF Report, Release, Done
    <3> QED BY <3>1, <3>2 DEF RightSchema, Schema
  <2> QED BY <1>2, <2>5, <2>6, <2>7, <2>8, <2>9, <2>10, <2>11, <2>12 DEF Worker
<1>3. CASE DropIdle
  <2>1. idle' = <<>>
    BY <1>0, <1>3 DEF DropIdle
  <2>2. pc' = pc /\ conn' = conn /\ at' = at /\ dumped' = dumped
    BY <1>3 DEF DropIdle
  <2>3. RightSchema' /\ Len(idle') <= 1
    BY <2>1, <2>2 DEF RightSchema
  <2> QED BY ONLY <2>1, <2>2, <2>3, OneConnection DEF OneConnection, Schema
<1>4. CASE UNCHANGED vars
  BY <1>4 DEF vars, RightSchema, Schema
<1> QED BY <1>1, <1>2, <1>3, <1>4 DEF Next, Returned

\* With --parallelism 1 or 0 every dump reads the schema it was asked for, even when the
\* server drops idle connections at any moment: USE is lost at worst, and a connection
\* without a schema fails.  With two slots DumpPool_crossed.cfg refutes it.
THEOREM SerialDumpsAreRight ==
  ASSUME Parallelism <= 1
  PROVE  Spec => []RightSchema
<1>1. Slots = 1
  BY PoolAssumption DEF Slots
<1>2. Init => OneConnection
  <2> SUFFICES ASSUME Init PROVE OneConnection
    OBVIOUS
  <2>1. Len(idle) <= 1
    BY <1>1, PoolAssumption DEF Init
  <2> QED BY <2>1, PoolAssumption DEF Init, OneConnection, RightSchema
<1>3. IInv /\ OneConnection /\ [Next]_vars => OneConnection'
  BY <1>1, OneConnectionStep
<1>4. OneConnection => RightSchema
  BY DEF OneConnection
<1> QED BY <1>2, <1>3, <1>4, Invariance, PTL DEF Spec

---------------------------------------------------------------------------
(***************************************************************************)
(* The archive.  As long as no write has failed, what is in the file,      *)
(* followed by what the compressor holds and what the encryptor holds, is  *)
(* all that was written; a close moves a layer's part down.  When a write  *)
(* has failed, the compressor remembers it, and the last close answers an  *)
(* error.                                                                  *)
(***************************************************************************)

\* A write that fails does so below a compressor that remembers it.
FaultsAreLatched == \A s \in Setups : s.faults > 0 => s.compression = "gzip"

\* No encryptor takes its second close for an error.
NoAge == \A s \in Setups : s.encryption # "age"

Data == Seq(Nat)

Pipes == [enc : Data, encClosed : BOOLEAN, comp : Data, compClosed : BOOLEAN,
          latched : BOOLEAN, file : Data, faults : Nat, ok : BOOLEAN]

\* What has left the encryptor, and all that was written to it.
Below(p) == p.file \o p.comp
Flow(p) == Below(p) \o p.enc

\* Only a write that failed is remembered, by gzip; what has no buffer holds nothing.
Sane(p) ==
  /\ p \in Pipes
  /\ p.latched => compression = "gzip" /\ p.faults > 0
  /\ compression = "none" => p.comp = <<>>
  /\ encryption = "none" => p.enc = <<>>

---------------------------------------------------------------------------
(* Sequences. *)

LEMMA Glue ==
  ASSUME NEW s \in Data, NEW t \in Data
  PROVE  s \o t \in Data /\ s \o <<>> = s /\ <<>> \o s = s
<1> DEFINE N == Nat
<1>1. s \in Seq(N) /\ t \in Seq(N)
  BY DEF Data
<1> HIDE DEF N
<1>2. s \o t \in Seq(N) /\ s \o <<>> = s /\ <<>> \o s = s
  BY <1>1, ConcatProperties, ConcatEmptySeq
<1> QED BY <1>2 DEF N, Data

LEMMA GlueThree ==
  ASSUME NEW s \in Data, NEW t \in Data, NEW u \in Data
  PROVE  (s \o t) \o u = s \o (t \o u)
<1> DEFINE N == Nat
<1>1. s \in Seq(N) /\ t \in Seq(N) /\ u \in Seq(N)
  BY DEF Data
<1> HIDE DEF N
<1> QED BY ONLY <1>1, ConcatAssociative

\* A sequence cut into two.
LEMMA CutInTwo ==
  ASSUME NEW s \in Data, NEW k \in 0..Len(s)
  PROVE  /\ SubSeq(s, 1, k) \in Data /\ SubSeq(s, k + 1, Len(s)) \in Data
         /\ SubSeq(s, 1, k) \o SubSeq(s, k + 1, Len(s)) = s
<1>1. Len(s) \in Nat /\ \A i \in 1..Len(s) : s[i] \in Nat
  BY DEF Data
<1>2. SubSeq(s, 1, k) \in Data /\ SubSeq(s, k + 1, Len(s)) \in Data
  BY <1>1, SubSeqProperties DEF Data
<1>3. SubSeq(s, 1, k) \o SubSeq(s, k + 1, Len(s)) = SubSeq(s, 1, Len(s))
  <2>1. 1 \in 1..Len(s) + 1 /\ k \in 1 - 1..Len(s) /\ Len(s) \in k..Len(s) /\ s \in Seq(Nat)
    BY <1>1 DEF Data
  <2> QED BY <2>1, ConcatAdjacentSubSeq
<1>4. SubSeq(s, 1, Len(s)) = s
  BY SubSeqFull DEF Data
<1> QED BY <1>2, <1>3, <1>4

---------------------------------------------------------------------------
(* The calls on the layers. *)

LEMMA SetupType ==
  ASSUME setup \in Setups, FaultsAreLatched
  PROVE  /\ encryption \in {"none", "block", "sealed", "age"}
         /\ compression \in {"none", "gzip"}
         /\ setup.faults \in Nat
         /\ compression = "none" => setup.faults = 0
BY ArchiveWriterAssumption DEF encryption, compression, FaultsAreLatched

LEMMA ToFileDoes ==
  ASSUME setup \in Setups, FaultsAreLatched, NEW p \in Pipes, NEW w \in Data, NEW q \in ToFile(p, w)
  PROVE  /\ q \in Pipes
         /\ q.enc = p.enc /\ q.encClosed = p.encClosed
         /\ q.comp = p.comp /\ q.compClosed = p.compClosed /\ q.latched = p.latched
         /\ q.ok => q.file = p.file \o w
         /\ ~q.ok => q.faults > 0 /\ compression = "gzip"
<1>1. PICK k \in IF p.faults < setup.faults THEN 0..Len(w) ELSE {Len(w)} :
        q = [p EXCEPT !.file = @ \o SubSeq(w, 1, k), !.ok = (k = Len(w)),
                      !.faults = IF k = Len(w) THEN @ ELSE @ + 1]
  BY DEF ToFile
<1>2. Len(w) \in Nat /\ k \in 0..Len(w)
  BY <1>1 DEF Data
<1>3. SubSeq(w, 1, k) \in Data /\ SubSeq(w, 1, Len(w)) = w
  BY <1>2, CutInTwo, SubSeqFull DEF Data
<1>4. p.file \o SubSeq(w, 1, k) \in Data
  BY <1>3, Glue DEF Pipes
<1>5. CASE k = Len(w)
  <2>1. q = [p EXCEPT !.file = p.file \o w, !.ok = TRUE, !.faults = p.faults]
    BY <1>1, <1>3, <1>5
  <2> QED BY <1>3, <1>4, <1>5, <2>1 DEF Pipes
<1>6. CASE k # Len(w)
  <2>1. q = [p EXCEPT !.file = p.file \o SubSeq(w, 1, k), !.ok = FALSE, !.faults = p.faults + 1]
    BY <1>1, <1>6
  <2>2. p.faults < setup.faults /\ p.faults \in Nat
    BY <1>1, <1>6 DEF Pipes
  <2>3. compression = "gzip"
    BY <2>2, SetupType
  <2>4. p.faults + 1 \in Nat /\ p.faults + 1 > 0
    BY <2>2
  <2>5. /\ q \in Pipes /\ q.enc = p.enc /\ q.encClosed = p.encClosed /\ q.comp = p.comp
        /\ q.compClosed = p.compClosed /\ q.latched = p.latched /\ q.ok = FALSE
        /\ q.faults = p.faults + 1
    BY <1>4, <2>1, <2>4 DEF Pipes
  <2> QED BY <2>3, <2>4, <2>5
<1> QED BY <1>5, <1>6

LEMMA FlushDoes ==
  ASSUME setup \in Setups, FaultsAreLatched, NEW p, Sane(p), NEW w \in Data, NEW q \in Flush(p, w)
  PROVE  /\ Sane(q)
         /\ q.enc = p.enc /\ q.encClosed = p.encClosed /\ q.compClosed = p.compClosed
         /\ (q.latched <=> ~q.ok)
         /\ q.ok => q.comp = <<>> /\ q.file = Below(p) \o w
<1> DEFINE held == p.comp \o w
<1>1. PICK f \in ToFile(p, held) : q = [f EXCEPT !.latched = ~f.ok, !.comp = <<>>]
  BY DEF Flush
<1>2. p \in Pipes /\ p.file \in Data /\ p.comp \in Data /\ held \in Data
  BY Glue DEF Sane, Pipes
<1>3. /\ f \in Pipes
      /\ f.enc = p.enc /\ f.encClosed = p.encClosed /\ f.compClosed = p.compClosed
      /\ f.ok => f.file = p.file \o (p.comp \o w)
      /\ ~f.ok => f.faults > 0 /\ compression = "gzip"
  <2> HIDE DEF held
  <2>1. /\ f \in Pipes
        /\ f.enc = p.enc /\ f.encClosed = p.encClosed /\ f.compClosed = p.compClosed
        /\ f.ok => f.file = p.file \o held
        /\ ~f.ok => f.faults > 0 /\ compression = "gzip"
    BY <1>1, <1>2, ToFileDoes
  <2> QED BY <2>1 DEF held
<1>4. <<>> \in Data
  BY DEF Data
<1>5. /\ q \in Pipes /\ q.enc = f.enc /\ q.encClosed = f.encClosed /\ q.compClosed = f.compClosed
      /\ q.latched = ~f.ok /\ q.ok = f.ok /\ q.comp = <<>> /\ q.file = f.file /\ q.faults = f.faults
  BY <1>1, <1>3, <1>4 DEF Pipes
<1>6. q.ok => q.file = Below(p) \o w
  BY <1>2, <1>3, <1>5, GlueThree DEF Below
<1> QED BY <1>3, <1>5, <1>6 DEF Sane

\* Compressing answers ok exactly if it remembers no error, and passes on or keeps what it gets.
LEMMA CompressDoes ==
  ASSUME setup \in Setups, FaultsAreLatched, NEW p, Sane(p), NEW w \in Data,
         NEW q \in Compress(p, w)
  PROVE  /\ Sane(q)
         /\ q.enc = p.enc /\ q.encClosed = p.encClosed /\ q.compClosed = p.compClosed
         /\ (q.latched <=> ~q.ok) /\ (p.latched => q.latched)
         /\ q.ok => Below(q) = Below(p) \o w
<1>0. p \in Pipes /\ p.file \in Data /\ p.comp \in Data /\ p.comp \o w \in Data
      /\ p.file \o p.comp \in Data
  BY Glue DEF Sane, Pipes
<1>1. CASE compression = "none"
  <2>1. q \in ToFile(p, w)
    BY <1>1 DEF Compress
  <2>2. /\ q \in Pipes /\ q.enc = p.enc /\ q.encClosed = p.encClosed
        /\ q.comp = p.comp /\ q.compClosed = p.compClosed /\ q.latched = p.latched
        /\ q.ok /\ q.file = p.file \o w
    BY <1>0, <1>1, <2>1, ToFileDoes DEF Pipes
  <2>3. ~p.latched /\ p.comp = <<>>
    BY <1>1 DEF Sane
  <2>4. Below(q) = p.file \o w /\ Below(p) = p.file
    BY <1>0, <2>2, <2>3, Glue DEF Below, Pipes
  <2> QED BY <1>1, <2>2, <2>3, <2>4 DEF Sane, Pipes
<1>2. CASE compression # "none" /\ p.latched
  <2>1. q = [p EXCEPT !.ok = FALSE]
    BY <1>2 DEF Compress
  <2> QED BY <1>0, <1>2, <2>1 DEF Sane, Pipes
<1>3. CASE compression # "none" /\ ~p.latched
  <2>1. CASE q = [p EXCEPT !.comp = @ \o w, !.ok = TRUE]
    <3>1. /\ q \in Pipes /\ q.enc = p.enc /\ q.encClosed = p.encClosed
          /\ q.compClosed = p.compClosed /\ ~q.latched /\ q.ok
          /\ q.file = p.file /\ q.comp = p.comp \o w /\ q.faults = p.faults
      <4> DEFINE held == p.comp \o w
      <4>1. held \in Data /\ q = [p EXCEPT !.comp = held, !.ok = TRUE]
        BY <1>0, <2>1
      <4> HIDE DEF held
      <4>2. /\ q \in Pipes /\ q.enc = p.enc /\ q.encClosed = p.encClosed
            /\ q.compClosed = p.compClosed /\ q.latched = p.latched /\ q.ok
            /\ q.file = p.file /\ q.comp = held /\ q.faults = p.faults
        BY <1>0, <4>1 DEF Pipes
      <4> QED BY <1>3, <4>2 DEF held
    <3>2. p.file \o (p.comp \o w) = (p.file \o p.comp) \o w
      <4>1. p.file \in Data /\ p.comp \in Data /\ w \in Data
        BY <1>0
      <4> QED BY ONLY <4>1, GlueThree
    <3>3. Below(q) = Below(p) \o w
      BY <3>1, <3>2 DEF Below
    <3>4. Sane(q)
      BY <1>3, <3>1 DEF Sane
    <3> QED BY <1>3, <3>1, <3>3, <3>4
  <2>2. CASE q \in Flush(p, w)
    <3>1. q.ok => Below(q) = Below(p) \o w
      <4>1. q.ok => q.comp = <<>> /\ q.file = Below(p) \o w /\ q.file \in Data
        BY <2>2, FlushDoes DEF Sane, Pipes
      <4> QED BY <4>1, Glue DEF Below
    <3> QED BY <1>3, <2>2, <3>1, FlushDoes
  <2> QED BY <1>3, <2>1, <2>2 DEF Compress
<1> QED BY <1>1, <1>2, <1>3

\* A close puts all there is into the file, or has an error to answer.
LEMMA CloseCompressorDoes ==
  ASSUME setup \in Setups, FaultsAreLatched, NEW p, Sane(p), NEW q \in CloseCompressor(p)
  PROVE  /\ Sane(q)
         /\ q.enc = p.enc /\ q.encClosed = p.encClosed
         /\ (q.latched <=> ~q.ok)
         /\ p.latched => q.latched
         /\ q.ok /\ compression = "none" => q.file = Below(p)
         /\ q.ok /\ compression # "none" /\ ~p.compClosed =>
              q.file = Below(p) \o <<GzipEnd>> /\ q.compClosed
         /\ q.ok /\ compression # "none" /\ p.compClosed => q.file = p.file /\ q.compClosed
<1>0. p \in Pipes /\ p.file \in Data /\ p.comp \in Data /\ <<GzipEnd>> \in Data
  BY ArchiveWriterAssumption DEF Sane, Pipes, Data, GzipEnd
<1>1. CASE compression = "none" \/ (p.compClosed /\ ~p.latched)
  <2>1. q = [p EXCEPT !.ok = TRUE]
    BY <1>1 DEF CloseCompressor
  <2>2. /\ q \in Pipes /\ q.enc = p.enc /\ q.encClosed = p.encClosed /\ q.comp = p.comp
        /\ q.compClosed = p.compClosed /\ q.latched = p.latched /\ q.file = p.file
        /\ q.faults = p.faults /\ q.ok
    BY <1>0, <2>1 DEF Pipes
  <2>3. ~p.latched
    BY <1>1 DEF Sane
  <2>4. compression = "none" => p.file = Below(p)
    BY <1>0, Glue DEF Sane, Below
  <2> QED BY <1>1, <2>2, <2>3, <2>4 DEF Sane
<1>2. CASE compression # "none" /\ p.latched
  <2>1. q = [p EXCEPT !.ok = FALSE]
    BY <1>2 DEF CloseCompressor
  <2> QED BY <1>0, <1>2, <2>1 DEF Sane, Pipes
<1>3. CASE compression # "none" /\ ~p.latched /\ ~p.compClosed
  <2> DEFINE c == [p EXCEPT !.compClosed = TRUE]
  <2>1. q \in Flush(c, <<GzipEnd>>)
    BY <1>3 DEF CloseCompressor
  <2>2. /\ c \in Pipes /\ c.enc = p.enc /\ c.encClosed = p.encClosed /\ c.comp = p.comp
        /\ c.compClosed /\ c.latched = p.latched /\ c.file = p.file /\ c.faults = p.faults
    BY <1>0 DEF Pipes
  <2>3. Sane(c) /\ Below(c) = Below(p)
    BY <2>2 DEF Sane, Below
  <2> HIDE DEF c
  <2>4. /\ Sane(q) /\ q.enc = c.enc /\ q.encClosed = c.encClosed /\ q.compClosed = c.compClosed
        /\ (q.latched <=> ~q.ok) /\ (q.ok => q.file = Below(c) \o <<GzipEnd>>)
    BY <1>0, <2>1, <2>3, FlushDoes
  <2> QED BY <1>3, <2>2, <2>3, <2>4
<1> QED BY <1>1, <1>2, <1>3 DEF Sane, Pipes

LEMMA EncryptDoes ==
  ASSUME setup \in Setups, FaultsAreLatched, NEW p, Sane(p), ~p.encClosed, NEW x \in Nat,
         NEW q \in Encrypt(p, <<x>>)
  PROVE  /\ Sane(q)
         /\ q.compClosed = p.compClosed
         /\ ~p.latched => (q.latched <=> ~q.ok)
         /\ ~p.latched /\ q.ok => Flow(q) = Flow(p) \o <<x>> /\ ~q.encClosed
<1> DEFINE w == <<x>>
<1> DEFINE all == p.enc \o w
<1>0. /\ p \in Pipes /\ w \in Data /\ Len(w) = 1 /\ <<>> \in Data
      /\ p.enc \in Data /\ p.file \in Data /\ p.comp \in Data
  BY DEF Sane, Pipes, Data
<1>1. /\ all \in Data /\ Below(p) \in Data /\ Flow(p) = Below(p) \o p.enc
      /\ Flow(p) \o w = Below(p) \o all
  <2>1. all \in Data
    BY <1>0, Glue
  <2>2. Below(p) \in Data
    BY <1>0, Glue DEF Below
  <2>3. (Below(p) \o p.enc) \o w = Below(p) \o (p.enc \o w)
    BY <1>0, <2>2, GlueThree
  <2> QED BY <2>1, <2>2, <2>3 DEF Flow
<1>2. CASE encryption = "none"
  <2>1. q \in Compress(p, w)
    BY <1>2 DEF Encrypt
  <2>2. /\ Sane(q) /\ q.enc = p.enc /\ q.encClosed = p.encClosed /\ q.compClosed = p.compClosed
        /\ (q.latched <=> ~q.ok) /\ (q.ok => Below(q) = Below(p) \o w)
    BY <1>0, <2>1, CompressDoes
  <2>3. p.enc = <<>> /\ Below(p) \o w \in Data
    BY <1>0, <1>1, <1>2, Glue DEF Sane
  <2>4. q.ok => Flow(q) = Flow(p) \o w
    BY <1>0, <1>1, <2>2, <2>3, Glue DEF Flow
  <2> QED BY <2>2, <2>4
<1>3. ASSUME q = [p EXCEPT !.enc = @ \o w, !.ok = TRUE], encryption # "none"
      PROVE  /\ Sane(q) /\ q.compClosed = p.compClosed /\ q.latched = p.latched /\ q.ok
             /\ Flow(q) = Flow(p) \o w /\ ~q.encClosed
  <2>1. /\ q \in Pipes /\ q.enc = all /\ q.encClosed = p.encClosed /\ q.comp = p.comp
        /\ q.compClosed = p.compClosed /\ q.latched = p.latched /\ q.file = p.file
        /\ q.faults = p.faults /\ q.ok
    BY <1>0, <1>1, <1>3 DEF Pipes
  <2>2. Flow(q) = Below(p) \o all
    BY <2>1 DEF Flow, Below
  <2> QED BY <1>1, <1>3, <2>1, <2>2 DEF Sane
<1>4. CASE encryption = "sealed"
  BY <1>3, <1>4 DEF Encrypt
<1>5. CASE encryption = "block"
  <2>0. PICK k \in {Len(all) - 1, Len(all)} : \E c \in Compress(p, SubSeq(all, 1, k)) :
          q = IF c.ok THEN [c EXCEPT !.enc = SubSeq(all, k + 1, Len(all))] ELSE [c EXCEPT !.enc = all]
    BY <1>5 DEF Encrypt
  <2>1. PICK c \in Compress(p, SubSeq(all, 1, k)) :
          q = IF c.ok THEN [c EXCEPT !.enc = SubSeq(all, k + 1, Len(all))] ELSE [c EXCEPT !.enc = all]
    BY <2>0
  <2>2. k \in 0..Len(all)
    BY <1>0, <1>1, ConcatProperties DEF Data
  <2>3. /\ SubSeq(all, 1, k) \in Data /\ SubSeq(all, k + 1, Len(all)) \in Data
        /\ SubSeq(all, 1, k) \o SubSeq(all, k + 1, Len(all)) = all
    BY <1>1, <2>2, CutInTwo
  <2>4. /\ Sane(c) /\ c.encClosed = p.encClosed /\ c.compClosed = p.compClosed
        /\ (c.latched <=> ~c.ok) /\ (c.ok => Below(c) = Below(p) \o SubSeq(all, 1, k))
    <3> DEFINE first == SubSeq(all, 1, k)
    <3>1. first \in Data /\ c \in Compress(p, first)
      BY <2>1, <2>3
    <3> HIDE DEF first
    <3>2. /\ Sane(c) /\ c.encClosed = p.encClosed /\ c.compClosed = p.compClosed
          /\ (c.latched <=> ~c.ok) /\ (c.ok => Below(c) = Below(p) \o first)
      BY <3>1, CompressDoes
    <3> QED BY <3>2 DEF first
  <2>5. /\ q \in Pipes /\ q.encClosed = c.encClosed /\ q.comp = c.comp
        /\ q.compClosed = c.compClosed /\ q.latched = c.latched /\ q.file = c.file
        /\ q.faults = c.faults /\ q.ok = c.ok
        /\ c.ok => q.enc = SubSeq(all, k + 1, Len(all))
    <3>1. CASE c.ok
      BY <1>1, <2>1, <2>3, <2>4, <3>1 DEF Sane, Pipes
    <3>2. CASE ~c.ok
      BY <1>1, <2>1, <2>3, <2>4, <3>2 DEF Sane, Pipes
    <3> QED BY <3>1, <3>2
  <2>6. q.ok => Flow(q) = Flow(p) \o w
    <3> SUFFICES ASSUME q.ok PROVE Flow(q) = Flow(p) \o w
      OBVIOUS
    <3>1. Flow(q) = (Below(p) \o SubSeq(all, 1, k)) \o SubSeq(all, k + 1, Len(all))
      BY <2>4, <2>5 DEF Flow, Below
    <3>2. Flow(q) = Below(p) \o (SubSeq(all, 1, k) \o SubSeq(all, k + 1, Len(all)))
      BY <1>1, <2>3, <3>1, GlueThree
    <3> QED BY <1>1, <2>3, <3>2
  <2>7. Sane(q)
    BY <1>5, <2>4, <2>5 DEF Sane
  <2> QED BY <2>4, <2>5, <2>6, <2>7
<1>6. CASE encryption = "age"
  <2>1. CASE q = [p EXCEPT !.enc = @ \o w, !.ok = TRUE]
    BY <1>3, <1>6, <2>1
  <2>2. ASSUME NEW c \in Compress(p, p.enc), q = [c EXCEPT !.enc = w, !.encClosed = ~c.ok]
        PROVE  /\ Sane(q) /\ q.compClosed = p.compClosed /\ (q.latched <=> ~q.ok)
               /\ q.ok => Flow(q) = Flow(p) \o w /\ ~q.encClosed
    <3>1. /\ Sane(c) /\ c.encClosed = p.encClosed /\ c.compClosed = p.compClosed
          /\ (c.latched <=> ~c.ok) /\ (c.ok => Below(c) = Below(p) \o p.enc)
      BY <1>0, <2>2, CompressDoes
    <3>2. c \in Pipes /\ c.ok \in BOOLEAN
      BY <3>1 DEF Sane, Pipes
    <3>3. /\ q \in Pipes /\ q.encClosed = ~c.ok /\ q.comp = c.comp /\ q.enc = w
          /\ q.compClosed = c.compClosed /\ q.latched = c.latched /\ q.file = c.file
          /\ q.faults = c.faults /\ q.ok = c.ok
      <4>1. CASE c.ok = TRUE
        BY <1>0, <2>2, <3>2, <4>1 DEF Pipes
      <4>2. CASE c.ok = FALSE
        BY <1>0, <2>2, <3>2, <4>2 DEF Pipes
      <4> QED BY <3>2, <4>1, <4>2
    <3>4. q.ok => Flow(q) = (Below(p) \o p.enc) \o w
      BY <3>1, <3>3 DEF Flow, Below
    <3>5. Sane(q)
      BY <1>6, <3>1, <3>3 DEF Sane
    <3> QED BY <1>1, <3>1, <3>3, <3>4, <3>5
  <2> QED BY <1>6, <2>1, <2>2 DEF Encrypt
<1> QED BY <1>2, <1>3, <1>4, <1>5, <1>6, SetupType

\* The first close of an encryptor passes on all it holds, and its end.
LEMMA CloseEncryptorDoes ==
  ASSUME setup \in Setups, FaultsAreLatched, NEW p, Sane(p), encryption # "none",
         NEW q \in CloseEncryptor(p)
  PROVE  /\ Sane(q)
         /\ q.compClosed = p.compClosed /\ (p.latched => q.latched)
         /\ p.encClosed => /\ q.latched = p.latched /\ Below(q) = Below(p)
                           /\ q.ok <=> encryption # "age"
         /\ ~p.encClosed => /\ q.encClosed
                            /\ q.latched <=> ~q.ok
                            /\ q.ok => Below(q) = Flow(p) \o <<Seal>>
<1>0. /\ p \in Pipes /\ <<Seal>> \in Data /\ <<>> \in Data
      /\ p.enc \in Data /\ p.file \in Data /\ p.comp \in Data
  BY ArchiveWriterAssumption DEF Sane, Pipes, Data, Seal
<1>1. CASE p.encClosed
  <2>1. q = [p EXCEPT !.ok = (encryption # "age")]
    BY <1>1 DEF CloseEncryptor
  <2>2. CASE encryption = "age"
    <3>1. q = [p EXCEPT !.ok = FALSE]
      BY <2>1, <2>2
    <3> QED BY <1>0, <1>1, <2>2, <3>1 DEF Sane, Pipes, Below
  <2>3. CASE encryption # "age"
    <3>1. q = [p EXCEPT !.ok = TRUE]
      BY <2>1, <2>3
    <3> QED BY <1>0, <1>1, <2>3, <3>1 DEF Sane, Pipes, Below
  <2> QED BY <2>2, <2>3
<1>2. CASE ~p.encClosed
  <2> DEFINE c == [p EXCEPT !.encClosed = TRUE, !.enc = <<>>]
  <2> DEFINE rest == p.enc \o <<Seal>>
  <2>1. q \in Compress(c, rest)
    BY <1>2 DEF CloseEncryptor
  <2>2. /\ c \in Pipes /\ c.encClosed /\ c.compClosed = p.compClosed /\ c.comp = p.comp
        /\ c.file = p.file /\ c.latched = p.latched /\ c.faults = p.faults /\ c.enc = <<>>
    BY <1>0 DEF Pipes
  <2>3. Sane(c) /\ Below(c) = Below(p)
    BY <2>2 DEF Sane, Below
  <2> HIDE DEF c
  <2>4. rest \in Data /\ Below(p) \in Data
    BY <1>0, Glue DEF Below
  <2>5. /\ Sane(q) /\ q.encClosed = c.encClosed /\ q.compClosed = c.compClosed
        /\ (q.latched <=> ~q.ok) /\ (c.latched => q.latched) /\ (q.ok => Below(q) = Below(c) \o rest)
    <3> HIDE DEF rest
    <3> QED BY <2>1, <2>3, <2>4, CompressDoes
  <2>6. Below(p) \o (p.enc \o <<Seal>>) = (Below(p) \o p.enc) \o <<Seal>>
    <3> DEFINE seal == <<Seal>>
    <3> DEFINE below == Below(p)
    <3> DEFINE enc == p.enc
    <3>1. seal \in Data /\ below \in Data /\ enc \in Data
      BY <1>0, <2>4
    <3> HIDE DEF seal, below, enc
    <3>2. below \o (enc \o seal) = (below \o enc) \o seal
      BY <3>1, GlueThree
    <3> QED BY <3>2 DEF seal, below, enc
  <2> QED BY <1>2, <2>2, <2>3, <2>5, <2>6 DEF Flow
<1> QED BY <1>1, <1>2

---------------------------------------------------------------------------
(* What has been written, as the run goes on. *)

Numbers(n) == [i \in 1..n |-> i]
Opening == IF encryption = "none" THEN <<>> ELSE <<Start>>

\* No close yet, and all that was written is on its way.
Flowing(written) ==
  /\ ~pipe.encClosed /\ ~pipe.compClosed
  /\ Flow(pipe) = Opening \o written

Types ==
  /\ setup \in Setups
  /\ Sane(pipe)
  /\ walked \in 0..Pieces
  /\ err \in BOOLEAN
  /\ step \in {"setup", "walk", "tarClose", "writerClose", "archiveClose", "compressorClose", "done"}
  /\ step # "done" => result = "none"

OnItsWay ==
  /\ step = "setup" => pipe = Empty /\ walked = 0 /\ ~err
  /\ step = "walk" => ~err /\ ~pipe.latched /\ Flowing(Numbers(walked))
  /\ step = "tarClose" /\ ~err => ~pipe.latched /\ Flowing(Numbers(Pieces))
  /\ step = "writerClose" /\ ~err => pipe.latched \/ Flowing(Plain)
  /\ step = "archiveClose" /\ encryption = "none" =>
       pipe.latched \/ (pipe.file = Whole /\ (compression # "none" => pipe.compClosed))
  /\ step = "archiveClose" /\ encryption # "none" =>
       pipe.latched \/ (pipe.encClosed /\ ~pipe.compClosed /\ Below(pipe) = Encrypted)
  /\ step = "compressorClose" =>
       /\ encryption # "none"
       /\ pipe.latched \/ (~pipe.compClosed /\ Below(pipe) = Encrypted)
  /\ result = "ok" => step = "done" /\ pipe.file = Whole

Inv == Types /\ OnItsWay

LEMMA NumbersGrow == ASSUME NEW n \in Nat PROVE Numbers(n) \o <<n + 1>> = Numbers(n + 1)
<1>1. Numbers(n) \in Data /\ <<n + 1>> \in Data /\ Numbers(n + 1) \in Data
      /\ Len(Numbers(n)) = n /\ Len(<<n + 1>>) = 1 /\ Len(Numbers(n + 1)) = n + 1
  BY DEF Numbers, Data
<1>2. /\ Numbers(n) \o <<n + 1>> \in Seq(Nat) /\ Len(Numbers(n) \o <<n + 1>>) = n + 1
      /\ \A i \in 1..n + 1 :
           (Numbers(n) \o <<n + 1>>)[i] = IF i <= n THEN Numbers(n)[i] ELSE <<n + 1>>[i - n]
  BY <1>1, ConcatProperties DEF Data
<1>3. \A i \in 1..n + 1 : (Numbers(n) \o <<n + 1>>)[i] = Numbers(n + 1)[i]
  BY <1>2 DEF Numbers
<1> QED BY <1>1, <1>2, <1>3, SeqEqual DEF Data

LEMMA Written ==
  /\ \A n \in Nat : Numbers(n) \in Data
  /\ Numbers(0) = <<>>
  /\ Plain = Numbers(Pieces) \o <<TarEnd>> /\ Plain \in Data
  /\ Opening \in Data
  /\ Encrypted = IF encryption = "none" THEN Plain ELSE (Opening \o Plain) \o <<Seal>>
  /\ TarEnd \in Nat /\ Start \in Nat
<1>1. \A n \in Nat : Numbers(n) \in Data
  BY DEF Numbers, Data
<1>2. Numbers(0) = <<>>
  BY DEF Numbers
<1>3. Pieces \in Nat /\ TarEnd \in Nat /\ Start \in Nat
  BY ArchiveWriterAssumption DEF TarEnd, Start
<1>4. Plain = Numbers(Pieces) \o <<TarEnd>>
  BY DEF Plain, Numbers
<1>5. <<TarEnd>> \in Data /\ <<Start>> \in Data /\ <<>> \in Data
  BY <1>3 DEF Data
<1>6. Plain \in Data
  BY <1>1, <1>3, <1>4, <1>5, Glue
<1> QED BY <1>1, <1>2, <1>3, <1>4, <1>5, <1>6 DEF Opening, Encrypted

LEMMA InitInv == ASSUME FaultsAreLatched PROVE ArchiveInit => Inv
<1> SUFFICES ASSUME ArchiveInit PROVE Inv
  OBVIOUS
<1>1. Empty \in Pipes /\ ~Empty.latched /\ Empty.comp = <<>> /\ Empty.enc = <<>>
  BY DEF Empty, Pipes, Data
<1>2. Sane(pipe)
  BY <1>1 DEF ArchiveInit, Sane
<1>4. Types
  <2>1. Pieces \in Nat
    BY ArchiveWriterAssumption
  <2>2. setup \in Setups /\ walked = 0 /\ err = FALSE /\ step = "setup" /\ result = "none"
    BY DEF ArchiveInit
  <2>3. walked \in 0..Pieces
    BY <2>1, <2>2
  <2>4. err \in BOOLEAN
    BY <2>2
  <2>5. step \in {"setup", "walk", "tarClose", "writerClose", "archiveClose", "compressorClose", "done"}
    BY <2>2
  <2>6. step # "done" => result = "none"
    BY <2>2
  <2> QED BY <1>2, <2>2, <2>3, <2>4, <2>5, <2>6 DEF Types
<1>3. OnItsWay
  BY DEF ArchiveInit, OnItsWay
<1> QED BY <1>3, <1>4 DEF Inv

LEMMA SetupInv == ASSUME Inv, FaultsAreLatched, Setup PROVE Inv'
<1>0. /\ pipe = Empty /\ walked = 0 /\ ~err /\ step = "setup" /\ result = "none"
      /\ Sane(pipe) /\ setup \in Setups
  BY DEF Setup, Inv, Types, OnItsWay
<1>1. CASE Fail /\ UNCHANGED pipe
  BY <1>0, <1>1 DEF Setup, Fail, Inv, Types, OnItsWay, Sane, encryption, compression
<1>2. ASSUME NEW p \in IF encryption = "none" THEN {pipe} ELSE Compress(pipe, <<Start>>),
             pipe' = p, IF p.ok THEN step' = "walk" /\ UNCHANGED result ELSE Fail
      PROVE  Inv'
  <2>1. /\ Empty.ok /\ ~Empty.latched /\ ~Empty.encClosed /\ ~Empty.compClosed
        /\ Below(Empty) = <<>> /\ Empty.enc = <<>>
    BY DEF Empty, Below
  <2>2. <<Start>> \in Data /\ <<>> \in Data
    BY DEF Start, Data
  <2>3. Sane(p) /\ ~p.encClosed /\ ~p.compClosed /\ p.enc = <<>>
        /\ (p.ok => ~p.latched /\ Below(p) = Opening)
    <3>1. CASE encryption = "none"
      BY <1>0, <1>2, <2>1, <3>1 DEF Opening
    <3>2. CASE encryption # "none"
      <4>1. p \in Compress(pipe, <<Start>>)
        BY <1>2, <3>2
      <4>2. /\ Sane(p) /\ p.enc = pipe.enc /\ p.encClosed = pipe.encClosed
            /\ p.compClosed = pipe.compClosed /\ (p.latched <=> ~p.ok)
            /\ (p.ok => Below(p) = Below(pipe) \o <<Start>>)
        <5> DEFINE start == <<Start>>
        <5>1. start \in Data /\ p \in Compress(pipe, start)
          BY <2>2, <4>1
        <5> HIDE DEF start
        <5>2. /\ Sane(p) /\ p.enc = pipe.enc /\ p.encClosed = pipe.encClosed
              /\ p.compClosed = pipe.compClosed /\ (p.latched <=> ~p.ok)
              /\ (p.ok => Below(p) = Below(pipe) \o start)
          BY <1>0, <5>1, CompressDoes
        <5> QED BY <5>2 DEF start
      <4>3. <<>> \o <<Start>> = <<Start>>
        BY <2>2, Glue
      <4> QED BY <1>0, <2>1, <3>2, <4>2, <4>3 DEF Opening
    <3> QED BY <3>1, <3>2
  <2>4. p.ok => Flow(p) = Opening \o Numbers(0)
    BY <2>3, Written DEF Flow
  <2>5. UNCHANGED <<setup, walked, err>>
    BY DEF Setup
  <2>6. Types'
    BY <1>0, <1>2, <2>3, <2>5 DEF Inv, Types, Fail, Sane, encryption, compression
  <2>7. OnItsWay'
    BY <1>0, <1>2, <2>3, <2>4, <2>5
       DEF OnItsWay, Flowing, Opening, Fail, encryption, compression, Flow, Below, Numbers
  <2> QED BY <2>6, <2>7 DEF Inv
<1> QED BY <1>1, <1>2 DEF Setup

LEMMA WriteFileInv == ASSUME Inv, FaultsAreLatched, WriteFile PROVE Inv'
<1>1. PICK p \in Encrypt(pipe, <<walked + 1>>) :
        pipe' = p /\ err' = ~p.ok /\ step' = IF p.ok THEN "walk" ELSE "tarClose"
  BY DEF WriteFile
<1>2. /\ step = "walk" /\ walked < Pieces /\ walked' = walked + 1 /\ setup' = setup
      /\ result' = result /\ result = "none"
      /\ Sane(pipe) /\ setup \in Setups /\ walked \in Nat /\ Pieces \in Nat
      /\ ~pipe.latched /\ ~pipe.encClosed /\ ~pipe.compClosed
      /\ Flow(pipe) = Opening \o Numbers(walked)
  BY ArchiveWriterAssumption DEF WriteFile, Inv, Types, OnItsWay, Flowing
<1>3. /\ Sane(p) /\ p.compClosed = pipe.compClosed /\ (p.latched <=> ~p.ok)
      /\ p.ok => Flow(p) = Flow(pipe) \o <<walked + 1>> /\ ~p.encClosed
  BY <1>1, <1>2, EncryptDoes
<1>4. p.ok => Flow(p) = Opening \o Numbers(walked + 1)
  <2>1. Flow(pipe) \o <<walked + 1>> = Opening \o (Numbers(walked) \o <<walked + 1>>)
    <3> DEFINE piece == <<walked + 1>>
    <3>1. piece \in Data /\ Opening \in Data /\ Numbers(walked) \in Data
      BY <1>2, Written DEF Data
    <3> HIDE DEF piece
    <3>2. (Opening \o Numbers(walked)) \o piece = Opening \o (Numbers(walked) \o piece)
      BY <3>1, GlueThree
    <3> QED BY <1>2, <3>2 DEF piece
  <2> QED BY <1>2, <1>3, <2>1, NumbersGrow
<1>5. p.ok \in BOOLEAN
  BY <1>3 DEF Sane, Pipes
<1>6. Types'
  BY <1>1, <1>2, <1>3, <1>5 DEF Inv, Types, Sane, encryption, compression
<1>7. OnItsWay'
  BY <1>1, <1>2, <1>3, <1>4, <1>5
     DEF OnItsWay, Flowing, Opening, encryption, compression, Flow, Below, Numbers
<1> QED BY <1>6, <1>7 DEF Inv

LEMMA EndWalkInv == ASSUME Inv, EndWalk PROVE Inv'
<1>1. /\ step = "walk" /\ step' = "tarClose" /\ err' \in BOOLEAN /\ (~err' => walked = Pieces)
      /\ UNCHANGED <<setup, pipe, walked, result>> /\ result = "none"
      /\ ~pipe.latched /\ Flowing(Numbers(walked))
  BY DEF EndWalk, Inv, Types, OnItsWay
<1>2. Types'
  BY <1>1 DEF Inv, Types, Sane, encryption, compression
<1>3. OnItsWay'
  BY <1>1 DEF OnItsWay, Flowing, Opening, encryption, compression, Flow, Below, Numbers
<1> QED BY <1>2, <1>3 DEF Inv

LEMMA CloseTarInv == ASSUME Inv, FaultsAreLatched, CloseTar PROVE Inv'
<1>1. PICK p \in IF err THEN {pipe} ELSE Encrypt(pipe, <<TarEnd>>) : pipe' = p
  BY DEF CloseTar
<1>2. /\ step = "tarClose" /\ step' = "writerClose" /\ UNCHANGED <<setup, walked, err, result>>
      /\ result = "none" /\ err \in BOOLEAN /\ Sane(pipe) /\ setup \in Setups
  BY DEF CloseTar, Inv, Types, OnItsWay
<1>3. CASE err
  BY <1>1, <1>2, <1>3 DEF Inv, Types, OnItsWay, Sane, encryption, compression
<1>4. CASE ~err
  <2>1. /\ ~pipe.latched /\ ~pipe.encClosed /\ ~pipe.compClosed
        /\ Flow(pipe) = Opening \o Numbers(Pieces)
    BY <1>2, <1>4 DEF Inv, OnItsWay, Flowing
  <2>2. /\ Sane(p) /\ p.compClosed = pipe.compClosed /\ (p.latched <=> ~p.ok)
        /\ p.ok => Flow(p) = Flow(pipe) \o <<TarEnd>> /\ ~p.encClosed
    BY <1>1, <1>2, <1>4, <2>1, Written, EncryptDoes
  <2>3. Flow(pipe) \o <<TarEnd>> = Opening \o Plain
    <3> DEFINE tarEnd == <<TarEnd>>
    <3>1. tarEnd \in Data /\ Opening \in Data /\ Numbers(Pieces) \in Data
      BY ArchiveWriterAssumption, Written DEF Data
    <3> HIDE DEF tarEnd
    <3>2. (Opening \o Numbers(Pieces)) \o tarEnd = Opening \o (Numbers(Pieces) \o tarEnd)
      BY <3>1, GlueThree
    <3> QED BY <2>1, <3>2, Written DEF tarEnd
  <2>4. p.latched \/ (~p.encClosed /\ ~p.compClosed /\ Flow(p) = Opening \o Plain)
    BY <2>1, <2>2, <2>3
  <2>5. Types'
    BY <1>1, <1>2, <2>2 DEF Inv, Types, Sane, encryption, compression
  <2>6. OnItsWay'
    BY <1>1, <1>2, <2>4
       DEF OnItsWay, Flowing, Opening, encryption, compression, Flow, Below, Plain
  <2> QED BY <2>5, <2>6 DEF Inv
<1> QED BY <1>3, <1>4

LEMMA CloseWriterInv == ASSUME Inv, FaultsAreLatched, CloseWriter PROVE Inv'
<1>1. PICK p \in CloseEncryptor(pipe) : pipe' = p
  BY DEF CloseWriter
<1>2. /\ step = "writerClose" /\ UNCHANGED <<setup, walked, err>>
      /\ IF err THEN Fail ELSE step' = "archiveClose" /\ UNCHANGED result
      /\ result = "none" /\ err \in BOOLEAN /\ Sane(pipe) /\ setup \in Setups
      /\ ~err => pipe.latched \/ Flowing(Plain)
  BY DEF CloseWriter, Inv, Types, OnItsWay
<1>3. Opening \in Data /\ Plain \in Data
  BY Written
<1>4. CASE encryption = "none"
  <2>1. p \in CloseCompressor(pipe)
    BY <1>1, <1>4 DEF CloseEncryptor
  <2>2. /\ Sane(p) /\ (p.latched <=> ~p.ok) /\ (pipe.latched => p.latched)
        /\ p.ok /\ compression = "none" => p.file = Below(pipe)
        /\ p.ok /\ compression # "none" /\ ~pipe.compClosed =>
             p.file = Below(pipe) \o <<GzipEnd>> /\ p.compClosed
    BY <1>2, <2>1, CloseCompressorDoes
  <2>3. Flowing(Plain) => Below(pipe) = Plain /\ ~pipe.compClosed
    <3>1. pipe.enc = <<>> /\ Opening = <<>> /\ pipe.file \in Data /\ pipe.comp \in Data
      BY <1>2, <1>4 DEF Sane, Opening, Pipes
    <3>2. Below(pipe) \in Data
      BY <3>1, Glue DEF Below
    <3> QED BY <1>3, <3>1, <3>2, Glue DEF Flowing, Flow
  <2>4. Whole = IF compression = "none" THEN Plain ELSE Plain \o <<GzipEnd>>
    BY <1>4 DEF Whole, Encrypted
  <2>5. ~err => p.latched \/ (p.file = Whole /\ (compression # "none" => p.compClosed))
    BY <1>2, <2>2, <2>3, <2>4
  <2>6. Types'
    BY <1>1, <1>2, <2>2 DEF Inv, Types, Sane, encryption, compression, Fail
  <2>7. OnItsWay'
    BY <1>1, <1>2, <1>4, <2>5
       DEF OnItsWay, encryption, compression, Fail, Whole, Encrypted, Plain
  <2> QED BY <2>6, <2>7 DEF Inv
<1>5. CASE encryption # "none"
  <2>1. /\ Sane(p) /\ p.compClosed = pipe.compClosed
        /\ pipe.latched => p.latched
        /\ ~pipe.encClosed => /\ p.encClosed
                              /\ p.latched <=> ~p.ok
                              /\ p.ok => Below(p) = Flow(pipe) \o <<Seal>>
    BY <1>1, <1>2, <1>5, CloseEncryptorDoes
  <2>2. (Opening \o Plain) \o <<Seal>> = Encrypted
    BY <1>5, Written
  <2>4. ~err => p.latched \/ (p.encClosed /\ ~p.compClosed /\ Below(p) = Encrypted)
    BY <1>2, <2>1, <2>2 DEF Flowing
  <2>5. Types'
    BY <1>1, <1>2, <2>1 DEF Inv, Types, Sane, encryption, compression, Fail
  <2>6. OnItsWay'
    BY <1>1, <1>2, <1>5, <2>4
       DEF OnItsWay, encryption, compression, Fail, Encrypted, Plain, Below
  <2> QED BY <2>5, <2>6 DEF Inv
<1> QED BY <1>4, <1>5

LEMMA CloseArchiveInv == ASSUME Inv, FaultsAreLatched, CloseArchive PROVE Inv'
<1>1. PICK p \in CloseEncryptor(pipe) :
        /\ pipe' = p
        /\ CASE ~p.ok -> Fail
             [] p.ok /\ encryption # "none" -> step' = "compressorClose" /\ UNCHANGED result
             [] p.ok /\ encryption = "none" -> step' = "done" /\ result' = "ok"
  BY DEF CloseArchive
<1>2. /\ step = "archiveClose" /\ UNCHANGED <<setup, walked, err>>
      /\ result = "none" /\ Sane(pipe) /\ setup \in Setups
  BY DEF CloseArchive, Inv, Types
<1>3. CASE encryption = "none"
  <2>1. pipe.latched \/ (pipe.file = Whole /\ (compression # "none" => pipe.compClosed))
    BY <1>2, <1>3 DEF Inv, OnItsWay
  <2>2. p \in CloseCompressor(pipe)
    BY <1>1, <1>3 DEF CloseEncryptor
  <2>3. /\ Sane(p) /\ (p.latched <=> ~p.ok) /\ (pipe.latched => p.latched)
        /\ p.ok /\ compression = "none" => p.file = Below(pipe)
        /\ p.ok /\ compression # "none" /\ pipe.compClosed => p.file = pipe.file
    BY <1>2, <2>2, CloseCompressorDoes
  <2>4. compression = "none" => Below(pipe) = pipe.file
    BY <1>2, Glue DEF Sane, Pipes, Below
  <2>5. p.ok => p.file = Whole
    BY <2>1, <2>3, <2>4
  <2>6. (p.ok /\ step' = "done" /\ result' = "ok") \/ (~p.ok /\ Fail)
    BY <1>1, <1>3
  <2>7. Types'
    BY <1>1, <1>2, <2>3, <2>6 DEF Inv, Types, Sane, encryption, compression, Fail
  <2>8. OnItsWay'
    BY <1>1, <1>2, <2>5, <2>6
       DEF OnItsWay, encryption, compression, Fail, Whole, Encrypted, Plain
  <2> QED BY <2>7, <2>8 DEF Inv
<1>4. CASE encryption # "none"
  <2>1. pipe.latched \/ (pipe.encClosed /\ ~pipe.compClosed /\ Below(pipe) = Encrypted)
    BY <1>2, <1>4 DEF Inv, OnItsWay
  <2>2. /\ Sane(p) /\ p.compClosed = pipe.compClosed /\ (pipe.latched => p.latched)
        /\ pipe.encClosed => Below(p) = Below(pipe)
    BY <1>1, <1>2, <1>4, CloseEncryptorDoes
  <2>3. p.latched \/ (~p.compClosed /\ Below(p) = Encrypted)
    BY <2>1, <2>2
  <2>4. (p.ok /\ step' = "compressorClose" /\ UNCHANGED result) \/ (~p.ok /\ Fail)
    BY <1>1, <1>4
  <2>5. Types'
    BY <1>1, <1>2, <2>2, <2>4 DEF Inv, Types, Sane, encryption, compression, Fail
  <2>6. OnItsWay'
    BY <1>1, <1>2, <1>4, <2>3, <2>4
       DEF OnItsWay, encryption, compression, Fail, Encrypted, Plain, Below
  <2> QED BY <2>5, <2>6 DEF Inv
<1> QED BY <1>3, <1>4

LEMMA CloseCompressedInv == ASSUME Inv, FaultsAreLatched, CloseCompressed PROVE Inv'
<1>1. PICK p \in CloseCompressor(pipe) :
        pipe' = p /\ IF p.ok THEN step' = "done" /\ result' = "ok" ELSE Fail
  BY DEF CloseCompressed
<1>2. /\ step = "compressorClose" /\ UNCHANGED <<setup, walked, err>>
      /\ result = "none" /\ Sane(pipe) /\ setup \in Setups /\ encryption # "none"
      /\ pipe.latched \/ (~pipe.compClosed /\ Below(pipe) = Encrypted)
  BY DEF CloseCompressed, Inv, Types, OnItsWay
<1>3. /\ Sane(p) /\ (p.latched <=> ~p.ok) /\ (pipe.latched => p.latched)
      /\ p.ok /\ compression = "none" => p.file = Below(pipe)
      /\ p.ok /\ compression # "none" /\ ~pipe.compClosed => p.file = Below(pipe) \o <<GzipEnd>>
  BY <1>1, <1>2, CloseCompressorDoes
<1>4. p.ok => p.file = Whole
  BY <1>2, <1>3 DEF Whole
<1>5. Types'
  BY <1>1, <1>2, <1>3 DEF Inv, Types, Sane, encryption, compression, Fail
<1>6. OnItsWay'
  BY <1>1, <1>2, <1>4 DEF OnItsWay, encryption, compression, Fail, Whole, Encrypted, Plain
<1> QED BY <1>5, <1>6 DEF Inv

LEMMA StepInv == ASSUME Inv, FaultsAreLatched, [ArchiveNext]_archiveVars PROVE Inv'
<1>1. CASE UNCHANGED archiveVars
  <2>1. Types'
    BY <1>1 DEF archiveVars, Inv, Types, Sane, encryption, compression
  <2>2. OnItsWay'
    BY <1>1 DEF archiveVars, Inv, OnItsWay, Flowing, Flow, Below, Opening, Whole, Encrypted, Plain,
                Numbers, encryption, compression
  <2> QED BY <2>1, <2>2 DEF Inv
<1> QED BY <1>1, SetupInv, WriteFileInv, EndWalkInv, CloseTarInv, CloseWriterInv,
           CloseArchiveInv, CloseCompressedInv DEF ArchiveNext

---------------------------------------------------------------------------
(* The theorems. *)

\* The invariant: until a write fails, all that was written is in the file and in the layers.
THEOREM ArchiveInvariance == ASSUME FaultsAreLatched PROVE ArchiveSpec => []Inv
BY InitInv, StepInv, PTL DEF ArchiveSpec

\* An ok run has the whole archive in the file, the layers' ends in their order
\* (core/dump.go:175-186), whatever writes fail below gzip.
THEOREM OkIsWhole == ASSUME FaultsAreLatched PROVE ArchiveSpec => []OkMeansWhole
<1>1. Inv => OkMeansWhole
  BY DEF Inv, OnItsWay, OkMeansWhole
<1> QED BY <1>1, ArchiveInvariance, PTL

\* A run fails for a reason: closing every layer twice (archive/tar.go:22, core/dump.go:175-186)
\* does no harm, but to the encryptor of age.
THEOREM FailuresHaveCauses == ASSUME FaultsAreLatched, NoAge PROVE ArchiveSpec => FailsForCause
<1> DEFINE Caused == result' = "error" => err \/ step = "setup" \/ pipe'.faults > 0
<1>1. ASSUME Inv, [ArchiveNext]_archiveVars PROVE [Caused]_archiveVars
  <2> SUFFICES ASSUME ArchiveNext, result' = "error", ~err, step # "setup" PROVE pipe'.faults > 0
    BY <1>1
  <2>0. /\ setup \in Setups /\ Sane(pipe) /\ encryption # "age"
        /\ step # "done" => result = "none"
    BY <1>1 DEF Inv, Types, NoAge, encryption
  <2>1. CASE CloseArchive
    <3>1. PICK p \in CloseEncryptor(pipe) : pipe' = p /\ ~p.ok
      BY <2>0, <2>1 DEF CloseArchive
    <3>2. CASE encryption = "none"
      <4>1. p \in CloseCompressor(pipe)
        BY <3>1, <3>2 DEF CloseEncryptor
      <4> QED BY <2>0, <3>1, <4>1, CloseCompressorDoes DEF Sane
    <3>3. CASE encryption # "none"
      <4>1. Sane(p) /\ p.latched
        BY <2>0, <3>1, <3>3, CloseEncryptorDoes
      <4> QED BY <3>1, <4>1 DEF Sane
    <3> QED BY <3>2, <3>3
  <2>2. CASE CloseCompressed
    <3>1. PICK p \in CloseCompressor(pipe) : pipe' = p /\ ~p.ok
      BY <2>0, <2>2 DEF CloseCompressed
    <3> QED BY <2>0, <3>1, CloseCompressorDoes DEF Sane
  <2> QED BY <2>0, <2>1, <2>2
          DEF ArchiveNext, Setup, WriteFile, EndWalk, CloseTar, CloseWriter
<1>2. Inv /\ [ArchiveNext]_archiveVars => [Caused]_archiveVars
  BY <1>1
<1> QED BY <1>2, ArchiveInvariance, PTL DEF ArchiveSpec, FailsForCause
==============================================================================
