------------------------------ MODULE DumpPool ------------------------------
(***************************************************************************)
(* database.Dump (pkg/database/dump.go): the loop that spawns one          *)
(* goroutine per writer behind a semaphore, the goroutines, and what       *)
(* Data.Dump (pkg/database/mysql/dump.go) does with the connections of the *)
(* *sql.DB it shares with every other goroutine.                           *)
(*                                                                         *)
(* A connection is what the properties tell apart: the schema selected on  *)
(* it.  "idle" is the free list of database/sql, last in first out, which  *)
(* keeps at most MaxIdle connections (DB.conn, DB.putConnDBLocked); it is  *)
(* outside src/ and modelled from how Data.Dump uses the handle.           *)
(***************************************************************************)
EXTENDS Integers, Sequences, FiniteSets

CONSTANTS
  NumWriters,    \* len(writers)
  Schemas,       \* the schemas of the server
  SchemasOf,     \* writer -> its sequence of schemas (DumpWriter.Schemas)
  Parallelism,   \* opts.Parallelism, 0 when unset
  MaxIdle,       \* idle connections database/sql keeps
  IdleAtStart,   \* the free lists the pool may have when Dump is called
  NoSchema,      \* selected on a connection nobody has sent USE on
  NoConn         \* a goroutine that holds no connection

Writers == 1..NumWriters

Selectable == Schemas \cup {NoSchema}

\* "if none is provided, default to 1, i.e. serial"
Slots == IF Parallelism = 0 THEN 1 ELSE Parallelism

ASSUME PoolAssumption ==
  /\ NumWriters \in Nat
  /\ SchemasOf \in [Writers -> Seq(Schemas)]
  /\ \A w \in Writers : Len(SchemasOf[w]) > 0
  /\ Parallelism \in Nat
  /\ MaxIdle \in Nat
  /\ IdleAtStart \subseteq Seq(Selectable)
  /\ \A s \in IdleAtStart : Len(s) <= MaxIdle /\ Len(s) <= Slots
  /\ NoSchema \notin Schemas
  /\ NoConn \notin Selectable

VARIABLES
  spawner,    \* where Dump itself is: "spawning", "waiting", "collecting", "returned"
  next,       \* the next writer of the range loop
  sem,        \* slots taken in the channel sem
  wg,         \* the WaitGroup counter
  pc,         \* writer -> where its goroutine is
  at,         \* writer -> index in SchemasOf[w] of the schema it dumps
  conn,       \* writer -> the schema selected on the connection it holds, or NoConn
  idle,       \* the pool's free list, each connection as its selected schema
  dumped,     \* writer -> for each dump that returned nil, whose tables it read
  errCh,      \* the writers whose error is in the channel errCh
  closed,     \* close(errCh) was called
  verdict     \* what Dump returned: "none", "ok", "error"

vars == <<spawner, next, sem, wg, pc, at, conn, idle, dumped, errCh, closed, verdict>>

poolVars == <<conn, idle>>

\* The goroutine's stages.  "use" .. "write" are inside Data.Dump.
InDump == {"use", "using", "begin", "tables", "write"}
Stages == {"none"} \cup InDump \cup {"report", "release", "done", "exited"}

\* mutant: make(chan error) without a capacity
ErrCapUnbuffered == 0

\* errCh has one place for each writer.
ErrCap == NumWriters

---------------------------------------------------------------------------
(* The pool of database/sql. *)

\* The connection a request gets: the last one freed, or a new one.
Checkout == IF idle = <<>> THEN NoSchema ELSE idle[Len(idle)]
AfterCheckout == IF idle = <<>> THEN <<>> ELSE SubSeq(idle, 1, Len(idle) - 1)

\* A connection with schema s selected goes back; the pool closes what exceeds MaxIdle.
PutBack(s) == IF Len(idle) < MaxIdle THEN Append(idle, s) ELSE idle

\* A failed statement leaves the connection usable (it is put back) or broken (it is not).
PutBackOrDrop(s) == idle' \in {PutBack(s), idle}

\* The server or the network closes an idle connection: the pool never hands it out.
DropIdle ==
  \E i \in 1..Len(idle) :
    /\ idle' = SubSeq(idle, 1, i - 1) \o SubSeq(idle, i + 1, Len(idle))
    /\ UNCHANGED <<spawner, next, sem, wg, pc, at, conn, dumped, errCh, closed, verdict>>

---------------------------------------------------------------------------
Init ==
  /\ spawner = "spawning"
  /\ next = 1
  /\ sem = 0
  /\ wg = 0
  /\ pc = [w \in Writers |-> "none"]
  /\ at = [w \in Writers |-> 1]
  /\ conn = [w \in Writers |-> NoConn]
  \* the handle is kept between runs of a schedule (Connection.MySQL): what earlier
  \* queries and dumps left in the pool is still there
  /\ idle \in IdleAtStart
  /\ dumped = [w \in Writers |-> <<>>]
  /\ errCh = <<>>
  /\ closed = FALSE
  /\ verdict = "none"

(* The caller's goroutine. *)

\* mutant: no slot is awaited
SpawnUnlimited ==
  /\ spawner = "spawning"
  /\ next <= NumWriters
  /\ sem' = sem + 1
  /\ wg' = wg + 1
  /\ pc' = [pc EXCEPT ![next] = "use"]
  /\ next' = next + 1
  /\ UNCHANGED <<spawner, at, dumped, errCh, closed, verdict>> /\ UNCHANGED poolVars

\* sem <- struct{}{}; wg.Add(1); go func...: blocks while every slot is taken.
Spawn ==
  /\ spawner = "spawning"
  /\ next <= NumWriters
  /\ sem < Slots
  /\ sem' = sem + 1
  /\ wg' = wg + 1
  /\ pc' = [pc EXCEPT ![next] = "use"]
  /\ next' = next + 1
  /\ UNCHANGED <<spawner, at, dumped, errCh, closed, verdict>> /\ UNCHANGED poolVars

\* the range loop ends
LastSpawned ==
  /\ spawner = "spawning"
  /\ next > NumWriters
  /\ spawner' = "waiting"
  /\ UNCHANGED <<next, sem, wg, pc, at, dumped, errCh, closed, verdict>>
  /\ UNCHANGED poolVars

\* mutant: no wg.Wait
CloseUnwaited ==
  /\ spawner = "waiting"
  /\ closed' = TRUE
  /\ spawner' = "collecting"
  /\ UNCHANGED <<next, sem, wg, pc, at, dumped, errCh, verdict>> /\ UNCHANGED poolVars

\* wg.Wait(); close(errCh)
WaitAndClose ==
  /\ spawner = "waiting"
  /\ wg = 0
  /\ closed' = TRUE
  /\ spawner' = "collecting"
  /\ UNCHANGED <<next, sem, wg, pc, at, dumped, errCh, verdict>> /\ UNCHANGED poolVars

\* mutant: the collected errors are not returned
ReturnNil ==
  /\ spawner = "collecting"
  /\ spawner' = "returned"
  /\ verdict' = "ok"
  /\ UNCHANGED <<next, sem, wg, pc, at, dumped, errCh, closed>> /\ UNCHANGED poolVars

\* drain errCh and return
Return ==
  /\ spawner = "collecting"
  /\ spawner' = "returned"
  /\ verdict' = IF errCh = <<>> THEN "ok" ELSE "error"
  /\ UNCHANGED <<next, sem, wg, pc, at, dumped, errCh, closed>> /\ UNCHANGED poolVars

---------------------------------------------------------------------------
(* Data.Dump on writer w's current schema. *)

Goto(w, stage) == pc' = [pc EXCEPT ![w] = stage]
Schema(w) == SchemasOf[w][at[w]]
onlyPoolAndPc == <<spawner, next, sem, wg, at, dumped, errCh, closed, verdict>>

\* selectSchema: Connection.Exec takes a connection of the pool ...
TakeForUse(w) ==
  /\ pc[w] = "use"
  /\ conn' = [conn EXCEPT ![w] = Checkout]
  /\ idle' = AfterCheckout
  /\ Goto(w, "using")
  /\ UNCHANGED onlyPoolAndPc

\* ... sends USE on it and gives it back to the pool
UseSchema(w) ==
  /\ pc[w] = "using"
  /\ idle' = PutBack(Schema(w))
  /\ conn' = [conn EXCEPT ![w] = NoConn]
  /\ Goto(w, "begin")
  /\ UNCHANGED onlyPoolAndPc

\* begin: BeginTx takes a connection of the pool and keeps it
BeginTx(w) ==
  /\ pc[w] = "begin"
  /\ conn' = [conn EXCEPT ![w] = Checkout]
  /\ idle' = AfterCheckout
  /\ Goto(w, "tables")
  /\ UNCHANGED onlyPoolAndPc

\* BeginTx fails: no transaction, nothing to roll back
BeginFails(w) ==
  /\ pc[w] = "begin"
  /\ \/ idle' = idle               \* the connection is put back
     \/ idle' = AfterCheckout      \* or dropped
  /\ Goto(w, "report")
  /\ UNCHANGED conn
  /\ UNCHANGED onlyPoolAndPc

\* The header is written and getTables reads SHOW FULL TABLES: an error when the
\* transaction's connection has no schema selected.
ReadTables(w) ==
  /\ pc[w] = "tables"
  /\ conn[w] # NoSchema
  /\ Goto(w, "write")
  /\ UNCHANGED poolVars
  /\ UNCHANGED onlyPoolAndPc

\* USE, a query of the transaction or a write to the file fails: return the error,
\* after the deferred rollback when there is a transaction.
DumpFails(w) ==
  /\ pc[w] \in {"using", "tables", "write"}
  /\ PutBackOrDrop(conn[w])
  /\ conn' = [conn EXCEPT ![w] = NoConn]
  /\ Goto(w, "report")
  /\ UNCHANGED onlyPoolAndPc

\* Everything is written: roll back, return nil, and go on with the writer's next schema.
DumpDone(w) ==
  /\ pc[w] = "write"
  /\ PutBackOrDrop(conn[w])
  /\ conn' = [conn EXCEPT ![w] = NoConn]
  /\ dumped' = [dumped EXCEPT ![w] = Append(@, conn[w])]
  /\ IF at[w] < Len(SchemasOf[w])
       THEN /\ at' = [at EXCEPT ![w] = @ + 1]
            /\ Goto(w, "use")
       ELSE /\ at' = at
            /\ Goto(w, "release")
  /\ UNCHANGED <<spawner, next, sem, wg, errCh, closed, verdict>>

---------------------------------------------------------------------------
(* The goroutine around it. *)

\* errCh <- err; return
Report(w) ==
  /\ pc[w] = "report"
  /\ Len(errCh) < ErrCap
  /\ errCh' = Append(errCh, w)
  /\ Goto(w, "release")
  /\ UNCHANGED <<spawner, next, sem, wg, at, dumped, closed, verdict>>
  /\ UNCHANGED poolVars

\* defer func() { <-sem }(), the deferred call that runs first
Release(w) ==
  /\ pc[w] = "release"
  /\ sem' = sem - 1
  /\ Goto(w, "done")
  /\ UNCHANGED <<spawner, next, wg, at, dumped, errCh, closed, verdict>>
  /\ UNCHANGED poolVars

\* defer wg.Done()
Done(w) ==
  /\ pc[w] = "done"
  /\ wg' = wg - 1
  /\ Goto(w, "exited")
  /\ UNCHANGED <<spawner, next, sem, at, dumped, errCh, closed, verdict>>
  /\ UNCHANGED poolVars

---------------------------------------------------------------------------
Caller == Spawn \/ LastSpawned \/ WaitAndClose \/ Return

Worker(w) ==
  \/ TakeForUse(w) \/ UseSchema(w) \/ BeginTx(w) \/ BeginFails(w)
  \/ ReadTables(w) \/ DumpFails(w) \/ DumpDone(w)
  \/ Report(w) \/ Release(w) \/ Done(w)

\* The call has returned: nothing is left to do.
Returned == spawner = "returned" /\ UNCHANGED vars

Next == Caller \/ (\E w \in Writers : Worker(w)) \/ DropIdle \/ Returned

Spec == Init /\ [][Next]_vars

\* Go runs every goroutine that can run, and the driver answers every statement,
\* with a result or with an error.
FairSpec == Spec /\ WF_vars(Caller) /\ \A w \in Writers : WF_vars(Worker(w))

---------------------------------------------------------------------------
(* Properties. *)

\* Each variable holds a value of its type; counters are never negative.
TypeOK ==
  /\ spawner \in {"spawning", "waiting", "collecting", "returned"}
  /\ next \in 1..(NumWriters + 1)
  /\ sem \in Nat
  /\ wg \in Nat
  /\ pc \in [Writers -> Stages]
  /\ at \in [Writers -> Nat \ {0}]
  /\ \A w \in Writers : at[w] <= Len(SchemasOf[w])
  /\ conn \in [Writers -> Selectable \cup {NoConn}]
  /\ idle \in Seq(Selectable)
  /\ dumped \in [Writers -> Seq(Selectable)]
  /\ errCh \in Seq(Writers)
  /\ closed \in BOOLEAN
  /\ verdict \in {"none", "ok", "error"}

\* "limit to opts.Parallelism connections": the goroutines that are between taking a
\* slot and giving it back, and so the connections in use, never exceed the limit,
\* whatever fails (dump.go:39-53).
Working(w) == pc[w] \in InDump \cup {"report", "release"}
ConnectionsBounded ==
  /\ Cardinality({w \in Writers : Working(w)}) <= Slots
  /\ \A w \in Writers : conn[w] # NoConn => Working(w)

\* The counters agree with the goroutines at every step: each slot taken is held by one
\* goroutine that still works, each unit of the WaitGroup by one that has not exited,
\* errCh names exactly the writers that gave up, and a goroutine owns a connection only
\* inside Exec and inside its transaction (dump.go:45-75).
Holding == {"using", "tables", "write"}
GaveUp(w) == \E i \in 1..Len(errCh) : errCh[i] = w
Progress(w) ==
  /\ pc[w] \in {"none", "report"} \cup InDump =>
       Len(dumped[w]) = at[w] - 1 /\ ~GaveUp(w)
  /\ pc[w] \in {"release", "done", "exited"} =>
       IF GaveUp(w) THEN Len(dumped[w]) = at[w] - 1
       ELSE Len(dumped[w]) = Len(SchemasOf[w])
Accounting ==
  /\ sem = Cardinality({w \in Writers : Working(w)})
  /\ wg = Cardinality({w \in Writers : pc[w] \notin {"none", "exited"}})
  /\ \A w \in Writers : w < next <=> pc[w] # "none"
  /\ \A w \in Writers : conn[w] # NoConn <=> pc[w] \in Holding
  /\ \A w \in Writers : Progress(w)

\* Once errCh is closed no goroutine is left that could send on it (a panic) or still
\* write to its file, which the caller is about to archive (dump.go:77-78).
ClosedMeansQuiet == closed => \A w \in Writers : pc[w] = "exited"

\* Dump answers nil exactly when every schema of every writer was dumped to the end;
\* a failure in any goroutine, at any step, is in the answer (dump.go:80-89).
FullyDumped(w) == Len(dumped[w]) = Len(SchemasOf[w])
ResultTruth ==
  /\ verdict = "ok" => \A w \in Writers : FullyDumped(w)
  /\ verdict = "error" => \E w \in Writers : ~FullyDumped(w)

\* A dump that returned nil read the tables of the schema it was asked for
\* (selectSchema "selects a specific schema to use", mysql/dump.go:268).
RightSchema ==
  \A w \in Writers : \A i \in 1..Len(dumped[w]) : dumped[w][i] = SchemasOf[w][i]

\* Dump returns: no order of spawning, failing, reporting and releasing leaves the
\* spawner, a goroutine and the error channel waiting on each other.
Termination == <>(spawner = "returned")

\* DumpPool implements DumpJob: a writer is settled when its last schema is dumped or
\* when it gives up on one.
Settled(w) ==
  IF pc[w] = "report" \/ GaveUp(w) THEN "failed"
  ELSE IF FullyDumped(w) THEN "ok" ELSE "pending"
Job == INSTANCE DumpJob WITH settled <- [w \in Writers |-> Settled(w)]
ImplementsDumpJob == Job!Spec
============================================================================
