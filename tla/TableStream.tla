---------------------------- MODULE TableStream ----------------------------
(***************************************************************************)
(* The rows of the tables of one schema (pkg/database/mysql/table.go).     *)
(* Data.Dump writes the tables one after the other.  For each, the         *)
(* template ranges over Stream: a goroutine reads the rows through the     *)
(* transaction that Data.Dump holds, packs them into INSERT statements and *)
(* sends these over a channel of capacity 1; the template writes them.     *)
(*                                                                         *)
(* A row is its number in the table and its length in bytes; an INSERT is  *)
(* the rows it holds and its length.  The server, which is not under src/, *)
(* may refuse a query, send a row that does not scan, end the rows with an *)
(* error, or be gone.  Of database/sql there is what the two goroutines    *)
(* meet in: the rows that are open on the transaction, which no other      *)
(* query gets past; that the rollback closes them; and that it waits for   *)
(* that while a Scan into a sql.RawBytes holds them, up to the next Next.  *)
(***************************************************************************)
EXTENDS Integers, Sequences, FiniteSets, SequencesExt

CONSTANTS
  Dumps,               \* what may be dumped: [tables, skip], tables being a sequence of
                       \* [extras, raw, rows] with the set of the Extra of the table's columns,
                       \* whether one is read as sql.RawBytes (BLOB, BINARY) and the lengths
                       \* of its rows, skip the option SkipExtendedInsert
  HeadLen,             \* the length of "INSERT INTO t (...) VALUES "
  MaxAllowedPacket,
  Routines,
  Faults,              \* which faults the server has: "refused", "unreadable", "interrupted",
                       \* "lost"
  WriterFails          \* data.Out may fail

ASSUME LengthsAreNat ==
  /\ HeadLen \in Nat /\ MaxAllowedPacket \in Nat
  /\ \A d \in Dumps : d.tables \in Seq([extras : SUBSET STRING, raw : BOOLEAN, rows : Seq(Nat)])

VARIABLES
  dump,       \* what is dumped, one of Dumps
  at,         \* the table being dumped
  pc,         \* Data.Dump: "init", "create", "range", "routines", "rollback", "ok", "error",
              \* "crashed"
  producer,   \* the goroutine of Stream: "off", "fetch", "send" or "closed"
  fetched,    \* how many of the rows table.Next has scanned
  more,       \* table.Next has not answered FALSE
  insert,     \* the goroutine's buffer, by rows; the length is LenOf(insert)
  ready,      \* the statement it is sending, or the empty sequence
  channel,
  out,        \* table -> the statements written
  cursor,     \* the rows on the transaction: "none", "open", or "held" by a Scan
  tableErr,   \* the tables with table.err set
  cut,        \* the tables whose rows the server ended with an error, the one of rows.Err
  link        \* the connection: "up" or "lost"

server == <<cursor, tableErr, cut, link>>
goroutine == <<producer, fetched, more, insert, ready>>
vars == <<dump, at, pc, producer, fetched, more, insert, ready, channel, out, cursor, tableErr,
          cut, link>>

tables == dump.tables
SkipExtendedInsert == dump.skip
Rows(t) == tables[t].rows

\* The columns that initColumnData lists: those whose Extra has neither "VIRTUAL" nor
\* "GENERATED" in it.
Listed(extras) ==
  {e \in extras : e \notin {"VIRTUAL GENERATED", "STORED GENERATED", "DEFAULT_GENERATED"}}

\* The bytes of these rows of a table whose rows have these lengths.
Bytes(lengths, rows) ==
  LET sum[i \in 0..Len(rows)] == IF i = 0 THEN 0 ELSE sum[i - 1] + lengths[rows[i]]
  IN sum[Len(rows)]

\* The bytes in the buffer that holds these rows, without the final ";".
LenOf(rows) ==
  IF rows = <<>> THEN 0 ELSE HeadLen + (Len(rows) - 1) + Bytes(Rows(at), rows)

---------------------------------------------------------------------------
Init ==
  /\ dump \in Dumps
  /\ at = 1
  /\ pc = "init"
  /\ producer = "off"
  /\ fetched = 0
  /\ more = TRUE
  /\ insert = <<>>
  /\ ready = <<>>
  /\ channel = <<>>
  /\ out = [t \in DOMAIN tables |-> <<>>]
  /\ cursor = "none"
  /\ tableErr = {}
  /\ cut = {}
  /\ link = "up"

---------------------------------------------------------------------------
(* Data.Dump and the template. *)

\* A query over the transaction is answered: the connection is there, and not busy with rows
\* that are still open.
Answered == link = "up" /\ cursor = "none"

\* SHOW COLUMNS for the table, or the end of the loop over the tables; with nothing to follow,
\* the deferred rollback closes what rows are open
InitColumns ==
  /\ pc = "init"
  /\ IF at <= Len(tables)
       THEN Answered /\ pc' = "create" /\ UNCHANGED cursor
     ELSE IF Routines
       THEN pc' = "routines" /\ UNCHANGED cursor
     ELSE pc' = "ok" /\ cursor' = "none"
  /\ UNCHANGED <<dump, at, channel, out, tableErr, cut, link>> /\ UNCHANGED goroutine

\* SHOW CREATE TABLE; the template reaches its range: Stream makes the channel and starts
\* the goroutine
Stream ==
  /\ pc = "create" /\ Answered
  /\ pc' = "range"
  /\ producer' = "fetch"
  /\ fetched' = 0
  /\ more' = TRUE
  /\ insert' = <<>>
  /\ ready' = <<>>
  /\ channel' = <<>>
  /\ UNCHANGED <<dump, at, out>> /\ UNCHANGED server

\* the template takes a statement and writes it
Write ==
  /\ pc = "range" /\ channel # <<>>
  /\ out' = [out EXCEPT ![at] = Append(@, Head(channel))]
  /\ channel' = Tail(channel)
  /\ UNCHANGED <<dump, at, pc>> /\ UNCHANGED goroutine /\ UNCHANGED server

\* mutant: the loop ends when the channel is empty and the rows are read
RangeEndsEarly ==
  /\ pc = "range" /\ channel = <<>> /\ ~more
  /\ at' = at + 1
  /\ pc' = "init"
  /\ UNCHANGED <<dump, channel, out>> /\ UNCHANGED goroutine /\ UNCHANGED server

\* the channel is closed: the template ends, and dumpTable with it; table.err is not looked at
RangeEnds ==
  /\ pc = "range" /\ channel = <<>> /\ producer = "closed"
  /\ at' = at + 1
  /\ pc' = "init"
  /\ UNCHANGED <<dump, channel, out>> /\ UNCHANGED goroutine /\ UNCHANGED server

\* mutant: the error of a query is passed over
FailsGoesOn ==
  /\ pc \in {"init", "create"}
  /\ pc = "init" => at <= Len(tables)
  /\ at' = at + 1
  /\ pc' = IF at = Len(tables) THEN "ok" ELSE "init"
  /\ UNCHANGED <<dump, channel, out>> /\ UNCHANGED goroutine /\ UNCHANGED server

\* A query or a write of Data.Dump fails, and it returns the error: outside the range, at a
\* statement that the template has taken, or at the text behind the last one.
Fails ==
  /\ \/ pc \in {"init", "create", "routines"} /\ UNCHANGED channel
     \/ pc = "range" /\ WriterFails /\ channel # <<>> /\ channel' = Tail(channel)
     \/ pc = "range" /\ WriterFails /\ channel = <<>> /\ producer = "closed" /\ UNCHANGED channel
  /\ pc' = "rollback"
  /\ UNCHANGED <<dump, at, out>> /\ UNCHANGED goroutine /\ UNCHANGED server

\* the deferred tx.Rollback, on the way out with an error: it cancels the rows and waits for
\* their end
Rollback ==
  /\ pc = "rollback" /\ cursor # "held"
  /\ pc' = "error"
  /\ cursor' = "none"
  /\ UNCHANGED <<dump, at, channel, out, tableErr, cut, link>> /\ UNCHANGED goroutine

\* the routines, which follow the tables: queries on the same connection
ReadRoutines ==
  /\ pc = "routines" /\ Answered
  /\ pc' = "ok"
  /\ UNCHANGED <<dump, at, channel, out>> /\ UNCHANGED goroutine /\ UNCHANGED server

Dumper == InitColumns \/ Stream \/ Write \/ RangeEnds \/ Fails \/ Rollback \/ ReadRoutines

---------------------------------------------------------------------------
(* The goroutine of Stream. *)

\* table.Next has scanned row r.  With SkipExtendedInsert the row is a statement; else it
\* joins the buffer, and the buffer goes out first when the row does not fit.
Fits(r) == LenOf(insert) + Rows(at)[r] <= MaxAllowedPacket - 1

\* mutant: the row that did not fit is left out of the next statement
PackDropsRow(r) ==
  IF SkipExtendedInsert
    THEN ready' = <<r>> /\ insert' = <<>> /\ producer' = "send"
  ELSE IF insert # <<>> /\ ~Fits(r)
    THEN ready' = insert /\ insert' = <<>> /\ producer' = "send"
  ELSE insert' = Append(insert, r) /\ UNCHANGED <<ready, producer>>

\* mutant: the buffer goes out one row early
PackEarly(r) ==
  IF SkipExtendedInsert
    THEN ready' = <<r>> /\ insert' = <<>> /\ producer' = "send"
  ELSE IF insert # <<>> /\ LenOf(insert) + 2 * Rows(at)[r] > MaxAllowedPacket - 1
    THEN ready' = insert /\ insert' = <<r>> /\ producer' = "send"
  ELSE insert' = Append(insert, r) /\ UNCHANGED <<ready, producer>>

Pack(r) ==
  IF SkipExtendedInsert
    THEN ready' = <<r>> /\ insert' = <<>> /\ producer' = "send"
  ELSE IF insert # <<>> /\ ~Fits(r)
    THEN ready' = insert /\ insert' = <<r>> /\ producer' = "send"
  ELSE insert' = Append(insert, r) /\ UNCHANGED <<ready, producer>>

\* a Scan into sql.RawBytes holds the rows until the next call of rows.Next
Row ==
  /\ producer = "fetch" /\ more
  /\ Listed(tables[at].extras) # {} /\ link = "up" /\ pc # "error"
  /\ fetched < Len(Rows(at))
  /\ fetched' = fetched + 1
  /\ Pack(fetched + 1)
  /\ cursor' = IF tables[at].raw THEN "held" ELSE "open"
  /\ UNCHANGED <<dump, at, pc, more, channel, out, tableErr, cut, link>>

(* What makes table.Next answer FALSE, and what it leaves behind: whether the rows are closed, *)
(* and in table.err.  When rows.Next answers FALSE nothing asks for rows.Err. *)

LastRow == fetched = Len(Rows(at)) /\ cursor' = "none" /\ UNCHANGED <<tableErr, cut, link>>

\* the server ends the rows with an error, the connection staying up
Interrupted ==
  /\ "interrupted" \in Faults
  /\ cursor' = "none"
  /\ cut' = cut \cup {at}
  /\ UNCHANGED <<tableErr, link>>

\* the connection is lost, before the SELECT is answered or in the middle of the rows
Lost ==
  /\ "lost" \in Faults
  /\ cursor' = "none"
  /\ tableErr' \in {tableErr} \cup (IF fetched = 0 THEN {tableErr \cup {at}} ELSE {})
  /\ link' = "lost"
  /\ UNCHANGED cut

\* the SELECT is refused
Refused ==
  /\ "refused" \in Faults /\ fetched = 0
  /\ tableErr' = tableErr \cup {at}
  /\ UNCHANGED <<cursor, cut, link>>

\* a row does not scan: the rows stay open
Unreadable ==
  /\ "unreadable" \in Faults /\ fetched < Len(Rows(at)) /\ pc # "error"
  /\ tableErr' = tableErr \cup {at}
  /\ cursor' = "open"
  /\ UNCHANGED <<cut, link>>

\* The transaction is rolled back: rows.Next sees it, or rows.Err does after one more Scan,
\* which then goes on holding the rows.
RolledBack ==
  /\ pc \in {"rollback", "error"}
  /\ \/ cursor' = "none" /\ UNCHANGED tableErr
     \/ /\ pc = "rollback" /\ fetched < Len(Rows(at))
        /\ cursor' = IF tables[at].raw THEN "held" ELSE "open"
        /\ tableErr' = tableErr \cup {at}
  /\ UNCHANGED <<cut, link>>

NoMoreRows == LastRow \/ Interrupted \/ Lost \/ Refused \/ Unreadable \/ RolledBack

\* table.Next answers FALSE: what is in the buffer goes out last
RowsEnd ==
  /\ producer = "fetch" /\ more
  /\ Listed(tables[at].extras) # {}
  /\ NoMoreRows
  /\ more' = FALSE
  /\ ready' = insert
  /\ insert' = <<>>
  /\ producer' = IF insert = <<>> THEN "closed" ELSE "send"
  /\ UNCHANGED <<dump, at, pc, fetched, channel, out>>

\* No column is listed: Start returns before the SELECT, and Next calls the Next of rows that
\* are nil.  The panic of a goroutine ends the process.
Panic ==
  /\ producer = "fetch" /\ more
  /\ Listed(tables[at].extras) = {}
  /\ pc' = "crashed"
  /\ producer' = "off"
  /\ UNCHANGED <<dump, at, fetched, more, insert, ready, channel, out>> /\ UNCHANGED server

\* mutant: the channel is not closed after the last statement
SendLeavesOpen ==
  /\ producer = "send" /\ channel = <<>>
  /\ channel' = <<ready>>
  /\ ready' = <<>>
  /\ producer' = "fetch"
  /\ UNCHANGED <<dump, at, pc, fetched, more, insert, out>> /\ UNCHANGED server

\* valueOut <- : there is room; after the last statement the channel is closed
Send ==
  /\ producer = "send" /\ channel = <<>>
  /\ channel' = <<ready>>
  /\ ready' = <<>>
  /\ producer' = IF more THEN "fetch" ELSE "closed"
  /\ UNCHANGED <<dump, at, pc, fetched, more, insert, out>> /\ UNCHANGED server

Producer == Row \/ RowsEnd \/ Panic \/ Send

---------------------------------------------------------------------------
Returned == pc \in {"ok", "error", "crashed"}

\* Data.Dump waits in its rollback for rows that a Scan holds.
HeldUp == pc = "rollback" /\ cursor = "held"

\* Nothing is left to happen: Data.Dump has returned, or waits for rows whose goroutine has
\* ended, or waits in a send nobody receives.
Stopped ==
  /\ Returned \/ (HeldUp /\ (producer = "closed" \/ channel # <<>>))
  /\ UNCHANGED vars

Next == Dumper \/ Producer \/ Stopped

Spec == Init /\ [][Next]_vars

\* Both goroutines are scheduled, and the server and the writer answer.
FairSpec == Spec /\ WF_vars(Dumper) /\ WF_vars(Producer)

---------------------------------------------------------------------------
(* Properties. *)

\* Each variable holds a value of its type; the channel holds one statement at most, and
\* table.Next is not called again when it has answered FALSE.
TypeOK ==
  /\ dump \in Dumps
  /\ at \in 1..(Len(tables) + 1)
  /\ pc \in {"init", "create", "range", "routines", "rollback", "ok", "error", "crashed"}
  /\ producer \in {"off", "fetch", "send", "closed"}
  /\ fetched \in Nat /\ more \in BOOLEAN
  /\ ~more => producer \in {"send", "closed"}
  /\ Len(channel) <= 1
  /\ cursor \in {"none", "open", "held"}
  /\ tableErr \subseteq DOMAIN tables /\ cut \subseteq DOMAIN tables
  /\ link \in {"up", "lost"}

\* The rows that Next has scanned are, in their order and each once, in what is written, in
\* the channel, in the statement being sent and in the buffer: nothing gets lost, doubled or
\* out of turn between the two goroutines (table.go:307-350).
RowsConserved ==
  pc = "range" =>
    FlattenSeq(out[at] \o channel) \o ready \o insert = [r \in 1..fetched |-> r]

\* While Data.Dump sends a query of its own over the transaction, the goroutine of the table
\* before has finished with it, and has closed its rows but for one that did not scan, which
\* the next query runs into (dump.go:212-226, table.go:187-198, 307-310).
OneUserOfTx ==
  pc \in {"init", "create", "routines"} =>
    /\ producer \in {"off", "closed"}
    /\ cursor = "none" \/ (cursor = "open" /\ pc # "create" /\ at - 1 \in tableErr)

\* A dump that answers nil has every row of every table in its output: "This way the database
\* will have the exact state it did at the begining of the backup" (dump.go:156-157).
Complete(t) == FlattenSeq(out[t]) = [r \in 1..Len(Rows(t)) |-> r]
OkMeansComplete == pc = "ok" => \A t \in DOMAIN tables : Complete(t)

\* What a dump that answers nil lacks went with an error that nobody asks for: all of a table
\* whose table.err was set, or the rest of one whose rows the server ended with an error.  A row
\* that does not scan and a connection that is lost are found out by the queries that follow
\* (table.go:180-199, dump.go:212-263).
Unasked(t) == t \in cut \/ (t \in tableErr /\ FlattenSeq(out[t]) = <<>>)
OkLosesOnlyUnasked == pc = "ok" => \A t \in DOMAIN tables : Complete(t) \/ Unasked(t)

\* A statement of more than one row is at most as long as a packet, not counting its ";", and
\* statements are as long as they may be: two in a row could not have been one
\* (table.go:328-333).
PackedFull ==
  (pc = "range" /\ ~SkipExtendedInsert) =>
    LET all == out[at] \o channel IN
    /\ \A i \in 1..Len(all) : Len(all[i]) > 1 => LenOf(all[i]) <= MaxAllowedPacket
    /\ \A i \in 1..(Len(all) - 1) :
         LenOf(all[i]) + Rows(at)[all[i + 1][1]] > MaxAllowedPacket - 1

\* "Maximum size of the buffer for client/server communication" (cmd/dump.go:421): a statement
\* of more than one row fits into it, with its ";".
FitsPacket ==
  pc = "range" =>
    \A i \in 1..Len(out[at]) : Len(out[at][i]) > 1 => LenOf(out[at][i]) + 1 <= MaxAllowedPacket

\* "Ignore the virtual columns and generated columns" (table.go:132): the others are dumped.
\* DEFAULT_GENERATED is what the server says of a column whose default is an expression.
OthersListed ==
  \A t \in 1..(at - 1) :
    tables[t].extras \ {"VIRTUAL GENERATED", "STORED GENERATED"} \subseteq Listed(tables[t].extras)

\* "No data to dump since this is a virtual table" (table.go:157): such a table does not stop
\* the dump of the others.
NoCrash == pc # "crashed"

\* The goroutine of a table ends, if a write of the template has not failed while a statement
\* was left to be received.
GoroutineEnds ==
  producer \in {"fetch", "send"} ~>
    producer \in {"off", "closed"} \/ (pc \in {"rollback", "error"} /\ channel # <<>>)

\* Data.Dump returns, whatever fails, or the process crashes, or a write failed in the rows of a
\* table with a column of sql.RawBytes, whose Scan holds what the rollback waits for
\* (dump.go:136-264, table.go:378); and the goroutines it has started end (table.go:307-350).
Termination == (<>Returned \/ <>[](HeldUp /\ tables[at].raw)) /\ GoroutineEnds

\* "defer func() { _ = data.rollback() }()" (dump.go:161-163): Data.Dump always returns, with the
\* transaction rolled back.
DumpReturns == <>Returned

\* "defer close(valueOut)" (table.go:310): the goroutine of a table always ends.
NoGoroutineLeft == producer \in {"fetch", "send"} ~> producer \in {"off", "closed"}
============================================================================
