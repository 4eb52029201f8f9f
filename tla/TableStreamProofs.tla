------------------------- MODULE TableStreamProofs -------------------------
(***************************************************************************)
(* Proofs about TableStream, for every list of tables, every length of     *)
(* rows and packets, and every fault.                                      *)
(*                                                                         *)
(* The inductive invariant says, beside the types: where each goroutine is *)
(* while the other is somewhere (Stages); that what Stream has scanned is  *)
(* in the output, the channel, the statement being sent or the buffer      *)
(* (RowsConserved); that the statements begun are packed full (Packing);   *)
(* and what is known of the tables before, and of this one when its rows   *)
(* have ended (EarlierDone, EndIsKnown), and which rows are then still     *)
(* open on the transaction (RowsLeft).                                     *)
(***************************************************************************)
EXTENDS TableStream, SequenceTheorems, SequenceFacts

RowsOf(t) == 1..Len(Rows(t))

Types ==
  /\ dump \in Dumps
  /\ at \in 1..(Len(tables) + 1)
  /\ pc \in {"init", "create", "range", "routines", "rollback", "ok", "error", "crashed"}
  /\ producer \in {"off", "fetch", "send", "closed"}
  /\ fetched \in Nat
  /\ more \in BOOLEAN
  /\ cursor \in {"none", "open", "held"}
  /\ tableErr \subseteq DOMAIN tables /\ cut \subseteq DOMAIN tables
  /\ link \in {"up", "lost"}

\* What the goroutine and the channel hold are rows of the table at hand.
Held ==
  /\ at \in DOMAIN tables => /\ insert \in Seq(RowsOf(at))
                             /\ ready \in Seq(RowsOf(at))
                             /\ channel \in Seq(Seq(RowsOf(at)))
  /\ Len(channel) <= 1

Written ==
  /\ DOMAIN out = DOMAIN tables
  /\ \A t \in DOMAIN tables : out[t] \in Seq(Seq(RowsOf(t)))

\* Where the two goroutines are, and what the buffers hold there.
Stages ==
  /\ pc \in {"create", "range"} => at \in DOMAIN tables
  /\ pc \in {"routines", "ok"} => at = Len(tables) + 1
  /\ pc = "range" => producer # "off"
  /\ producer \in {"fetch", "send"} => pc \in {"range", "rollback", "error"} /\ at \in DOMAIN tables
  /\ producer = "fetch" => more /\ ready = <<>>
  /\ producer = "send" => ready # <<>>
  /\ producer = "closed" => ~more /\ ready = <<>> /\ insert = <<>>
  /\ producer = "off" => more
  /\ ~more => insert = <<>>
  /\ SkipExtendedInsert => insert = <<>>

\* The tables to come have nothing written.
Untouched ==
  \A t \in DOMAIN tables : t > at \/ (t = at /\ pc \in {"init", "create"}) => out[t] = <<>>

\* The rows that are open: of the table at hand, or of the one before, when one did not scan.
RowsLeft ==
  /\ pc \in {"init", "routines"} => cursor = "none" \/ (cursor = "open" /\ at - 1 \in tableErr)
  /\ pc \in {"create", "ok"} => cursor = "none"
  /\ pc = "range" => /\ more /\ fetched = 0 => cursor = "none"
                     /\ ~more => cursor = "none" \/ (cursor = "open" /\ at \in tableErr)

\* What is known of the tables before, while the dump goes on: one that is not complete has an
\* error that nobody asks for, or one that the next query runs into, if there is one.
ToBeFound(t) ==
  \/ pc \in {"init", "routines"} /\ (link = "lost" \/ cursor = "open")
  \/ pc = "ok" /\ ~Routines /\ (link = "lost" \/ t \in tableErr)

Overlooked(t) == Unasked(t) \/ (t = at - 1 /\ ToBeFound(t))

EarlierDone ==
  pc \in {"init", "create", "range", "routines", "ok"} =>
    \A t \in 1..(at - 1) : Complete(t) \/ Overlooked(t)

\* What is known of the table at hand, when its rows have ended.
Excused(t) ==
  t \in cut \/ (t \in tableErr /\ fetched = 0) \/ link = "lost" \/ cursor = "open"

EndIsKnown ==
  pc = "range" => /\ fetched <= Len(Rows(at))
                  /\ ~more => fetched = Len(Rows(at)) \/ Excused(at)

\* The statements begun for the table at hand, in their order.
One(rows) == IF rows = <<>> THEN <<>> ELSE <<rows>>
Begun == out[at] \o channel \o One(ready) \o One(insert)

\* A statement's length, for rows of lengths w.
LengthIn(w, rows) ==
  IF rows = <<>> THEN 0 ELSE HeadLen + (Len(rows) - 1) + Bytes(w, rows)

Packed(w, all) ==
  /\ \A i \in 1..Len(all) :
       all[i] # <<>> /\ (Len(all[i]) > 1 => LengthIn(w, all[i]) <= MaxAllowedPacket)
  /\ \A i \in 1..(Len(all) - 1) :
       LengthIn(w, all[i]) + w[all[i + 1][1]] > MaxAllowedPacket - 1

Packing ==
  (pc = "range" /\ ~SkipExtendedInsert) =>
    /\ Packed(Rows(at), Begun)
    /\ more /\ insert = <<>> => Begun = <<>>

Inv ==
  Types /\ Held /\ Written /\ Stages /\ Untouched /\ RowsLeft /\ EarlierDone /\ EndIsKnown
    /\ RowsConserved /\ Packing

---------------------------------------------------------------------------
LEMMA TablesTyped ==
  ASSUME Types
  PROVE  /\ DOMAIN tables = 1..Len(tables) /\ Len(tables) \in Nat
         /\ \A t \in DOMAIN tables : Rows(t) \in Seq(Nat) /\ Len(Rows(t)) \in Nat
<1> DEFINE T == [extras : SUBSET STRING, raw : BOOLEAN, rows : Seq(Nat)]
<1>1. tables \in Seq(T)
  BY LengthsAreNat DEF Types, tables
<1>2. \A x \in T : x.rows \in Seq(Nat)
  OBVIOUS
<1> HIDE DEF T
<1>3. DOMAIN tables = 1..Len(tables) /\ Len(tables) \in Nat
  BY <1>1
<1>4. ASSUME NEW t \in DOMAIN tables PROVE Rows(t) \in Seq(Nat) /\ Len(Rows(t)) \in Nat
  <2>1. tables[t] \in T
    BY <1>1, <1>3
  <2>2. Rows(t) \in Seq(Nat)
    BY <1>2, <2>1 DEF Rows
  <2>3. QED
    BY <2>2
<1>5. QED
  BY <1>3, <1>4

\* What is dumped does not change, and nor does the table at hand but at the end of its rows.
LEMMA StepKeeps ==
  ASSUME [Next]_vars
  PROVE  /\ dump' = dump /\ tables' = tables
         /\ \A t : Rows(t)' = Rows(t) /\ RowsOf(t)' = RowsOf(t)
         /\ SkipExtendedInsert' = SkipExtendedInsert
         /\ at' = at \/ RangeEnds
<1>1. dump' = dump /\ (at' = at \/ RangeEnds)
  BY DEF Next, vars, Dumper, Producer, InitColumns, Stream, Write, RangeEnds, Fails, Rollback,
         ReadRoutines,
         Row, RowsEnd, Panic, Send, Stopped
<1>2. QED
  BY <1>1 DEF tables, Rows, RowsOf, SkipExtendedInsert

\* In the range of the template the table at hand is one of the tables.
LEMMA AtHand ==
  ASSUME Types, Held, Written, Stages, pc = "range" \/ producer \in {"fetch", "send"}
  PROVE  /\ at \in DOMAIN tables /\ at \in Nat /\ RowsOf(at) = 1..Len(Rows(at))
         /\ Rows(at) \in Seq(Nat) /\ Len(Rows(at)) \in Nat
         /\ insert \in Seq(RowsOf(at)) /\ ready \in Seq(RowsOf(at))
         /\ channel \in Seq(Seq(RowsOf(at))) /\ Len(channel) <= 1
         /\ out[at] \in Seq(Seq(RowsOf(at)))
<1>1. at \in DOMAIN tables
  BY DEF Stages
<1>2. at \in Nat
  BY TablesTyped, <1>1
<1>3. QED
  BY TablesTyped, <1>1, <1>2 DEF Held, Written, RowsOf

\* What happens to a row: it is a statement, it starts the next one, or it joins the buffer.
Alone(r) == ready' = <<r>> /\ insert' = <<>> /\ producer' = "send"
Starts(r) == insert # <<>> /\ ready' = insert /\ insert' = <<r>> /\ producer' = "send"
Joins(r) == insert' = Append(insert, r) /\ ready' = ready /\ producer' = producer

LEMMA PackDoes ==
  ASSUME NEW r, Pack(r)
  PROVE  \/ SkipExtendedInsert /\ Alone(r)
         \/ ~SkipExtendedInsert /\ ~Fits(r) /\ Starts(r)
         \/ ~SkipExtendedInsert /\ (insert = <<>> \/ Fits(r)) /\ Joins(r)
BY Zenon DEF Pack, Alone, Starts, Joins

\* What the end of the rows does to the connection and to the errors.
LEMMA NoMoreRowsDoes ==
  ASSUME Types, NoMoreRows
  PROVE  /\ cursor' \in {"none", "open", "held"} /\ link' \in {"up", "lost"}
         /\ tableErr' \in {tableErr, tableErr \cup {at}} /\ cut' \in {cut, cut \cup {at}}
         /\ link = "lost" => link' = "lost"
BY DEF Types, NoMoreRows, LastRow, Interrupted, Lost, Refused, Unreadable, RolledBack

---------------------------------------------------------------------------
(* The types. *)

LEMMA InitTypes == Init => Types /\ Held /\ Written /\ Stages /\ Untouched
<1> SUFFICES ASSUME Init PROVE Types /\ Held /\ Written /\ Stages /\ Untouched
  OBVIOUS
<1>1. Types
  <2>1. tables \in Seq([extras : SUBSET STRING, raw : BOOLEAN, rows : Seq(Nat)])
    BY LengthsAreNat DEF Init, tables
  <2>2. Len(tables) \in Nat
    BY <2>1
  <2>3. QED
    BY <2>2 DEF Init, Types
<1>2. Held
  BY DEF Init, Held
<1>3. Written
  BY DEF Init, Written
<1>4. Stages
  BY DEF Init, Stages
<1>5. Untouched
  BY DEF Init, Untouched
<1>6. QED
  BY <1>1, <1>2, <1>3, <1>4, <1>5

LEMMA StepTypes ==
  ASSUME Types, Held, Written, Stages, [Next]_vars
  PROVE  Types'
<1>1. Len(tables) \in Nat /\ DOMAIN tables = 1..Len(tables)
  BY TablesTyped
<1>2. dump' = dump /\ tables' = tables
  BY StepKeeps
<1> USE <1>1, <1>2
<1>3. CASE Dumper
  <2>1. CASE InitColumns \/ Fails \/ Rollback \/ ReadRoutines
    BY <2>1 DEF Types, InitColumns, Fails, Rollback, ReadRoutines, goroutine, server
  <2>2. CASE Stream
    BY <2>2 DEF Types, Stream, server
  <2>3. CASE Write
    BY <2>3 DEF Types, Write, goroutine, server
  <2>4. CASE RangeEnds
    BY <2>4 DEF Types, Stages, RangeEnds, goroutine, server
  <2>5. QED
    BY <1>3, <2>1, <2>2, <2>3, <2>4 DEF Dumper
<1>4. CASE Row
  BY <1>4 DEF Types, Row, Pack
<1>5. CASE RowsEnd
  <2>1. at \in DOMAIN tables
    BY <1>5 DEF Stages, RowsEnd
  <2>2. /\ cursor' \in {"none", "open", "held"} /\ link' \in {"up", "lost"}
        /\ tableErr' \in {tableErr, tableErr \cup {at}} /\ cut' \in {cut, cut \cup {at}}
    BY <1>5, NoMoreRowsDoes DEF RowsEnd, Types
  <2>3. QED
    BY <1>5, <2>1, <2>2 DEF Types, RowsEnd
<1>6. CASE Panic \/ Send
  BY <1>6 DEF Types, Panic, Send, server
<1>7. CASE UNCHANGED vars
  BY <1>7 DEF Types, vars
<1>8. QED
  BY <1>3, <1>4, <1>5, <1>6, <1>7 DEF Next, Producer, Stopped

LEMMA StepStages ==
  ASSUME Types, Held, Written, Stages, [Next]_vars
  PROVE  Stages'
<1>1. Len(tables) \in Nat /\ DOMAIN tables = 1..Len(tables)
  BY TablesTyped
<1>2. dump' = dump /\ tables' = tables /\ SkipExtendedInsert' = SkipExtendedInsert
  BY StepKeeps
<1>3. at \in 1..(Len(tables) + 1)
  BY DEF Types
<1> USE <1>1, <1>2, <1>3
<1>4. CASE InitColumns \/ Fails \/ Rollback \/ ReadRoutines
  BY <1>4 DEF Stages, InitColumns, Fails, Rollback, ReadRoutines, goroutine
<1>5. CASE Stream
  BY <1>5 DEF Stages, Stream
<1>6. CASE Write
  BY <1>6 DEF Stages, Write, goroutine
<1>7. CASE RangeEnds
  BY <1>7 DEF Stages, RangeEnds, goroutine
<1>8. CASE Row
  <2>1. insert \in Seq(RowsOf(at))
    BY <1>8, AtHand DEF Row
  <2>2. PICK r : Pack(r)
    BY <1>8 DEF Row
  <2>3. Alone(r) \/ Starts(r) \/ Joins(r)
    BY <2>2, PackDoes
  <2>4. producer' = "fetch" => ready' = ready
    BY <2>3 DEF Alone, Starts, Joins
  <2>5. producer' = "send" => ready' # <<>>
    <3>1. CASE Joins(r)
      <4>1. producer' = "fetch"
        BY <1>8, <3>1 DEF Joins, Row
      <4>2. QED
        BY <4>1
    <3>2. CASE Starts(r)
      BY <3>2 DEF Starts
    <3>3. CASE Alone(r)
      BY <3>3 DEF Alone
    <3>4. QED
      BY <2>3, <3>1, <3>2, <3>3
  <2>6. producer' \in {"fetch", "send"}
    BY <1>8, <2>3 DEF Alone, Starts, Joins, Row
  <2>7. SkipExtendedInsert => insert' = <<>>
    BY <2>2, PackDoes DEF Alone
  <2>8. SkipExtendedInsert' = SkipExtendedInsert
    BY StepKeeps
  <2>9. QED
    BY <1>8, <2>4, <2>5, <2>6, <2>7, <2>8 DEF Stages, Row
<1>9. CASE RowsEnd
  BY <1>9 DEF Stages, RowsEnd
<1>10. CASE Panic
  BY <1>10 DEF Stages, Panic
<1>11. CASE Send
  BY <1>11 DEF Stages, Send
<1>12. CASE UNCHANGED vars
  BY <1>12 DEF Stages, vars
<1>13. QED
  BY <1>4, <1>5, <1>6, <1>7, <1>8, <1>9, <1>10, <1>11, <1>12
     DEF Next, Dumper, Producer, Stopped

LEMMA StepWritten ==
  ASSUME Types, Held, Written, Stages, [Next]_vars
  PROVE  Written'
<1>1. dump' = dump /\ tables' = tables /\ \A t : RowsOf(t)' = RowsOf(t)
  BY StepKeeps
<1>2. CASE Write
  <2>1. /\ at \in DOMAIN tables /\ out[at] \in Seq(Seq(RowsOf(at)))
        /\ channel \in Seq(Seq(RowsOf(at)))
    BY <1>2, AtHand DEF Write
  <2>2. Head(channel) \in Seq(RowsOf(at))
    BY <1>2, <2>1 DEF Write
  <2>3. Append(out[at], Head(channel)) \in Seq(Seq(RowsOf(at)))
    BY <2>1, <2>2
  <2>4. /\ DOMAIN out' = DOMAIN out /\ out'[at] = Append(out[at], Head(channel))
        /\ \A t \in DOMAIN out : t # at => out'[t] = out[t]
    BY <1>2, <2>1 DEF Write, Written
  <2>5. QED
    BY <1>1, <2>1, <2>3, <2>4 DEF Written
<1>3. CASE out' = out
  BY <1>1, <1>3 DEF Written
<1>4. Write \/ out' = out
  BY DEF Next, vars, Dumper, Producer, InitColumns, Stream, RangeEnds, Fails, Rollback,
         ReadRoutines,
         Row, RowsEnd, Panic, Send, Stopped
<1>5. QED
  BY <1>2, <1>3, <1>4

LEMMA StepHeld ==
  ASSUME Types, Held, Written, Stages, [Next]_vars
  PROVE  Held'
<1>1. /\ dump' = dump /\ tables' = tables /\ \A t : RowsOf(t)' = RowsOf(t)
      /\ DOMAIN tables = 1..Len(tables)
  BY StepKeeps, TablesTyped
<1>2. CASE at' = at /\ UNCHANGED <<insert, ready, channel>>
  BY <1>1, <1>2 DEF Held
<1>3. CASE Stream
  BY <1>1, <1>3 DEF Held, Stream
<1>4. CASE RangeEnds
  <2>1. insert' = <<>> /\ ready' = <<>> /\ channel' = <<>>
    BY <1>4 DEF Stages, RangeEnds, goroutine
  <2>2. Len(<<>>) <= 1
    OBVIOUS
  <2>3. QED
    BY <2>1, <2>2 DEF Held
<1>5. CASE Write \/ (Fails /\ channel' # channel)
  <2>1. channel \in Seq(Seq(RowsOf(at))) /\ Len(channel) <= 1 /\ channel # <<>>
    BY <1>5, AtHand DEF Write, Fails
  <2>2. channel' = Tail(channel) /\ at' = at /\ insert' = insert /\ ready' = ready
    BY <1>5 DEF Write, Fails, goroutine
  <2>3. channel' = <<>>
    BY <2>1, <2>2
  <2>4. channel' \in Seq(Seq(RowsOf(at))) /\ Len(channel') <= 1
    BY <2>3
  <2>5. QED
    BY <1>1, <2>2, <2>4 DEF Held
<1>6. CASE Row
  <2>1. /\ insert \in Seq(RowsOf(at)) /\ ready \in Seq(RowsOf(at))
        /\ Len(Rows(at)) \in Nat /\ RowsOf(at) = 1..Len(Rows(at))
    BY <1>6, AtHand DEF Row
  <2>2. fetched + 1 \in RowsOf(at)
    BY <1>6, <2>1 DEF Row, Types
  <2>3. insert' \in Seq(RowsOf(at)) /\ ready' \in Seq(RowsOf(at))
    <3> DEFINE r == fetched + 1
    <3>1. Pack(r) /\ r \in RowsOf(at)
      BY <1>6, <2>2 DEF Row
    <3> HIDE DEF r
    <3>2. Alone(r) \/ Starts(r) \/ Joins(r)
      BY <3>1, PackDoes
    <3> DEFINE D == RowsOf(at)
    <3>3. insert \in Seq(D) /\ ready \in Seq(D) /\ r \in D
      BY <2>1, <3>1
    <3> HIDE DEF D
    <3>4. <<r>> \in Seq(D) /\ <<>> \in Seq(D) /\ Append(insert, r) \in Seq(D)
      BY ONLY <3>3
    <3>5. insert' \in Seq(D) /\ ready' \in Seq(D)
      BY <3>2, <3>3, <3>4 DEF Alone, Starts, Joins
    <3>6. QED
      BY <3>5 DEF D
  <2>4. QED
    BY <1>1, <1>6, <2>3 DEF Held, Row
<1>7. CASE RowsEnd
  <2>1. insert \in Seq(RowsOf(at))
    BY <1>7, AtHand DEF RowsEnd
  <2>2. QED
    BY <1>1, <1>7, <2>1 DEF Held, RowsEnd
<1>8. CASE Send
  <2>1. ready \in Seq(RowsOf(at))
    BY <1>8, AtHand DEF Send
  <2>2. <<ready>> \in Seq(Seq(RowsOf(at))) /\ Len(<<ready>>) <= 1
    BY <2>1
  <2>3. QED
    BY <1>1, <1>8, <2>2 DEF Held, Send
<1>9. QED
  BY <1>2, <1>3, <1>4, <1>5, <1>6, <1>7, <1>8
     DEF Next, vars, Dumper, Producer, InitColumns, Fails, Rollback, ReadRoutines, Panic,
         Stopped, goroutine

LEMMA StepUntouched ==
  ASSUME Types, Held, Written, Stages, Untouched, [Next]_vars
  PROVE  Untouched'
<1>1. /\ tables' = tables /\ DOMAIN tables = 1..Len(tables) /\ Len(tables) \in Nat
      /\ at \in 1..(Len(tables) + 1)
  BY StepKeeps, TablesTyped DEF Types
<1>2. CASE Write
  <2>1. \A t \in DOMAIN tables : t # at => out'[t] = out[t]
    BY <1>2 DEF Write, Written
  <2>2. QED
    BY <1>1, <1>2, <2>1 DEF Untouched, Write
<1>3. CASE RangeEnds
  BY <1>1, <1>3 DEF Untouched, RangeEnds
<1>4. CASE UNCHANGED <<at, out>> /\ (pc' \in {"init", "create"} => pc \in {"init", "create"})
  BY <1>1, <1>4 DEF Untouched
<1>5. QED
  BY <1>2, <1>3, <1>4
     DEF Next, vars, Dumper, Producer, InitColumns, Stream, Fails, Rollback, ReadRoutines, Row,
         RowsEnd,
         Panic, Send, Stopped

---------------------------------------------------------------------------
(* The rows. *)

\* What the moves of rows between the buffers do to the whole.
LEMMA Moves ==
  ASSUME NEW D, NEW f \in Seq(D), NEW s \in Seq(D), NEW r \in D
  PROVE  /\ (f \o <<>>) \o Append(s, r) = Append((f \o <<>>) \o s, r)
         /\ (f \o s) \o <<r>> = Append((f \o <<>>) \o s, r)
         /\ (f \o <<r>>) \o <<>> = Append((f \o <<>>) \o <<>>, r)
<1>1. /\ f \o <<>> = f /\ s \o <<>> = s /\ <<r>> \in Seq(D) /\ f \o s \in Seq(D)
      /\ f \o <<r>> \in Seq(D)
  BY ConcatEmptySeq, ConcatProperties
<1>2. (f \o <<r>>) \o <<>> = f \o <<r>>
  BY <1>1, ConcatEmptySeq
<1>3. Append(s, r) = s \o <<r>> /\ Append(f, r) = f \o <<r>> /\ Append(f \o s, r) = (f \o s) \o <<r>>
  BY <1>1, AppendIsConcat
<1>4. f \o (s \o <<r>>) = (f \o s) \o <<r>>
  BY <1>1, ConcatAssociative
<1>5. QED
  BY <1>1, <1>2, <1>3, <1>4

LEMMA EmptyMoves ==
  ASSUME NEW D, NEW f \in Seq(D), NEW s \in Seq(D)
  PROVE  (f \o s) \o <<>> = (f \o <<>>) \o s
<1>1. f \o <<>> = f /\ f \o s \in Seq(D)
  BY ConcatEmptySeq, ConcatProperties
<1>2. (f \o s) \o <<>> = f \o s
  BY <1>1, ConcatEmptySeq
<1>3. QED
  BY <1>1, <1>2

LEMMA OneRowMore ==
  ASSUME NEW n \in Nat
  PROVE  [r \in 1..(n + 1) |-> r] = Append([r \in 1..n |-> r], n + 1)
<1>1. [r \in 1..n |-> r] \in Seq(Nat) /\ [r \in 1..(n + 1) |-> r] \in Seq(Nat)
  OBVIOUS
<1>2. QED
  BY <1>1

\* The template takes its statement from the front of the channel.
LEMMA WriteMoves ==
  ASSUME NEW D, NEW o \in Seq(D), NEW c \in Seq(D), c # <<>>, Len(c) <= 1
  PROVE  Append(o, Head(c)) \o Tail(c) = o \o c
<1>1. Len(c) = 1 /\ c = <<Head(c)>> /\ Head(c) \in D /\ Tail(c) = <<>>
  <2>1. Len(c) = 1
    <3>1. Len(c) \in Nat \ {0}
      BY EmptySeq
    <3> DEFINE n == Len(c)
    <3>2. n \in Nat \ {0} /\ n <= 1
      BY <3>1
    <3> HIDE DEF n
    <3>3. n = 1
      BY <3>2
    <3>4. QED
      BY <3>3 DEF n
  <2>2. Head(c) \in D /\ Tail(c) \in Seq(D) /\ Len(Tail(c)) = 0
    BY <2>1, HeadTailProperties
  <2>3. Head(c) = c[1] /\ c = <<c[1]>>
    BY <2>1
  <2>4. QED
    BY <2>1, <2>2, <2>3, EmptySeq
<1>2. Append(o, Head(c)) = o \o <<Head(c)>> /\ Append(o, Head(c)) \in Seq(D)
  BY <1>1, AppendIsConcat, AppendProperties
<1>3. Append(o, Head(c)) \o <<>> = Append(o, Head(c))
  BY <1>2, ConcatEmptySeq
<1>4. QED
  BY <1>1, <1>2, <1>3

\* What is held or written of the table at hand, and how many rows have been scanned.
LEMMA StepConserved ==
  ASSUME Types, Held, Written, Stages, Untouched, EndIsKnown, RowsConserved, [Next]_vars
  PROVE  RowsConserved'
<1> DEFINE D == RowsOf(at)
           f == FlattenSeq(out[at] \o channel)
           all == [r \in 1..fetched |-> r]
<1>1. SUFFICES ASSUME pc' = "range"
               PROVE  (FlattenSeq(out[at] \o channel) \o ready \o insert)'
                        = [r \in 1..fetched' |-> r]
  BY DEF RowsConserved
<1>2. CASE Stream
  <2>1. out[at] = <<>> /\ at' = at /\ out' = out
    BY <1>2 DEF Stages, Untouched, Stream
  <2>2. FlattenSeq(<<>> \o <<>>) \o <<>> \o <<>> = <<>>
    <3>1. <<>> \o <<>> = <<>>
      OBVIOUS
    <3>2. QED
      BY <3>1, FlattenEmpty
  <2>3. [r \in 1..0 |-> r] = <<>>
    OBVIOUS
  <2>4. QED
    BY <1>2, <2>1, <2>2, <2>3 DEF Stream
<1>3. CASE pc = "range" /\ ~Stream /\ at' = at
  <2>1. /\ at \in DOMAIN tables /\ insert \in Seq(D) /\ ready \in Seq(D)
        /\ channel \in Seq(Seq(D)) /\ Len(channel) <= 1 /\ out[at] \in Seq(Seq(D))
        /\ D = 1..Len(Rows(at)) /\ Len(Rows(at)) \in Nat /\ fetched \in Nat
    BY <1>3, AtHand DEF Types
  <2>2. f \o ready \o insert = all
    BY <1>3 DEF RowsConserved
  <2>3. out[at] \o channel \in Seq(Seq(D)) /\ f \in Seq(D)
    <3>1. out[at] \o channel \in Seq(Seq(D))
      BY <2>1, ConcatProperties
    <3> HIDE DEF D
    <3>2. QED
      BY <3>1, FlattenType
  <2>4. CASE Write
    <3>1. out'[at] = Append(out[at], Head(channel))
      BY <2>1, <2>4 DEF Write, Written
    <3>2. out'[at] \o channel' = out[at] \o channel
      <4> DEFINE E == Seq(D)
      <4>1. out[at] \in Seq(E) /\ channel \in Seq(E) /\ channel # <<>> /\ Len(channel) <= 1
        BY <2>1, <2>4 DEF Write
      <4> HIDE DEF E
      <4>2. Append(out[at], Head(channel)) \o Tail(channel) = out[at] \o channel
        BY <4>1, WriteMoves
      <4>3. QED
        BY <2>4, <3>1, <4>2 DEF Write
    <3>3. QED
      BY <1>3, <2>2, <2>4, <3>2 DEF Write, goroutine
  <2>5. CASE Row
    <3> DEFINE r == fetched + 1
    <3>1. Pack(r) /\ fetched' = r /\ out' = out /\ channel' = channel /\ ready = <<>>
      BY <2>5 DEF Row, Stages
    <3>2. r \in D
      BY <2>1, <2>5 DEF Row
    <3>3. [x \in 1..fetched' |-> x] = Append(all, r)
      BY <2>1, <3>1, OneRowMore
    <3>4. (f \o <<>>) \o insert = all
      BY <2>2, <3>1
    <3> HIDE DEF D, f, all, r
    <3>5. CASE SkipExtendedInsert /\ Alone(r)
      <4>1. insert = <<>>
        BY <3>5 DEF Stages
      <4>2. (f \o <<r>>) \o <<>> = Append((f \o <<>>) \o <<>>, r)
        BY <2>1, <2>3, <3>2, Moves
      <4>3. (f \o ready') \o insert' = Append(all, r)
        BY <3>4, <3>5, <4>1, <4>2 DEF Alone
      <4>4. QED
        BY <1>3, <3>1, <3>3, <4>3 DEF f
    <3>6. CASE Starts(r)
      <4>1. (f \o insert) \o <<r>> = Append((f \o <<>>) \o insert, r)
        BY <2>1, <2>3, <3>2, Moves
      <4>2. (f \o ready') \o insert' = Append(all, r)
        BY <3>4, <3>6, <4>1 DEF Starts
      <4>3. QED
        BY <1>3, <3>1, <3>3, <4>2 DEF f
    <3>7. CASE Joins(r)
      <4>1. (f \o <<>>) \o Append(insert, r) = Append((f \o <<>>) \o insert, r)
        <5>1. insert \in Seq(D) /\ f \in Seq(D)
          BY <2>1, <2>3
        <5>2. QED
          BY ONLY <3>2, <5>1, Moves
      <4>2. (f \o ready') \o insert' = Append(all, r)
        BY <3>1, <3>4, <3>7, <4>1 DEF Joins
      <4>3. QED
        BY <1>3, <3>1, <3>3, <4>2 DEF f
    <3>8. QED
      BY <3>1, <3>5, <3>6, <3>7, PackDoes
  <2>6. CASE RowsEnd
    <3>1. ready = <<>> /\ ready' = insert /\ insert' = <<>>
      BY <2>6 DEF RowsEnd, Stages
    <3>2. (f \o insert) \o <<>> = (f \o <<>>) \o insert
      <4> HIDE DEF D, f
      <4>1. QED
        BY <2>1, <2>3, EmptyMoves
    <3>3. QED
      BY <1>3, <2>2, <2>6, <3>1, <3>2 DEF RowsEnd
  <2>7. CASE Send
    <3>1. /\ channel = <<>> /\ channel' = <<ready>> /\ ready' = <<>> /\ insert' = insert
          /\ fetched' = fetched /\ out' = out
      BY <2>7 DEF Send
    <3>2. FlattenSeq(out[at] \o <<>>) = FlattenSeq(out[at])
      <4>1. out[at] \o <<>> = out[at]
        BY <2>1, ConcatEmptySeq
      <4>2. QED
        BY <4>1
    <3>3. FlattenSeq(out[at] \o <<ready>>) = FlattenSeq(out[at]) \o ready
      <4> HIDE DEF D
      <4>1. Append(out[at], ready) = out[at] \o <<ready>>
        BY <2>1, AppendIsConcat
      <4>2. FlattenSeq(Append(out[at], ready)) = FlattenSeq(out[at]) \o ready
        BY <2>1, FlattenAppend
      <4>3. QED
        BY <4>1, <4>2
    <3>4. FlattenSeq(out[at] \o <<ready>>) \o <<>> = FlattenSeq(out[at] \o <<ready>>)
      <4> DEFINE g == FlattenSeq(out[at])
      <4> HIDE DEF D
      <4>1. g \in Seq(D)
        BY <2>1, FlattenType
      <4> HIDE DEF g
      <4>2. g \o ready \in Seq(D)
        BY <2>1, <4>1, ConcatProperties
      <4>3. (g \o ready) \o <<>> = g \o ready
        BY <4>2, ConcatEmptySeq
      <4>4. QED
        BY <3>3, <4>3 DEF g
    <3>5. QED
      BY <1>3, <2>2, <3>1, <3>2, <3>3, <3>4
  <2>8. CASE UNCHANGED <<fetched, insert, ready, channel, out>>
    BY <1>3, <2>2, <2>8
  <2>9. QED
    BY <1>1, <1>3, <2>4, <2>5, <2>6, <2>7, <2>8
       DEF Next, vars, Dumper, Producer, InitColumns, RangeEnds, Fails, Rollback, ReadRoutines,
           Panic,
           Stopped, goroutine
<1>4. (pc = "range" /\ at' = at) \/ Stream
  BY <1>1
     DEF Next, vars, Dumper, Producer, InitColumns, Write, RangeEnds, Fails, Rollback, ReadRoutines,
         Row, RowsEnd, Panic, Send, Stopped
<1>5. QED
  BY <1>2, <1>3, <1>4

---------------------------------------------------------------------------
(* The ends of tables. *)

LEMMA StepRowsLeft ==
  ASSUME Types, Held, Written, Stages, RowsLeft, [Next]_vars
  PROVE  RowsLeft'
<1>1. at \in Nat
  BY TablesTyped DEF Types
<1>2. CASE InitColumns \/ ReadRoutines
  BY <1>2 DEF RowsLeft, Stages, InitColumns, ReadRoutines, Answered, goroutine, server
<1>3. CASE Stream
  BY <1>3 DEF RowsLeft, Stream, Answered, server
<1>4. CASE RangeEnds
  <2>1. cursor = "none" \/ (cursor = "open" /\ at \in tableErr)
    BY <1>4 DEF RowsLeft, Stages, RangeEnds
  <2>2. at' - 1 = at /\ cursor' = cursor /\ tableErr' = tableErr /\ pc' = "init"
    BY <1>1, <1>4 DEF RangeEnds, server
  <2>3. QED
    BY <2>1, <2>2 DEF RowsLeft
<1>5. CASE Row
  <2>1. fetched' # 0 /\ more' /\ pc' = pc /\ pc \in {"range", "rollback", "error"}
    BY <1>5 DEF Row, Stages, Types
  <2>2. QED
    BY <2>1 DEF RowsLeft
<1>6. CASE RowsEnd
  <2>1. pc' = pc /\ ~more' /\ more /\ pc \in {"range", "rollback", "error"}
    BY <1>6 DEF RowsEnd, Stages
  <2>2. ASSUME pc = "range"
        PROVE  cursor' = "none" \/ (cursor' = "open" /\ at' \in tableErr')
    <3>1. at' = at /\ (fetched = 0 => cursor = "none")
      BY <1>6, <2>1, <2>2 DEF RowsEnd, RowsLeft
    <3>2. \/ cursor' = "none" \/ (fetched = 0 /\ cursor' = cursor)
          \/ (cursor' = "open" /\ at \in tableErr')
      BY <1>6, <2>2
         DEF RowsEnd, NoMoreRows, LastRow, Interrupted, Lost, Refused, Unreadable, RolledBack
    <3>3. QED
      BY <3>1, <3>2
  <2>3. QED
    BY <2>1, <2>2 DEF RowsLeft
<1>7. CASE UNCHANGED <<at, pc, fetched, more, cursor, tableErr>>
  BY <1>7 DEF RowsLeft
<1>8. CASE pc' \in {"rollback", "error", "crashed"}
  BY <1>8 DEF RowsLeft
<1>9. QED
  BY <1>2, <1>3, <1>4, <1>5, <1>6, <1>7, <1>8
     DEF Next, vars, Dumper, Producer, Write, Fails, Rollback, Panic, Send, Stopped, goroutine,
         server

LEMMA StepEnds ==
  ASSUME Types, Held, Written, Stages, EndIsKnown, [Next]_vars
  PROVE  EndIsKnown'
<1>1. \A t : Rows(t)' = Rows(t)
  BY StepKeeps
<1>2. CASE Stream
  <2>1. at \in DOMAIN tables /\ at' = at /\ fetched' = 0 /\ more'
    BY <1>2 DEF Stream, Stages
  <2>2. Len(Rows(at)) \in Nat
    BY <2>1, TablesTyped
  <2>3. QED
    BY <1>1, <2>1, <2>2 DEF EndIsKnown
<1>3. CASE Row
  <2>1. at \in DOMAIN tables /\ Len(Rows(at)) \in Nat /\ fetched \in Nat
    BY <1>3, AtHand DEF Row, Types
  <2>2. fetched + 1 <= Len(Rows(at)) /\ more' /\ at' = at /\ fetched' = fetched + 1
    BY <1>3, <2>1 DEF Row, Stages
  <2>3. QED
    BY <1>1, <2>2 DEF EndIsKnown
<1>4. CASE RowsEnd
  <2>1. at' = at /\ fetched' = fetched /\ pc' = pc
    BY <1>4 DEF RowsEnd
  <2>2. ASSUME pc = "range"
        PROVE  fetched = Len(Rows(at)) \/ Excused(at)'
    BY <1>4, <2>1, <2>2
       DEF RowsEnd, NoMoreRows, LastRow, Interrupted, Lost, Refused, Unreadable, RolledBack, Excused
  <2>3. QED
    BY <1>1, <2>1, <2>2 DEF EndIsKnown
<1>5. CASE UNCHANGED <<at, fetched, more, cursor, tableErr, cut, link>>
             /\ (pc' = "range" => pc = "range")
  BY <1>1, <1>5 DEF EndIsKnown, Excused
<1>6. CASE pc' # "range"
  BY <1>6 DEF EndIsKnown
<1>7. QED
  BY <1>2, <1>3, <1>4, <1>5, <1>6
     DEF Next, vars, Dumper, Producer, InitColumns, Write, RangeEnds, Fails, Rollback,
         ReadRoutines, Panic, Send, Stopped, goroutine, server

\* While the dump goes on, the output of the tables before stays, and so do their errors.
LEMMA EarlierStays ==
  ASSUME Types, Held, Written, Stages, [Next]_vars, NEW t \in 1..(at - 1)
  PROVE  /\ out'[t] = out[t]
         /\ Complete(t) => Complete(t)'
         /\ Unasked(t) => Unasked(t)'
<1>1. /\ tables' = tables /\ \A u : Rows(u)' = Rows(u) /\ Len(tables) \in Nat
      /\ DOMAIN tables = 1..Len(tables) /\ at \in 1..(Len(tables) + 1)
  BY StepKeeps, TablesTyped DEF Types
<1>2. out'[t] = out[t]
  <2>1. t \in DOMAIN tables /\ t # at
    BY <1>1
  <2>2. QED
    BY <2>1
       DEF Written, Next, vars, Dumper, Producer, InitColumns, Stream, Write, RangeEnds, Fails,
           Rollback, ReadRoutines, Row, RowsEnd, Panic, Send, Stopped
<1>3. tableErr \subseteq tableErr' /\ cut \subseteq cut'
  <2>1. CASE RowsEnd
    BY <2>1, NoMoreRowsDoes DEF RowsEnd
  <2>2. CASE tableErr' = tableErr /\ cut' = cut
    BY <2>2
  <2>3. QED
    BY <2>1, <2>2
       DEF Next, vars, Dumper, Producer, InitColumns, Stream, Write, RangeEnds, Fails, Rollback,
           ReadRoutines, Row, Panic, Send, Stopped, server
<1>4. QED
  BY <1>1, <1>2, <1>3 DEF Complete, Unasked

LEMMA StepEarlier ==
  ASSUME Types, Held, Written, Stages, RowsLeft, EarlierDone, EndIsKnown, RowsConserved,
         [Next]_vars
  PROVE  EarlierDone'
<1>1. /\ tables' = tables /\ \A t : Rows(t)' = Rows(t) /\ Len(tables) \in Nat
      /\ DOMAIN tables = 1..Len(tables) /\ at \in 1..(Len(tables) + 1)
  BY StepKeeps, TablesTyped DEF Types
<1> DEFINE Going == {"init", "create", "range", "routines", "ok"}
<1>3. SUFFICES ASSUME pc' \in Going, NEW t \in 1..(at' - 1)
               PROVE  Complete(t)' \/ Overlooked(t)'
  BY DEF EarlierDone
<1>4. pc \in Going
  BY <1>3
     DEF Next, vars, Dumper, Producer, InitColumns, Stream, Write, RangeEnds, Fails, Rollback,
         ReadRoutines, Row, RowsEnd, Panic, Send, Stopped
<1>5. CASE t \in 1..(at - 1)
  <2>1. Complete(t) \/ Overlooked(t)
    BY <1>4, <1>5 DEF EarlierDone
  <2>2. (Complete(t) => Complete(t)') /\ (Unasked(t) => Unasked(t)')
    BY <1>5, EarlierStays
  <2>3. ASSUME t = at - 1, ToBeFound(t)
        PROVE  t = at' - 1 /\ ToBeFound(t)'
    <3>1. ~RangeEnds /\ ~Stream /\ ~Write /\ ~Row /\ ~RowsEnd /\ ~Panic /\ ~Send
      BY <2>3 DEF ToBeFound, RangeEnds, Stream, Write, Row, RowsEnd, Panic, Send, Stages
    <3>2. CASE InitColumns
      BY <1>1, <1>3, <1>5, <2>3, <3>2 DEF ToBeFound, RowsLeft, InitColumns, Answered
    <3>3. CASE ReadRoutines
      BY <2>3, <3>3 DEF ToBeFound, ReadRoutines, Answered
    <3>4. CASE UNCHANGED vars
      BY <2>3, <3>4 DEF ToBeFound, vars
    <3>5. QED
      BY <1>3, <3>1, <3>2, <3>3, <3>4
         DEF Next, Dumper, Producer, Fails, Rollback, Stopped
  <2>4. QED
    BY <2>1, <2>2, <2>3 DEF Overlooked
<1>6. CASE t \notin 1..(at - 1)
  <2>1. RangeEnds /\ t = at /\ at' = at + 1 /\ pc' = "init"
    BY <1>1, <1>3, <1>6, StepKeeps DEF RangeEnds
  <2>2. /\ ready = <<>> /\ insert = <<>> /\ channel = <<>> /\ ~more /\ out' = out
        /\ UNCHANGED <<cursor, tableErr, cut, link>>
    BY <2>1 DEF RangeEnds, Stages, server
  <2>3. /\ FlattenSeq(out[at] \o channel) \o ready \o insert = [r \in 1..fetched |-> r]
        /\ fetched = Len(Rows(at)) \/ Excused(at)
    BY <2>1, <2>2 DEF RangeEnds, RowsConserved, EndIsKnown
  <2>4. FlattenSeq(out[at] \o channel) \o ready \o insert = FlattenSeq(out[at])
    <3> DEFINE D == RowsOf(at)
               E == Seq(D)
    <3>1. out[at] \in Seq(E)
      BY <2>1, AtHand DEF RangeEnds
    <3>2. out[at] \o <<>> = out[at]
      <4> HIDE DEF E
      <4>1. QED
        BY <3>1, ConcatEmptySeq
    <3> HIDE DEF D
    <3>3. FlattenSeq(out[at]) \in Seq(D)
      BY <3>1, FlattenType
    <3> DEFINE g == FlattenSeq(out[at])
    <3>4. (g \o <<>>) \o <<>> = g
      <4> HIDE DEF g
      <4>1. g \in Seq(D) => g \o <<>> = g
        BY ConcatEmptySeq
      <4>2. QED
        BY <3>3, <4>1 DEF g
    <3>5. QED
      BY <2>2, <3>2, <3>4
  <2>5. CASE Excused(at)
    <3>1. fetched = 0 => FlattenSeq(out[at]) = <<>>
      <4>1. [r \in 1..0 |-> r] = <<>>
        OBVIOUS
      <4>2. QED
        BY <2>3, <2>4, <4>1
    <3>2. at' - 1 = at
      BY <1>1, <2>1
    <3>3. QED
      BY <2>1, <2>2, <2>5, <3>1, <3>2 DEF Excused, Overlooked, Unasked, ToBeFound
  <2>6. CASE fetched = Len(Rows(at))
    BY <1>1, <2>1, <2>2, <2>3, <2>4, <2>6 DEF Complete
  <2>7. QED
    BY <2>3, <2>5, <2>6
<1>7. QED
  BY <1>5, <1>6

---------------------------------------------------------------------------
(* The length of a statement. *)

\* f sums up the lengths of the first n rows of s.
Sums(w, s, n, f) == f = [i \in 0..n |-> IF i = 0 THEN 0 ELSE f[i - 1] + w[s[i]]]

LEMMA SumsAt ==
  ASSUME NEW w, NEW s, NEW n \in Nat, NEW f, Sums(w, s, n, f)
  PROVE  f[0] = 0 /\ \A i \in 1..n : f[i] = f[i - 1] + w[s[i]]
<1> DEFINE G == [j \in 0..n |-> IF j = 0 THEN 0 ELSE f[j - 1] + w[s[j]]]
<1>1. f = G
  BY DEF Sums
<1>2. G[0] = 0 /\ \A i \in 1..n : G[i] = f[i - 1] + w[s[i]]
  OBVIOUS
<1> HIDE DEF G
<1>3. QED
  BY <1>1, <1>2

LEMMA SumsNext ==
  ASSUME NEW w, NEW s, NEW n \in Nat, NEW f, Sums(w, s, n, f)
  PROVE  Sums(w, s, n + 1, [i \in 0..(n + 1) |-> IF i <= n THEN f[i] ELSE f[n] + w[s[i]]])
<1> DEFINE g == [i \in 0..(n + 1) |-> IF i <= n THEN f[i] ELSE f[n] + w[s[i]]]
<1>1. ASSUME NEW i \in 0..(n + 1)
      PROVE  g[i] = IF i = 0 THEN 0 ELSE g[i - 1] + w[s[i]]
  <2>1. CASE i <= n
    <3>1. g[i] = f[i] /\ i \in 0..n
      BY <2>1
    <3>2. f[i] = IF i = 0 THEN 0 ELSE f[i - 1] + w[s[i]]
      <4>1. f[0] = 0 /\ \A j \in 1..n : f[j] = f[j - 1] + w[s[j]]
        BY ONLY n \in Nat, Sums(w, s, n, f), SumsAt
      <4>2. QED
        BY <3>1, <4>1
    <3>3. i # 0 => g[i - 1] = f[i - 1]
      BY <2>1
    <3>4. QED
      BY <3>1, <3>2, <3>3
  <2>2. CASE i = n + 1
    <3>1. g[i] = f[n] + w[s[i]] /\ g[i - 1] = f[n] /\ i # 0
      BY <2>2
    <3>2. QED
      BY <3>1
  <2>3. QED
    BY <2>1, <2>2
<1>2. g = [i \in 0..(n + 1) |-> IF i = 0 THEN 0 ELSE g[i - 1] + w[s[i]]]
  BY <1>1
<1>3. QED
  BY <1>2 DEF Sums

LEMMA SumsExists ==
  ASSUME NEW w, NEW s, NEW n \in Nat
  PROVE  \E f : Sums(w, s, n, f)
<1> DEFINE S == {k \in Nat : \E f : Sums(w, s, k, f)}
<1>1. 0 \in S
  <2>1. Sums(w, s, 0, [i \in 0..0 |-> 0])
    BY DEF Sums
  <2>2. QED
    BY <2>1
<1>2. ASSUME NEW k \in Nat, k \in S
      PROVE  k + 1 \in S
  <2>1. PICK f : Sums(w, s, k, f)
    BY <1>2
  <2>2. \E g : Sums(w, s, k + 1, g)
    BY <2>1, SumsNext
  <2>3. QED
    BY <2>2
<1> HIDE DEF S
<1>3. n \in S
  BY <1>1, <1>2, SetInduction
<1>4. QED
  BY <1>3 DEF S

LEMMA BytesAsFunction ==
  ASSUME NEW w, NEW s, Len(s) \in Nat
  PROVE  \E f : Sums(w, s, Len(s), f) /\ Bytes(w, s) = f[Len(s)]
<1> DEFINE f == CHOOSE g : g = [i \in 0..Len(s) |-> IF i = 0 THEN 0 ELSE g[i - 1] + w[s[i]]]
<1>1. \E g : g = [i \in 0..Len(s) |-> IF i = 0 THEN 0 ELSE g[i - 1] + w[s[i]]]
  <2>1. \E g : Sums(w, s, Len(s), g)
    BY SumsExists
  <2>2. QED
    BY <2>1 DEF Sums
<1>2. f = [i \in 0..Len(s) |-> IF i = 0 THEN 0 ELSE f[i - 1] + w[s[i]]]
  BY <1>1
<1>3. Sums(w, s, Len(s), f)
  BY <1>2 DEF Sums
<1>4. Bytes(w, s) = f[Len(s)]
  BY DEF Bytes
<1> HIDE DEF f
<1>5. QED
  BY <1>3, <1>4

\* Sums are sums of naturals, and do not depend on the rows that follow.
LEMMA SumsAgree ==
  ASSUME NEW w, NEW s, NEW t, NEW m \in Nat, NEW n \in Nat, NEW f, NEW g, m <= n,
         Sums(w, s, m, f), Sums(w, t, n, g), AgreeUpTo(m, s, t),
         \A i \in 1..m : w[s[i]] \in Nat
  PROVE  f[m] = g[m] /\ f[m] \in Nat
<1>1. f[0] = 0 /\ \A i \in 1..m : f[i] = f[i - 1] + w[s[i]]
  BY ONLY m \in Nat, Sums(w, s, m, f), SumsAt, SMTT(30)
<1>2. g[0] = 0 /\ \A i \in 1..n : g[i] = g[i - 1] + w[t[i]]
  BY ONLY n \in Nat, Sums(w, t, n, g), SumsAt, SMTT(30)
<1> DEFINE S == {k \in Nat : k \in 0..m => f[k] = g[k] /\ f[k] \in Nat}
<1>3. 0 \in S
  BY <1>1, <1>2
<1>4. ASSUME NEW k \in Nat, k \in S
      PROVE  k + 1 \in S
  <2>1. SUFFICES ASSUME k + 1 \in 1..m
                 PROVE  f[k + 1] = g[k + 1] /\ f[k + 1] \in Nat
    OBVIOUS
  <2>2. k + 1 \in 1..m /\ k + 1 \in 1..n /\ k + 1 - 1 = k /\ k \in 0..m
    BY <2>1
  <2>3. f[k + 1] = f[k] + w[s[k + 1]]
    BY <1>1, <2>2
  <2>4. g[k + 1] = g[k] + w[t[k + 1]]
    BY <1>2, <2>2
  <2>5. s[k + 1] = t[k + 1]
    BY <2>1 DEF AgreeUpTo
  <2>6. f[k] = g[k] /\ f[k] \in Nat /\ w[s[k + 1]] \in Nat
    BY <1>4, <2>1, <2>2
  <2>7. QED
    BY <2>3, <2>4, <2>5, <2>6
<1> HIDE DEF S
<1>5. m \in S
  BY <1>3, <1>4, SetInduction
<1>6. QED
  BY <1>5 DEF S

LEMMA BytesType ==
  ASSUME NEW w \in Seq(Nat), NEW s \in Seq(1..Len(w))
  PROVE  Bytes(w, s) \in Nat
<1>1. Len(s) \in Nat /\ Len(w) \in Nat
  OBVIOUS
<1>2. PICK f : Sums(w, s, Len(s), f) /\ Bytes(w, s) = f[Len(s)]
  BY <1>1, BytesAsFunction
<1> DEFINE n == Len(s)
<1>3. AgreeUpTo(n, s, s) /\ \A i \in 1..n : w[s[i]] \in Nat
  BY DEF AgreeUpTo
<1>4. Sums(w, s, n, f) /\ n \in Nat /\ n <= n
  BY <1>1, <1>2
<1> HIDE DEF n
<1>5. f[n] \in Nat
  BY ONLY <1>3, <1>4, SumsAgree
<1>6. QED
  BY <1>2, <1>5 DEF n

LEMMA BytesAppend ==
  ASSUME NEW w \in Seq(Nat), NEW s \in Seq(1..Len(w)), NEW r \in 1..Len(w)
  PROVE  Bytes(w, Append(s, r)) = Bytes(w, s) + w[r]
<1> DEFINE t == Append(s, r)
           n == Len(s)
           k == n + 1
           K == 1..Len(w)
<1>1. /\ n \in Nat /\ k \in Nat /\ n <= k /\ Len(t) = k /\ t[k] = r /\ k # 0 /\ k - 1 = n
      /\ k \in 1..k /\ \A i \in 1..n : t[i] = s[i] /\ s[i] \in K
  <2>1. n \in Nat
    OBVIOUS
  <2>2. k \in Nat /\ n <= k /\ k # 0 /\ k - 1 = n /\ k \in 1..k
    BY <2>1
  <2>3. Len(t) = k /\ t[k] = r /\ \A i \in 1..n : t[i] = s[i] /\ s[i] \in K
    <3>1. s \in Seq(K) /\ r \in K
      OBVIOUS
    <3> HIDE DEF K
    <3>2. QED
      BY ONLY <3>1, AppendProperties, ElementOfSeq
  <2>4. QED
    BY <2>1, <2>2, <2>3
<1>2. AgreeUpTo(n, s, t) /\ \A i \in 1..n : w[s[i]] \in Nat
  <2>1. \A j \in K : w[j] \in Nat
    OBVIOUS
  <2>2. QED
    BY <1>1, <2>1 DEF AgreeUpTo
<1> HIDE DEF t, n, k
<1>3. PICK f : Sums(w, s, n, f) /\ Bytes(w, s) = f[n]
  BY <1>1, BytesAsFunction DEF n
<1>4. PICK g : Sums(w, t, k, g) /\ Bytes(w, t) = g[k]
  BY <1>1, BytesAsFunction
<1>5. f[n] = g[n]
  <2>1. Sums(w, s, n, f) /\ Sums(w, t, k, g)
    BY <1>3, <1>4
  <2>2. QED
    BY ONLY <1>1, <1>2, <2>1, SumsAgree
<1>6. g[k] = g[n] + w[r]
  <2>1. \A i \in 1..k : g[i] = g[i - 1] + w[t[i]]
    <3>1. k \in Nat /\ Sums(w, t, k, g)
      BY <1>1, <1>4
    <3>2. QED
      BY ONLY <3>1, SumsAt
  <2>2. QED
    BY <1>1, <2>1
<1>7. QED
  BY <1>3, <1>4, <1>5, <1>6 DEF t

LEMMA BytesEmpty ==
  ASSUME NEW w
  PROVE  Bytes(w, <<>>) = 0
<1>1. PICK f : Sums(w, <<>>, 0, f) /\ Bytes(w, <<>>) = f[0]
  BY BytesAsFunction
<1>2. f[0] = 0
  BY <1>1, SumsAt
<1>3. QED
  BY <1>1, <1>2

LEMMA LengthType ==
  ASSUME NEW w \in Seq(Nat), NEW s \in Seq(1..Len(w))
  PROVE  LengthIn(w, s) \in Nat
<1>1. CASE s = <<>>
  BY <1>1 DEF LengthIn
<1>2. CASE s # <<>>
  <2>1. Len(s) \in Nat /\ Len(s) # 0 /\ Bytes(w, s) \in Nat
    BY <1>2, BytesType
  <2>2. LengthIn(w, s) = HeadLen + (Len(s) - 1) + Bytes(w, s)
    BY <1>2 DEF LengthIn
  <2>3. QED
    BY <2>1, <2>2, LengthsAreNat
<1>3. QED
  BY <1>1, <1>2

LEMMA LengthAppend ==
  ASSUME NEW w \in Seq(Nat), NEW s \in Seq(1..Len(w)), s # <<>>, NEW r \in 1..Len(w)
  PROVE  LengthIn(w, Append(s, r)) = LengthIn(w, s) + 1 + w[r]
<1>1. /\ Len(s) \in Nat /\ Bytes(w, s) \in Nat /\ w[r] \in Nat /\ HeadLen \in Nat
  BY BytesType, LengthsAreNat
<1>2. Append(s, r) # <<>> /\ Len(Append(s, r)) = Len(s) + 1
  BY SMTT(30)
<1>3. Bytes(w, Append(s, r)) = Bytes(w, s) + w[r]
  BY BytesAppend
<1>4. LengthIn(w, Append(s, r)) = HeadLen + (Len(s) + 1 - 1) + (Bytes(w, s) + w[r])
  BY <1>2, <1>3 DEF LengthIn
<1>5. LengthIn(w, s) = HeadLen + (Len(s) - 1) + Bytes(w, s)
  BY DEF LengthIn
<1> DEFINE n == Len(s)
           c == Bytes(w, s)
           x == w[r]
<1>6. ASSUME n \in Nat, c \in Nat, x \in Nat, HeadLen \in Nat
      PROVE  HeadLen + (n + 1 - 1) + (c + x) = HeadLen + (n - 1) + c + 1 + x
  <2> HIDE DEF n, c, x
  <2>1. QED
    BY <1>6
<1>7. QED
  BY <1>1, <1>4, <1>5, <1>6

---------------------------------------------------------------------------
(* Full statements. *)

\* The first row is the first statement.
LEMMA PackedFirst ==
  ASSUME NEW w, NEW r
  PROVE  Packed(w, <<>>) /\ Packed(w, <<<<r>>>>)
<1> DEFINE s == <<r>>
<1>1. ~(Len(s) > 1) /\ s # <<>>
  OBVIOUS
<1> HIDE DEF s
<1>2. Len(<<s>>) = 1 /\ <<s>>[1] = s /\ Len(<<>>) = 0
  OBVIOUS
<1>3. Packed(w, <<>>)
  BY <1>2 DEF Packed
<1>4. Packed(w, <<s>>)
  <2> DEFINE a == <<s>>
  <2>1. a[1] = s /\ 1..Len(a) = {1} /\ 1..(Len(a) - 1) = {}
    BY <1>2
  <2> HIDE DEF a
  <2>2. Packed(w, a)
    BY <1>1, <2>1 DEF Packed
  <2>3. QED
    BY <2>2 DEF a
<1>5. QED
  BY <1>3, <1>4 DEF s

\* A row that does not fit starts a statement.
LEMMA PackedNext ==
  ASSUME NEW w \in Seq(Nat), NEW b \in Seq(Seq(1..Len(w))), NEW s \in Seq(1..Len(w)),
         NEW r \in 1..Len(w), Packed(w, Append(b, s)),
         ~(LengthIn(w, s) + w[r] <= MaxAllowedPacket - 1)
  PROVE  Packed(w, Append(Append(b, s), <<r>>))
<1> DEFINE D == 1..Len(w)
           E == Seq(D)
           a == Append(b, s)
           n == Len(a)
           all == Append(a, <<r>>)
<1>1. a \in Seq(E) /\ n \in Nat /\ n # 0 /\ a[n] = s /\ <<r>> \in E
  <2>1. <<r>> \in E /\ s \in E /\ b \in Seq(E)
    OBVIOUS
  <2> HIDE DEF E
  <2>2. QED
    BY <2>1
<1>2. LengthIn(w, s) + w[r] > MaxAllowedPacket - 1
  <2>1. LengthIn(w, s) \in Nat /\ w[r] \in Nat
    BY LengthType
  <2>2. QED
    BY <2>1, LengthsAreNat
<1> HIDE DEF D, E, a
<1>3. Len(all) = n + 1 /\ all[n + 1] = <<r>> /\ \A i \in 1..n : all[i] = a[i]
  BY <1>1
<1>4. Packed(w, a)
  BY DEF a
<1> HIDE DEF all, n
<1>5. ASSUME NEW i \in 1..Len(all)
      PROVE  all[i] # <<>> /\ (Len(all[i]) > 1 => LengthIn(w, all[i]) <= MaxAllowedPacket)
  <2>1. CASE i = n + 1
    <3>1. ~(Len(<<r>>) > 1) /\ <<r>> # <<>>
      OBVIOUS
    <3>2. all[i] = <<r>>
      BY <1>3, <2>1
    <3>3. QED
      BY <3>1, <3>2
  <2>2. CASE i \in 1..n
    BY <1>3, <1>4, <2>2 DEF Packed, n
  <2>3. QED
    BY <1>1, <1>3, <2>1, <2>2
<1>6. ASSUME NEW i \in 1..(Len(all) - 1)
      PROVE  LengthIn(w, all[i]) + w[all[i + 1][1]] > MaxAllowedPacket - 1
  <2>1. CASE i = n
    <3>1. all[i] = s /\ all[i + 1][1] = r
      BY <1>1, <1>3, <2>1
    <3>2. QED
      BY <1>2, <3>1
  <2>2. CASE i \in 1..(n - 1)
    <3>1. all[i] = a[i] /\ all[i + 1] = a[i + 1]
      <4>1. i \in 1..n /\ i + 1 \in 1..n
        BY <1>1, <2>2
      <4>2. QED
        BY <1>3, <4>1
    <3>2. QED
      BY <1>4, <2>2, <3>1 DEF Packed, n
  <2>3. QED
    BY <1>1, <1>3, <2>1, <2>2
<1>7. Packed(w, all)
  BY <1>5, <1>6 DEF Packed
<1>8. QED
  BY <1>7 DEF all, a

\* A row that fits joins the last statement.
LEMMA PackedGrows ==
  ASSUME NEW w \in Seq(Nat), NEW b \in Seq(Seq(1..Len(w))), NEW s \in Seq(1..Len(w)),
         NEW r \in 1..Len(w), s # <<>>, Packed(w, Append(b, s)),
         LengthIn(w, s) + w[r] <= MaxAllowedPacket - 1
  PROVE  Packed(w, Append(b, Append(s, r)))
<1> DEFINE D == 1..Len(w)
           E == Seq(D)
           n == Len(b)
           t == Append(s, r)
           old == Append(b, s)
           all == Append(b, t)
<1>1. b \in Seq(E) /\ n \in Nat /\ s \in E /\ t \in E /\ t # <<>> /\ t[1] = s[1]
  <2>1. s \in Seq(D) /\ r \in D /\ b \in Seq(E) /\ s \in E
    OBVIOUS
  <2> HIDE DEF D, t
  <2>2. t \in E /\ t # <<>> /\ t[1] = s[1]
    <3>1. Append(s, r) \in Seq(D) /\ Append(s, r) # <<>>
      BY ONLY <2>1, AppendProperties, SMTT(30)
    <3>2. Len(s) \in Nat \ {0}
      BY ONLY <2>1, s # <<>>, EmptySeq
    <3>3. Append(s, r)[1] = s[1]
      <4>1. 1 \in 1..Len(s)
        BY <3>2
      <4>2. QED
        BY ONLY <2>1, <4>1, AppendProperties
    <3>4. QED
      BY <3>1, <3>3 DEF t
  <2> HIDE DEF E
  <2>3. QED
    BY <2>1, <2>2
<1>2. LengthIn(w, t) <= MaxAllowedPacket
  <2>1. LengthIn(w, s) \in Nat /\ w[r] \in Nat
    BY LengthType
  <2>2. LengthIn(w, t) = LengthIn(w, s) + 1 + w[r]
    BY LengthAppend
  <2> DEFINE l == LengthIn(w, s)
             x == w[r]
  <2>3. l \in Nat /\ x \in Nat /\ l + x <= MaxAllowedPacket - 1 /\ MaxAllowedPacket \in Nat
    BY <2>1, LengthsAreNat
  <2> HIDE DEF l, x
  <2>4. l + 1 + x <= MaxAllowedPacket
    BY <2>3
  <2>5. QED
    BY <2>2, <2>4 DEF l, x
<1> HIDE DEF D, E, t
<1>3. /\ Len(all) = n + 1 /\ all[n + 1] = t /\ \A i \in 1..n : all[i] = b[i]
      /\ Len(old) = n + 1 /\ old[n + 1] = s /\ \A i \in 1..n : old[i] = b[i]
  BY <1>1
<1>4. Packed(w, old)
  OBVIOUS
<1> HIDE DEF all, n, old
<1>5. ASSUME NEW i \in 1..Len(all)
      PROVE  all[i] # <<>> /\ (Len(all[i]) > 1 => LengthIn(w, all[i]) <= MaxAllowedPacket)
  <2>1. CASE i = n + 1
    BY <1>1, <1>2, <1>3, <2>1
  <2>2. CASE i \in 1..n
    <3>1. all[i] = old[i] /\ i \in 1..Len(old)
      BY <1>1, <1>3, <2>2
    <3>2. QED
      BY <1>4, <3>1 DEF Packed
  <2>3. QED
    BY <1>1, <1>3, <2>1, <2>2
<1>6. ASSUME NEW i \in 1..(Len(all) - 1)
      PROVE  LengthIn(w, all[i]) + w[all[i + 1][1]] > MaxAllowedPacket - 1
  <2>1. all[i] = old[i] /\ all[i + 1][1] = old[i + 1][1]
    <3>1. i \in 1..n
      BY <1>1, <1>3
    <3>2. all[i] = old[i]
      BY <1>3, <3>1
    <3>3. CASE i = n
      BY <1>1, <1>3, <3>3
    <3>4. CASE i # n
      <4>1. i + 1 \in 1..n
        BY <1>1, <3>1, <3>4
      <4>2. QED
        BY <1>3, <3>2, <4>1
    <3>5. QED
      BY <3>2, <3>3, <3>4
  <2>2. i \in 1..(Len(old) - 1)
    BY <1>3
  <2>3. QED
    BY <1>4, <2>1, <2>2 DEF Packed
<1>7. Packed(w, all)
  BY <1>5, <1>6 DEF Packed
<1>8. QED
  BY <1>7 DEF all, t

LEMMA StepPacking ==
  ASSUME Types, Held, Written, Stages, Untouched, Packing, [Next]_vars
  PROVE  Packing'
<1> DEFINE w == Rows(at)
           D == 1..Len(w)
           E == Seq(D)
           base == out[at] \o channel
<1>1. SUFFICES ASSUME pc' = "range", ~SkipExtendedInsert
               PROVE  Packed(w', Begun') /\ (more' /\ insert' = <<>> => Begun' = <<>>)
  BY StepKeeps DEF Packing
<1>2. CASE Stream
  <2>1. out'[at'] = <<>> /\ channel' = <<>> /\ ready' = <<>> /\ insert' = <<>>
    BY <1>2 DEF Stages, Untouched, Stream
  <2>2. Begun' = <<>>
    BY <2>1 DEF Begun, One
  <2>3. QED
    BY <2>2, PackedFirst
<1>3. CASE pc = "range" /\ at' = at
  <2>1. /\ at \in DOMAIN tables /\ w \in Seq(Nat) /\ w' = w /\ RowsOf(at) = D
        /\ insert \in Seq(D) /\ ready \in Seq(D) /\ channel \in Seq(E) /\ Len(channel) <= 1
        /\ out[at] \in Seq(E) /\ Len(w) \in Nat /\ fetched \in Nat
    BY <1>3, AtHand, StepKeeps DEF Types
  <2>2. Packed(w, Begun) /\ (more /\ insert = <<>> => Begun = <<>>)
    BY <1>1, <1>3 DEF Packing
  <2>3. base \in Seq(E) /\ base \o <<>> = base
    <3> HIDE DEF E
    <3>1. base \in Seq(E)
      BY <2>1, ConcatProperties
    <3> HIDE DEF base
    <3>2. QED
      BY <3>1, ConcatEmptySeq
  <2>4. CASE Write
    <3>1. out'[at] = Append(out[at], Head(channel))
      BY <2>1, <2>4 DEF Write, Written
    <3>2. out'[at] \o channel' = base
      <4>1. channel # <<>> /\ channel' = Tail(channel)
        BY <2>4 DEF Write
      <4> HIDE DEF E
      <4>2. Append(out[at], Head(channel)) \o Tail(channel) = base
        BY <2>1, <4>1, WriteMoves
      <4>3. QED
        BY <3>1, <4>1, <4>2
    <3>3. Begun' = Begun /\ more' = more /\ insert' = insert
      BY <1>3, <2>4, <3>2 DEF Begun, Write, goroutine
    <3>4. QED
      BY <2>1, <2>2, <3>3
  <2>5. CASE Row
    <3> DEFINE r == fetched + 1
    <3>1. Pack(r) /\ base' = base /\ ready = <<>> /\ more
      BY <1>3, <2>5 DEF Row, Stages
    <3>2. r \in D
      BY <2>1, <2>5 DEF Row
    <3> HIDE DEF r
    <3>3. Begun = base \o One(insert) /\ Begun' = (base \o One(ready')) \o One(insert')
      BY <2>3, <3>1 DEF Begun, One
    <3>4. CASE Starts(r) /\ ~Fits(r)
      <4>1. Begun = Append(base, insert) /\ insert \in E
        <5>1. Begun = base \o <<insert>> /\ insert \in E
          BY <2>1, <3>3, <3>4 DEF Starts, One
        <5> HIDE DEF E, base
        <5>2. QED
          BY <2>3, <5>1, AppendIsConcat
      <4>2. Begun' = Append(Append(base, insert), <<r>>)
        <5>1. Begun' = (base \o <<insert>>) \o <<<<r>>>> /\ <<r>> \in E
          BY <3>2, <3>3, <3>4 DEF Starts, One
        <5> DEFINE s == <<r>>
        <5>2. Append(base, insert) = base \o <<insert>> /\ Append(base, insert) \in Seq(E)
          <6> HIDE DEF E, base
          <6>1. QED
            BY <2>3, <4>1, AppendIsConcat, AppendProperties
        <5> DEFINE a == Append(base, insert)
        <5>3. a \in Seq(E) /\ s \in E
          BY <5>1, <5>2
        <5> HIDE DEF a, s, E
        <5>4. Append(a, s) = a \o <<s>>
          BY <5>3, AppendIsConcat
        <5>5. QED
          BY <5>1, <5>2, <5>4 DEF a, s
      <4>3. ~(LengthIn(w, insert) + w[r] <= MaxAllowedPacket - 1)
        BY <3>4 DEF Fits, LenOf, LengthIn
      <4>4. Packed(w, Append(Append(base, insert), <<r>>))
        <5>1. Packed(w, Append(base, insert))
          BY <2>2, <4>1
        <5> HIDE DEF base, w
        <5>2. QED
          BY <2>1, <2>3, <3>2, <4>3, <5>1, PackedNext
      <4>5. insert' # <<>>
        BY <3>4 DEF Starts
      <4>6. QED
        BY <2>1, <4>2, <4>4, <4>5
    <3>5. CASE Joins(r) /\ insert = <<>>
      <4>1. base = <<>>
        BY <2>2, <2>3, <3>1, <3>3, <3>5 DEF One
      <4>2. insert' = <<r>> /\ ready' = <<>>
        BY <3>1, <3>5 DEF Joins
      <4>3. Begun' = <<<<r>>>>
        <5>1. Begun' = (<<>> \o <<>>) \o <<<<r>>>>
          BY <3>3, <4>1, <4>2 DEF One
        <5> DEFINE s == <<r>>
        <5> HIDE DEF s
        <5>2. (<<>> \o <<>>) \o <<s>> = <<s>>
          OBVIOUS
        <5>3. QED
          BY <5>1, <5>2 DEF s
      <4>4. insert' # <<>>
        BY <4>2
      <4>5. QED
        BY <2>1, <4>3, <4>4, PackedFirst
    <3>6. CASE Joins(r) /\ insert # <<>> /\ Fits(r)
      <4>1. Begun = Append(base, insert) /\ insert \in E
        <5>1. Begun = base \o <<insert>> /\ insert \in E
          BY <2>1, <3>3, <3>6 DEF One
        <5> HIDE DEF E, base
        <5>2. QED
          BY <2>3, <5>1, AppendIsConcat
      <4>2. insert' = Append(insert, r) /\ insert' # <<>> /\ ready' = <<>> /\ insert' \in E
        <5>1. insert' = Append(insert, r) /\ ready' = <<>>
          BY <3>1, <3>6 DEF Joins
        <5>2. insert \in Seq(D)
          BY <2>1
        <5> HIDE DEF D
        <5>3. Append(insert, r) \in Seq(D) /\ Append(insert, r) # <<>>
          BY ONLY <3>2, <5>2, AppendProperties
        <5>4. QED
          BY <5>1, <5>3
      <4>3. Begun' = Append(base, insert')
        <5>1. Begun' = (base \o <<>>) \o <<insert'>>
          BY <3>3, <4>2 DEF One
        <5> DEFINE s == insert'
        <5> HIDE DEF E, base, s
        <5>2. s \in E
          BY <4>2 DEF s
        <5>3. Append(base, s) = base \o <<s>>
          BY <2>3, <5>2, AppendIsConcat
        <5>4. QED
          BY <2>3, <5>1, <5>3 DEF s
      <4>4. LengthIn(w, insert) + w[r] <= MaxAllowedPacket - 1
        BY <3>6 DEF Fits, LenOf, LengthIn
      <4>5. Packed(w, Append(base, Append(insert, r)))
        <5>1. Packed(w, Append(base, insert))
          BY <2>2, <4>1
        <5> HIDE DEF base, w
        <5>2. QED
          BY <2>1, <2>3, <3>2, <3>6, <4>4, <5>1, PackedGrows
      <4>6. QED
        BY <2>1, <4>2, <4>3, <4>5
    <3>7. QED
      BY <1>1, <3>1, <3>4, <3>5, <3>6, PackDoes
  <2>6. CASE RowsEnd
    <3>1. /\ ready = <<>> /\ ready' = insert /\ insert' = <<>> /\ base' = base /\ ~more'
      BY <1>3, <2>6 DEF RowsEnd, Stages
    <3>2. One(insert) \in Seq(E)
      <4>1. insert \in E
        BY <2>1
      <4> HIDE DEF E
      <4>2. <<insert>> \in Seq(E) /\ <<>> \in Seq(E)
        BY <4>1
      <4>3. QED
        BY <4>2 DEF One
    <3>3. (base \o One(insert)) \o <<>> = (base \o <<>>) \o One(insert)
      <4> HIDE DEF E, base
      <4>1. QED
        BY <2>3, <3>2, EmptyMoves
    <3>4. Begun' = Begun
      BY <3>1, <3>3 DEF Begun, One
    <3>5. QED
      BY <2>1, <2>2, <3>1, <3>4
  <2>7. CASE Send
    <3>1. /\ channel = <<>> /\ channel' = <<ready>> /\ ready # <<>> /\ ready' = <<>>
          /\ insert' = insert /\ out' = out /\ more' = more
      BY <2>7 DEF Send, Stages
    <3>2. <<ready>> \in Seq(E)
      BY <2>1
    <3>3. (out[at] \o <<ready>>) \o <<>> = (out[at] \o <<>>) \o <<ready>>
      <4> HIDE DEF E
      <4>1. QED
        BY <2>1, <3>2, EmptyMoves
    <3>4. Begun' = Begun
      BY <1>3, <3>1, <3>3 DEF Begun, One
    <3>5. QED
      BY <2>1, <2>2, <3>1, <3>4
  <2>8. CASE UNCHANGED <<more, insert, ready, channel, out>>
    <3>1. Begun' = Begun
      BY <1>3, <2>8 DEF Begun
    <3>2. QED
      BY <2>1, <2>2, <2>8, <3>1
  <2>9. QED
    BY <1>1, <1>3, <2>4, <2>5, <2>6, <2>7, <2>8
       DEF Next, vars, Dumper, Producer, InitColumns, Stream, RangeEnds, Fails, Rollback,
           ReadRoutines,
           Panic, Stopped, goroutine
<1>4. (pc = "range" /\ at' = at) \/ Stream
  BY <1>1
     DEF Next, vars, Dumper, Producer, InitColumns, Write, RangeEnds, Fails, Rollback, ReadRoutines,
         Row, RowsEnd, Panic, Send, Stopped
<1>5. QED
  BY <1>2, <1>3, <1>4

---------------------------------------------------------------------------
(* The theorems. *)

LEMMA InitInv == Init => Inv
<1> SUFFICES ASSUME Init PROVE Inv
  OBVIOUS
<1>1. RowsLeft /\ EarlierDone /\ EndIsKnown /\ RowsConserved /\ Packing
  <2>1. at = 1 /\ pc = "init" /\ cursor = "none"
    BY DEF Init
  <2>2. QED
    BY <2>1 DEF RowsLeft, EarlierDone, EndIsKnown, RowsConserved, Packing
<1>2. QED
  BY <1>1, InitTypes DEF Inv

LEMMA StepInv == Inv /\ [Next]_vars => Inv'
<1> SUFFICES ASSUME Inv, [Next]_vars PROVE Inv'
  OBVIOUS
<1>1. /\ Types /\ Held /\ Written /\ Stages /\ Untouched /\ RowsLeft /\ EarlierDone
      /\ EndIsKnown /\ RowsConserved /\ Packing
  BY DEF Inv
<1>2. Types' /\ Held' /\ Written' /\ Stages' /\ Untouched'
  BY <1>1, StepTypes, StepHeld, StepWritten, StepStages, StepUntouched
<1>3. RowsLeft' /\ EarlierDone' /\ EndIsKnown'
  BY <1>1, StepRowsLeft, StepEarlier, StepEnds
<1>4. RowsConserved' /\ Packing'
  BY <1>1, StepConserved, StepPacking
<1>5. QED
  BY <1>2, <1>3, <1>4 DEF Inv

\* The invariant holds in every state of every behaviour.
THEOREM Invariance == Spec => []Inv
<1>1. QED
  BY InitInv, StepInv, PTL DEF Spec

\* Each variable has a value of its type (table.go, dump.go).
THEOREM TypeCorrect == Spec => []TypeOK
<1>1. Inv => TypeOK
  <2> SUFFICES ASSUME Inv PROVE TypeOK
    OBVIOUS
  <2>1. Len(channel) <= 1
    BY DEF Inv, Held
  <2>2. ~more => producer \in {"send", "closed"}
    BY DEF Inv, Types, Stages
  <2>3. QED
    BY <2>1, <2>2 DEF Inv, Types, TypeOK
<1>2. QED
  BY <1>1, Invariance, PTL

\* Whatever the tables, their rows, the packets and the faults: no row that has been scanned
\* gets lost, doubled or out of turn on its way to the output (table.go:307-350).
THEOREM RowsAreConserved == Spec => []RowsConserved
<1>1. Inv => RowsConserved
  BY DEF Inv
<1>2. QED
  BY <1>1, Invariance, PTL

\* When Data.Dump sends a query, the goroutine of the table before is done with the transaction,
\* and no rows of it are open but those that did not scan (dump.go:212-226, table.go:187-198,
\* 307-310).
THEOREM TxHasOneUser == Spec => []OneUserOfTx
<1>1. Inv => OneUserOfTx
  BY DEF Inv, Types, Stages, RowsLeft, OneUserOfTx
<1>2. QED
  BY <1>1, Invariance, PTL

\* With routines to be dumped after the tables, what a dump that answers nil lacks went with an
\* error of the rows that nobody asks for (table.go:180-199, dump.go:212-263).
THEOREM OkLosesToTheUnasked ==
  ASSUME Routines
  PROVE  Spec => []OkLosesOnlyUnasked
<1>1. Inv => OkLosesOnlyUnasked
  <2> SUFFICES ASSUME Inv, pc = "ok", NEW t \in DOMAIN tables
               PROVE  Complete(t) \/ Unasked(t)
    BY DEF OkLosesOnlyUnasked
  <2>1. at = Len(tables) + 1 /\ DOMAIN tables = 1..Len(tables) /\ Len(tables) \in Nat
    BY TablesTyped DEF Inv, Stages
  <2>2. t \in 1..(at - 1)
    BY <2>1
  <2>3. QED
    BY <2>2 DEF Inv, EarlierDone, Overlooked, ToBeFound
<1>2. QED
  BY <1>1, Invariance, PTL

\* Without them there is one more: the last table, when the connection is lost in the middle of
\* its rows or one of them does not scan, for then no query follows that would fail
\* (dump.go:212-263).
OkLosesLastToo ==
  pc = "ok" =>
    \A t \in DOMAIN tables :
      \/ Complete(t) \/ Unasked(t)
      \/ ~Routines /\ t = Len(tables) /\ (link = "lost" \/ t \in tableErr)

\* What a dump that answers nil lacks otherwise is in its last table.
THEOREM OkLosesAtMost == Spec => []OkLosesLastToo
<1>1. Inv => OkLosesLastToo
  <2> SUFFICES ASSUME Inv, pc = "ok", NEW t \in DOMAIN tables
               PROVE  \/ Complete(t) \/ Unasked(t)
                      \/ ~Routines /\ t = Len(tables) /\ (link = "lost" \/ t \in tableErr)
    BY DEF OkLosesLastToo
  <2>1. at = Len(tables) + 1 /\ DOMAIN tables = 1..Len(tables) /\ Len(tables) \in Nat
    BY TablesTyped DEF Inv, Stages
  <2>2. t \in 1..(at - 1) /\ at - 1 = Len(tables)
    BY <2>1
  <2>3. Complete(t) \/ Overlooked(t)
    BY <2>2 DEF Inv, EarlierDone
  <2>4. QED
    BY <2>2, <2>3 DEF Overlooked, ToBeFound
<1>2. QED
  BY <1>1, Invariance, PTL

\* Statements are packed full, and none of several rows is longer than a packet without its ";"
\* (table.go:328-333).
THEOREM StatementsPackedFull == Spec => []PackedFull
<1>1. Inv => PackedFull
  <2> SUFFICES ASSUME Inv, pc = "range", ~SkipExtendedInsert PROVE PackedFull
    BY DEF PackedFull
  <2> DEFINE w == Rows(at)
             E == Seq(1..Len(w))
             base == out[at] \o channel
             rest == One(ready) \o One(insert)
  <2>1. /\ out[at] \in Seq(E) /\ channel \in Seq(E) /\ ready \in E /\ insert \in E
    BY AtHand DEF Inv
  <2>2. Packed(w, Begun)
    BY DEF Inv, Packing
  <2>3. \A s : LenOf(s) = LengthIn(w, s)
    BY DEF LenOf, LengthIn
  <2> HIDE DEF E
  <2>4. base \in Seq(E) /\ One(ready) \in Seq(E) /\ One(insert) \in Seq(E) /\ rest \in Seq(E)
    <3>1. base \in Seq(E)
      BY <2>1, ConcatProperties
    <3>2. <<>> \in Seq(E) /\ <<ready>> \in Seq(E) /\ <<insert>> \in Seq(E)
      BY <2>1
    <3>3. One(ready) \in Seq(E) /\ One(insert) \in Seq(E)
      BY <3>2 DEF One
    <3>4. QED
      BY <3>1, <3>3, ConcatProperties
  <2>5. Begun = base \o rest
    <3> HIDE DEF base
    <3>1. (base \o One(ready)) \o One(insert) = base \o (One(ready) \o One(insert))
      BY <2>4, ConcatAssociative
    <3>2. QED
      BY <3>1 DEF Begun, base
  <2>6. /\ Len(base) \in Nat /\ Len(rest) \in Nat /\ Len(Begun) = Len(base) + Len(rest)
        /\ \A i \in 1..Len(base) : Begun[i] = base[i]
    <3> HIDE DEF base, rest
    <3>1. QED
      BY <2>4, <2>5, ConcatProperties
  <2> HIDE DEF base, rest, w
  <2>7. ASSUME NEW i \in 1..Len(base), Len(base[i]) > 1
        PROVE  LengthIn(w, base[i]) <= MaxAllowedPacket
    <3>1. i \in 1..Len(Begun) /\ Begun[i] = base[i]
      BY <2>6
    <3>2. QED
      BY <2>2, <2>7, <3>1 DEF Packed
  <2>8. ASSUME NEW i \in 1..(Len(base) - 1)
        PROVE  LengthIn(w, base[i]) + w[base[i + 1][1]] > MaxAllowedPacket - 1
    <3>1. i \in 1..(Len(Begun) - 1) /\ i \in 1..Len(base) /\ i + 1 \in 1..Len(base)
      BY <2>6
    <3>2. Begun[i] = base[i] /\ Begun[i + 1] = base[i + 1]
      BY <2>6, <3>1
    <3>3. QED
      BY <2>2, <3>1, <3>2 DEF Packed
  <2>9. QED
    BY <2>3, <2>7, <2>8 DEF PackedFull, base, w
<1>2. QED
  BY <1>1, Invariance, PTL
============================================================================
