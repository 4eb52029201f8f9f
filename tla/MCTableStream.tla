--------------------------- MODULE MCTableStream ---------------------------
(* Instances of TableStream for TLC. *)
EXTENDS TableStream

Plain == {"", "auto_increment"}
Table(extras, rows) == [extras |-> extras, raw |-> FALSE, rows |-> rows]
RawTable(rows) == [extras |-> Plain, raw |-> TRUE, rows |-> rows]

\* Rows of 1, 2 or 5 bytes, in tables of at most n rows.
RowsUpTo(n) == UNION {[1..k -> {1, 2, 5}] : k \in 0..n}

\* Two tables: with a HeadLen of 2 and packets of 8 bytes, rows are packed together, fill a
\* packet to the byte, and do not fit alone.
TwoTables ==
  {<<Table(Plain \cup {"VIRTUAL GENERATED"}, r), Table(Plain, s)>> : r \in RowsUpTo(4), s \in RowsUpTo(1)}
FewRows == {<<Table(Plain, r), Table(Plain, s)>> : r \in RowsUpTo(2), s \in RowsUpTo(1)}

\* Rows that a Scan holds, in a table before another one and in the last one.
RawRows ==
  {<<RawTable(r), Table(Plain, <<1>>)>> : r \in RowsUpTo(3)}
    \cup {<<Table(Plain, <<1>>), RawTable(r)>> : r \in RowsUpTo(3)}

\* A table with a column whose default is an expression, and one with nothing but a computed
\* column, with another after it.
WithDefault == {<<Table({"", "DEFAULT_GENERATED"}, r)>> : r \in RowsUpTo(2)}
AllComputed == {<<Table({"VIRTUAL GENERATED"}, <<1>>), Table(Plain, r)>> : r \in RowsUpTo(2)}

Dumped(tabless, skips) == [tables : tabless, skip : skips]

\* Packed or not, with every kind of table.
AllKinds == Dumped(TwoTables \cup WithDefault \cup AllComputed, {FALSE})
              \cup Dumped(FewRows, {TRUE}) \cup Dumped(RawRows, BOOLEAN)
RawFew == Dumped(RawRows, {FALSE})
Unusual == Dumped(TwoTables \cup WithDefault \cup AllComputed, {FALSE})
=============================================================================
