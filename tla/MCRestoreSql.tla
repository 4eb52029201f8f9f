---------------------------- MODULE MCRestoreSql ----------------------------
(* Instances of RestoreSql for TLC. *)
EXTENDS RestoreSql

CONSTANTS foo, bar, baz, t1, t2, t3, v1, v2, r1, r2, g1

TableOf(name, inserts, triggers) == [name |-> name, inserts |-> inserts, triggers |-> triggers]
After == <<[name |-> g1, timing |-> "AFTER"]>>
Before == <<[name |-> g1, timing |-> "BEFORE"]>>

\* The schemas: one with everything in it, one with nothing but a table, one with two views.
Foo(inserts, triggers) ==
  [db |-> foo, tables |-> <<TableOf(t1, inserts, triggers), TableOf(t2, 0, <<>>)>>,
   views |-> <<v1>>, routines |-> <<r1>>]
Baz ==
  [db |-> baz, tables |-> <<TableOf(t3, 1, <<>>)>>, views |-> <<v2>>, routines |-> <<r2>>]
Plain == [db |-> baz, tables |-> <<TableOf(t3, 2, <<>>)>>, views |-> <<>>, routines |-> <<>>]

Opts(compact, suppressUse) ==
  [compact |-> compact, suppressUse |-> suppressUse, triggers |-> TRUE, routines |-> TRUE]

\* Any mixture of the options of a dump; routines and triggers are there or not.
AnyOpts(compacts, suppressed) ==
  [compact : compacts, suppressUse : suppressed, triggers : BOOLEAN, routines : BOOLEAN]

\* Two files of one backup are dumped with the same options.
TwoFiles(first, second, optss) ==
  {<<[schema |-> first, opts |-> o], [schema |-> second, opts |-> o]>> : o \in optss}

FullBackups == TwoFiles(Foo(2, After), Baz, AnyOpts({FALSE}, BOOLEAN))
                 \cup TwoFiles(Baz, Plain, AnyOpts({FALSE}, BOOLEAN))
CompactBackups == TwoFiles(Foo(1, After), Baz, AnyOpts({TRUE}, {FALSE}))
                    \cup TwoFiles(Baz, Foo(0, After), AnyOpts({TRUE}, {FALSE}))
OneFull == {<<[schema |-> Foo(1, After), opts |-> Opts(FALSE, FALSE)]>>}
OneCompact == {<<[schema |-> Foo(2, After), opts |-> Opts(TRUE, FALSE)]>>}
WithBefore == {<<[schema |-> Foo(1, Before), opts |-> Opts(FALSE, FALSE)]>>}

NoMap == [db \in {} |-> db]
FooToBar == [db \in {foo} |-> bar]

Given(backups, map, existing) ==
  [files : backups, map : {map}, existing : {existing}]

\* Full dumps restored where they come from, and compact ones into another schema.
AsIsOrMapped == Given(FullBackups, NoMap, {baz}) \cup Given(CompactBackups, FooToBar, {foo})

\* A full dump restored into another schema, which exists or does not; a table with several
\* INSERTs in a compact dump; a trigger that is to come before.
Documented ==
  Given(OneFull, FooToBar, {bar, baz}) \cup Given(OneFull, FooToBar, {})
    \cup Given(OneCompact, NoMap, {baz}) \cup Given(WithBefore, NoMap, {baz})
============================================================================
