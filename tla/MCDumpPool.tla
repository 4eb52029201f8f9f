----------------------------- MODULE MCDumpPool -----------------------------
(* Instances of DumpPool for TLC. *)
EXTENDS DumpPool

CONSTANTS a, b, c

\* What core.Dump builds: one writer for each schema.
OneSchemaEach == <<<<a>>, <<b>>, <<c>>>>

\* What the signature of Dump also allows: a writer with two schemas.
TwoInOne == <<<<a, b>>, <<c>>>>

\* The first run of the process: the pool is empty.
EmptyPool == {<<>>}

\* A later run: up to one connection for each slot, with any schema still selected.
UsedPool == {s \in UNION {[1..n -> Selectable] : n \in 0..MaxIdle} : Len(s) <= Slots}
============================================================================
