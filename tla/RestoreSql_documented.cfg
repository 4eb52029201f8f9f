SPECIFICATION Spec
CONSTANTS
  foo = foo
  bar = bar
  baz = baz
  t1 = t1
  t2 = t2
  t3 = t3
  v1 = v1
  v2 = v2
  r1 = r1
  r2 = r2
  g1 = g1
  NoSchema = NoSchema
  MultiStatements = FALSE
  Restores <- Documented
INVARIANTS LandsInTarget OnlyFaultsFail OneStatementAtOnce TriggersAsDeclared
