SPECIFICATION FairSpec
CONSTANTS
  a = a
  b = b
  c = c
  Schemas = {a, b, c}
  NumWriters = 3
  SchemasOf <- OneSchemaEach
  Parallelism = 2
  MaxIdle = 2
  IdleAtStart <- UsedPool
  NoSchema = NoSchema
  NoConn = NoConn
INVARIANTS
  ConnectionsBounded
  ClosedMeansQuiet
  ResultTruth
PROPERTIES
  Termination
  ImplementsDumpJob
