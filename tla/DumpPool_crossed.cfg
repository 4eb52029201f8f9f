SPECIFICATION Spec
CONSTANTS
  a = a
  b = b
  c = c
  Schemas = {a, b, c}
  NumWriters = 3
  SchemasOf <- OneSchemaEach
  Parallelism = 2
  MaxIdle = 2
  IdleAtStart <- EmptyPool
  NoSchema = NoSchema
  NoConn = NoConn
INVARIANT
  RightSchema
