SPECIFICATION Spec
CONSTANTS
  Records <- MCRecords
  IdOf <- MCIdOf
  SourceOf <- MCSourceOf
  SchemaOf <- MCSchemaOf
  Batches <- MCBatches
  Schemas = {1, 2}
  MaxFaults = 3
CHECK_DEADLOCK FALSE
INVARIANTS
  NoSilentLoss
  CommitPoint
  DataSurvives
