SPECIFICATION Spec
CHECK_DEADLOCK FALSE
CONSTANTS
  Opening = 2
  Allocated = 3
  Movements <- MCMovements
  Statements <- MCStatements
  Scopes <- MCScopes
INVARIANTS
  BudgetHolds
  BooksBacked
  BalanceExplained
  StatementsBacked
