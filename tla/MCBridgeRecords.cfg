SPECIFICATION LedgerSpec
CHECK_DEADLOCK FALSE
CONSTANTS
  Scopes <- MCScopes
  Within <- MCWithin
  Today = 5
INVARIANTS
  SpendingAgrees
  SuppliersAgree
PROPERTIES
  BarredStaysBarred
