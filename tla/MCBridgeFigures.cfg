SPECIFICATION LedgerSpec
CHECK_DEADLOCK FALSE
CONSTANTS
  Scopes <- MCScopes
  Today = 10
INVARIANTS
  WorkAgrees
  FiguresAgree
PROPERTIES
  DecisionsStay
  InboxMoves
