SPECIFICATION RehearsalSpec
CONSTANTS
  Operators = {o1, o2}
  Nobody = Nobody
  NoFile = NoFile
  Crashes = 1
  Passes = 2
  Worlds <- MCWorlds
  Mapping <- MCMapping
  Usual <- MCUsual
\* A world without PostgreSQL files comes to an end with the last pass.
CHECK_DEADLOCK FALSE
INVARIANTS
  TablesSound
  ReceiptsAttest
  RehearsalTold
PROPERTIES
  ReceiptRepaired
