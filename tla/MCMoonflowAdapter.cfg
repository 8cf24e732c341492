SPECIFICATION Spec
CONSTANTS
  p1 = p1
  p2 = p2
  p3 = p3
  Runs <- MCRuns
  Flows <- MCFlows
  Ops = {"execute", "reconcile"}
  Inputs <- MCInputs
  EvidenceOf <- MCEvidenceOf
  MaxStops = 1
  MaxEdits = 1
SYMMETRY MCSymmetry
CHECK_DEADLOCK FALSE
INVARIANTS
  OneResultPerKey
  TrailComplete
  SomeoneDelivers
