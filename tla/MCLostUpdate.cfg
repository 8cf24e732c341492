SPECIFICATION Spec
CONSTANTS
  claim = claim
  deal = deal
  old = old
  apply = apply
  bill = bill
  sale = sale
  vendor = vendor
  legacy = legacy
  ad = ad
  fund = fund
  move = move
  k1 = k1
  k2 = k2
  k3 = k3
  k4 = k4
  k5 = k5
  k6 = k6
  k7 = k7
  ann = ann
  bob = bob
  v1 = v1
  v2 = v2
  Aggregates = {claim, bill, sale, vendor, legacy, ad, fund, move, deal, apply, old}
  FamilyOf <- RecordFamilyOf
  ContractOf <- RecordContractOf
  Amount <- RecordAmount
  SourceAmount <- RecordSourceAmount
  SourceApplied <- RecordSourceApplied
  Keys = {k1, k2, k3, k4, k5, k6, k7}
  Actors = {ann, bob}
  Values = {v1, v2}
  Favourable = {v1}
  Imported = {legacy, old}
  Requests = {r1, r2, r3}
  Workload <- ClaimWorkload
  KeyPerCommand = TRUE
SYMMETRY Symmetry
INVARIANTS AcceptedWritesRevision
CHECK_DEADLOCK FALSE
