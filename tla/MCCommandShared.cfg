SPECIFICATION FairSpec
CONSTANTS
  claim = claim
  deal = deal
  old = old
  apply = apply
  bill = bill
  sale = sale
  vendor = vendor
  legacy = legacy
  ad = ad
  fund = fund
  move = move
  k1 = k1
  k2 = k2
  k3 = k3
  k4 = k4
  k5 = k5
  k6 = k6
  k7 = k7
  ann = ann
  bob = bob
  v1 = v1
  v2 = v2
  Aggregates = {deal, old, apply}
  FamilyOf <- SharedFamilyOf
  ContractOf <- SharedContractOf
  Amount <- SharedAmount
  SourceAmount <- SharedSourceAmount
  SourceApplied <- SharedSourceApplied
  Keys = {k1, k2}
  Actors = {ann, bob}
  Values = {v1, v2}
  Favourable = {v1}
  Imported = {old}
  Requests = {r1, r2, r3}
  Workload <- SharedWorkload
  KeyPerCommand = FALSE
CHECK_DEADLOCK FALSE
INVARIANTS
  ApplicationsQuoted
PROPERTIES
  ImplementsRegister
  EveryRequestAnswered
