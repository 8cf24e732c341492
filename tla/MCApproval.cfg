SPECIFICATION Spec
CONSTANTS
  Actors = {"alice", "bob"}
  Roles <- MCRoles
  AssignmentIds = {1, 2}
  Scopes = {"deal"}
  Amounts = {1}
  Rules <- MCRules
  Delegations <- MCDelegations
  Epochs = {1, 2}
  AdminGrants <- MCAdminGrants
  Steps <- MCSteps
  Assignees <- MCAssignees
  Subject = "deal"
  Weights = {0, 1, 2, 3}
  IntLimit = 4
CHECK_DEADLOCK FALSE
INVARIANTS
  GrantsNeverWiden
  DecisionsSound
  FourEyes
