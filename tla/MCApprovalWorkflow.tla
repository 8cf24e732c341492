-------------------------- MODULE MCApprovalWorkflow --------------------------
(***************************************************************************)
(* Instances of ApprovalWorkflow for TLC: a first step open to anyone with *)
(* the capability and a second one with assignees, Int wrapping at 4, and  *)
(* a directory with two separated roles and one that bundles them.         *)
(***************************************************************************)
EXTENDS ApprovalWorkflow, TLC

Perm(c, m) == [capability |-> c, scope |-> "deal", max |-> m]
Preparer == [id |-> "preparer", permissions |-> {Perm("prepare", 2)}]
Approver == [id |-> "approver", permissions |-> {Perm("approve", 1)}]
Manager ==
  [id |-> "manager", permissions |-> {Perm("prepare", 1), Perm("approve", 2)}]
MCRoles == {Preparer, Approver, Manager}

MCRules ==
  {[id |-> "sod", first |-> "prepare", second |-> "approve", scope |-> "deal"]}
MCDelegations ==
  {[id |-> "d", delegator |-> "alice", delegate |-> "bob", capability |-> "approve",
    scope |-> "deal", max |-> 1, from |-> 1, until |-> 2]}

Admin(c, scope) ==
  [actor |-> "admin", capability |-> c, scope |-> scope, max |-> 1]
MCAdminGrants ==
  {Admin("rbac:role:create", r.id) : r \in {Preparer, Approver, Manager}} \cup
  {Admin(c, "deal") : c \in
     {"rbac:assignment:create", "rbac:assignment:revoke", "rbac:sod:rule:create",
      "rbac:delegation:create", "rbac:delegation:revoke", "workflow:start"}}

MCSteps ==
  <<[capability |-> "prepare", required |-> 3], [capability |-> "approve", required |-> 2]>>
MCAssignees ==
  {[step |-> 2, actor |-> "alice", weight |-> 2],
   [step |-> 2, actor |-> "bob", weight |-> 1]}

=============================================================================
