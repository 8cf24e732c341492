------------------------ MODULE ApprovalWorkflowProofs ------------------------
(***************************************************************************)
(* Proofs about the authority directory, for any actors, roles, rules,     *)
(* delegations and amounts: its type, the separation of duties, and that   *)
(* no grant is wider than what somebody granted; and about approvals under *)
(* it, for any steps, while the directory keeps changing: one person does  *)
(* not decide both sides of a separated pair of steps, and a step is       *)
(* passed with its full weight, unopposed, by actors who spoke once.  The  *)
(* first argument follows a decision to its grant (ActionsGranted), the    *)
(* grant to the assignment it was issued from (Provenance), and two        *)
(* assignments to the rule that keeps them apart (SeparationHolds); the    *)
(* second needs that weights are whole, so that wrapping only ever makes   *)
(* a sum smaller (WrapBounds).                                             *)
(***************************************************************************)
EXTENDS ApprovalWorkflow, FiniteSetTheorems, TLAPS

AssignmentType ==
  [id : AssignmentIds, role : Roles, actor : Actors, scope : Scopes,
   max : Amounts, active : BOOLEAN]
DelegationType == [of : Delegations, active : BOOLEAN]

-----------------------------------------------------------------------------
(***************************************************************************)
(* The directory as a typed state machine.                                 *)
(***************************************************************************)

\* A set whose elements have distinct ids keeps that when an element with a
\* new id joins it, or when one is replaced by another with its id.
LEMMA IdsOnceGrows ==
  ASSUME NEW S, NEW x, IdsOnce(S), \A y \in S : y.id # x.id
  PROVE  IdsOnce(S \cup {x})
BY DEF IdsOnce

LEMMA IdsOnceReplaced ==
  ASSUME NEW S, NEW x, NEW y, x \in S, IdsOnce(S), y.id = x.id
  PROVE  IdsOnce((S \ {x}) \cup {y})
BY DEF IdsOnce

\* Every operation leaves a well-formed directory: registries are append-only
\* or flip a flag, and no identifier is used twice.
LEMMA DirTypeStep == DirTypeOK /\ [DirNext]_dirVars => DirTypeOK'
<1> SUFFICES ASSUME DirTypeOK, [DirNext]_dirVars PROVE DirTypeOK'
  OBVIOUS
<1> USE DEF DirTypeOK
<1>1. ASSUME NEW role \in Roles, AddRole(role) PROVE DirTypeOK'
  <2>1. IdsOnce(roles')
    BY <1>1, IdsOnceGrows DEF AddRole
  <2> QED BY <1>1, <2>1 DEF AddRole
<1>2. ASSUME NEW id \in AssignmentIds, NEW role \in Roles, NEW actor \in Actors,
             NEW scope \in Scopes, NEW max \in Amounts,
             AssignRole(id, role, actor, scope, max)
      PROVE DirTypeOK'
  <2> DEFINE new == [id |-> id, role |-> role, actor |-> actor, scope |-> scope,
                     max |-> max, active |-> TRUE]
  <2>1. assignments' = assignments \cup {new} /\ \A a \in assignments : a.id # new.id
    BY <1>2 DEF AssignRole
  <2>2. new \in AssignmentType /\ new.role = role /\ role \in roles
    BY <1>2 DEF AssignmentType, AssignRole
  <2> HIDE DEF new
  <2>3. IdsOnce(assignments')
    BY <2>1, IdsOnceGrows
  <2> QED BY <1>2, <2>1, <2>2, <2>3 DEF AssignRole, AssignmentType
<1>3. ASSUME NEW a \in assignments, RevokeRole(a) PROVE DirTypeOK'
  <2> DEFINE old == [a EXCEPT !.active = FALSE]
  <2>1. assignments' = (assignments \ {a}) \cup {old}
    BY <1>3 DEF RevokeRole
  <2>2. old \in AssignmentType /\ old.id = a.id /\ old.role = a.role
    BY DEF AssignmentType
  <2> HIDE DEF old
  <2>3. IdsOnce(assignments')
    BY <2>1, <2>2, IdsOnceReplaced
  <2>4. assignments' \subseteq AssignmentType /\ \A x \in assignments' : x.role \in roles
    BY <2>1, <2>2 DEF AssignmentType
  <2> QED BY <1>3, <2>3, <2>4 DEF RevokeRole, AssignmentType
<1>4. ASSUME NEW a \in assignments, NEW c, NEW m, IssueGrant(a, c, m) PROVE DirTypeOK'
  BY <1>4 DEF IssueGrant
<1>5. ASSUME NEW rule \in Rules, AddRule(rule) PROVE DirTypeOK'
  <2>1. IdsOnce(rules')
    BY <1>5, IdsOnceGrows DEF AddRule
  <2>2. rules' \subseteq Rules
    BY <1>5 DEF AddRule
  <2>3. UNCHANGED <<roles, assignments, delegations>>
    BY <1>5 DEF AddRule
  <2> QED BY <2>1, <2>2, <2>3
<1>6. ASSUME NEW d \in Delegations, AddDelegation(d) PROVE DirTypeOK'
  <2> DEFINE new == [of |-> d, active |-> TRUE]
  <2>1. delegations' = delegations \cup {new} /\ \A e \in delegations : e.of.id # d.id
    BY <1>6 DEF AddDelegation
  <2>2. new \in DelegationType /\ new.of = d
    BY DEF DelegationType
  <2> HIDE DEF new
  <2>4. \A e, f \in delegations' : e.of.id = f.of.id => e = f
    BY <2>1, <2>2
  <2>5. delegations' \subseteq DelegationType
    BY <2>1, <2>2 DEF DelegationType
  <2>3. UNCHANGED <<roles, assignments, rules>>
    BY <1>6 DEF AddDelegation
  <2> QED BY <2>3, <2>4, <2>5 DEF DelegationType
<1>7. ASSUME NEW e \in delegations, RevokeDelegation(e) PROVE DirTypeOK'
  <2> DEFINE old == [e EXCEPT !.active = FALSE]
  <2>1. delegations' = (delegations \ {e}) \cup {old}
    BY <1>7 DEF RevokeDelegation
  <2>2. old \in DelegationType /\ old.of = e.of
    BY DEF DelegationType
  <2> HIDE DEF old
  <2>4. delegations' \subseteq DelegationType
    BY <2>1, <2>2 DEF DelegationType
  <2>5. UNCHANGED <<roles, assignments, rules>>
    BY <1>7 DEF RevokeDelegation
  <2>3. \A d, f \in delegations' : d.of.id = f.of.id => d = f
    BY <2>1, <2>2
  <2> QED BY <2>3, <2>4, <2>5 DEF DelegationType
<1>8. ASSUME NEW e \in delegations, NEW at, NEW m, IssueDelegatedGrant(e, at, m)
      PROVE DirTypeOK'
  BY <1>8 DEF IssueDelegatedGrant
<1>9. CASE UNCHANGED dirVars
  BY <1>9 DEF dirVars, IdsOnce
<1> QED BY <1>1, <1>2, <1>3, <1>4, <1>5, <1>6, <1>7, <1>8, <1>9 DEF DirNext

\* Type correctness of the directory, whatever is added, revoked and issued.
THEOREM DirTypeCorrect == DirSpec => []DirTypeOK
<1>1. DirInit => DirTypeOK
  BY DEF DirInit, DirTypeOK, IdsOnce
<1> QED BY <1>1, DirTypeStep, PTL DEF DirSpec

-----------------------------------------------------------------------------
(***************************************************************************)
(* Separation of duties.  assign_role checks the actor's other assignments *)
(* against the rules, add_sod_rule the rule against all assignments: each  *)
(* keeps what the other relies on.                                         *)
(***************************************************************************)

\* The two roles of a split can be exchanged.
LEMMA SplitsSymmetric ==
  ASSUME NEW rule, NEW r, NEW s
  PROVE  Splits(rule, r, s) <=> Splits(rule, s, r)
BY DEF Splits

\* No assignment and no new rule brings the two sides of a rule together.
LEMMA SeparationStep ==
  DirTypeOK /\ SeparationHolds /\ [DirNext]_dirVars => SeparationHolds'
<1> SUFFICES ASSUME DirTypeOK, SeparationHolds, [DirNext]_dirVars,
                    NEW rule \in rules',
                    NEW a \in assignments', NEW b \in assignments',
                    a.active, b.active, a.scope = rule.scope, b.scope = rule.scope,
                    a.id # b.id, a.actor = b.actor
             PROVE  ~ Splits(rule, a.role, b.role)
  BY DEF SeparationHolds, RuleBroken, Splits, HasCapability
<1> DEFINE Known(x) == \E y \in assignments :
                         /\ y.active /\ y.id = x.id /\ y.actor = x.actor
                         /\ y.scope = x.scope /\ y.role = x.role
<1>1. ASSUME rule \in rules, Known(a), Known(b) PROVE ~ Splits(rule, a.role, b.role)
  BY <1>1 DEF SeparationHolds, RuleBroken
<1>2. ASSUME NEW id \in AssignmentIds, NEW role \in Roles, NEW actor \in Actors,
             NEW scope \in Scopes, NEW max \in Amounts,
             AssignRole(id, role, actor, scope, max)
      PROVE ~ Splits(rule, a.role, b.role)
  <2> DEFINE new == [id |-> id, role |-> role, actor |-> actor, scope |-> scope,
                     max |-> max, active |-> TRUE]
  <2>1. assignments' = assignments \cup {new} /\ rules' = rules /\ Separated(role, actor, scope)
    BY <1>2 DEF AssignRole
  <2>2. /\ new.id = id /\ new.role = role /\ new.actor = actor /\ new.scope = scope
    OBVIOUS
  <2> HIDE DEF new
  <2>3. CASE a \in assignments /\ b \in assignments
    BY <1>1, <2>1, <2>3
  <2>4. CASE a = new /\ b \in assignments
    BY <2>1, <2>2, <2>4 DEF Separated
  <2>5. CASE b = new /\ a \in assignments
    <3>1. ~ Splits(rule, role, a.role)
      BY <2>1, <2>2, <2>5 DEF Separated
    <3> QED BY <2>2, <2>5, <3>1, SplitsSymmetric
  <2> QED BY <2>1, <2>2, <2>3, <2>4, <2>5
<1>3. ASSUME NEW c \in assignments, RevokeRole(c) PROVE ~ Splits(rule, a.role, b.role)
  <2> DEFINE old == [c EXCEPT !.active = FALSE]
  <2>1. assignments' = (assignments \ {c}) \cup {old} /\ rules' = rules
    BY <1>3 DEF RevokeRole
  <2>2. ~ old.active
    BY DEF DirTypeOK
  <2> HIDE DEF old
  <2>3. a \in assignments /\ b \in assignments
    BY <2>1, <2>2
  <2> QED BY <1>1, <2>1, <2>3
<1>4. ASSUME NEW new \in Rules, AddRule(new) PROVE ~ Splits(rule, a.role, b.role)
  BY <1>1, <1>4 DEF AddRule, RuleBroken
<1>5. CASE UNCHANGED <<assignments, rules>>
  BY <1>1, <1>5
<1>6. CASE UNCHANGED dirVars
  BY <1>5, <1>6 DEF dirVars
<1>7. ASSUME NEW r \in Roles, AddRole(r) PROVE UNCHANGED <<assignments, rules>>
  BY <1>7 DEF AddRole
<1>8. ASSUME NEW d \in Delegations, AddDelegation(d) PROVE UNCHANGED <<assignments, rules>>
  BY <1>8 DEF AddDelegation
<1>9. ASSUME NEW e \in delegations, RevokeDelegation(e) PROVE UNCHANGED <<assignments, rules>>
  BY <1>9 DEF RevokeDelegation
<1>10. ASSUME NEW c \in assignments, NEW k, NEW m, IssueGrant(c, k, m)
       PROVE  UNCHANGED <<assignments, rules>>
  BY <1>10 DEF IssueGrant
<1>11. ASSUME NEW e \in delegations, NEW at, NEW m, IssueDelegatedGrant(e, at, m)
       PROVE  UNCHANGED <<assignments, rules>>
  BY <1>11 DEF IssueDelegatedGrant
<1> QED BY <1>2, <1>3, <1>4, <1>5, <1>6, <1>7, <1>8, <1>9, <1>10, <1>11 DEF DirNext

\* In every directory that assign_role, revoke_assignment and add_sod_rule can
\* build, no actor holds both sides of a rule through two assignments.
THEOREM SeparationCorrect == DirSpec => []SeparationHolds
<1>1. DirInit => DirTypeOK /\ SeparationHolds
  BY DEF DirInit, DirTypeOK, IdsOnce, SeparationHolds
<1> QED BY <1>1, DirTypeStep, SeparationStep, PTL DEF DirSpec

-----------------------------------------------------------------------------
(***************************************************************************)
(* Grants.                                                                 *)
(***************************************************************************)

\* What a grant of the directory may rest on: an assignment and a permission of
\* its role, or a delegation.
Backs(a, p, g) ==
  /\ g.actor = a.actor /\ g.scope = a.scope /\ p.scope = a.scope
  /\ g.capability = p.capability /\ g.max <= p.max /\ g.max <= a.max

\* A new grant rests on an assignment or a delegation in force, and is no wider.
LEMMA NewGrantBacked ==
  ASSUME DirTypeOK, DirNext, NEW g \in grants' \ grants
  PROVE  \/ \E a \in assignments : a.active /\ \E p \in a.role.permissions : Backs(a, p, g)
         \/ \E e \in delegations : e.active /\ g = DelegatedGrant(e.of)
<1>1. ASSUME NEW a \in assignments, NEW c, NEW m, IssueGrant(a, c, m)
      PROVE  a.active /\ \E p \in a.role.permissions : Backs(a, p, g)
  <2>1. PICK p \in a.role.permissions :
          /\ p.capability = c /\ p.scope = a.scope
          /\ grants' = grants \cup {Grant(a.actor, c, a.scope, Ceiling(a, p))}
    BY <1>1 DEF IssueGrant
  <2>2. p.max \in Nat /\ a.max \in Nat
    BY RolesAssumption, AmountsAssumption DEF DirTypeOK
  <2>3. Ceiling(a, p) <= p.max /\ Ceiling(a, p) <= a.max
    BY <2>2 DEF Ceiling
  <2>4. g = Grant(a.actor, c, a.scope, Ceiling(a, p))
    BY <2>1
  <2> QED BY <1>1, <2>1, <2>3, <2>4 DEF Backs, Grant, IssueGrant
<1>2. ASSUME NEW e \in delegations, NEW at, NEW m, IssueDelegatedGrant(e, at, m)
      PROVE  e.active /\ g = DelegatedGrant(e.of)
  BY <1>2 DEF IssueDelegatedGrant, Effective
<1>3. ASSUME UNCHANGED grants PROVE FALSE
  BY <1>3
<1> QED BY <1>1, <1>2, <1>3 DEF DirNext, AddRole, AssignRole, RevokeRole, AddRule,
       AddDelegation, RevokeDelegation

\* Assignments and delegations are never taken off the register.
LEMMA SourcesStay ==
  ASSUME DirTypeOK, [DirNext]_dirVars
  PROVE  /\ \A a \in assignments : \E b \in assignments' :
              b.actor = a.actor /\ b.scope = a.scope /\ b.role = a.role /\ b.max = a.max
         /\ \A d \in delegations : \E e \in delegations' : e.of = d.of
<1>1. ASSUME NEW a \in assignments, RevokeRole(a)
      PROVE  \A c \in assignments : \E b \in assignments' :
               b.actor = c.actor /\ b.scope = c.scope /\ b.role = c.role /\ b.max = c.max
  <2> DEFINE old == [a EXCEPT !.active = FALSE]
  <2>1. assignments' = (assignments \ {a}) \cup {old}
    BY <1>1 DEF RevokeRole
  <2>2. old.actor = a.actor /\ old.scope = a.scope /\ old.role = a.role /\ old.max = a.max
    BY DEF DirTypeOK
  <2> HIDE DEF old
  <2> QED BY <2>1, <2>2
<1>2. ASSUME NEW d \in delegations, RevokeDelegation(d)
      PROVE  \A c \in delegations : \E e \in delegations' : e.of = c.of
  <2> DEFINE old == [d EXCEPT !.active = FALSE]
  <2>1. delegations' = (delegations \ {d}) \cup {old}
    BY <1>2 DEF RevokeDelegation
  <2>2. old.of = d.of
    BY DEF DirTypeOK
  <2> HIDE DEF old
  <2> QED BY <2>1, <2>2
<1>3. assignments \subseteq assignments' \/ \E a \in assignments : RevokeRole(a)
  BY DEF DirNext, dirVars, AddRole, AssignRole, AddRule, AddDelegation,
     RevokeDelegation, IssueGrant, IssueDelegatedGrant
<1>4. delegations \subseteq delegations' \/ \E d \in delegations : RevokeDelegation(d)
  BY DEF DirNext, dirVars, AddRole, AssignRole, AddRule, AddDelegation,
     RevokeRole, IssueGrant, IssueDelegatedGrant
<1> QED BY <1>1, <1>2, <1>3, <1>4

LEMMA GrantsStep ==
  DirTypeOK /\ GrantsNeverWiden /\ [DirNext]_dirVars => GrantsNeverWiden'
<1> SUFFICES ASSUME DirTypeOK, GrantsNeverWiden, [DirNext]_dirVars,
                    NEW g \in grants' \ AdminGrants
             PROVE  \/ \E a \in assignments' : \E p \in a.role.permissions : Backs(a, p, g)
                    \/ \E e \in delegations' :
                         /\ g.actor = e.of.delegate /\ g.scope = e.of.scope
                         /\ g.capability = e.of.capability /\ g.max <= e.of.max
  BY DEF GrantsNeverWiden, Backs
<1>1. \/ \E a \in assignments : \E p \in a.role.permissions : Backs(a, p, g)
      \/ \E e \in delegations :
           /\ g.actor = e.of.delegate /\ g.scope = e.of.scope
           /\ g.capability = e.of.capability /\ g.max <= e.of.max
  <2>1. CASE g \in grants
    BY <2>1 DEF GrantsNeverWiden, Backs
  <2>2. CASE g \notin grants
    <3>1. DirNext
      BY <2>2 DEF dirVars
    <3>2. ASSUME NEW e \in delegations, g = DelegatedGrant(e.of)
          PROVE  /\ g.actor = e.of.delegate /\ g.scope = e.of.scope
                 /\ g.capability = e.of.capability /\ g.max <= e.of.max
      BY <3>2, DelegationsAssumption DEF DelegatedGrant, Grant, DirTypeOK
    <3> QED BY <2>2, <3>1, <3>2, NewGrantBacked
  <2> QED BY <2>1, <2>2
<1>2. CASE \E a \in assignments : \E p \in a.role.permissions : Backs(a, p, g)
  <2>1. PICK a \in assignments : \E p \in a.role.permissions : Backs(a, p, g)
    BY <1>2
  <2>2. PICK b \in assignments' :
          b.actor = a.actor /\ b.scope = a.scope /\ b.role = a.role /\ b.max = a.max
    BY SourcesStay
  <2> QED BY <2>1, <2>2 DEF Backs
<1>3. CASE \E e \in delegations :
             /\ g.actor = e.of.delegate /\ g.scope = e.of.scope
             /\ g.capability = e.of.capability /\ g.max <= e.of.max
  BY <1>3, SourcesStay
<1> QED BY <1>1, <1>2, <1>3

\* No grant the directory issued (issue_grant, issue_delegated_grant) is wider
\* than an assignment with its role's permission, or than a delegation.
THEOREM GrantsCorrect == DirSpec => []GrantsNeverWiden
<1>1. DirInit => DirTypeOK /\ GrantsNeverWiden
  BY DEF DirInit, DirTypeOK, IdsOnce, GrantsNeverWiden
<1> QED BY <1>1, DirTypeStep, GrantsStep, PTL DEF DirSpec

\* After revoke_assignment or revoke_delegation nothing is issued from it: a new
\* grant has a source in force.
THEOREM IssuedFromForceCorrect == DirSpec => IssuedFromForce
<1>1. DirInit => DirTypeOK
  BY DEF DirInit, DirTypeOK, IdsOnce
<1>2. DirTypeOK /\ [DirNext]_dirVars =>
        [\A g \in grants' \ grants :
           \/ \E a \in assignments : a.active /\ g.actor = a.actor /\ g.scope = a.scope
                                     /\ HasCapability(a.role, g.capability, g.scope)
           \/ \E e \in delegations : e.active /\ g = DelegatedGrant(e.of)]_dirVars
  BY NewGrantBacked DEF Backs, HasCapability
<1> QED BY <1>1, <1>2, DirTypeStep, PTL DEF DirSpec, IssuedFromForce

-----------------------------------------------------------------------------
(***************************************************************************)
(* Approvals under the directory.                                          *)
(***************************************************************************)

\* The directory moves by its own steps only, whatever is decided.
LEMMA DirectoryMoves == [Next]_vars => [DirNext]_dirVars
BY DEF Next, vars, Start, Decide, DecideDelegated

LEMMA InitDirectory == Init => DirInit
BY DEF Init

\* A decision's record, and where a grant comes from.
ActionsGranted ==
  \A x \in instance.actions : x.delegation = NoDelegation =>
    /\ x.step \in StepIds
    /\ \E g \in grants : /\ g.actor = x.actor /\ g.scope = Subject
                         /\ g.capability = Steps[x.step].capability

Provenance ==
  \A g \in grants :
    \/ g \in AdminGrants
    \/ \E a \in assignments : /\ a.actor = g.actor /\ a.scope = g.scope
                              /\ HasCapability(a.role, g.capability, g.scope)
    \/ \E e \in delegations : g = DelegatedGrant(e.of)

\* Grants are never withdrawn.
LEMMA GrantsStay == [Next]_vars => grants \subseteq grants'
<1> SUFFICES ASSUME [DirNext]_dirVars PROVE grants \subseteq grants'
  BY DirectoryMoves
<1> QED BY DEF DirNext, dirVars, AddRole, AssignRole, RevokeRole, AddRule, AddDelegation,
       RevokeDelegation, IssueGrant, IssueDelegatedGrant

LEMMA ProvenanceStep == DirTypeOK /\ Provenance /\ [DirNext]_dirVars => Provenance'
<1> SUFFICES ASSUME DirTypeOK, Provenance, [DirNext]_dirVars, NEW g \in grants',
                    g \notin AdminGrants
             PROVE  \/ \E a \in assignments' : /\ a.actor = g.actor /\ a.scope = g.scope
                                               /\ HasCapability(a.role, g.capability, g.scope)
                    \/ \E e \in delegations' : g = DelegatedGrant(e.of)
  BY DEF Provenance, HasCapability, DelegatedGrant, Grant
<1>1. \/ \E a \in assignments : /\ a.actor = g.actor /\ a.scope = g.scope
                                /\ HasCapability(a.role, g.capability, g.scope)
      \/ \E e \in delegations : g = DelegatedGrant(e.of)
  <2>1. CASE g \in grants
    BY <2>1 DEF Provenance
  <2>2. CASE g \notin grants
    <3>1. DirNext
      BY <2>2 DEF dirVars
    <3> QED BY <2>2, <3>1, NewGrantBacked DEF Backs, HasCapability
  <2> QED BY <2>1, <2>2
<1>2. CASE \E a \in assignments : /\ a.actor = g.actor /\ a.scope = g.scope
                                  /\ HasCapability(a.role, g.capability, g.scope)
  BY <1>2, SourcesStay DEF HasCapability
<1>3. CASE \E e \in delegations : g = DelegatedGrant(e.of)
  BY <1>3, SourcesStay
<1> QED BY <1>1, <1>2, <1>3

LEMMA ActionsStep == DirTypeOK /\ ActionsGranted /\ [Next]_vars => ActionsGranted'
<1> SUFFICES ASSUME DirTypeOK, ActionsGranted, [Next]_vars,
                    NEW x \in instance'.actions, x.delegation = NoDelegation
             PROVE  /\ x.step \in StepIds
                    /\ \E g \in grants' : /\ g.actor = x.actor /\ g.scope = Subject
                                          /\ g.capability = Steps[x.step].capability
  BY DEF ActionsGranted
<1>1. CASE x \in instance.actions
  BY <1>1, GrantsStay DEF ActionsGranted
<1>2. ASSUME NEW g \in grants, NEW step \in StepIds, NEW decision, NEW weight, NEW actor,
             DecideWith(g, step, decision, weight, actor, NoDelegation),
             x \notin instance.actions
      PROVE  /\ x.step \in StepIds
             /\ \E h \in grants : /\ h.actor = x.actor /\ h.scope = Subject
                                  /\ h.capability = Steps[x.step].capability
  <2>1. instance'.actions = instance.actions \cup
                              {Action(step, actor, decision, weight, NoDelegation)}
    BY <1>2 DEF DecideWith, Decided
  <2>2. x = Action(step, actor, decision, weight, NoDelegation)
    BY <1>2, <2>1
  <2>3. x.step = step /\ x.actor = actor
    BY <2>2 DEF Action
  <2> QED BY <1>2, <2>3 DEF DecideWith
<1>3. ASSUME NEW step \in StepIds, NEW decision, NEW weight, NEW actor,
             NEW e \in delegations, NEW at, DecideDelegated(step, decision, weight, actor, e, at),
             x \notin instance.actions
      PROVE  FALSE
  <2>1. instance'.actions = instance.actions \cup
                              {Action(step, actor, decision, weight, e.of.id)}
    BY <1>3 DEF DecideDelegated, DecideWith, Decided
  <2>2. x.delegation = e.of.id
    BY <1>3, <2>1 DEF Action
  <2> QED BY <2>2, DelegationIdsAssumption DEF DirTypeOK
<1>4. CASE Start
  BY <1>4 DEF Start, NotStarted
<1>5. CASE UNCHANGED instance
  BY <1>1, <1>5
<1>6. ASSUME NEW step \in StepIds, NEW decision, NEW weight, NEW actor,
             Decide(step, decision, weight, actor), x \notin instance.actions
      PROVE  /\ x.step \in StepIds
             /\ \E g \in grants' : /\ g.actor = x.actor /\ g.scope = Subject
                                   /\ g.capability = Steps[x.step].capability
  BY <1>2, <1>6, GrantsStay DEF Decide
<1> QED BY <1>1, <1>3, <1>4, <1>5, <1>6 DEF Next, vars

\* The three facts together keep the two sides of a rule with two people.
LEMMA FourEyesHold ==
  ASSUME DirTypeOK, SeparationHolds, Provenance, ActionsGranted
  PROVE  FourEyes
<1> SUFFICES ASSUME NEW rule \in rules, NEW x \in instance.actions, NEW y \in instance.actions,
                    rule.scope = Subject, x.actor = y.actor,
                    {Steps[x.step].capability, Steps[y.step].capability}
                      = {rule.first, rule.second},
                    x.delegation = NoDelegation, y.delegation = NoDelegation,
                    ~ \E e \in delegations : DelegatedGrant(e.of) \in grants
             PROVE  \E a \in assignments : a.actor = x.actor /\
                      (~ a.active \/ Splits(rule, a.role, a.role))
  BY DEF FourEyes, DecidedApart
<1>1. ASSUME NEW z \in instance.actions, z.delegation = NoDelegation
      PROVE  \E a \in assignments :
               /\ a.actor = z.actor /\ a.scope = Subject
               /\ HasCapability(a.role, Steps[z.step].capability, Subject)
  <2>1. PICK g \in grants : /\ g.actor = z.actor /\ g.scope = Subject
                            /\ g.capability = Steps[z.step].capability /\ z.step \in StepIds
    BY <1>1 DEF ActionsGranted
  <2>2. g \notin AdminGrants
    BY <2>1, AdminGrantsAssumption
  <2> QED BY <2>1, <2>2 DEF Provenance
<1>2. PICK a \in assignments :
        /\ a.actor = x.actor /\ a.scope = Subject
        /\ HasCapability(a.role, Steps[x.step].capability, Subject)
  BY <1>1
<1>3. PICK b \in assignments :
        /\ b.actor = x.actor /\ b.scope = Subject
        /\ HasCapability(b.role, Steps[y.step].capability, Subject)
  BY <1>1
<1>4. Splits(rule, a.role, b.role)
  <2>1. \/ Steps[x.step].capability = rule.first /\ Steps[y.step].capability = rule.second
        \/ Steps[x.step].capability = rule.second /\ Steps[y.step].capability = rule.first
    OBVIOUS
  <2> QED BY <1>2, <1>3, <2>1 DEF Splits
<1>5. CASE a.active /\ b.active
  <2>1. a.id = b.id
    BY <1>2, <1>3, <1>4, <1>5 DEF SeparationHolds, RuleBroken
  <2>2. a = b
    BY <2>1 DEF DirTypeOK, IdsOnce
  <2> QED BY <1>2, <1>4, <2>2
<1>6. CASE ~ a.active \/ ~ b.active
  BY <1>2, <1>3, <1>6
<1> QED BY <1>5, <1>6

\* Under any sequence of assignments, revocations, rules, delegations and
\* decisions: who decided both of two separated steps used a delegation, or
\* has lost an assignment and kept its grant, or has a role that bundles both.
THEOREM FourEyesCorrect == Spec => []FourEyes
<1>1. Init => DirTypeOK /\ SeparationHolds /\ Provenance /\ ActionsGranted
  BY DEF Init, DirInit, DirTypeOK, IdsOnce, SeparationHolds, Provenance, ActionsGranted,
     NotStarted
<1> QED BY <1>1, DirectoryMoves, DirTypeStep, SeparationStep, ProvenanceStep, ActionsStep,
       FourEyesHold, PTL DEF Spec

\* The directory's promises hold while approvals draw on it.
THEOREM DirectoryCorrect == Spec => [](SeparationHolds /\ GrantsNeverWiden)
<1>1. Spec => DirSpec
  BY InitDirectory, DirectoryMoves, PTL DEF Spec, DirSpec
<1> QED BY <1>1, SeparationCorrect, GrantsCorrect, PTL

-----------------------------------------------------------------------------
(***************************************************************************)
(* What a set of approvals, or of assignments, weighs.  The sum of         *)
(* FiniteSetsExt is a recursion on the subsets: it has a solution, and     *)
(* every solution is whole.  Induction is over a set of numbers that is    *)
(* closed under the step.                                                  *)
(***************************************************************************)

\* Every set of numbers has a least one.
LEMMA LeastNumber ==
  ASSUME NEW T, T \subseteq Nat, T # {}
  PROVE  \E n \in T : \A k \in T : ~ (k < n)
<1> DEFINE R == OpToRel(<, Nat)
<1>1. IsWellFoundedOn(R, Nat)
  BY NatLessThanWellFounded, Zenon
<1>2. \A x, y \in Nat : y < x => <<y, x>> \in R
  BY DEF OpToRel
<1> HIDE DEF R
<1>3. \E x \in T : \A y \in T : ~ (<<y, x>> \in R)
  BY <1>1, WFMin
<1> QED BY <1>2, <1>3

\* A set with 0 and with the successor of all it has is all numbers.
LEMMA NatSetInduction ==
  ASSUME NEW P, 0 \in P, \A n \in Nat : n \in P => n + 1 \in P
  PROVE  Nat \subseteq P
<1> SUFFICES ASSUME Nat \ P # {} PROVE FALSE
  OBVIOUS
<1>1. PICK n \in Nat \ P : \A k \in Nat \ P : ~ (k < n)
  BY LeastNumber
<1>2. n # 0 /\ n - 1 \in Nat
  BY <1>1
<1>3. n - 1 \in P
  BY <1>1, <1>2
<1> QED BY <1>1, <1>2, <1>3

Any(s) == CHOOSE x \in s : TRUE

\* What a set weighs, from what its smaller subsets weigh.
Count(f, s) == IF s = {} THEN 0 ELSE Any(s).weight + f[s \ {Any(s)}]

Solves(S, f) == f = [s \in SUBSET S |-> Count(f, s)]

LEMMA AnyOfSet == ASSUME NEW s, s # {} PROVE Any(s) \in s
BY DEF Any

\* The subsets of a finite set, by size.
LEMMA SmallerSubset ==
  ASSUME NEW S, IsFiniteSet(S), NEW s \in SUBSET S
  PROVE  /\ IsFiniteSet(s) /\ Cardinality(s) \in Nat
         /\ Cardinality(s) <= 0 => s = {}
         /\ s # {} => /\ s \ {Any(s)} \in SUBSET S
                      /\ Cardinality(s \ {Any(s)}) = Cardinality(s) - 1
                      /\ Cardinality(s) # 0
<1>1. IsFiniteSet(s) /\ Cardinality(s) \in Nat
  BY FS_Subset, FS_CardinalityType
<1>2. Cardinality(s) = 0 <=> s = {}
  BY <1>1, FS_EmptySet
<1>3. ASSUME s # {} PROVE Cardinality(s \ {Any(s)}) = Cardinality(s) - 1
  BY <1>1, <1>3, AnyOfSet, FS_RemoveElement
<1> QED BY <1>1, <1>2, <1>3

\* The recursion of the sum has a solution: one that is right up to a size is
\* made right up to the next.
LEMMA WeightsSolved ==
  ASSUME NEW S, IsFiniteSet(S)
  PROVE  \E f : Solves(S, f)
<1> DEFINE UpTo(n, f) == /\ f = [s \in SUBSET S |-> f[s]]
                         /\ \A s \in SUBSET S : Cardinality(s) <= n => f[s] = Count(f, s)
           P == {n \in Nat : \E f : UpTo(n, f)}
<1>1. 0 \in P
  <2> DEFINE f == [s \in SUBSET S |-> 0]
  <2>1. \A s \in SUBSET S : Cardinality(s) <= 0 => s = {}
    BY SmallerSubset
  <2>2. UpTo(0, f)
    BY <2>1 DEF Count
  <2> QED BY <2>2
<1>2. ASSUME NEW n \in Nat, n \in P PROVE n + 1 \in P
  <2>1. PICK f : UpTo(n, f)
    BY <1>2
  <2> DEFINE g == [s \in SUBSET S |-> Count(f, s)]
  <2>2. ASSUME NEW s \in SUBSET S, Cardinality(s) <= n + 1
        PROVE  g[s] = Count(g, s)
    <3>1. CASE s = {}
      BY <3>1 DEF Count
    <3>2. CASE s # {}
      <4> DEFINE t == s \ {Any(s)}
      <4>1. t \in SUBSET S /\ Cardinality(t) <= n
        BY <2>2, <3>2, SmallerSubset
      <4>2. g[t] = f[t] /\ g[s] = Count(f, s)
        BY <2>1, <4>1
      <4> HIDE DEF g
      <4> QED BY <3>2, <4>2 DEF Count
    <3> QED BY <3>1, <3>2
  <2>3. g = [s \in SUBSET S |-> g[s]]
    OBVIOUS
  <2> HIDE DEF g
  <2>4. \E h : UpTo(n + 1, h)
    BY <2>2, <2>3
  <2> HIDE DEF UpTo
  <2> QED BY <2>4
<1>3. Cardinality(S) \in P
  <2> HIDE DEF P
  <2> QED BY <1>1, <1>2, NatSetInduction, FS_CardinalityType
<1>4. PICK f : UpTo(Cardinality(S), f)
  BY <1>3
<1>5. \A s \in SUBSET S : f[s] = Count(f, s)
  BY <1>4, FS_Subset
<1> QED BY <1>4, <1>5 DEF Solves

\* Every solution is whole if the weights are.
LEMMA SolutionIsNat ==
  ASSUME NEW S, IsFiniteSet(S), \A x \in S : x.weight \in Nat, NEW f, Solves(S, f)
  PROVE  f[S] \in Nat
<1> DEFINE P == {n \in Nat : \A s \in SUBSET S : Cardinality(s) <= n => f[s] \in Nat}
<1>1. \A s \in SUBSET S : f[s] = Count(f, s)
  BY DEF Solves
<1>2. f[{}] \in Nat
  <2>1. f[{}] = Count(f, {})
    BY <1>1
  <2> QED BY <2>1 DEF Count
<1>3. 0 \in P
  BY <1>2, SmallerSubset
<1>4. ASSUME NEW n \in Nat, n \in P PROVE n + 1 \in P
  <2>1. ASSUME NEW s \in SUBSET S, Cardinality(s) <= n + 1, s # {}
        PROVE  f[s] \in Nat
    <3>1. s \ {Any(s)} \in SUBSET S /\ Cardinality(s \ {Any(s)}) <= n
      BY <2>1, SmallerSubset
    <3>2. f[s \ {Any(s)}] \in Nat /\ Any(s).weight \in Nat
      BY <1>4, <2>1, <3>1, AnyOfSet
    <3>3. f[s] = Count(f, s)
      BY <1>1
    <3> QED BY <2>1, <3>2, <3>3 DEF Count
  <2>2. \A s \in SUBSET S : Cardinality(s) <= n + 1 => f[s] \in Nat
    BY <1>2, <2>1
  <2> QED BY <2>2
<1>5. Nat \subseteq P
  <2> HIDE DEF P
  <2> QED BY <1>3, <1>4, NatSetInduction
<1> QED BY <1>5, FS_CardinalityType

\* Whole weights add up to a whole weight.
LEMMA WeighIsNat ==
  ASSUME NEW S, IsFiniteSet(S), \A x \in S : x.weight \in Nat
  PROVE  Weigh(S) \in Nat
<1> DEFINE h == CHOOSE f : f = [s \in SUBSET S |->
                  IF s = {} THEN 0
                  ELSE (CHOOSE x \in s : TRUE).weight + f[s \ {CHOOSE x \in s : TRUE}]]
<1>1. Weigh(S) = h[S]
  BY DEF Weigh, MapThenSumSet, MapThenFoldSet
<1>2. h = CHOOSE f : Solves(S, f)
  BY DEF Solves, Count, Any
<1>3. Solves(S, h)
  BY <1>2, WeightsSolved
<1> HIDE DEF h
<1> QED BY <1>1, <1>3, SolutionIsNat

\* A wrapped sum that is positive is not above the sum, and a negative one stands
\* for a sum that is above every weight.
LEMMA WrapBounds ==
  ASSUME NEW n \in Nat
  PROVE  Wrap(n) \in Int /\ Wrap(n) <= n /\ (Wrap(n) < 0 => n >= IntLimit)
<1>1. IntLimit \in Nat \ {0}
  BY StepsAssumption
<1>2. PICK m \in Nat : m = n + IntLimit
  BY <1>1
<1>3. PICK d \in Nat : d = 2 * IntLimit /\ d > 0
  BY <1>1
<1>4. m % d \in 0..(d - 1) /\ m % d <= m /\ (m < d => m % d = m)
  BY <1>3
<1>5. Wrap(n) = (m % d) - IntLimit
  BY <1>2, <1>3 DEF Wrap
<1> QED BY <1>1, <1>2, <1>3, <1>4, <1>5

-----------------------------------------------------------------------------
(***************************************************************************)
(* What was decided.  A step that was passed is left alone, since a        *)
(* decision is taken at the current one; the current one is unopposed      *)
(* while the instance is pending, since a refusal ends it.                 *)
(***************************************************************************)

ActionType ==
  [step : StepIds, actor : Actors, decision : {"approve", "reject"},
   weight : Weights \ {0}, delegation : DelegationIds]

InstanceShape ==
  /\ instance.status \in {"none", "pending", "approved", "rejected"}
  /\ instance.current \in StepIds
  /\ IsFiniteSet(instance.actions) /\ instance.actions \subseteq ActionType

Unopposed(step) ==
  \A x \in instance.actions : x.step = step => x.decision = "approve"

DecisionsInv ==
  /\ DirTypeOK /\ InstanceShape /\ QuorumReached /\ OneVoice
  /\ \A x \in instance.actions : x.step <= instance.current
  /\ instance.status \in {"none", "pending"} => Unopposed(instance.current)
  /\ instance.status = "none" => instance.actions = {}

\* OneVoice, of a set of actions.
Within(x) ==
  Assigned(x.step) # {} =>
    x.weight <= Weigh({a \in Assigned(x.step) : a.actor = x.actor})

Voices(A) ==
  \A x \in A : /\ \A y \in A : x.step = y.step /\ x.actor = y.actor => x = y
              /\ Within(x)

LEMMA VoicesOfActions ==
  /\ OneVoice <=> Voices(instance.actions)
  /\ OneVoice' <=> Voices(instance'.actions)
BY DEF OneVoice, Voices, Within

LEMMA WeightTypes ==
  /\ \A w \in Weights : w \in Nat /\ w < IntLimit
  /\ \A x \in Assignees : x.weight \in Nat
  /\ \A s \in StepIds : s \in Nat /\ s <= Len(Steps) /\ Steps[s].required \in Nat \ {0}
  /\ Len(Steps) \in Nat \ {0}
BY StepsAssumption, WeightsAssumption DEF StepIds

\* A quorum by the wrapped weight is one by the true weight.
LEMMA WrappedQuorum ==
  ASSUME NEW A, IsFiniteSet(A), A \subseteq ActionType, NEW step \in StepIds,
         WeightForStep(A, step) >= Steps[step].required
  PROVE  TrueWeight(A, step) >= Steps[step].required
<1>1. IsFiniteSet(Approvals(A, step)) /\ \A x \in Approvals(A, step) : x.weight \in Nat
  <2>1. Approvals(A, step) \in SUBSET A
    BY DEF Approvals
  <2> QED BY <2>1, FS_Subset, WeightTypes DEF ActionType
<1>2. PICK n \in Nat : n = TrueWeight(A, step)
  BY <1>1, WeighIsNat DEF TrueWeight
<1>3. WeightForStep(A, step) \in Int /\ WeightForStep(A, step) <= n
  BY <1>2, WrapBounds DEF WeightForStep
<1> QED BY <1>2, <1>3, WeightTypes

\* What an actor may claim is no more than its assignments give it, also when
\* their sum has wrapped.
LEMMA ClaimBounded ==
  ASSUME NEW step, NEW actor, NEW weight \in Weights, MayClaim(step, actor, weight),
         Assigned(step) # {}
  PROVE  weight <= Weigh({a \in Assigned(step) : a.actor = actor})
<1> DEFINE S == {a \in Assigned(step) : a.actor = actor}
<1>1. S \in SUBSET Assignees
  BY DEF Assigned
<1>2. IsFiniteSet(S) /\ \A x \in S : x.weight \in Nat
  BY <1>1, FS_Subset, WeightsAssumption, WeightTypes
<1>3. PICK n \in Nat : n = Weigh(S)
  <2> HIDE DEF S
  <2> QED BY <1>2, WeighIsNat
<1>4. ActorWeight(step, actor) = Wrap(n)
  BY <1>3 DEF ActorWeight
<1>5. Wrap(n) # 0 /\ (Wrap(n) > 0 => weight <= Wrap(n))
  BY <1>4 DEF MayClaim
<1>6. weight \in Nat /\ weight < IntLimit /\ IntLimit \in Nat
  BY WeightTypes, StepsAssumption
<1>7. weight <= n
  BY <1>5, <1>6, WrapBounds
<1> QED BY <1>3, <1>7

\* What every decision does, direct or delegated.
LEMMA DecisionStep ==
  ASSUME DecisionsInv, DirTypeOK', NEW grant, NEW step \in StepIds,
         NEW decision \in {"approve", "reject"}, NEW weight \in Weights,
         NEW actor \in Actors, NEW delegation \in DelegationIds,
         DecideWith(grant, step, decision, weight, actor, delegation)
  PROVE  DecisionsInv'
<1>1. PICK x : x = Action(step, actor, decision, weight, delegation)
  OBVIOUS
<1>2. /\ x.step = step /\ x.actor = actor /\ x.decision = decision
      /\ x.weight = weight /\ x.delegation = delegation
  BY <1>1 DEF Action
<1>3. PICK A : A = instance.actions \cup {x}
  OBVIOUS
<1>4. /\ instance.status = "pending" /\ instance.current = step
      /\ MayClaim(step, actor, weight) /\ ~ HasAction(step, actor)
      /\ instance' = Decided(decision, A, step)
  BY <1>1, <1>3 DEF DecideWith, Open
<1>5. x \in ActionType
  <2>1. weight # 0
    BY <1>4, WeightTypes DEF MayClaim
  <2> QED BY <1>1, <2>1 DEF Action, ActionType
<1>6. IsFiniteSet(A) /\ A \subseteq ActionType
  BY <1>3, <1>5, FS_AddElement DEF DecisionsInv, InstanceShape
<1>7. PICK enough \in BOOLEAN :
        enough <=> decision = "approve" /\ WeightForStep(A, step) >= Steps[step].required
  OBVIOUS
<1>8. /\ instance'.actions = A
      /\ instance'.status = (CASE decision = "reject" -> "rejected"
                               [] enough /\ step = Len(Steps) -> "approved"
                               [] OTHER -> "pending")
      /\ instance'.current = IF enough /\ step < Len(Steps) THEN step + 1 ELSE step
  BY <1>4, <1>7 DEF Decided
<1>9. /\ step \in Nat /\ instance'.current \in StepIds /\ step <= instance'.current
      /\ instance'.current \in {step, step + 1}
      /\ instance'.current = step + 1 => enough
  BY <1>8, WeightTypes, StepsAssumption DEF StepIds
<1>10. instance'.status \in {"none", "pending", "approved", "rejected"} \ {"none"}
  BY <1>8
<1>11. InstanceShape'
  BY <1>6, <1>8, <1>9, <1>10 DEF InstanceShape, ActionType
<1>12. \A y \in A : y.step \in Nat /\ y.step <= step
  <2>1. \A y \in instance.actions : y.step \in StepIds /\ y.step <= step
    BY <1>4 DEF DecisionsInv, InstanceShape, ActionType
  <2>2. \A s \in StepIds : s \in Nat
    BY WeightTypes
  <2>3. step \in Nat /\ step <= step
    BY <1>9
  <2> QED BY <1>2, <1>3, <2>1, <2>2, <2>3
<1>13. \A y \in A : y.step <= instance'.current
  BY <1>9, <1>12
<1>14. decision = "approve" => \A y \in A : y.step = step => y.decision = "approve"
  BY <1>2, <1>3, <1>4 DEF DecisionsInv, Unopposed
<1>15. instance'.status \in {"none", "pending"} =>
         \A y \in A : y.step = instance'.current => y.decision = "approve"
  <2>1. CASE instance'.current = step
    <3>1. instance'.status \in {"none", "pending"} => decision = "approve"
      BY <1>8
    <3> QED BY <1>14, <2>1, <3>1
  <2>2. CASE instance'.current = step + 1
    BY <1>9, <1>12, <2>2
  <2> QED BY <1>9, <2>1, <2>2
<1>16. QuorumReached'
  <2>1. ASSUME NEW s \in StepIds, s < instance'.current \/ instance'.status = "approved"
        PROVE  /\ TrueWeight(A, s) >= Steps[s].required
               /\ \A y \in A : y.step = s => y.decision = "approve"
    <3>1. CASE s = step
      <4>1. enough
        BY <1>8, <1>9, <2>1, <3>1
      <4> QED BY <1>6, <1>7, <1>14, <3>1, <4>1, WrappedQuorum
    <3>2. CASE s # step
      <4>1. s < step
        BY <1>8, <1>9, <2>1, <3>2, WeightTypes
      <4>2. Approvals(A, s) = Approvals(instance.actions, s)
        BY <1>2, <1>3, <3>2 DEF Approvals
      <4>3. Passed(s)
        BY <1>4, <4>1 DEF Passed
      <4>4. /\ TrueWeight(instance.actions, s) >= Steps[s].required
            /\ \A y \in instance.actions : y.step = s => y.decision = "approve"
        BY <4>3 DEF DecisionsInv, QuorumReached
      <4> QED BY <1>2, <1>3, <3>2, <4>2, <4>4 DEF TrueWeight
    <3> QED BY <3>1, <3>2
  <2> QED BY <1>8, <2>1 DEF QuorumReached, Passed
<1>17. OneVoice'
  <2>1. \A y \in instance.actions : y.step = step => y.actor # actor
    BY <1>4 DEF HasAction
  <2>2. Voices(instance.actions)
    BY VoicesOfActions DEF DecisionsInv
  <2>3. Within(x)
    BY <1>2, <1>4, ClaimBounded DEF Within
  <2>4. Voices(A)
    BY <1>2, <1>3, <2>1, <2>2, <2>3 DEF Voices
  <2> QED BY <1>8, <2>4, VoicesOfActions
<1> QED BY <1>8, <1>10, <1>11, <1>13, <1>15, <1>16, <1>17 DEF DecisionsInv, Unopposed

LEMMA DecisionsStep == DecisionsInv /\ [Next]_vars => DecisionsInv'
<1> SUFFICES ASSUME DecisionsInv, [Next]_vars PROVE DecisionsInv'
  OBVIOUS
<1>1. DirTypeOK'
  BY DirectoryMoves, DirTypeStep DEF DecisionsInv
<1>2. CASE UNCHANGED instance
  <2>1. OneVoice'
    BY <1>2, VoicesOfActions DEF DecisionsInv
  <2> QED BY <1>1, <1>2, <2>1 DEF DecisionsInv, InstanceShape, QuorumReached, Passed, Unopposed
<1>3. CASE Start
  <2>1. /\ instance.actions = {} /\ instance.current = 1 /\ instance.status = "none"
        /\ instance'.actions = {} /\ instance'.current = 1 /\ instance'.status = "pending"
    BY <1>3 DEF Start, NotStarted
  <2> QED BY <1>1, <2>1
          DEF DecisionsInv, InstanceShape, QuorumReached, Passed, OneVoice, Unopposed
<1>4. ASSUME NEW step \in StepIds, NEW decision \in {"approve", "reject"},
             NEW weight \in Weights, NEW actor \in Actors,
             Decide(step, decision, weight, actor)
      PROVE  DecisionsInv'
  <2>1. NoDelegation \in DelegationIds
    BY DEF DelegationIds
  <2> QED BY <1>1, <1>4, <2>1, DecisionStep DEF Decide
<1>5. ASSUME NEW step \in StepIds, NEW decision \in {"approve", "reject"},
             NEW weight \in Weights, NEW actor \in Actors, NEW e \in delegations, NEW at,
             DecideDelegated(step, decision, weight, actor, e, at)
      PROVE  DecisionsInv'
  <2>1. e.of.id \in DelegationIds
    BY DEF DecisionsInv, DirTypeOK, DelegationIds
  <2>2. DecideWith(DelegatedGrant(e.of), step, decision, weight, actor, e.of.id)
    BY <1>5 DEF DecideDelegated
  <2> QED BY <1>1, <2>1, <2>2, DecisionStep
<1> QED BY <1>2, <1>3, <1>4, <1>5 DEF Next, vars

\* Whatever happens to the directory meanwhile: a step was passed with its full
\* weight and nobody against it, by actors who spoke once, with no more than
\* their assignments give them (decide, decide_delegated).
THEOREM DecisionsCorrect == Spec => []DecisionsSound
<1>1. Init => DecisionsInv
  <2> SUFFICES ASSUME Init PROVE DecisionsInv
    OBVIOUS
  <2>1. DirTypeOK
    BY DEF Init, DirInit, DirTypeOK, IdsOnce
  <2>2. instance.actions = {} /\ instance.current = 1 /\ instance.status = "none"
    BY DEF Init, NotStarted
  <2>3. 1 \in StepIds /\ \A s \in StepIds : ~ (s < 1)
    BY StepsAssumption DEF StepIds
  <2> QED BY <2>1, <2>2, <2>3, FS_EmptySet
          DEF DecisionsInv, InstanceShape, QuorumReached, Passed, OneVoice, Unopposed
<1>2. DecisionsInv => DecisionsSound
  BY DEF DecisionsInv, InstanceShape, ActionType, DecisionsSound, TypeOK
<1> QED BY <1>1, <1>2, DecisionsStep, PTL DEF Spec

=============================================================================
