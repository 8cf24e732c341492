---------------------------- MODULE AccessDirectory ----------------------------
(***************************************************************************)
(* The authority directory (foundation/access/access.mbt) of one           *)
(* principal: roles, their assignments, separation rules and delegations,  *)
(* and the grants it issues.  A grant is a value: whoever has it keeps it, *)
(* so `grants' only grows.  Every change of the directory needs a grant    *)
(* itself (foundation/identity.mbt, require_authority).                    *)
(***************************************************************************)
EXTENDS Naturals

CONSTANTS
  Actors,
  Roles,          \* role values: [id, permissions], a permission is
                  \* [capability, scope, max]
  AssignmentIds, Scopes,
  Amounts,        \* assignment caps and requested amounts
  Rules,          \* separation rules: [id, first, second, scope]
  Delegations,    \* [id, delegator, delegate, capability, scope, max, from, until]
  Epochs,
  AdminGrants     \* grants in circulation before the directory is set up

ASSUME AmountsAssumption == Amounts \subseteq Nat
ASSUME RolesAssumption ==
  \A r \in Roles : \A p, q \in r.permissions :
    /\ p.max \in Nat
    /\ p.capability = q.capability /\ p.scope = q.scope => p = q
ASSUME DelegationsAssumption == \A d \in Delegations : d.max \in Nat

VARIABLES
  roles, assignments, rules,
  delegations,   \* delegations with their `active' flag
  grants

dirVars == <<roles, assignments, rules, delegations, grants>>

Grant(actor, capability, scope, max) ==
  [actor |-> actor, capability |-> capability, scope |-> scope, max |-> max]

\* require_authority with a grant somebody holds.
Authorized(capability, scope, amount) ==
  \E g \in grants :
    g.capability = capability /\ g.scope = scope /\ amount <= g.max

Capabilities ==
  UNION {{p.capability : p \in r.permissions} : r \in Roles}

IdsOnce(set) == \A x, y \in set : x.id = y.id => x = y

DirTypeOK ==
  /\ roles \subseteq Roles /\ IdsOnce(roles)
  /\ assignments \subseteq
       [id : AssignmentIds, role : Roles, actor : Actors, scope : Scopes,
        max : Amounts, active : BOOLEAN]
  /\ IdsOnce(assignments)
  /\ \A a \in assignments : a.role \in roles
  /\ rules \subseteq Rules /\ IdsOnce(rules)
  /\ delegations \subseteq [of : Delegations, active : BOOLEAN]
  /\ \A d, e \in delegations : d.of.id = e.of.id => d = e

DirInit ==
  /\ roles = {} /\ assignments = {} /\ rules = {} /\ delegations = {}
  /\ grants = AdminGrants

-----------------------------------------------------------------------------
(***************************************************************************)
(* Separation of duties.                                                   *)
(***************************************************************************)

HasCapability(role, capability, scope) ==
  \E p \in role.permissions : p.capability = capability /\ p.scope = scope

\* Two roles hold the two sides of a rule between them.
Splits(rule, r, s) ==
  \/ HasCapability(r, rule.first, rule.scope)
       /\ HasCapability(s, rule.second, rule.scope)
  \/ HasCapability(r, rule.second, rule.scope)
       /\ HasCapability(s, rule.first, rule.scope)

\* existing_assignments_violate_rule, over pairs of distinct assignments.
RuleBroken(rule) ==
  \E a, b \in {x \in assignments : x.active /\ x.scope = rule.scope} :
    a.id # b.id /\ a.actor = b.actor /\ Splits(rule, a.role, b.role)

\* Fault: only the order in which the rule names its sides is checked.
Separated_OneWay(role, actor, scope) ==
  \A rule \in {x \in rules : x.scope = scope} :
    \A a \in {x \in assignments : x.active /\ x.actor = actor /\ x.scope = scope} :
      ~ (HasCapability(role, rule.first, rule.scope)
           /\ HasCapability(a.role, rule.second, rule.scope))

\* violates_separation, negated.
Separated(role, actor, scope) ==
  \A rule \in {x \in rules : x.scope = scope} :
    /\ ~ Splits(rule, role, role)
    /\ \A a \in {x \in assignments : x.active /\ x.actor = actor /\ x.scope = scope} :
         ~ Splits(rule, role, a.role)

-----------------------------------------------------------------------------
(***************************************************************************)
(* Operations.  A refused one changes nothing.                             *)
(***************************************************************************)

AddRole(role) ==
  /\ Authorized("rbac:role:create", role.id, 0)
  /\ \A r \in roles : r.id # role.id
  /\ roles' = roles \cup {role}
  /\ UNCHANGED <<assignments, rules, delegations, grants>>

AssignRole(id, role, actor, scope, max) ==
  /\ role \in roles
  /\ Separated(role, actor, scope)
  /\ Authorized("rbac:assignment:create", scope, 0)
  /\ \A a \in assignments : a.id # id
  /\ assignments' = assignments \cup
       {[id |-> id, role |-> role, actor |-> actor, scope |-> scope,
         max |-> max, active |-> TRUE]}
  /\ UNCHANGED <<roles, rules, delegations, grants>>

RevokeRole(a) ==
  /\ Authorized("rbac:assignment:revoke", a.scope, 0)
  /\ assignments' = (assignments \ {a}) \cup {[a EXCEPT !.active = FALSE]}
  /\ UNCHANGED <<roles, rules, delegations, grants>>

AddRule(rule) ==
  /\ rule.first # rule.second
  /\ Authorized("rbac:sod:rule:create", rule.scope, 0)
  /\ \A r \in rules :
       /\ r.id # rule.id
       /\ r.scope = rule.scope => {r.first, r.second} # {rule.first, rule.second}
  /\ ~ RuleBroken(rule)
  /\ rules' = rules \cup {rule}
  /\ UNCHANGED <<roles, assignments, delegations, grants>>

AddDelegation(d) ==
  /\ d.delegator # d.delegate /\ d.from < d.until
  /\ Authorized("rbac:delegation:create", d.scope, d.max)
  /\ \A e \in delegations : e.of.id # d.id
  /\ delegations' = delegations \cup {[of |-> d, active |-> TRUE]}
  /\ UNCHANGED <<roles, assignments, rules, grants>>

RevokeDelegation(e) ==
  /\ Authorized("rbac:delegation:revoke", e.of.scope, 0)
  /\ delegations' = (delegations \ {e}) \cup {[e EXCEPT !.active = FALSE]}
  /\ UNCHANGED <<roles, assignments, rules, grants>>

\* Fault: the assignment's own cap is ignored.
Ceiling_Role(a, p) == p.max

Ceiling(a, p) == IF p.max < a.max THEN p.max ELSE a.max

IssueGrant(a, capability, amount) ==
  /\ a.active
  /\ \E p \in a.role.permissions :
       /\ p.capability = capability /\ p.scope = a.scope
       /\ amount <= Ceiling(a, p)
       /\ grants' = grants \cup {Grant(a.actor, capability, a.scope, Ceiling(a, p))}
  /\ UNCHANGED <<roles, assignments, rules, delegations>>

Effective(e, at) == e.active /\ at >= e.of.from /\ at < e.of.until

DelegatedGrant(d) == Grant(d.delegate, d.capability, d.scope, d.max)

IssueDelegatedGrant(e, at, amount) ==
  /\ Effective(e, at) /\ amount <= e.of.max
  /\ grants' = grants \cup {DelegatedGrant(e.of)}
  /\ UNCHANGED <<roles, assignments, rules, delegations>>

DirNext ==
  \/ \E role \in Roles : AddRole(role)
  \/ \E id \in AssignmentIds, role \in Roles, actor \in Actors, scope \in Scopes,
        max \in Amounts : AssignRole(id, role, actor, scope, max)
  \/ \E a \in assignments :
       RevokeRole(a) \/ \E c \in Capabilities, m \in Amounts : IssueGrant(a, c, m)
  \/ \E rule \in Rules : AddRule(rule)
  \/ \E d \in Delegations : AddDelegation(d)
  \/ \E e \in delegations :
       \/ RevokeDelegation(e)
       \/ \E at \in Epochs, m \in Amounts : IssueDelegatedGrant(e, at, m)

DirSpec == DirInit /\ [][DirNext]_dirVars

-----------------------------------------------------------------------------
(***************************************************************************)
(* Properties.                                                             *)
(***************************************************************************)

\* However rules, assignments and revocations interleave, no two assignments
\* of one actor hold the two sides of a rule between them.
SeparationHolds ==
  \A rule \in rules : ~ RuleBroken(rule)

\* Every grant issued stays within what somebody granted: an assignment (in
\* force or since revoked) and its role's permission, or a delegation.
GrantsNeverWiden ==
  \A g \in grants \ AdminGrants :
    \/ \E a \in assignments : \E p \in a.role.permissions :
         /\ g.actor = a.actor /\ g.scope = a.scope /\ p.scope = a.scope
         /\ g.capability = p.capability
         /\ g.max <= p.max /\ g.max <= a.max
    \/ \E e \in delegations :
         /\ g.actor = e.of.delegate /\ g.scope = e.of.scope
         /\ g.capability = e.of.capability /\ g.max <= e.of.max

\* Nothing is reissued after revocation: a new grant has a source in force.
IssuedFromForce ==
  [][\A g \in grants' \ grants :
       \/ \E a \in assignments : a.active /\ g.actor = a.actor /\ g.scope = a.scope
                                 /\ HasCapability(a.role, g.capability, g.scope)
       \/ \E e \in delegations : e.active /\ g = DelegatedGrant(e.of)]_dirVars

=============================================================================
