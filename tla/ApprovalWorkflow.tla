---------------------------- MODULE ApprovalWorkflow ----------------------------
(***************************************************************************)
(* One approval instance (operations/workflow/workflow.mbt) decided by     *)
(* actors with grants of the access directory, or through its delegations, *)
(* while the directory keeps changing.  Weights are Int32 in the code and  *)
(* wrap at IntLimit here.                                                  *)
(***************************************************************************)
EXTENDS AccessDirectory, Integers, Sequences, FiniteSets, FiniteSetsExt

CONSTANTS
  Steps,      \* the definition's steps: [capability, required]
  Assignees,  \* its assignments: [step, actor, weight]
  Subject,    \* the scope decisions are taken in
  Weights,    \* weights actors claim
  IntLimit    \* one above the largest Int

ASSUME StepsAssumption ==
  /\ IntLimit \in Nat \ {0}
  /\ Len(Steps) \in Nat \ {0} /\ DOMAIN Steps = 1..Len(Steps)
  /\ \A i \in DOMAIN Steps : Steps[i].required \in 1..(IntLimit - 1)
ASSUME WeightsAssumption ==
  /\ Weights \subseteq 0..(IntLimit - 1) /\ IsFiniteSet(Assignees)
  /\ \A x \in Assignees : x.weight \in 1..(IntLimit - 1)

VARIABLE instance   \* the process instance: [status, current, actions]

vars == <<dirVars, instance>>

StepIds == DOMAIN Steps
Wrap(n) == ((n + IntLimit) % (2 * IntLimit)) - IntLimit

NotStarted == [status |-> "none", current |-> 1, actions |-> {}]

Action(step, actor, decision, weight, delegation) ==
  [step |-> step, actor |-> actor, decision |-> decision, weight |-> weight,
   delegation |-> delegation]

NoDelegation == "none"
ASSUME DelegationIdsAssumption == \A d \in Delegations : d.id # NoDelegation
\* Who sets the directory up does not decide.
ASSUME AdminGrantsAssumption ==
  \A g \in AdminGrants, i \in StepIds :
    g.scope = Subject => g.capability # Steps[i].capability

DelegationIds == {NoDelegation} \cup {d.id : d \in Delegations}

TypeOK ==
  /\ DirTypeOK
  /\ instance.status \in {"none", "pending", "approved", "rejected"}
  /\ instance.current \in StepIds
  /\ \A x \in instance.actions :
       x \in [step : StepIds, actor : Actors, decision : {"approve", "reject"},
              weight : Weights \ {0}, delegation : DelegationIds]

Init == DirInit /\ instance = NotStarted

-----------------------------------------------------------------------------
Approvals(actions, step) ==
  {x \in actions : x.step = step /\ x.decision = "approve"}

\* What approvals, or assignments, weigh together.
Weigh(set) == MapThenSumSet(LAMBDA x : x.weight, set)

TrueWeight(actions, step) == Weigh(Approvals(actions, step))

\* weight_for_step
WeightForStep(actions, step) == Wrap(TrueWeight(actions, step))

\* assignment_weights; an actor's assignments add up.
Assigned(step) == {x \in Assignees : x.step = step}
ActorWeight(step, actor) ==
  Wrap(Weigh({x \in Assigned(step) : x.actor = actor}))

MayClaim(step, actor, weight) ==
  /\ weight > 0
  /\ Assigned(step) # {} => ActorWeight(step, actor) # 0
  /\ ActorWeight(step, actor) > 0 => weight <= ActorWeight(step, actor)

\* Fault: what an actor decided through a delegation is not counted.
HasAction_DirectOnly(step, actor) ==
  \E x \in instance.actions :
    x.step = step /\ x.actor = actor /\ x.delegation = NoDelegation

HasAction(step, actor) ==
  \E x \in instance.actions : x.step = step /\ x.actor = actor

\* The instance after a decision at its current step.
Decided(decision, actions, step) ==
  LET enough == decision = "approve"
                  /\ WeightForStep(actions, step) >= Steps[step].required
  IN  [actions |-> actions,
       status  |-> CASE decision = "reject" -> "rejected"
                     [] enough /\ step = Len(Steps) -> "approved"
                     [] OTHER -> "pending",
       current |-> IF enough /\ step < Len(Steps) THEN step + 1 ELSE step]

\* start_process
Start ==
  /\ instance = NotStarted
  /\ Authorized("workflow:start", Subject, 0)
  /\ instance' = [NotStarted EXCEPT !.status = "pending"]
  /\ UNCHANGED dirVars

Open(step) == instance.status = "pending" /\ instance.current = step

\* decide_with_source, given that `grant' authorizes the step.
DecideWith(grant, step, decision, weight, actor, delegation) ==
  /\ Open(step)
  /\ MayClaim(step, actor, weight)
  /\ ~ HasAction(step, actor)
  /\ grant.actor = actor /\ grant.scope = Subject
  /\ grant.capability = Steps[step].capability
  /\ LET actions == instance.actions \cup
                      {Action(step, actor, decision, weight, delegation)}
     IN  instance' = Decided(decision, actions, step)

\* decide, with any grant the actor still has.
Decide(step, decision, weight, actor) ==
  /\ \E g \in grants :
       DecideWith(g, step, decision, weight, actor, NoDelegation)
  /\ UNCHANGED dirVars

\* decide_delegated takes the grant from the directory as it is now, and the
\* caller does not get to keep it.
DecideDelegated(step, decision, weight, actor, e, at) ==
  /\ actor = e.of.delegate /\ Effective(e, at)
  /\ DecideWith(DelegatedGrant(e.of), step, decision, weight, actor, e.of.id)
  /\ UNCHANGED dirVars

Next ==
  \/ DirNext /\ UNCHANGED instance
  \/ Start
  \/ \E step \in StepIds, decision \in {"approve", "reject"}, weight \in Weights,
        actor \in Actors :
       \/ Decide(step, decision, weight, actor)
       \/ \E e \in delegations, at \in Epochs :
            DecideDelegated(step, decision, weight, actor, e, at)

Spec == Init /\ [][Next]_vars

-----------------------------------------------------------------------------
(***************************************************************************)
(* Properties.                                                             *)
(***************************************************************************)

Passed(step) == step < instance.current \/ instance.status = "approved"

\* A step is passed only with the full weight, counted without wrapping, and
\* unopposed.
QuorumReached ==
  \A step \in StepIds : Passed(step) =>
    /\ TrueWeight(instance.actions, step) >= Steps[step].required
    /\ \A x \in instance.actions : x.step = step => x.decision = "approve"

\* An actor speaks once at a step, as itself or through a delegation, and with
\* no more than the weight its assignments give it.
OneVoice ==
  \A x \in instance.actions :
    /\ \A y \in instance.actions : x.step = y.step /\ x.actor = y.actor => x = y
    /\ Assigned(x.step) # {} =>
         x.weight <= Weigh({a \in Assigned(x.step) : a.actor = x.actor})

\* Where a rule has separated two steps since before any assignment, an actor
\* who decided both used a delegation, or lost an assignment and kept its grant.
DecidedApart ==
  \A rule \in rules : \A x, y \in instance.actions :
    (/\ rule.scope = Subject /\ x.actor = y.actor
     /\ {Steps[x.step].capability, Steps[y.step].capability}
          = {rule.first, rule.second})
    => \/ x.delegation # NoDelegation \/ y.delegation # NoDelegation
       \/ \E e \in delegations : DelegatedGrant(e.of) \in grants
       \/ \E a \in assignments : a.actor = x.actor /\
            (~ a.active \/ Splits(rule, a.role, a.role))

\* Nobody is assigned both sides of a rule, and in no other way than those named
\* does anybody decide two separated steps (assign_role, add_sod_rule, decide).
FourEyes == SeparationHolds /\ DecidedApart

\* What an instance records was really decided: a step that was passed has its
\* quorum, of actors who each spoke once with the weight they had (decide).
DecisionsSound == TypeOK /\ QuorumReached /\ OneVoice

=============================================================================
