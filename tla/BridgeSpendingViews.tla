------------------------- MODULE BridgeSpendingViews -------------------------
(***************************************************************************)
(* The reads of the Python bridge on contracts, their milestones, payment  *)
(* plans and payment applications, and on expense claims.                  *)
(*                                                                         *)
(* Rows of the tables:                                                     *)
(*   contract   id, gone (deleted_at), unit (bu_guid)                      *)
(*   apply      id, gone, contract, plan, unit, by, apply and pay (states) *)
(*   plan       id, contract, unit, trigger, planned (in applications),    *)
(*              due (the date has come)                                    *)
(*   milestone  id, contract                                               *)
(*   expense    id, gone, by, state                                        *)
(*   detail     id, expense                                                *)
(***************************************************************************)
EXTENDS BridgeLedger, Integers

PaidStates == {"full", "part"}

-----------------------------------------------------------------------------
(***************************************************************************)
(* Contracts                                                               *)
(***************************************************************************)
\* A local contract that was deleted lets the imported one through.
Contracts ==
  Overlay({[id |-> c, kind |-> "imported", state |-> "active"] :
             c \in promoted.contract},
          {[id |-> l.id, kind |-> "command", state |-> l.state] :
             l \in Kept("contract", {"deleted"})})

\* What this list counts as paid and as milestones of a contract.
ContractPaid(c) == {a \in raw.apply : a.contract = c /\ a.pay = "full"}

ContractMilestones(c) ==
  {m \in Imported(Projected("milestone")) : m.contract = c}
    \cup {m \in Commanded(Kept("milestone", {"deleted"})) : m.contract = c}

\* Plans promoted to milestones and local milestones, each listed for itself.
LatestMilestones(dropped) ==
  {[id |-> m.id, kind |-> "imported", contract |-> m.contract] :
     m \in Projected("milestone")}
    \cup {[id |-> l.id, kind |-> "command", contract |-> l.contract] :
            l \in Kept("milestone", dropped)}

MilestonesOf(c) == {m \in LatestMilestones({"deleted"}) : m.contract = c}

\* The source-shaped list: every staged contract, deleted or not, and the
\* local ones.  No local contract is shown for one unit.
SourceRow(c) ==
  [id |-> c.id, kind |-> "imported",
   paid |-> {a \in raw.apply : a.contract = c.id /\ a.pay \in PaidStates},
   milestones |-> {[id |-> m.id, kind |-> "imported", contract |-> m.contract] :
                     m \in {n \in raw.milestone : n.contract = c.id}}]

CommandRow(c) ==
  [id |-> c.id, kind |-> "command", paid |-> {}, milestones |-> MilestonesOf(c.id)]

SourceContracts(unit) ==
  {SourceRow(c) : c \in {r \in raw.contract : Fits(unit, r.unit)}}
    \cup IF unit # NoFilter THEN {}
         ELSE {CommandRow(c) : c \in {d \in Contracts : d.kind = "command"}}

\* The page of one contract, if there is one: the staged row if there is one, with the plans
\* and applications of its own unit, and all milestones.
Page(c, kind, unit) ==
  LET applies == {a \in raw.apply : a.contract = c /\ a.unit = unit}
  IN [id |-> c, kind |-> kind, applies |-> applies,
      plans |-> {p \in raw.plan : p.contract = c /\ p.unit = unit},
      paid |-> {a \in applies : a.pay \in PaidStates},
      milestones |->
        {[id |-> m.id, kind |-> "imported", contract |-> c] :
           m \in {n \in raw.milestone : n.contract = c}}
          \cup {m \in MilestonesOf(c) : m.kind = "command"}]

ContractPage(c) ==
  IF In("contract", c) THEN {Page(c, "imported", Row("contract", c).unit)}
  ELSE {Page(d.id, "command", NoFilter) :
          d \in {e \in Contracts : e.id = c /\ e.kind = "command"}}

-----------------------------------------------------------------------------
(***************************************************************************)
(* Payment applications                                                    *)
(***************************************************************************)
\* The state an imported application is shown in.
OperationState(a) ==
  CASE a.pay = "full" -> "paid"
    [] a.pay = "part" -> "partially_paid"
    [] a.pay \notin PaidStates /\ a.apply = "approving" -> "submitted"
    [] OTHER -> a.apply

Applications ==
  Overlay({[id |-> a.id, kind |-> "imported", contract |-> a.contract,
            state |-> OperationState(a)] : a \in Projected("payment")},
          {[id |-> l.id, kind |-> "command", contract |-> l.contract,
            state |-> l.state] : l \in local.payment})

Views == {"approving", "approved", "fullpaid"}

\* The tabs of the list.
PaymentApplications(view) ==
  {a \in Applications :
     CASE view = "all" -> TRUE
       [] view = "approving" -> a.state = "submitted"
       [] view = "approved" -> a.state = "approved"
       [] view = "fullpaid" -> a.state = "paid"}

ImportedInView(a, view, user) ==
  CASE view = "all" -> TRUE
    [] view = "mine" -> user # NoFilter /\ a.by = user
    [] view = "approving" -> a.apply = "approving"
    [] view = "approved" -> a.apply = "approved"
    [] view = "fullpaid" -> a.pay = "full"

\* A local application is never paid here.
CommandInView(l, view, user) ==
  CASE view = "all" -> TRUE
    [] view = "mine" -> user # NoFilter /\ l.by = user
    [] view = "approving" -> l.state = "submitted"
    [] view = "approved" -> l.state = "approved"
    [] view = "fullpaid" -> FALSE

\* The source-shaped list: the applications of staged contracts; a local one
\* is not shown for a deleted contract.
SourceApplications(view, unit, user) ==
  {[id |-> a.id, kind |-> "imported"] :
     a \in {r \in Live("apply") :
              /\ In("contract", r.contract)
              /\ Fits(unit, r.unit) /\ Fits(user, r.by)
              /\ ImportedInView(r, view, user)}}
    \cup
  {[id |-> l.id, kind |-> "command"] :
     l \in {d \in local.payment :
              \E c \in Live("contract") :
                /\ c.id = d.contract
                /\ Fits(unit, c.unit) /\ Fits(user, d.by)
                /\ CommandInView(d, view, user)}}

\* What there is to say against an application for a promoted milestone.
\* Fault: a part payment does not count against what was planned.
Counted_Full(p) == {a \in raw.apply : a.plan = p /\ a.pay = "full"}

Counted(p) == {a \in raw.apply : a.plan = p /\ a.pay \in PaidStates}

Eligibility(p, amount) ==
  IF p \notin promoted.milestone THEN {"unknown"}
  ELSE LET m == Row("plan", p)
       IN {w \in {"early", "review", "over"} :
             CASE w = "early" -> m.trigger = "time" /\ ~m.due
               [] w = "review" -> m.trigger \in {"progress", "event"}
               [] w = "over" ->
                    /\ m.planned > 0
                    /\ Cardinality(Counted(p)) + amount > m.planned}

-----------------------------------------------------------------------------
(***************************************************************************)
(* Expense claims: the local ones and the imported ones are never merged.  *)
(***************************************************************************)
Expenses == {[id |-> l.id, state |-> l.state] : l \in local.expense}

BudgetExpenses(user, state) ==
  {e \in Live("expense") : Fits(user, e.by) /\ Fits(state, e.state)}

\* The page answers with the rows of a claim even when the claim is not shown.
BudgetExpensePage(e, user) ==
  [expense |-> {r \in BudgetExpenses(user, NoFilter) : r.id = e},
   details |-> {r \in raw.detail : r.expense = e}]

-----------------------------------------------------------------------------
(***************************************************************************)
(* The worlds the properties are about                                     *)
(***************************************************************************)
\* The world has the families the reads are of; what the source says of an
\* application is one of the classes both lists take it for, what is planned is a
\* number, and a milestone is drafted for a contract.
HasSpending ==
  /\ {"contract", "payment", "milestone"} \subseteq Families
  /\ \A s \in Scopes :
       /\ "apply" \in DOMAIN s.imports => \A a \in s.imports["apply"] :
            a.apply \in {"draft", "approving", "approved", "rejected"}
       /\ "plan" \in DOMAIN s.imports => \A p \in s.imports["plan"] : p.planned \in Int
       /\ "milestone" \in DOMAIN s.drafts => \A d \in s.drafts["milestone"] :
            "contract" \in DOMAIN d

-----------------------------------------------------------------------------
(***************************************************************************)
(* Properties                                                              *)
(***************************************************************************)
\* A list that lays local records over imported ones names each record once,
\* whichever came first (contracts; payment_applications).
SpendingListedOnce ==
  OnceEach(Contracts) /\ OnceEach(PaymentApplications("all"))

\* The list of contracts and the page of one agree (cost_source_contracts,
\* cost_source_contract_detail): a contract has a page exactly if it is listed,
\* one of its rows is of the kind the page says it is, and the page shows every
\* milestone that row counts; what the other list (contracts) counts as paid and
\* as milestones is on the page too, but for payments of another unit.
ContractPagesAgree ==
  \A c \in Known("contract") \cup Drafted("contract") :
    /\ c \in Ids(SourceContracts(NoFilter)) <=> ContractPage(c) # {}
    /\ \A p \in ContractPage(c) :
         /\ \E r \in SourceContracts(NoFilter) :
              /\ r.id = c /\ r.kind = p.kind
              /\ r.milestones \subseteq p.milestones
         /\ p.paid \subseteq SourceRow([id |-> c]).paid
         /\ p.kind = "imported" =>
              {a \in ContractPaid(c) : a.unit = Row("contract", c).unit} \subseteq p.paid
         /\ Ids({m \in ContractMilestones(c) : m.kind = "command"}) \subseteq
              Ids(p.milestones)

\* What is paid is paid everywhere: an application that the contract page
\* counts as paid counts against the milestone it was made for, so a milestone
\* with nothing left is never offered for more (payment_application_eligibility,
\* cost_source_contract_detail).
PaidCounts ==
  \A c \in Known("contract"), m \in Projected("milestone") :
    \A p \in ContractPage(c) :
      m.planned > 0 /\ Cardinality({a \in p.paid : a.plan = m.id}) >= m.planned
        => "over" \in Eligibility(m.id, 1)

\* Where the two lists of applications both show one, a tab of the first never
\* holds what the same tab of the second leaves out (payment_applications,
\* cost_source_payment_applications).
TabsAgree ==
  \A view \in Views : \A a \in PaymentApplications(view) :
    LET r == [id |-> a.id, kind |-> a.kind]
    IN r \in SourceApplications("all", NoFilter, NoFilter) =>
         r \in SourceApplications(view, NoFilter, NoFilter)

\* The reads on contracts, their milestones and applications tell one story,
\* whichever order rows were staged, promoted and commanded in.
SpendingAgrees ==
  LedgerTypeOK /\ SpendingListedOnce /\ ContractPagesAgree /\ PaidCounts /\ TabsAgree

=============================================================================
