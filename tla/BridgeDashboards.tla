--------------------------- MODULE BridgeDashboards ---------------------------
(***************************************************************************)
(* The dashboards and reports of the Python bridge: dynamic cost, the      *)
(* group and project dashboards, and the five reports.  All of them but    *)
(* the dynamic cost and the milestone check look at the staged rows only,  *)
(* and many of them at the deleted ones as well.                           *)
(*                                                                         *)
(* Rows of the tables, beside those of the modules extended:               *)
(*   unit        id, gone, company                                         *)
(*   contract    also unit, settled    apply, expense  also pay            *)
(*   share       also gone, r                                              *)
(*   cost        id, gone, proj, end, target, cost (what it comes to)      *)
(*   milestone   id, gone, contract, trigger, day, task, reached, planned, *)
(*               paid                                                      *)
(*   instance    also unit, proj, gone                                     *)
(*   found       id, gone, unit, proj, state (warnings of the source)      *)
(*   customer, subscribed, sale (its state), mortgage, refund (sale, state)*)
(*   tender, award (tender): id, gone, unit, proj, state                   *)
(* A drafted dynamic cost or milestone has the fields of a row but gone.   *)
(***************************************************************************)
EXTENDS BridgeWorkViews, BridgeCashViews

-----------------------------------------------------------------------------
(***************************************************************************)
(* Dynamic cost                                                            *)
(***************************************************************************)
CostItem(k, kind) ==
  [id |-> k.id, kind |-> kind, end |-> k.end, target |-> k.target, cost |-> k.cost]

CostItems(proj) ==
  {CostItem(k, "imported") : k \in {r \in Live("cost") : r.proj = proj}}
    \cup {CostItem(k, "command") :
            k \in {l \in Kept("dynamic_cost", Gone) : l.proj = proj}}

\* The items, and those of the lowest level, which the sums are over.
DynamicCost(proj) ==
  [items |-> CostItems(proj), summed |-> {k \in CostItems(proj) : k.end}]

CostRemark(id) ==
  LET staged == {r \in Live("cost") : r.id = id}
  IN IF staged # {} THEN {CostItem(k, "imported") : k \in staged}
     ELSE {CostItem(k, "command") : k \in {l \in Kept("dynamic_cost", Gone) : l.id = id}}

\* What speaks against paying for a milestone: a local one comes first.
MilestoneCheck(id, amount) ==
  LET own == {l \in Kept("milestone", Gone) : l.id = id}
      found == IF own # {} THEN own ELSE {r \in Live("milestone") : r.id = id}
      Against(m) ==
        {w \in {"early_time", "early_progress", "early_event", "over_pay"} :
           \/ w = "early_time" /\ m.trigger = "time" /\ m.day > Today
           \/ /\ w = "early_progress" /\ m.trigger = "progress"
              /\ \E t \in raw.task : t.id = m.task /\ t.state # "done"
           \/ w = "early_event" /\ m.trigger = "event" /\ ~m.reached
           \/ w = "over_pay" /\ m.planned > 0 /\ m.paid + amount > m.planned}
  IN {[id |-> m.id, against |-> Against(m)] : m \in found}

-----------------------------------------------------------------------------
(***************************************************************************)
(* The cost dashboard of a project                                         *)
(***************************************************************************)
\* The contracts that the cost dashboard looks at.
Classified(proj) == {c \in Live("contract") : c.proj = proj /\ c.r # ""}

Confirmed == {"approved", "Approved"}

Underway == {"approving", "Approving"}

\* Fault: a contract on its way is looked for among the signed ones.
CostLeaf_Signed(proj, code) ==
  LET Contracts(states) ==
        {[kind |-> "contract", id |-> c.id] :
           c \in {k \in Classified(proj) : k.leaf = code /\ k.state \in states}}
      Shares(states) ==
        {[kind |-> "share", id |-> s.id] : s \in {t \in raw.share :
           t.leaf = code /\ \E e \in ExpenseOf(t) : e.apply \in states}}
      ChangesIn(states) ==
        {[kind |-> "change", id |-> c.id] : c \in {h \in Live("change") :
           h.proj = proj /\ h.leaf = code /\ h.state \in states}}
  IN [d |-> Contracts(Committed) \cup Shares(Confirmed) \cup ChangesIn({"confirmed"}),
      e |-> Contracts(Committed) \cup Shares(Underway),
      g |-> ChangesIn({"estimated", "approving"})]

\* What is used of a leaf (d), on its way (e) and foreseen (g).
CostLeaf(proj, code) ==
  LET Contracts(states) ==
        {[kind |-> "contract", id |-> c.id] :
           c \in {k \in Classified(proj) : k.leaf = code /\ k.state \in states}}
      Shares(states) ==
        {[kind |-> "share", id |-> s.id] : s \in {t \in raw.share :
           t.leaf = code /\ \E e \in ExpenseOf(t) : e.apply \in states}}
      ChangesIn(states) ==
        {[kind |-> "change", id |-> c.id] : c \in {h \in Live("change") :
           h.proj = proj /\ h.leaf = code /\ h.state \in states}}
  IN [d |-> Contracts(Committed) \cup Shares(Confirmed) \cup ChangesIn({"confirmed"}),
      e |-> Contracts({"approving"}) \cup Shares(Underway),
      g |-> ChangesIn({"estimated", "approving"})]

\* The leaves of the version with what became of each, what came in, and the
\* contracts of no class (of those that were given one).
CostDashboard(proj, version) ==
  {[leaves |-> {[code |-> l.code, a |-> l.amount, used |-> CostLeaf(proj, l.code)] :
                  l \in CbsDict(proj, version, NoFilter)},
    received |-> {r \in Live("revenue") : r.proj = proj /\ r.state = "received"},
    r0 |-> {c \in Classified(proj) : c.r = "R0"}] :
     p \in {q \in Live("project") : q.id = proj}}

-----------------------------------------------------------------------------
(***************************************************************************)
(* What several dashboards count                                           *)
(***************************************************************************)
PaidOut == {"part", "full"}

Patience == 7

EndCosts(proj) == {k \in raw.cost : k.end /\ Fits(proj, k.proj)}

\* By how much the costs of the lowest level exceed their targets.
Total(rows, F(_)) == MapThenSumSet(F, rows)

Target(proj) == Total(EndCosts(proj), LAMBDA k : k.target)

Exceeds(proj, percent) ==
  LET spent == Total(EndCosts(proj), LAMBDA k : k.cost)
  IN Target(proj) > 0 /\ spent * 100 > Target(proj) * (100 + percent)

\* Approvals that have been running for more than a week.
Slow == {i \in raw.instance : i.state = "Running" /\ Today - i.at > Patience}

\* The approvals of a project: those of its applications and of the expenses of
\* its unit, deleted or not.
ApprovalsOf(p) ==
  Ids({a \in raw.apply : a.proj = p.id}) \cup Ids({e \in raw.expense : e.unit = p.unit})

ProjectsIn(unit, proj) ==
  {p \in Live("project") : Fits(unit, p.unit) /\ Fits(proj, p.id)}

\* The rows of a scope, deleted or not.
Scoped(t, unit, proj) == {r \in raw[t] : Fits(unit, r.unit) /\ Fits(proj, r.proj)}

InScope(t, unit, proj) == {r \in Scoped(t, unit, proj) : ~r.gone}

OfState(rows, states) == {r \in rows : r.state \in states}

-----------------------------------------------------------------------------
(***************************************************************************)
(* The group dashboard                                                     *)
(***************************************************************************)
GroupOverview ==
  [companies |-> {u \in raw.unit : u.company},
   projects |-> Live("project"),
   busy |-> {i.proj : i \in OfState(raw.stage_of, {"in_progress"})},
   contracts |-> raw.contract,
   paid |-> {a \in raw.apply : a.pay \in PaidOut},
   costs |-> EndCosts(NoFilter),
   approvals |-> Slow,
   tasks |-> {t \in raw.task : Delayed(t)}]

\* The projects that have reached each stage.
Funnel ==
  [s \in Ids(raw.stage) |->
     {i.proj : i \in {j \in OfState(raw.stage_of, {"in_progress", "done"}) : j.stage = s}}]

\* The projects of the highest risk, those that share the last place too.
TopAnomalies(limit) ==
  LET Late(p) == {t \in raw.task : t.proj = p.id /\ Delayed(t)}
      Excess(p) == Total(EndCosts(p.id), LAMBDA k : k.cost) - Target(p.id)
      Score(p) ==
        (IF Exceeds(p.id, 0) THEN (Excess(p) * 1000) \div Target(p.id) ELSE 0)
          + Cardinality(Late(p)) * 20
      Above(p) == {q \in Live("project") : Score(q) > Score(p)}
  IN {[id |-> p.id, score |-> Score(p), late |-> Late(p),
       nodes |-> {t \in raw.task : t.proj = p.id /\ t.type = "key_node"
                                     /\ t.state = "in_progress"}] :
        p \in {q \in Live("project") : Cardinality(Above(q)) < limit}}

\* The second group dashboard.  Only projects leave the deleted rows out.
CockpitContracts(unit, proj) ==
  {c \in raw.contract :
     /\ Fits(unit, c.unit)
     /\ proj # NoFilter => c.proj \in Ids(ProjectsIn(unit, proj))}

CockpitApplies(unit, proj) ==
  {a \in raw.apply :
     /\ Fits(unit, a.unit)
     /\ proj # NoFilter => a.proj \in Ids(ProjectsIn(unit, proj))}

Awaits(a) == a.apply = "approved" /\ a.pay = "unpaid"

Cockpit(unit, proj) ==
  LET contracts == CockpitContracts(unit, proj)
      applies == CockpitApplies(unit, proj)
  IN [projects |-> ProjectsIn(unit, proj),
      busy |-> {p \in ProjectsIn(unit, proj) : p.busy},
      open |-> {c \in contracts : ~c.settled},
      unpaid |-> {a \in applies : Awaits(a)},
      warnings |-> OfState(Scoped("found", unit, proj), {"open"}),
      running |-> {i \in raw.instance : i.state = "Running" /\ Fits(unit, i.unit)},
      planned |-> {p \in raw.plan : p.contract \in Ids(contracts)},
      actual |-> {a \in applies : a.apply = "approved"}]

-----------------------------------------------------------------------------
(***************************************************************************)
(* The third group dashboard leaves the deleted rows out                   *)
(***************************************************************************)
CenterSales(unit, proj) ==
  LET sales == InScope("sale", unit, proj)
      OfSales(t) ==
        {r \in Live(t) : {unit, proj} = {NoFilter} \/ r.sale \in Ids(sales)}
      revenues == InScope("revenue", unit, proj)
  IN [customers |-> InScope("customer", unit, proj),
      subscribed |-> InScope("subscribed", unit, proj),
      signed |-> OfState(sales, {"signed"}),
      released |-> OfState(OfSales("mortgage"), {"released"}),
      refunds |-> OfState(OfSales("refund"), {"approved"}),
      received |-> OfState(revenues, {"received"}),
      expected |-> OfState(revenues, {"expected"})]

CenterContracts(unit, proj) ==
  LET contracts == InScope("contract", unit, proj)
  IN [signed |-> OfState(contracts, Committed),
      approving |-> OfState(contracts, {"approving"}),
      r0 |-> {c \in contracts : c.r \in {"", "R0"}},
      unpaid |-> {a \in InScope("apply", unit, proj) : Awaits(a)}]

\* What was paid, and what of it each class took: an application is of the
\* class of its contract, if that one is of the scope and has a class.
CenterPaid(unit, proj) ==
  LET applies == {a \in InScope("apply", unit, proj) : a.pay \in PaidOut}
      expenses == {e \in InScope("expense", unit, proj) : e.pay \in PaidOut}
      ClassOf(a) ==
        LET of == {c \in InScope("contract", unit, proj) : c.id = a.contract /\ c.r # ""}
        IN IF of = {} THEN "R0" ELSE (CHOOSE c \in of : TRUE).r
      shares == {s \in Live("share") : s.expense \in Ids(expenses)}
      Class(s) == IF s.r = "" THEN "R0" ELSE s.r
  IN [applies |-> applies, expenses |-> expenses,
      byClass |-> [r \in {ClassOf(a) : a \in applies} \cup {Class(s) : s \in shares} |->
                     [applies |-> {a \in applies : ClassOf(a) = r},
                      shares |-> {s \in shares : Class(s) = r}]],
      byUnit |-> IF {unit, proj} # {NoFilter} THEN <<>>
                 ELSE [u \in Ids({v \in Live("unit") : v.company}) |->
                         {a \in applies : a.unit = u}]]

\* The leaves of the active versions, and those of which more was contracted
\* than planned in the whole scope.
CenterBudget(unit, proj) ==
  LET leaves == {l \in InScope("leaf", unit, proj) :
                   \E v \in Live("version") :
                     v.active /\ v.proj = l.proj /\ v.id = l.version}
      used(l) == {c \in InScope("contract", unit, proj) :
                    c.leaf = l.code /\ c.state \in Committed \cup {"approving"}}
  IN [leaves |-> leaves,
      over |-> {l \in leaves : l.amount > 0 /\ Cardinality(used(l)) > l.amount}]

CenterWork(unit, proj) ==
  LET tenders == InScope("tender", unit, proj)
      whole == {unit, proj} = {NoFilter}
  IN [active |-> OfState(InScope("progress", unit, proj), {"pending", "in_progress"}),
      done |-> OfState(InScope("progress", unit, proj), {"completed"}),
      tenders |-> OfState(tenders, {"planning", "publishing", "bidding"}),
      awards |-> {w \in Live("award") : whole \/ w.tender \in Ids(tenders)},
      warnings |-> OfState(InScope("found", unit, proj), {"open"}),
      running |-> {i \in OfState(Live("instance"), {"Running"}) :
                     \/ whole
                     \/ Fits(unit, i.unit) /\ Fits(proj, i.proj)
                     \/ i.proj \in Ids(ProjectsIn(unit, proj))}]

\* The periods whose fund plans do not balance: the staged ones only.
CenterFunds(unit, proj) ==
  LET plans == InScope("fund_plan", unit, proj)
      Planned(period, out) == {p \in plans : p.period = period /\ p.out = out}
  IN {[period |-> t, in |-> Planned(t, FALSE), out |-> Planned(t, TRUE)] :
        t \in {p.period : p \in plans}}

-----------------------------------------------------------------------------
(***************************************************************************)
(* The project dashboard                                                   *)
(***************************************************************************)
\* What is planned this month is looked up in a wrapper of the plan's row that
\* has no such field, and nothing is found.
ProjectKpi(proj) ==
  LET nodes == {t \in raw.task : t.proj = proj /\ t.type = "key_node"}
      applies == {a \in raw.apply : a.proj = proj}
  IN {[nodes |-> nodes,
       late |-> {t \in nodes : t.state # "done" /\ t.end < Today},
       costs |-> EndCosts(proj),
       contracts |-> {c \in raw.contract : c.proj = proj},
       applies |-> applies,
       paid |-> {a \in applies : a.pay \in PaidOut},
       approvals |-> {i \in Slow : i.biz \in ApprovalsOf(p)},
       planned |-> {}] :
        p \in {q \in Live("project") : q.id = proj}}

ProjectAnomalies(proj) ==
  {[cost |-> Exceeds(proj, 1),
    late |-> {t \in raw.task : t.proj = proj /\ t.type = "key_node" /\ Delayed(t)},
    approvals |-> {i \in Slow : i.biz \in ApprovalsOf(p)}] :
     p \in {q \in Live("project") : q.id = proj}}

-----------------------------------------------------------------------------
(***************************************************************************)
(* Reports count the deleted rows                                          *)
(***************************************************************************)
CostSummary == {[id |-> p.id, costs |-> EndCosts(p.id)] : p \in raw.project}

PaymentLedger ==
  {[id |-> c.id,
    plans |-> {p \in raw.plan : p.contract = c.id},
    applied |-> {a \in raw.apply : a.contract = c.id /\ a.apply = "approved"},
    paid |-> {a \in raw.apply : a.contract = c.id /\ a.pay \in PaidOut}] :
     c \in raw.contract}

\* Approvals by the type of their document.
ApprovalEfficiency ==
  [b \in {i.type : i \in raw.instance} |->
     LET of == {i \in raw.instance : i.type = b}
     IN [all |-> of,
         completed |-> OfState(of, {"Completed", "Archived"}),
         rejected |-> OfState(of, {"Rejected"}),
         running |-> OfState(of, {"Running"}),
         overdue |-> of \cap Slow]]

StageMatrix == {[id |-> p.id, cells |-> Lifecycle(p.id)] : p \in raw.project}

-----------------------------------------------------------------------------
(***************************************************************************)
(* The worlds the properties are about                                     *)
(***************************************************************************)
\* The tables that the figures are of.
FigureTables ==
  {"project", "contract", "apply", "expense", "share", "change", "version", "leaf",
   "cost", "milestone", "invoice", "fund_plan"}

\* The world has what the figures are of.  A project and a version have names, an
\* amount and a day are numbers, and what is shown of a fund plan it has.
HasFigures ==
  /\ FigureTables \subseteq Tables /\ Today \in Int
  /\ \A s \in Scopes :
       /\ "project" \in DOMAIN s.imports => \A p \in s.imports["project"] : p.id # NoFilter
       /\ "version" \in DOMAIN s.imports => \A v \in s.imports["version"] : v.id # NoFilter
       /\ "leaf" \in DOMAIN s.imports => \A l \in s.imports["leaf"] : l.amount \in Int
       /\ "milestone" \in DOMAIN s.imports => \A m \in s.imports["milestone"] : m.day \in Int
       /\ "fund_plan" \in DOMAIN s.imports => \A p \in s.imports["fund_plan"] :
            {"proj", "period", "out"} \subseteq DOMAIN p

-----------------------------------------------------------------------------
(***************************************************************************)
(* Properties                                                              *)
(***************************************************************************)
AllProjects == Ids(raw.project)

AllUnits == {p.unit : p \in raw.project} \cup {NoFilter}

\* The source may hold several where one is meant; the reads take one of them.
OneOnly(rows) == \A r, q \in rows : r = q

Codes(leaves) == {l.code : l \in leaves}

PlannedCodes(proj) == Codes(CenterBudget(NoFilter, proj).leaves)

\* What one dashboard counts as paid or as awaiting payment, the ones
\* with a wider view count as well: the third group dashboard within the second
\* (for the scopes that have a project), the project dashboard and the payment
\* ledger within the overview; and a scope counts no mortgage, refund, award or
\* approval that the whole does not.
SpendingNests ==
  LET paid == GroupOverview.paid
  IN /\ \A u \in AllUnits, p \in AllProjects \cup {NoFilter} :
          /\ CenterPaid(u, p).applies \subseteq paid
          /\ LET sales == CenterSales(u, p)
                 all == CenterSales(NoFilter, NoFilter)
             IN sales.released \subseteq all.released /\ sales.refunds \subseteq all.refunds
          /\ LET work == CenterWork(u, p)
                 all == CenterWork(NoFilter, NoFilter)
             IN work.awards \subseteq all.awards /\ work.running \subseteq all.running
          /\ p = NoFilter \/ ProjectsIn(u, p) # {} =>
               CenterContracts(u, p).unpaid \subseteq Cockpit(u, p).unpaid
     /\ \A p \in AllProjects : \A k \in ProjectKpi(p) :
          CenterPaid(NoFilter, p).applies \subseteq k.paid /\ k.paid \subseteq paid
     /\ \A l \in PaymentLedger : l.paid = {a \in paid : a.contract = l.id}

\* A use of a leaf is settled, on its way or foreseen, never two of
\* them; what the balance of a leaf says is used, the cost dashboard says so too
\* if the contract has a class, and what exceeds a leaf on the third dashboard
\* exceeds its balance, and that of any leaf of its code and version with less;
\* the cost dashboard shows leaves of an active version that the third one shows,
\* and all it shows of a project with one such version; the signed and approved
\* contracts are those of the cash-flow forecast and of the third dashboard, the
\* contracts without a class those of the queue, and a foreseen use is in the
\* list of changes.
BreakdownAgrees ==
  \A p \in AllProjects :
    /\ \A code \in {l.code : l \in raw.leaf} :
         LET leaf == CostLeaf(p, code)
             classified == Ids(Classified(p))
         IN /\ leaf.d \cap leaf.e = {} /\ leaf.g \cap (leaf.d \cup leaf.e) = {}
            /\ {x \in Used(p, code) : x.kind = "contract" => x.id \in classified}
                 \subseteq leaf.d \cup leaf.e
            /\ Ids({x \in leaf.g : x.kind = "change"}) \subseteq Ids(Changes(p, NoFilter))
    /\ \A l \in CenterBudget(NoFilter, p).over :
         LET balances == FBalance(p, l.code, l.version)
         IN /\ \E b \in balances : b.amount = l.amount
            /\ \A b \in balances : b.amount <= l.amount => Cardinality(b.used) > b.amount
    /\ \A k \in CostDashboard(p, NoFilter) :
         /\ k.r0 \subseteq R0Queue(p)
         /\ ActiveVersions(p) # {} => Codes(k.leaves) \subseteq PlannedCodes(p)
         /\ OneOnly(ActiveVersions(p)) => PlannedCodes(p) \subseteq Codes(k.leaves)
    /\ CenterContracts(NoFilter, p).r0 = R0Queue(p)
    /\ R0Queue(p) \cup CenterContracts(NoFilter, p).signed \subseteq CbsContracts(p)
    /\ \A m \in 1..2 :
         /\ ForecastV3(p, m).d = CenterContracts(NoFilter, p).signed
         /\ ForecastV3(p, m).e = CenterContracts(NoFilter, p).approving

\* A project's late key nodes and slow approvals are among the
\* project's anomalies, those among what the overview counts, the report on
\* approvals counts the same, and a project that spent more than it was to is
\* among the top anomalies with a risk.
DelaysNest ==
  LET overview == GroupOverview
  IN /\ \A p \in AllProjects : \A a \in ProjectAnomalies(p) :
          /\ \A k \in ProjectKpi(p) :
               k.late \subseteq a.late /\ k.approvals = a.approvals
          /\ a.late \subseteq overview.tasks
          /\ a.approvals \subseteq overview.approvals
          /\ a.cost \/ a.late # {} =>
               \E t \in TopAnomalies(Cardinality(AllProjects)) :
                 t.id = p /\ t.score > 0 /\ a.late \subseteq t.late
     /\ overview.approvals =
          UNION {ApprovalEfficiency[b].overdue : b \in DOMAIN ApprovalEfficiency}

\* The funnel counts a project at the stages that its lifecycle and
\* the stage matrix show as begun, at no others unless a stage has several
\* instances, and the overview at one that is under way.
StagesAgree ==
  /\ \A row \in StageMatrix : \A s \in Ids(raw.stage) :
       /\ row.cells[s] \in {"in_progress", "done"} => row.id \in Funnel[s]
       /\ OneOnly({i \in raw.stage_of : i.proj = row.id /\ i.stage = s}) =>
            (row.id \in Funnel[s] => row.cells[s] \in {"in_progress", "done"})
       /\ row.cells[s] = "in_progress" => row.id \in GroupOverview.busy
  /\ \A p \in Projects(NoFilter) :
       p.kind = "imported" => [id |-> p.id, cells |-> p.lifecycle] \in StageMatrix

\* A cost subject has a remark if and only if a project lists it, as
\* it lists it; the staged ones that a project's sum is over are among what the
\* dashboards sum, and the report sums the same as the project's dashboard; and
\* a project warned of for having none has none.
CostsAgree ==
  LET projects == AllProjects \cup {k.proj : k \in raw.cost \cup local.dynamic_cost}
  IN /\ \A id \in Ids(raw.cost) \cup Ids(local.dynamic_cost) :
          /\ CostRemark(id) = {} <=> \A p \in projects : id \notin Ids(CostItems(p))
          /\ CostRemark(id) \subseteq UNION {CostItems(p) : p \in projects}
     /\ \A p \in projects :
          LET staged == {k \in DynamicCost(p).summed : k.kind = "imported"}
          IN /\ Ids(staged) \subseteq Ids(EndCosts(p))
             /\ \A row \in CostSummary : \A k \in ProjectKpi(p) :
                  row.id = p => row.costs = k.costs
             /\ <<"W005", p>> \in Findings => staged = {}

\* An imported milestone without a local revision that the gap alert
\* expects money to leave for on another day than today is one that the payment
\* check calls early.
MilestonesWarned ==
  \A m \in GapAlert(Patience).out :
    Stored("milestone", m.id) = {} =>
      \A c \in MilestoneCheck(m.id, 0) :
        "early_time" \in c.against <=> m.day # Today

\* Money is in the summary of its month or period exactly if it is in
\* the list that the summary is of: dated invoices in the tax ledger, fund plans
\* in the fund gap, planned and applied payments in the detail of a month, and
\* expected revenue in the inflow, which the net inflow covers; a loan that the
\* forecast pays out is listed as approved.
MoneyAgrees ==
  \A p \in AllProjects \cup {NoFilter} :
    /\ {i \in Invoices(TRUE, p, NoFilter) : i.month # 0} =
         UNION {TaxLedger(p)[m].out : m \in DOMAIN TaxLedger(p)}
    /\ FundPlans(p, {TRUE}) = UNION {FundGap(p)[t].out : t \in DOMAIN FundGap(p)}
    /\ \A g \in CenterFunds(NoFilter, p) :
         Imported(g.out) \subseteq FundGap(p)[g.period].out
    /\ \A m \in 1..2 :
         LET forecast == Forecast(m, NoFilter, p)
             detail == CashDetail(m, NoFilter, p)
             inflow == Inflow(m, p)
         IN /\ forecast.planned = detail.plans
            /\ forecast.pending \cup forecast.confirmed \subseteq detail.applies
            /\ \A l \in forecast.loan : \E k \in Loans(l.id, "Approved") : k.kind = "imported"
            /\ inflow.expected \cap inflow.overdue = {}
            /\ inflow.received \cup inflow.expected \cup inflow.overdue
                 \subseteq NetFlow(m).in
            /\ p # NoFilter =>
                 ForecastV3(p, m).in \subseteq inflow.expected \cup inflow.overdue

\* Tasks, delays, stages and approvals are shown alike by the pages on work and
\* by the dashboards (plan_tasks, delivery_overview, dashboard_group_overview).
WorkAgrees == LedgerTypeOK /\ TasksAgree /\ ApprovalsSeen /\ DelaysNest /\ StagesAgree

\* The dashboards, reports and lists on money, each with filters of its own,
\* agree on what was spent, is owed and is expected.
FiguresAgree ==
  SpendingNests /\ BreakdownAgrees /\ CostsAgree /\ MilestonesWarned /\ MoneyAgrees

=============================================================================
