--------------------------- MODULE BridgeCashViews ---------------------------
(***************************************************************************)
(* The reads of the Python bridge on sales, invoices, cash flow, the cost  *)
(* breakdown structure, fund plans and loans.  All but the lists of        *)
(* revenues, invoices, funds and loans look at the staged rows only.       *)
(*                                                                         *)
(* Rows of the tables (month and day are numbers, Today among the days):   *)
(*   revenue     id, gone, proj, state, month, day                         *)
(*   invoice     id, gone, proj, contract, out, month (0: no date)         *)
(*   contract    id, gone, proj, leaf, state, r                            *)
(*   plan        id, gone, contract, unit, month                           *)
(*   apply       id, gone, contract, proj, unit, month, apply              *)
(*   expense     id, gone, unit, month, apply, paid                        *)
(*   share       id, expense, leaf, proj   (what an expense is split into) *)
(*   loan        id, gone, proj, unit, month, apply, remains               *)
(*   offset      id, loan                                                  *)
(*   milestone   id, gone, contract, trigger, state, day                   *)
(*   change      id, gone, proj, contract, leaf, state                     *)
(*   version     id (the version), gone, proj, active                      *)
(*   leaf        id, gone, proj, version, code, r, amount                  *)
(*   rule        id, gone, kind, threshold                                 *)
(*   fund_plan   id, gone, proj, period, out      fund_dispatch  id, gone  *)
(* A drafted record has the fields of a row but gone.                      *)
(***************************************************************************)
EXTENDS BridgeLedger, Integers

-----------------------------------------------------------------------------
(***************************************************************************)
(* Sales                                                                   *)
(***************************************************************************)
\* The aggregates of a sales family, each its latest revision.
Sales(f, id) == {l \in local[f] : Fits(id, l.id)}

\* Revenues alone are listed with the local ones among the staged ones.
Revenues(proj, state) ==
  {r \in Imported(Live("revenue")) \cup Commanded(local.revenues) :
     r.state # "deleted" /\ Fits(proj, r.proj) /\ Fits(state, r.state)}

-----------------------------------------------------------------------------
(***************************************************************************)
(* Invoices                                                                *)
(***************************************************************************)
Invoices(out, proj, contract) ==
  {i \in Imported({r \in Live("invoice") : r.state # "deleted"})
           \cup Commanded(Kept("invoice", {"deleted"})) :
     i.out = out /\ Fits(proj, i.proj) /\ Fits(contract, i.contract)}

\* Taxes by month: the invoices received and sent; one without a date is left out.
TaxLedger(proj) ==
  LET dated == {i \in Invoices(TRUE, proj, NoFilter)
                        \cup Invoices(FALSE, proj, NoFilter) : i.month # 0}
  IN [m \in {i.month : i \in dated} |->
        [in |-> {i \in dated : i.month = m /\ ~i.out},
         out |-> {i \in dated : i.month = m /\ i.out}]]

-----------------------------------------------------------------------------
(***************************************************************************)
(* Cash flow                                                               *)
(***************************************************************************)
\* The project of a contract that was not deleted ("" for the others).
ProjectOf(c) ==
  LET live == {r \in Live("contract") : r.id = c}
  IN IF live = {} THEN "" ELSE (CHOOSE r \in live : TRUE).proj

PlansIn(month, unit, proj) ==
  {p \in Live("plan") :
     p.month = month /\ Fits(unit, p.unit) /\ Fits(proj, ProjectOf(p.contract))}

AppliesIn(month, unit, proj) ==
  {a \in Live("apply") :
     a.month = month /\ Fits(unit, a.unit) /\ Fits(proj, a.proj)}

\* The outflow of a month.  An expense belongs to no project here.
Forecast(month, unit, proj) ==
  LET applies == AppliesIn(month, unit, proj)
  IN [planned |-> PlansIn(month, unit, proj),
      pending |-> {a \in applies : a.apply = "approving"},
      confirmed |-> {a \in applies : a.apply = "approved"},
      expense |-> {e \in Live("expense") :
                     /\ e.month = month /\ Fits(unit, e.unit)
                     /\ e.apply = "Approved" /\ ~e.paid},
      loan |-> {l \in Live("loan") :
                  /\ l.month = month /\ Fits(unit, l.unit) /\ Fits(proj, l.proj)
                  /\ l.apply = "Approved" /\ l.remains}]

\* What is behind a month of the forecast.
CashDetail(month, unit, proj) ==
  [plans |-> PlansIn(month, unit, proj), applies |-> AppliesIn(month, unit, proj)]

\* The inflow of a month: what is expected and did not come is overdue.
Inflow(month, proj) ==
  LET rows == {r \in Live("revenue") : r.month = month /\ Fits(proj, r.proj)}
      Late(r) == r.state = "expected" /\ r.day < Today
  IN [received |-> {r \in rows : r.state = "received"},
      expected |-> {r \in rows : r.state = "expected" /\ ~Late(r)},
      overdue |-> {r \in rows : Late(r) \/ r.state = "overdue"}]

\* The net flow of a month: every revenue, whatever became of it, against what
\* is planned and pending.
NetFlow(month) ==
  LET out == Forecast(month, NoFilter, NoFilter)
  IN [in |-> {r \in Live("revenue") : r.month = month},
      out |-> out.planned \cup out.pending]

\* What falls due within the horizon: milestones of a date, and revenues in a
\* state that no revenue is given (pending).
GapAlert(horizon) ==
  [out |-> {m \in Live("milestone") :
              /\ m.trigger = "time" /\ m.state \in {"pending", "reached"}
              /\ m.day \in Today..(Today + horizon)},
   in |-> {r \in Live("revenue") :
             r.state = "pending" /\ r.day \in Today..(Today + horizon)}]

Committed == {"signed", "paid"}

\* The cost plan a project's flow is computed from: an active version, else any.
VersionsOf(proj) == {v \in Live("version") : v.proj = proj}

ActiveVersions(proj) == {v \in VersionsOf(proj) : v.active}

FlowVersion(proj) ==
  LET vs == IF ActiveVersions(proj) # {} THEN ActiveVersions(proj) ELSE VersionsOf(proj)
  IN IF vs = {} THEN "baseline" ELSE (CHOOSE v \in vs : TRUE).id

ForecastV3(proj, month) ==
  LET contracts == {c \in Live("contract") : c.proj = proj}
  IN [a |-> {l \in Live("leaf") : l.proj = proj /\ l.version = FlowVersion(proj)},
      d |-> {c \in contracts : c.state \in Committed},
      e |-> {c \in contracts : c.state = "approving"},
      in |-> {r \in Live("revenue") :
                r.proj = proj /\ r.month = month /\ r.state = "expected"}]

-----------------------------------------------------------------------------
(***************************************************************************)
(* The cost breakdown structure                                            *)
(***************************************************************************)
\* The version that is asked for, else an active one, else the baseline.
CbsVersion(proj, requested) ==
  IF requested # NoFilter THEN requested
  ELSE IF ActiveVersions(proj) = {} THEN "baseline"
  ELSE (CHOOSE v \in ActiveVersions(proj) : TRUE).id

CbsDict(proj, version, r) ==
  {l \in Live("leaf") :
     l.proj = proj /\ l.version = CbsVersion(proj, version) /\ Fits(r, l.r)}

\* What uses a leaf up.  The version that is looked at is "execution" unless
\* another is asked for.  The share of an expense counts in every project.
ExpenseOf(share) == {e \in Live("expense") : e.id = share.expense}

BalanceStates == {"approving", "approved", "Approved"}

Used(proj, code) ==
  {[kind |-> "contract", id |-> c.id] : c \in {d \in Live("contract") :
     d.proj = proj /\ d.leaf = code /\ d.state \in Committed \cup {"approving"}}}
    \cup
  {[kind |-> "share", id |-> s.id] : s \in {t \in raw.share :
     t.leaf = code /\ \E e \in ExpenseOf(t) : e.apply \in BalanceStates}}

FBalance(proj, code, version) ==
  LET v == CbsVersion(proj, IF version = NoFilter THEN "execution" ELSE version)
      leaves == {l \in Live("leaf") : l.proj = proj /\ l.version = v /\ l.code = code}
  IN {[amount |-> l.amount, used |-> Used(proj, code)] : l \in leaves}

\* The codes of which two versions, or three, plan different amounts.
VersionsDiffer(proj, versions) ==
  LET Amounts(code, v) ==
        {l.amount : l \in {k \in Live("leaf") :
           k.proj = proj /\ k.version = v /\ k.code = code}}
  IN {code \in {l.code : l \in {k \in Live("leaf") :
                                  k.proj = proj /\ k.version \in versions}} :
        \E v, w \in versions : Amounts(code, v) # Amounts(code, w)}

\* The contracts that still await their classification.
R0Queue(proj) ==
  {c \in Live("contract") : Fits(proj, c.proj) /\ c.r \in {"", "R0"}}

Changes(proj, contract) ==
  {c \in Live("change") : Fits(proj, c.proj) /\ Fits(contract, c.contract)}

CbsContracts(proj) == {c \in Live("contract") : Fits(proj, c.proj)}

\* The approval rule for an amount: one of the highest threshold it reaches.
ApprovalPick(kind, amount) ==
  LET reached == {r \in Live("rule") : r.kind = kind /\ r.threshold <= amount}
  IN {r \in reached : \A q \in reached : q.threshold <= r.threshold}

-----------------------------------------------------------------------------
(***************************************************************************)
(* Fund plans, dispatches and loans                                        *)
(***************************************************************************)
FundPlans(proj, out) ==
  {p \in Imported(Live("fund_plan")) \cup Commanded(Kept("fund_plan", {"deleted"})) :
     Fits(proj, p.proj) /\ p.out \in out}

FundGap(proj) ==
  LET plans == FundPlans(proj, BOOLEAN)
  IN [m \in {p.period : p \in plans} |->
        [in |-> {p \in plans : p.period = m /\ ~p.out},
         out |-> {p \in plans : p.period = m /\ p.out}]]

FundDispatches ==
  Imported(Live("fund_dispatch"))
    \cup Commanded(Kept("fund_dispatch", {"deleted"}))

\* A staged loan is listed though it was deleted, beside a local one.
Loans(id, state) ==
  {[id |-> l.id, kind |-> "imported", state |-> l.apply,
    offsets |-> {o \in raw.offset : o.loan = l.id}] :
     l \in {r \in raw.loan : Fits(id, r.id) /\ Fits(state, r.apply)}}
    \cup
  {[id |-> l.id, kind |-> "command", state |-> l.state, offsets |-> {}] :
     l \in {d \in local.loan : Fits(id, d.id) /\ Fits(state, d.state)}}
=============================================================================
