------------------------- MODULE BridgeSupplierViews -------------------------
(***************************************************************************)
(* The reads of the Python bridge on suppliers, tenders, awards and        *)
(* contract splits.                                                        *)
(*                                                                         *)
(* Rows of the tables:                                                     *)
(*   supplier   id, gone, name, short (short name, or "" for none), barred *)
(*              (evaluated as unqualified or blacklisted), inspected (did  *)
(*              not fail its inspection), enabled ("" if not said)         *)
(*   contract   id, gone, supplier (the name it gives)                     *)
(*   milestone  id, contract, overdue                                      *)
(*   tender     id, proj, state     award  id, tender                      *)
(*   split      id, parent, proj                                           *)
(* A drafted supplier says if it is enabled, and carries the verdict of a  *)
(* review that does not qualify it.                                        *)
(***************************************************************************)
EXTENDS BridgeLedger, Naturals

CONSTANT Within  \* the pairs of names of which the second contains the first

-----------------------------------------------------------------------------
(***************************************************************************)
(* Suppliers as aggregates: imported and local ones are of one type, and   *)
(* the latest revision is shown whatever its state.                        *)
(***************************************************************************)
Evaluation(l) ==
  CASE l.state = "active" -> "qualified"
    [] l.state = "suspended" -> l.verdict
    [] OTHER -> "unrated"

Suppliers ==
  {[id |-> s.id, kind |-> "imported", state |-> "active",
    eval |-> IF s.barred THEN "unqualified" ELSE "qualified"] :
     s \in {r \in Projected("supplier") : Stored("supplier", r.id) = {}}}
    \cup {[id |-> l.id, kind |-> "command", state |-> l.state,
           eval |-> Evaluation(l)] : l \in local.supplier}

\* Fault: a suspended supplier is rated before its evaluation is looked at.
Rating_Suspended(s) ==
  CASE s.state = "suspended" -> "D"
    [] s.state \in {"voided", "blacklisted"} -> "E"
    [] s.state \notin {"suspended", "voided", "blacklisted"}
         /\ s.eval = "unqualified" -> "E"
    [] s.state = "active" /\ s.eval = "qualified" -> "B"
    [] OTHER -> "C"

\* The risk rating of such a supplier (a strategic one, "A", is left out).
Rating(s) ==
  CASE s.state \in {"voided", "blacklisted"} \/ s.eval = "unqualified" -> "E"
    [] s.state = "active" /\ s.eval = "qualified" -> "B"
    [] s.state = "suspended" /\ s.eval # "unqualified" -> "D"
    [] OTHER -> "C"

RiskBoard == {[id |-> s.id, rating |-> Rating(s)] : s \in Suppliers}

-----------------------------------------------------------------------------
(***************************************************************************)
(* Suppliers of the source, with the contracts that name them.  The reads  *)
(* do not agree on which contracts do.                                     *)
(***************************************************************************)
Mentions(short, name) == <<short, name>> \in Within

ListMatches(s) ==
  {c \in Live("contract") :
     \/ c.supplier = s.name
     \/ s.short # "" /\ Mentions(s.short, c.supplier)}

\* A supplier without a short name is given the contracts without a supplier.
PageMatches(s) ==
  {c \in Live("contract") :
     \/ c.supplier \in {s.name, s.short}
     \/ s.short # "" /\ Mentions(s.short, c.supplier)}

\* Without a short name the name stands for it.
RiskMatches(s) ==
  LET short == IF s.short = "" THEN s.name ELSE s.short
  IN {c \in Live("contract") : c.supplier = s.name \/ Mentions(short, c.supplier)}

\* A local supplier is enabled unless it is voided or blacklisted.
Enabled(l) == l.enabled /\ l.state \notin {"voided", "blacklisted"}

SupplierList ==
  {[id |-> s.id, kind |-> "imported", contracts |-> ListMatches(s)] :
     s \in Live("supplier")}
    \cup {[id |-> l.id, kind |-> "command", contracts |-> {}] :
            l \in Kept("supplier", {"voided"})}

\* A blacklisted local supplier is listed and has no page.
SupplierPage(id) ==
  LET staged == {s \in Live("supplier") : s.id = id}
  IN IF staged # {}
     THEN {[kind |-> "imported", contracts |-> PageMatches(s)] : s \in staged}
     ELSE {[kind |-> "command", contracts |-> {}] :
             l \in {d \in Stored("supplier", id) : Enabled(d)}}

\* The figures count a supplier only if the source says it is enabled.
CountedSuppliers == {s \in Live("supplier") : s.enabled = "yes"}

SupplierStats ==
  {[id |-> s.id, contracts |-> PageMatches(s)] : s \in CountedSuppliers}

\* The report counts deleted suppliers and contracts, and leaves the suppliers
\* out that no contract names.
SupplierAnalysis ==
  LET Of(s) == {c \in raw.contract :
                  c.supplier = s.name
                    \/ (s.short # "" /\ Mentions(s.short, c.supplier))}
  IN {[id |-> s.id, contracts |-> Of(s)] : s \in {r \in raw.supplier : Of(r) # {}}}

LOCAL Least(a, b) == IF a < b THEN a ELSE b

\* The score of a source supplier; contracts and milestones weigh the same.
SourceScore(s) ==
  LET contracts == RiskMatches(s)
      overdue == {m \in raw.milestone : m.overdue /\ m.contract \in Ids(contracts)}
      n == Cardinality(contracts)
      k == Cardinality(overdue)
      share == IF n > 0 THEN Least(30, (50 * k) \div n) ELSE 0
      base == 70 + Least(15, n)
      off == Least(35, 5 * k) + share + (IF s.inspected THEN 0 ELSE 15)
  IN IF off > base THEN 0 ELSE base - off

SourceRating(s) ==
  LET score == SourceScore(s)
  IN IF s.barred THEN "E"
     ELSE CASE score >= 85 -> "A"
            [] score \in 70..84 -> "B"
            [] score \in 55..69 -> "C"
            [] score \in 40..54 -> "D"
            [] OTHER -> "E"

SourceRisk(id) ==
  IF \E s \in Live("supplier") : s.id = id
  THEN SourceRating(Row("supplier", id)) ELSE NotFound

\* The suppliers of high risk.
SourceRiskBoard ==
  {s \in Live("supplier") : SourceRating(s) \in {"D", "E"}}

\* Fault: the check takes an aggregate that an import wrote for a local one.
SignCheck_Any(id) ==
  IF \E s \in Live("supplier") : s.id = id THEN "gated"
  ELSE LET found == {s \in Suppliers : s.id = id /\ s.state # "voided"}
       IN IF found = {} THEN NotFound
          ELSE LET s == CHOOSE x \in found : TRUE
               IN CASE s.state = "blacklisted" \/ Rating(s) = "E" -> "refused"
                    [] Rating(s) = "D" -> "extra approval"
                    [] OTHER -> "allowed"

\* May a contract with the supplier be signed?  For an imported one that is
\* left to the owner of procurement; for a local one there is a preview.
SignCheck(id) ==
  IF \E s \in Live("supplier") : s.id = id THEN "gated"
  ELSE LET found == {s \in Suppliers :
                       s.id = id /\ s.kind = "command" /\ s.state # "voided"}
       IN IF found = {} THEN NotFound
          ELSE LET s == CHOOSE x \in found : TRUE
               IN CASE s.state = "blacklisted" \/ Rating(s) = "E" -> "refused"
                    [] Rating(s) = "D" -> "extra approval"
                    [] OTHER -> "allowed"

-----------------------------------------------------------------------------
(***************************************************************************)
(* Tenders, awards and splits                                              *)
(***************************************************************************)
Tenders ==
  {[id |-> t.id, kind |-> "imported"] :
     t \in {r \in Projected("tender") : Stored("tender", r.id) = {}}}
    \cup {[id |-> l.id, kind |-> "command"] : l \in Kept("tender", {"deleted"})}

ContractSplits(parent) ==
  {[id |-> t.id, kind |-> "imported"] :
     t \in {r \in Projected("split") :
              Stored("split", r.id) = {} /\ Fits(parent, r.parent)}}
    \cup {[id |-> l.id, kind |-> "command"] :
            l \in {d \in local.split : Fits(parent, d.parent)}}

\* The source-shaped lists, with the local tenders and splits beside the
\* staged ones; an award is only ever staged.
SourceTenders(proj, state) ==
  {[id |-> t.id, kind |-> "imported"] :
     t \in {r \in raw.tender : Fits(proj, r.proj) /\ Fits(state, r.state)}}
    \cup
  {[id |-> l.id, kind |-> "command"] :
     l \in {d \in Kept("tender", {"deleted"}) :
              Fits(proj, d.proj) /\ Fits(state, d.state)}}

SourceAwards(tender) == {a \in raw.award : Fits(tender, a.tender)}

\* A local split names no project.
SourceSplits(parent, proj) ==
  {[id |-> t.id, kind |-> "imported"] :
     t \in {r \in raw.split : Fits(parent, r.parent) /\ Fits(proj, r.proj)}}
    \cup {t \in ContractSplits(parent) : t.kind = "command" /\ proj = NoFilter}

-----------------------------------------------------------------------------
(***************************************************************************)
(* The worlds the properties are about                                     *)
(***************************************************************************)
\* The world has the families the reads are of.
HasProcurement == {"supplier", "tender", "split"} \subseteq Families

-----------------------------------------------------------------------------
(***************************************************************************)
(* Properties                                                              *)
(***************************************************************************)
KnownSuppliers == Known("supplier") \cup Drafted("supplier")

\* A supplier, a tender or a split is one aggregate with one latest revision,
\* whether a command or an import wrote it (suppliers, tenders,
\* contract_splits): the lists never name one twice, and the source-shaped lists
\* leave none of them out (tender_source_rows).
ProcurementListedOnce ==
  /\ OnceEach(Suppliers) /\ OnceEach(Tenders) /\ OnceEach(ContractSplits(NoFilter))
  /\ Tenders \subseteq SourceTenders(NoFilter, NoFilter)
  /\ ContractSplits(NoFilter) \subseteq SourceSplits(NoFilter, NoFilter)

\* The supplier reads agree (supplier_source_list, _detail, _stats): whatever
\* has a page is listed, an imported supplier that is listed has one, the page
\* shows every contract the list counts and the report counts them too, and the
\* figures count no supplier or contract its page does not show.
SupplierPagesAgree ==
  /\ \A id \in KnownSuppliers : \A p \in SupplierPage(id) :
       \E r \in SupplierList :
         /\ r.id = id /\ r.kind = p.kind
         /\ r.contracts \subseteq p.contracts
  /\ \A r \in SupplierList : r.kind = "imported" =>
       /\ SupplierPage(r.id) # {}
       /\ r.contracts # {} => \E a \in SupplierAnalysis :
            a.id = r.id /\ r.contracts \subseteq a.contracts
  /\ \A r \in SupplierStats : \E p \in SupplierPage(r.id) :
       r.contracts = p.contracts

\* A supplier the risk reads place at E is never one a contract may be signed
\* with, imported or local (supplier_source_check_sign_boundary), and neither the
\* board of high risks nor that of the aggregates (supplier_risk_board) leaves
\* one out whose own risk is D or E.
RiskStopsSigning ==
  \A id \in KnownSuppliers :
    /\ SourceRisk(id) \in {"D", "E"} => \E s \in SourceRiskBoard : s.id = id
    /\ SignCheck(id) = "refused" => [id |-> id, rating |-> "E"] \in RiskBoard
    /\ SignCheck(id) \in {"allowed", "extra approval"} =>
         /\ SourceRisk(id) = NotFound
         /\ [id |-> id, rating |-> "E"] \notin RiskBoard
         /\ ~\E s \in local.supplier :
               /\ s.id = id
               /\ \/ s.state \in {"blacklisted", "voided"}
                  \/ s.state = "suspended" /\ s.verdict = "unqualified"

Barred == {"blacklisted", "voided"}

\* A blacklisted or voided local supplier is refused for good: no import, and no
\* command that looked at it since, makes it one a contract may be signed with.
\* Only one that read it before it was barred and stores its revision after
\* (supplier_command reads the state and the number one after the other) can.
BarredStaysBarred ==
  [][\A id \in KnownSuppliers :
       /\ StateOf("supplier", id) \in Barred
       /\ SignCheck(id)' \in {"allowed", "extra approval"}
       => \E c \in commands \ commands' :
            /\ c.family = "supplier" /\ c.draft.id = id
            /\ \E l \in c.basis : l.state \notin Barred]_ledgerVars

\* So do the reads on suppliers, tenders and splits, and none of them lets a
\* supplier be signed with that another holds at risk.
SuppliersAgree == ProcurementListedOnce /\ SupplierPagesAgree /\ RiskStopsSigning

=============================================================================
