-------------------------- MODULE BridgeCommercial --------------------------
(***************************************************************************)
(* The command families of the Python bridge that deal with selling and    *)
(* delivering: the six sales families, receivables, marketing resources,   *)
(* delivery progress, outputs and task reports, employee loans, fund plans *)
(* and fund dispatches.                                                    *)
(***************************************************************************)
EXTENDS BridgeTables

-----------------------------------------------------------------------------
(***************************************************************************)
(* Sales.  One function serves every family; a family is the table of      *)
(* transitions: command |-> [from |-> states it starts in, to |-> state].  *)
(***************************************************************************)
SalesFamilies ==
  {"customers", "subscriptions", "sales_contracts", "mortgages", "refunds",
   "revenues", "receivable"}

SalesTransitions(family) ==
  CASE family = "customers" ->
         [update  |-> [from |-> {"active"}, to |-> "active"],
          block   |-> [from |-> {"active"}, to |-> "blocked"],
          archive |-> [from |-> {"blocked"}, to |-> "archived"]]
    [] family = "subscriptions" ->
         [convert |-> [from |-> {"reserved"}, to |-> "converted"],
          cancel  |-> [from |-> {"reserved", "converted"}, to |-> "cancelled"]]
    [] family = "sales_contracts" ->
         [fulfill |-> [from |-> {"signed"}, to |-> "fulfilled"],
          cancel  |-> [from |-> {"signed", "fulfilled"}, to |-> "cancelled"]]
    [] family = "mortgages" ->
         [approve |-> [from |-> {"applying"}, to |-> "approved"],
          release |-> [from |-> {"approved"}, to |-> "released"]]
    [] family = "refunds" ->
         [approve |-> [from |-> {"requested"}, to |-> "approved"],
          pay     |-> [from |-> {"approved"}, to |-> "paid"],
          reject  |-> [from |-> {"requested", "approved"}, to |-> "rejected"]]
    [] family = "revenues" ->
         [update           |-> [from |-> {"expected", "received"}, to |-> "kept"],
          confirm_received |-> [from |-> {"expected"}, to |-> "received"],
          delete           |-> [from |-> {"expected", "received"}, to |-> "deleted"]]
    [] family = "receivable" -> <<>>

SalesTypes(family) == {"create"} \cup DOMAIN SalesTransitions(family)

SalesFirstState(family, wants) ==
  CASE family = "customers" -> "active"
    [] family = "subscriptions" -> "reserved"
    [] family = "sales_contracts" -> "signed"
    [] family = "mortgages" -> "applying"
    [] family = "refunds" -> "requested"
    [] family = "revenues" -> IF wants = "" THEN "expected" ELSE wants
    [] family = "receivable" -> "open"

\* A revenue is received today unless the client names the day.
SalesStamped(family, type) == family = "revenues" /\ type = "create"

\* A receivable is opened against a contract found fulfilled, and a change of
\* revenue against the revenue found, before the receipt is looked up.
SalesPre(family, type) ==
  CASE family = "receivable" -> <<"related">> \o ReceiptFirst
    [] family = "revenues" /\ type # "create" -> <<"exists">> \o ReceiptFirst
    [] OTHER -> ReceiptFirst

\* What is asked of the record before the receipt: that it be there and, for
\* an update, that its state allow one.
SalesExists(family, type, state) ==
  /\ state # Absent
  /\ type = "update" => state \in SalesTransitions(family)[type].from

SalesAdmits(family, type, state) ==
  IF type = "create" THEN state = Absent
  ELSE state \in SalesTransitions(family)[type].from

SalesTxn(type) == IF type = "create" THEN FirstTxn ELSE PrereadTxn

SalesRechecks(type, state) == (type = "create") <=> (state = Absent)

SalesLeaves(family, type, state, wants) ==
  IF type = "create" THEN SalesFirstState(family, wants)
  ELSE LET to == SalesTransitions(family)[type].to
       IN IF to = "kept" THEN state ELSE to

-----------------------------------------------------------------------------
(***************************************************************************)
(* Marketing resources.  Nothing looks at the state of a resource.         *)
(***************************************************************************)
MarketingFamilies == {"campaign", "placement", "channel", "material"}

MarketingTypes(resource) ==
  CASE resource = "campaign" -> {"create", "update", "delete"}
    [] resource = "placement" -> {"create", "effect"}
    [] OTHER -> {"create", "delete"}

MarketingFirstState(resource) ==
  CASE resource = "campaign" -> "planning"
    [] resource = "placement" -> "placed"
    [] resource = "channel" -> "active"
    [] resource = "material" -> "designing"

\* Campaigns start and placements are placed today unless told otherwise.
MarketingStamped(resource, type) ==
  type = "create" /\ resource \in {"campaign", "placement"}

MarketingAdmits(type, state, mine) ==
  IF type = "create" THEN state = Absent ELSE state # Absent /\ mine

MarketingTxn(type) == IF type = "create" THEN FirstTxn ELSE PrereadTxn

MarketingRechecks(type, state) == (type = "create") <=> (state = Absent)

\* An update keeps the state it read unless it names one, an effect completes
\* the placement unless it names one.
MarketingLeaves(resource, type, state, wants) ==
  CASE type = "create" -> MarketingFirstState(resource)
    [] type = "delete" -> "deleted"
    [] type = "update" -> IF wants = "" THEN state ELSE wants
    [] type = "effect" -> IF wants = "" THEN "completed" ELSE wants

-----------------------------------------------------------------------------
(***************************************************************************)
(* Delivery: progress, outputs and task reports.  A transition expects one *)
(* state; a deletion expects none.                                         *)
(***************************************************************************)
DeliveryFamilies == {"progress", "output", "task_report"}

AnyState == "any"

DeliveryTransitions(family) ==
  CASE family = "progress" ->
         [report |-> [from |-> "draft", to |-> "submitted"],
          accept |-> [from |-> "submitted", to |-> "accepted"],
          reject |-> [from |-> "submitted", to |-> "rejected"],
          delete |-> [from |-> AnyState, to |-> "deleted"]]
    [] family = "output" ->
         [confirm |-> [from |-> "reported", to |-> "confirmed"]]
    [] family = "task_report" -> <<>>

DeliveryTypes(family) == {"create"} \cup DOMAIN DeliveryTransitions(family)

DeliveryFirstState(family) ==
  CASE family = "progress" -> "draft"
    [] family = "output" -> "reported"
    [] family = "task_report" -> "observed"

\* The task report looks its task up, and looks whether a report of its
\* identity is already listed, local ones included, before the receipt.
DeliveryPre(family) ==
  IF family = "task_report" THEN <<"related", "current">> \o ReceiptFirst
  ELSE ReceiptFirst

DeliveryAdmits(family, type, state) ==
  IF type = "create" THEN state = Absent
  ELSE /\ state # Absent
       /\ DeliveryTransitions(family)[type].from \in {state, AnyState}

DeliveryTxn(type) == IF type = "create" THEN FirstTxn ELSE PrereadTxn

DeliveryRechecks(family, type, state) == DeliveryAdmits(family, type, state)

DeliveryLeaves(family, type) ==
  IF type = "create" THEN DeliveryFirstState(family)
  ELSE DeliveryTransitions(family)[type].to

-----------------------------------------------------------------------------
(***************************************************************************)
(* Employee loans.  Approval belongs to a workflow engine the bridge does  *)
(* not run, so no local command leaves a loan Approved or Rejected.        *)
(***************************************************************************)
LoanTypes == {"create", "submit", "update", "void", "offset"}

LoanExpects(type) ==
  CASE type \in {"submit", "update"} -> {"Draft"}
    [] type = "void" -> {"Draft", "Rejected"}
    [] type = "offset" -> {"Approved"}

LoanAdmits(type, state, mine) ==
  IF type = "create" THEN state = Absent
  ELSE state \in LoanExpects(type) /\ (type # "offset" => mine)

LoanTxn(type) == IF type = "create" THEN FirstTxn ELSE RereadTxn

LoanRechecks(type, state) == LoanAdmits(type, state, TRUE)

LoanLeaves(type) ==
  CASE type \in {"create", "update"} -> "Draft"
    [] type = "submit" -> "Approving"
    [] type = "void" -> "Voided"
    [] type = "offset" -> "Approved"

-----------------------------------------------------------------------------
(***************************************************************************)
(* Fund plans and fund dispatches                                          *)
(***************************************************************************)
FundFamilies == {"fund_plan", "fund_dispatch"}

FundTypes(resource) ==
  IF resource = "fund_plan" THEN {"create", "update", "delete"}
  ELSE {"create", "approve"}

\* So is a dispatch dispatched.
FundStamped(resource, type) == resource = "fund_dispatch" /\ type = "create"

FundPre(type) ==
  IF type = "create" THEN <<"related">> \o Receipt ELSE CurrentFirst

\* The state is left to the transaction.
FundAdmits(resource, type, state, mine) ==
  \/ type = "create"
  \/ state # Absent /\ (resource = "fund_plan" => mine)

FundTxn(type) == IF type = "create" THEN LockedFirstTxn ELSE LockedTxn

FundRechecks(type, state) ==
  CASE type = "create" -> state = Absent
    [] type \in {"update", "delete"} -> state \in {"planned", "updated"}
    [] type = "approve" -> state = "pending"

FundLeaves(resource, type) ==
  CASE type = "create" -> IF resource = "fund_plan" THEN "planned" ELSE "pending"
    [] type = "update" -> "updated"
    [] type = "delete" -> "deleted"
    [] type = "approve" -> "approved"

=============================================================================
