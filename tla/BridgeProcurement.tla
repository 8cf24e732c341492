------------------------- MODULE BridgeProcurement -------------------------
(***************************************************************************)
(* The command families of the Python bridge that deal with spending:      *)
(* expense claims, contracts, payment applications, contract milestones,   *)
(* contract splits, suppliers, tenders and invoices.                       *)
(***************************************************************************)
EXTENDS BridgeTables

\* The approval loop of claims, contracts and payment applications.
LoopAdmits(type, state) ==
  \/ type = "submit" /\ state = "draft"
  \/ type \in {"approve", "reject"} /\ state = "submitted"
  \/ type = "resubmit" /\ state = "rejected"

LoopLeaves(type) ==
  CASE type \in {"submit", "resubmit"} -> "submitted"
    [] type = "approve" -> "approved"
    [] type = "reject" -> "rejected"

-----------------------------------------------------------------------------
(***************************************************************************)
(* Expense claims                                                          *)
(***************************************************************************)
ExpenseTypes ==
  {"create", "update", "submit", "approve", "reject", "resubmit", "void"}

\* An update or a voiding is the applicant's own.
ExpenseAdmits(type, state, mine) ==
  \/ type = "create" /\ state = Absent
  \/ LoopAdmits(type, state)
  \/ type = "update" /\ state = "draft" /\ mine
  \/ type = "void" /\ state \in {"draft", "rejected"} /\ mine

ExpenseTxn(type) == IF type = "create" THEN FirstTxn ELSE RereadTxn

\* Fault: the transaction trusts what was read before it.
ExpenseRechecks_Trusting(type, state) == TRUE

ExpenseRechecks(type, state) == ExpenseAdmits(type, state, TRUE)

ExpenseLeaves(type) ==
  CASE type \in {"create", "update"} -> "draft"
    [] type = "void" -> "voided"
    [] OTHER -> LoopLeaves(type)

-----------------------------------------------------------------------------
(***************************************************************************)
(* Contracts                                                               *)
(***************************************************************************)
ContractTypes ==
  {"create", "update", "submit", "approve", "reject", "resubmit", "void"}

\* The read drops a deleted local contract (and falls back to an imported one).
ContractShown(state) == IF state = "deleted" THEN Absent ELSE state

ContractAdmits(type, state) ==
  \/ type = "create" /\ state = Absent
  \/ LoopAdmits(type, state)
  \/ type = "update" /\ state \in {"draft", "submitted"}
  \/ type = "void" /\ state # Absent

ContractTxn(type) == IF type = "create" THEN FirstTxn ELSE RereadTxn

ContractRechecks(type, state) ==
  IF type = "void" THEN state \notin {Absent, "deleted"}
  ELSE ContractAdmits(type, state)

ContractLeaves(type, state) ==
  CASE type = "create" -> "draft"
    [] type = "update" -> state
    [] type = "void" -> "deleted"
    [] OTHER -> LoopLeaves(type)

-----------------------------------------------------------------------------
(***************************************************************************)
(* Payment applications                                                    *)
(***************************************************************************)
PaymentTypes ==
  {"create", "update", "submit", "approve", "reject", "resubmit", "void"}

\* The application date is today's unless the client names one.
PaymentStamped(type) == type = "create"

\* A creation looks its contract up while the request is put together.
PaymentPre(type) ==
  IF type = "create" THEN <<"related">> \o ReceiptFirst
  ELSE ReceiptFirst

PaymentAdmits(type, state) ==
  \/ type = "create" /\ state = Absent
  \/ LoopAdmits(type, state)
  \/ type = "update" /\ state = "submitted"
  \/ type = "void" /\ state \notin {Absent, "voided"}

PaymentTxn(type) == IF type = "create" THEN FirstTxn ELSE RereadTxn

PaymentRechecks(type, state) == PaymentAdmits(type, state)

PaymentLeaves(type, state) ==
  CASE type = "create" -> "draft"
    [] type = "update" -> state
    [] type = "void" -> "voided"
    [] OTHER -> LoopLeaves(type)

-----------------------------------------------------------------------------
(***************************************************************************)
(* Contract milestones                                                     *)
(***************************************************************************)
MilestoneTypes == {"create", "update", "delete", "trigger_event"}

\* An event is reached today.
MilestoneStamped(type) == type = "trigger_event"

\* The request is built from the state of the record (or of the contract it
\* belongs to) before the stored receipt is compared with it; a creation is
\* then compared with the milestones there are.
MilestonePre(type) ==
  IF type = "create" THEN <<"fetch", "related", "compare", "current">>
  ELSE <<"fetch", "current", "compare">>

\* A deleted milestone does not stand in the way of a new one.
MilestoneAdmits(type, state) ==
  \/ type = "create" /\ state \in {Absent, "deleted"}
  \/ type \in {"update", "delete"} /\ state \notin {Absent, "deleted"}
  \/ type = "trigger_event" /\ state = "pending"

MilestoneTxn(type) ==
  IF type = "create" THEN <<"key", "number", "write">> ELSE RereadTxn

\* A creation may bring several milestones and inserts them in the order the
\* client gave, each at the number after its highest: its own and one that all
\* such batches name, which is the first or the last of them.
MilestoneBatch(place) ==
  IF place = "before" THEN <<"key", "sibling", "beside", "number", "write">>
  ELSE <<"key", "number", "write", "sibling", "beside">>

\* The transaction asks only that there be a revision to change.
MilestoneRechecks(type, state) == type = "create" \/ state # Absent

\* An update may name the state it wants, and keeps the one it read otherwise.
MilestoneLeaves(type, state, wants) ==
  CASE type = "create" -> "pending"
    [] type = "update" -> IF wants = "" THEN state ELSE wants
    [] type = "delete" -> "deleted"
    [] type = "trigger_event" -> "reached"

-----------------------------------------------------------------------------
(***************************************************************************)
(* Contract splits: only ever created                                      *)
(***************************************************************************)
SplitTypes == {"create"}

SplitPre(type) == ReceiptFirst \o <<"related">>

SplitAdmits(type, state) == type = "create" /\ state = Absent

SplitTxn(type) == FirstTxn

SplitRechecks(type, state) == SplitAdmits(type, state)

SplitLeaves(type) == "planned"

-----------------------------------------------------------------------------
(***************************************************************************)
(* Suppliers                                                               *)
(***************************************************************************)
SupplierTypes ==
  {"create", "update", "submit_review", "review", "blacklist", "void"}

SupplierAdmits(type, state) ==
  \/ type = "create" /\ state = Absent
  \/ type = "submit_review" /\ state = "draft"
  \/ type = "review" /\ state = "pending_review"
  \/ type \in {"update", "blacklist", "void"} /\ state \notin {Absent, "voided"}

SupplierTxn(type) == IF type = "create" THEN FirstTxn ELSE RereadTxn

\* An update does not look at the state again.
SupplierRechecks(type, state) ==
  IF type = "update" THEN state # Absent ELSE SupplierAdmits(type, state)

SupplierLeaves(type, state, qualified) ==
  CASE type = "create" -> "draft"
    [] type = "update" -> state
    [] type = "submit_review" -> "pending_review"
    [] type = "review" -> IF qualified THEN "active" ELSE "suspended"
    [] type = "blacklist" -> "blacklisted"
    [] type = "void" -> "voided"

-----------------------------------------------------------------------------
(***************************************************************************)
(* Tenders                                                                 *)
(***************************************************************************)
TenderTypes ==
  {"create", "publish", "open_bidding", "award", "complete", "cancel", "delete"}

\* An award looks for an active, qualified supplier.
TenderPre(type) ==
  IF type = "award" THEN ReceiptFirst \o <<"related">>
  ELSE ReceiptFirst

TenderShown(state) == IF state = "deleted" THEN Absent ELSE state

TenderAdmits(type, state) ==
  \/ type = "create" /\ state = Absent
  \/ type = "publish" /\ state = "planning"
  \/ type = "open_bidding" /\ state = "publishing"
  \/ type = "award" /\ state = "bidding"
  \/ type = "complete" /\ state = "awarded"
  \/ type = "cancel" /\ state \in {"planning", "publishing", "bidding"}
  \/ type = "delete" /\ state # Absent

TenderTxn(type) == IF type = "create" THEN FirstTxn ELSE RereadTxn

TenderRechecks(type, state) ==
  IF type = "delete" THEN state \notin {Absent, "deleted"}
  ELSE TenderAdmits(type, state)

TenderLeaves(type) ==
  CASE type = "create" -> "planning"
    [] type = "publish" -> "publishing"
    [] type = "open_bidding" -> "bidding"
    [] type = "award" -> "awarded"
    [] type = "complete" -> "completed"
    [] type = "cancel" -> "cancelled"
    [] type = "delete" -> "deleted"

-----------------------------------------------------------------------------
(***************************************************************************)
(* Invoices, outgoing and incoming                                         *)
(***************************************************************************)
InvoiceTypes == {"create", "delete"}

\* The invoice date is today's unless the client names one.
InvoiceStamped(type) == type = "create"

\* A deletion names the principal and the scope of the invoice; it does not
\* look at its state.
InvoiceAdmits(type, state, mine) ==
  \/ type = "create" /\ state = Absent
  \/ type = "delete" /\ state # Absent /\ mine

InvoiceTxn(type) == IF type = "create" THEN FirstTxn ELSE PrereadTxn

InvoiceRechecks(type, state) == InvoiceAdmits(type, state, TRUE)

InvoiceLeaves(type) == IF type = "create" THEN "issued" ELSE "deleted"

=============================================================================
