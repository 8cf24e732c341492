----------------------------- MODULE CommandRows -----------------------------
(***************************************************************************)
(* The revisions of business records in company_aggregate_projection, and  *)
(* the commands that write them: shared by the abstract register           *)
(* (CommandRegister) and the request pipeline (CompanyCommand).            *)
(***************************************************************************)
EXTENDS Naturals

-----------------------------------------------------------------------------
(***************************************************************************)
(* The command families of the company service that share one request      *)
(* pipeline: expense claims, contracts, payment applications, invoices,    *)
(* sales revenues, suppliers, marketing resources, fund plans and fund     *)
(* dispatches.  A family is a pair of tables: the states a command may     *)
(* find its aggregate in, and the state it leaves it in.  Everything here  *)
(* is constant level; the pipeline that applies them is CompanyCommand.    *)
(***************************************************************************)
Families ==
  {"expense", "contract", "payment", "invoice", "revenue", "supplier",
   "marketing", "plan", "dispatch"}

\* The commands that act on an aggregate that exists already.
Transitions ==
  {"update", "submit", "approve", "reject", "resubmit", "void",
   "delete", "confirm_received", "submit_review", "review", "blacklist",
   "effect"}
CommandTypes == {"create"} \cup Transitions

\* "issued" is the state of a registered invoice; an incoming one is called
\* "received" in the code.  "active" is the first state of any marketing
\* resource (planning, placed, active or designing), and "completed" whatever
\* other state a marketing request names.
States ==
  {"draft", "submitted", "approved", "rejected", "voided", "deleted",
   "issued", "expected", "received",
   "pending_review", "active", "suspended", "blacklisted",
   "completed", "planned", "updated", "pending"}

\* "absent": no projection row exists (Json::null() in the code).
Absent == "absent"

-----------------------------------------------------------------------------
(***************************************************************************)
(* The guards: the states in which each family admits a transition.        *)
(***************************************************************************)

\* The approval loop of claims, contracts and payment applications.
LoopGuard(type, state) ==
  \/ type = "submit" /\ state = "draft"
  \/ type \in {"approve", "reject"} /\ state = "submitted"
  \/ type = "resubmit" /\ state = "rejected"

ExpenseGuard(type, state) ==
  \/ LoopGuard(type, state)
  \/ type = "update" /\ state = "draft"
  \/ type = "void" /\ state \in {"draft", "rejected"}

ContractGuard(type, state) ==
  \/ LoopGuard(type, state)
  \/ type = "update" /\ state \in {"draft", "submitted"}
  \/ type = "void" /\ state # "deleted"

\* pay_state never leaves its default in a command-owned payload, so the
\* "paid payment application cannot be voided" guard is always passed.
PaymentGuard(type, state) ==
  \/ LoopGuard(type, state)
  \/ type = "update" /\ state = "submitted"
  \/ type = "void" /\ state # "voided"

InvoiceGuard(type, state) == type = "delete" /\ state # "deleted"

RevenueGuard(type, state) ==
  \/ type \in {"update", "delete"} /\ state \in {"expected", "received"}
  \/ type = "confirm_received" /\ state = "expected"

SupplierGuard(type, state) ==
  \/ type = "submit_review" /\ state = "draft"
  \/ type = "review" /\ state = "pending_review"
  \/ type \in {"update", "blacklist", "void"} /\ state # "voided"

MarketingGuard(type, state) ==
  type \in {"update", "effect", "delete"} /\ state # "deleted"

FundGuard(family, type, state) ==
  \/ /\ family = "plan"
     /\ type \in {"update", "delete"} /\ state \in {"planned", "updated"}
  \/ family = "dispatch" /\ type = "approve" /\ state = "pending"

Guard(family, type, state) ==
  \/ family = "expense" /\ ExpenseGuard(type, state)
  \/ family = "contract" /\ ContractGuard(type, state)
  \/ family = "payment" /\ PaymentGuard(type, state)
  \/ family = "invoice" /\ InvoiceGuard(type, state)
  \/ family = "revenue" /\ RevenueGuard(type, state)
  \/ family = "supplier" /\ SupplierGuard(type, state)
  \/ family = "marketing" /\ MarketingGuard(type, state)
  \/ FundGuard(family, type, state)

(***************************************************************************)
(* The state each command leaves; `state' is the state it was read in, and *)
(* `yes' whether the request is a favourable one: a revenue created as     *)
(* received, a supplier review that finds it qualified or strategic, a     *)
(* marketing change that names a state.                                    *)
(***************************************************************************)
LoopNext(type) ==
  IF type \in {"submit", "resubmit"} THEN "submitted"
  ELSE IF type = "approve" THEN "approved" ELSE "rejected"

ExpenseNext(type) ==
  IF type \in {"create", "update"} THEN "draft"
  ELSE IF type = "void" THEN "voided" ELSE LoopNext(type)

ContractNext(type, state) ==
  IF type = "create" THEN "draft"
  ELSE IF type = "update" THEN state
  ELSE IF type = "void" THEN "deleted" ELSE LoopNext(type)

PaymentNext(type) ==
  IF type = "create" THEN "draft"
  ELSE IF type = "update" THEN "submitted"
  ELSE IF type = "void" THEN "voided" ELSE LoopNext(type)

InvoiceNext(type) == IF type = "create" THEN "issued" ELSE "deleted"

RevenueNext(type, state, yes) ==
  IF type = "create" THEN (IF yes THEN "received" ELSE "expected")
  ELSE IF type = "confirm_received" THEN "received"
  ELSE IF type = "delete" THEN "deleted" ELSE state

SupplierNext(type, state, yes) ==
  IF type = "create" THEN "draft"
  ELSE IF type = "submit_review" THEN "pending_review"
  ELSE IF type = "review" THEN (IF yes THEN "active" ELSE "suspended")
  ELSE IF type = "blacklist" THEN "blacklisted"
  ELSE IF type = "void" THEN "voided" ELSE state

MarketingNext(type, state, yes) ==
  IF type = "delete" THEN "deleted"
  ELSE IF type # "create" /\ yes THEN "completed"
  ELSE IF type = "update" THEN state ELSE "active"

FundNext(family, type) ==
  IF type = "create" THEN (IF family = "plan" THEN "planned" ELSE "pending")
  ELSE IF type = "approve" THEN "approved"
  ELSE IF type = "delete" THEN "deleted" ELSE "updated"

NextState(family, type, state, yes) ==
  CASE family = "expense"  -> ExpenseNext(type)
    [] family = "contract" -> ContractNext(type, state)
    [] family = "payment"  -> PaymentNext(type)
    [] family = "invoice"  -> InvoiceNext(type)
    [] family = "revenue"  -> RevenueNext(type, state, yes)
    [] family = "supplier" -> SupplierNext(type, state, yes)
    [] family = "marketing" -> MarketingNext(type, state, yes)
    [] family \in {"plan", "dispatch"} -> FundNext(family, type)

\* Commands only the applicant of a claim, or the creator of a plan, may issue.
OwnerBound(family, type) ==
  \/ family = "expense" /\ type \in {"update", "void"}
  \/ family = "plan" /\ type \in {"update", "delete"}

\* Commands that name the principal and scope of the record they act on.
ScopeBound(family, type) ==
  \/ family = "invoice" /\ type = "delete"
  \/ family = "marketing" /\ type \in {"update", "effect", "delete"}

\* Families that look at the owner of a record before its state.
OwnerFirst(family) == family \in {"invoice", "marketing", "plan"}

\* Families that read their aggregate before they look for a receipt, and do
\* not read it at all for a creation.
ReadsFirst(family) == family \in {"plan", "dispatch"}

\* Families whose commands look for imported, source-owned rows of the same
\* identity: a creation is refused beside one.
ProtectsImported(family) == family # "expense"

\* Of these, the families that look through the list the reads serve, with
\* the local revisions in it.
ChecksVisible(family) == family \in {"contract", "payment"}

-----------------------------------------------------------------------------
(***************************************************************************)
(* Revisions and commands.                                                 *)
(***************************************************************************)
CONSTANTS
  Aggregates,   \* business records: (aggregate_type, aggregate_id) pairs
  FamilyOf,     \* the command family of each aggregate
  Imported,     \* aggregates that exist as read-only imported source rows
  Keys,         \* Idempotency-Key values
  Actors,       \* signed actor identities
  Values,       \* the rest of a payload: subject, amount, project ...
  Favourable    \* the payloads with a status of received, or an evaluation
                \* of qualified or strategic, or naming a new state

ASSUME FamilyAssumption == FamilyOf \in [Aggregates -> Families]

\* `owner' is who the request says the record belongs to: the applicant of a
\* claim, the principal and scope of an invoice, a revenue or a marketing
\* resource.  A fund plan belongs to the actor that creates it.
Commands ==
  [key : Keys, agg : Aggregates, type : CommandTypes,
   actor : Actors, owner : Actors, data : Values]

Yes(c) == c.data \in Favourable

\* event_id: the family, the command type and the key ("expense:submit:K").
EventOf(c) == [family |-> FamilyOf[c.agg], type |-> c.type, key |-> c.key]

Events == [family : Families, type : CommandTypes, key : Keys]

\* A revision: the payload fields the lifecycle reads and the event that
\* wrote it.  `by' is updated_by.
Rows ==
  [agg : Aggregates, rev : Nat \ {0}, event : Events, state : States,
   owner : Actors, by : Actors, data : Values]

OwnerGiven(c) == IF ReadsFirst(FamilyOf[c.agg]) THEN c.actor ELSE c.owner

\* Command c may act on the record as far as its owner goes.
Owns(c, r) ==
  /\ OwnerBound(FamilyOf[c.agg], c.type) => r.owner = c.actor
  /\ ScopeBound(FamilyOf[c.agg], c.type) => r.owner = c.owner

-----------------------------------------------------------------------------
VARIABLE rows   \* company_aggregate_projection

\* r is the row `ORDER BY revision DESC LIMIT 1' returns for aggregate a.
IsLatest(r, a) ==
  /\ r \in rows /\ r.agg = a
  /\ \A s \in rows : s.agg = a => s.rev <= r.rev

Exists(a) == \E r \in rows : r.agg = a

\* The first revision, written by a create command.
FirstRow(c) ==
  [agg |-> c.agg, rev |-> 1, event |-> EventOf(c),
   state |-> NextState(FamilyOf[c.agg], "create", Absent, Yes(c)),
   owner |-> OwnerGiven(c), by |-> c.actor, data |-> c.data]

\* Fault: every transition replaces the payload instead of merging into it.
SuccessorRow_Replaces(c, r) ==
  [agg |-> c.agg, rev |-> r.rev + 1, event |-> EventOf(c),
   state |-> NextState(FamilyOf[c.agg], c.type, r.state, Yes(c)),
   owner |-> r.owner, by |-> c.actor, data |-> c.data]

\* The revision a transition writes over revision r.  The revenue family merges
\* the whole request, its principal and scope with it.
SuccessorRow(c, r) ==
  [agg |-> c.agg, rev |-> r.rev + 1, event |-> EventOf(c),
   state |-> NextState(FamilyOf[c.agg], c.type, r.state, Yes(c)),
   owner |-> IF FamilyOf[c.agg] = "revenue" THEN c.owner ELSE r.owner,
   by |-> c.actor,
   data |-> IF c.type \in {"update", "effect"} THEN c.data ELSE r.data]

=============================================================================
