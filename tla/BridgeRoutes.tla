----------------------------- MODULE BridgeRoutes -----------------------------
(***************************************************************************)
(* The endpoints of the Python bridge.  A path is a tuple of words, without*)
(* the leading /api/company; in the path of a route, Name stands for an    *)
(* identifier, which a word of another route may be as well, and Digits for*)
(* a number.                                                               *)
(*                                                                         *)
(* A read route says how its request may fail before or after the queries: *)
(* "param" a parameter is missing, "number" one is not a number, "found"   *)
(* the record is not there.  A command route names the family and the type *)
(* of the command (see BridgeFamilies), and whether the record is read     *)
(* again for the reply.                                                    *)
(***************************************************************************)
EXTENDS BridgeFamilies, FiniteSets, SequencesExt

Name == "*"
Digits == "#"

Read(path) == [path |-> path, asks |-> {}]

ReadWith(path, asks) == [path |-> path, asks |-> asks]

SalesWords ==
  {"customers", "subscriptions", "contracts", "mortgages", "refunds", "revenues"}

-----------------------------------------------------------------------------
(***************************************************************************)
(* Reads, in the order do_GET tries them                                   *)
(***************************************************************************)
SpendingReads ==
  {Read(<<"/api", "health">>),
   ReadWith(<<"import", Name, "template">>, {"found"}), Read(<<"summary">>),
   ReadWith(<<"auth", "me">>, {"found"}), ReadWith(<<"auth", "prefs">>, {"found"}),
   ReadWith(<<"auth", "my-initiated">>, {"found"}),
   Read(<<"receipts">>), Read(<<"projections">>),
   ReadWith(<<"budget", "expenses">>, {"found"}),
   ReadWith(<<"budget", "expenses", Name>>, {"found"}),
   Read(<<"source", "cost", "contracts">>),
   ReadWith(<<"source", "cost", "contracts", Name, "milestones">>, {"found"}),
   ReadWith(<<"source", "cost", "contracts", Name>>, {"found"}),
   Read(<<"source", "cost", "payment-applies">>),
   Read(<<"expenses">>), ReadWith(<<"expenses", Name>>, {"found"})}

ProcurementReads ==
  {Read(<<"contracts">>), ReadWith(<<"contracts", Name>>, {"found"}),
   Read(<<"payment-applies">>),
   ReadWith(<<"payment-applies", "eligibility">>, {"number", "found"})}
    \cup {Read(<<"source", "tender", w>>) : w \in {"tenders", "awards", "splits"}}
    \cup
  {Read(<<"tenders">>), ReadWith(<<"tenders", Name>>, {"found"}),
   Read(<<"suppliers">>)}

CashflowReads ==
  {ReadWith(<<"cashflow", "forecast">>, {"number"}),
   ReadWith(<<"cashflow", "forecast-v3">>, {"number", "param"}),
   ReadWith(<<"cashflow", "forecast", "detail">>, {"param"})}
    \cup {ReadWith(<<"cashflow", w>>, {"number"}) : w \in {"inflow", "net", "gap-alert"}}

SupplierReads ==
  {Read(<<"source", "srm", "categories">>),
   Read(<<"source", "migration", "schema-coverage">>),
   Read(<<"source", "srm", "dict", "eval-results">>),
   Read(<<"source", "srm", "dict", "sources">>),
   Read(<<"srm", "providers">>), Read(<<"srm", "providers", Name, "check-sign">>),
   ReadWith(<<"srm", "providers", Name, "risk">>, {"found"}),
   ReadWith(<<"srm", "providers", Name>>, {"found"}),
   Read(<<"srm", "stats", "overview">>), Read(<<"supplier-risk-board">>),
   Read(<<"srm", "risk-board">>),
   ReadWith(<<"suppliers", Name, "risk">>, {"found"}),
   ReadWith(<<"suppliers", Name>>, {"found"})}

SalesReads ==
  {Read(<<"tender-splits">>), ReadWith(<<"tender-splits", Name>>, {"found"}),
   ReadWith(<<"payment-applies", Name>>, {"found"})}
    \cup {Read(<<"sales", w>>) : w \in SalesWords}
    \cup {ReadWith(<<"sales", w, Name>>, {"found"}) : w \in SalesWords}
    \cup {Read(<<"source", "sales", w>>) : w \in SalesWords}
    \cup
  {Read(<<"receivables">>), ReadWith(<<"receivables", Name>>, {"found"}),
   Read(<<"source", "invoice", "in">>), Read(<<"source", "invoice", "out">>),
   Read(<<"source", "invoice", "tax-ledger">>),
   Read(<<"invoices">>), ReadWith(<<"invoices", Name>>, {"found"})}

ReportReads ==
  {Read(<<"reports", w>>) :
     w \in {"overview", "templates", "cost-summary", "contract-payment-ledger",
            "supplier-analysis", "approval-efficiency", "project-stage-matrix"}}
    \cup
  {Read(<<"reports", "templates", "meta">>),
   ReadWith(<<"source", "cost", "dynamic-cost", Name, "remarks">>, {"found"}),
   ReadWith(<<"source", "cost", "milestones", Name, "check">>, {"number", "found"}),
   ReadWith(<<"cost", "dynamic-cost">>, {"param"}),
   Read(<<"dashboard", "group", "overview">>), Read(<<"dashboard", "group", "funnel">>),
   ReadWith(<<"dashboard", "group", "top-anomalies">>, {"number"}),
   Read(<<"dashboard", "v2", "group">>), Read(<<"dashboard", "v3", "group">>),
   ReadWith(<<"dashboard", "project", Name, "kpi">>, {"found"}),
   Read(<<"dashboard", "project", Name, "anomalies">>),
   Read(<<"projects">>), ReadWith(<<"projects", Name>>, {"found"}),
   Read(<<"business-units", "tree">>),
   Read(<<"budget", "dict", "cost-subjects">>), Read(<<"budget", "proceedings">>)}

CbsReads ==
  {Read(<<"cbs", "r-master">>), ReadWith(<<"cbs", "dict">>, {"param"}),
   ReadWith(<<"cbs", "dict", "f-balance">>, {"param", "found"}),
   ReadWith(<<"cbs", "versions">>, {"param"}),
   ReadWith(<<"cbs", "versions", "compare">>, {"param"}),
   Read(<<"cbs", "r0", "queue">>),
   ReadWith(<<"cbs", "approval-rules", "pick">>, {"param"}),
   Read(<<"cbs", "approval-rules">>), Read(<<"cbs", "changes">>),
   Read(<<"cbs", "demo", "contracts">>),
   Read(<<"fund", "plans">>), ReadWith(<<"fund", "gap-analysis">>, {"param"}),
   Read(<<"fund", "dispatches">>), Read(<<"warning">>),
   Read(<<"warning", "tickets", "mine">>)}
    \cup {Read(<<"warning", w>>) :
            w \in {"badge", "rules", "scans", "custom-rules", "rule-templates"}}

ObservationReads ==
  {ReadWith(<<"attachments", "download", Name>>, {"found"}), Read(<<"attachments">>)}
    \cup {Read(<<"attachments", w>>) : w \in {"list", "all", "stats"}}
    \cup {Read(<<"marketing", w>>) :
            w \in {"campaigns", "placements", "channels", "materials"}}
    \cup
  {Read(<<"ai-stats", "overview">>), ReadWith(<<"ai-stats", "activity">>, {"number"}),
   ReadWith(<<"ai-stats", "badge">>, {"param"}),
   ReadWith(<<"ai-hub", "drafts", Name>>, {"found"}),
   Read(<<"webhook", "config">>), Read(<<"admin", "ocr", "status">>),
   ReadWith(<<"admin", "error-log">>, {"number"})}
    \cup {Read(<<"ai-hub", w>>) :
            w \in {"corrections", "correction-stats", "drafts", "query-log",
                   "usage-stats"}}
    \cup
  {ReadWith(<<"notify", "messages">>, {"number"}),
   Read(<<"notify", "messages", "unread-count">>),
   Read(<<"notify", "digest", "preview">>), Read(<<"notify", "digest", "log">>)}
    \cup {Read(<<"notify", w>>) :
            w \in {"subscriptions", "config", "email-outbox", "llm-providers"}}

InvestmentReads ==
  {Read(<<"investment", "meta", "dimensions">>),
   ReadWith(<<"investment", "excel-imports", Name>>, {"found"})}
    \cup {Read(<<"investment", "projects", Name, w>>) :
            w \in {"versions", "excel-imports", "plan-lines", "profit-summary",
                   "sensitivity"}}
    \cup {ReadWith(<<"investment", "projects", Name, w>>, {"found"}) :
            w \in {"subject-mappings", "profit-cockpit", "profit-actual",
                   "profit-actual-v2"}}
    \cup {ReadWith(<<"investment", "excel-imports", Name, w>>, {"found"}) :
            w \in {"bridge-plan", "index-upsert-preview", "profit-table",
                   "plan-line-preview"}}
    \cup {Read(<<"investment", "versions", Name, "indices">>)}

AdministrationReads ==
  {Read(<<"admin", "dict", "groups">>), Read(<<"admin", "dict", "options">>),
   Read(<<"admin", "quality", "overview">>),
   Read(<<"rbac", "users">>), ReadWith(<<"rbac", "me">>, {"found"}),
   Read(<<"rbac", "roles">>), ReadWith(<<"rbac", "roles", Name>>, {"found"}),
   Read(<<"rbac", "permission-catalog">>),
   ReadWith(<<"admin", "audit", "logs">>, {"number"}),
   Read(<<"admin", "audit", "actions">>),
   Read(<<"admin", "backup", "db">>), Read(<<"admin", "llm", "status">>),
   Read(<<"admin", "ai", "diag">>)}
    \cup {Read(<<"admin", "health", w>>) : w \in {"tables", "bpm-pool", "full"}}

ProjectReads ==
  {Read(<<"projects", Name, "tasks">>), ReadWith(<<"tasks", Name>>, {"found"}),
   Read(<<"projects", Name, "plan-summary">>),
   ReadWith(<<"projects", Name, "lifecycle">>, {"found"}),
   ReadWith(<<"tasks", Name, "delay-impact">>, {"number", "found"}),
   Read(<<"workflow", "process-defs">>),
   ReadWith(<<"workflow", "process-defs", Name, "preview">>, {"found"}),
   Read(<<"source", "budget", "users-in-bu">>),
   ReadWith(<<"source", "budget", "my-loan-balance">>, {"found"})}
    \cup {Read(<<"source", "workflow", "tasks", w>>) :
            w \in {"mine", "initiated", "my-history"}}
    \cup {ReadWith(<<"source", "workflow", "instances", "by-biz">>, {"param"})}

DeliveryReads ==
  {ReadWith(<<"source", "workflow", "instances", Name>>, {"found"}),
   Read(<<"loans">>), ReadWith(<<"loans", Name>>, {"found"}),
   Read(<<"source", "delivery", "progress">>), Read(<<"source", "delivery", "outputs">>),
   Read(<<"delivery", "task-reports">>),
   ReadWith(<<"delivery", "plan-summary">>, {"param"}),
   ReadWith(<<"delivery", "overview">>, {"param"})}
    \cup {Read(<<"delivery", w>>) : w \in {"progress", "outputs", "tasks"}}
    \cup {ReadWith(<<"delivery", w, Name>>, {"found"}) :
            w \in {"progress", "outputs", "tasks"}}

ReadOrder ==
  <<SpendingReads, ProcurementReads, CashflowReads, SupplierReads, SalesReads,
    ReportReads, CbsReads, ObservationReads, InvestmentReads,
    AdministrationReads, ProjectReads, DeliveryReads>>

-----------------------------------------------------------------------------
(***************************************************************************)
(* Commands                                                                *)
(***************************************************************************)
Command(path, family, type) ==
  [path |-> path, family |-> family, type |-> type, again |-> FALSE]

\* The reply to some source-field aliases is made of the record as it is after
\* the command, by further queries.
Alias(path, family, type) ==
  [path |-> path, family |-> family, type |-> type, again |-> TRUE]

\* A verb of a path names the type of the command, or one it stands for.
TypeOf(verb) ==
  CASE verb = "submit-for-approval" -> "submit"
    [] verb = "sync-from-workflow" -> "sync_from_workflow"
    [] verb = "confirm-received" -> "confirm_received"
    [] OTHER -> verb

Verbs(words, family, verbs) ==
  {Command(words \o <<Name, v>>, family, TypeOf(v)) : v \in verbs}

\* The contracts of sales are a family of their own, and so are the
\* receivables opened for them.
SalesFamily(word) == IF word = "contracts" THEN "sales_contracts" ELSE word

Creations ==
  {Command(<<"expenses">>, "expense", "create"),
   Command(<<"contracts">>, "contract", "create"),
   Command(<<"payment-applies">>, "payment", "create"),
   Command(<<"source", "cost", "payment-applies">>, "payment", "create"),
   Command(<<"cost", "dynamic-cost">>, "dynamic_cost", "create"),
   Command(<<"tenders">>, "tender", "create"),
   Command(<<"source", "tender", "tenders">>, "tender", "create"),
   Alias(<<"source", "cost", "contracts">>, "contract", "create"),
   Alias(<<"source", "mdm", "projects">>, "project", "create"),
   Alias(<<"source", "srm", "providers">>, "supplier", "create"),
   Command(<<"suppliers">>, "supplier", "create"),
   Command(<<"loans">>, "loan", "create"),
   Command(<<"fund", "plans">>, "fund_plan", "create"),
   Command(<<"fund", "dispatches">>, "fund_dispatch", "create"),
   Command(<<"plan", "tasks">>, "plan_task", "create"),
   Command(<<"reports", "templates">>, "report_template", "create"),
   Command(<<"admin", "dict", "options">>, "admin_dict", "create"),
   Command(<<"tender-splits">>, "split", "create"),
   Command(<<"source", "tender", "splits">>, "split", "create")}

MoreCreations ==
  {Command(<<"warning", Name, t>>, "warning", t) : t \in WarningTypes}
    \cup {Command(<<"source", "invoice", w>>, "invoice", "create") : w \in {"in", "out"}}
    \cup {Command(<<"sales", w>>, SalesFamily(w), "create") : w \in SalesWords}
    \cup
  {Command(<<"delivery", "progress">>, "progress", "create"),
   Command(<<"delivery", "outputs">>, "output", "create"),
   Command(<<"marketing", "campaigns">>, "campaign", "create"),
   Command(<<"marketing", "placements">>, "placement", "create"),
   Command(<<"marketing", "channels">>, "channel", "create"),
   Command(<<"marketing", "materials">>, "material", "create")}

\* The report of a task creates one, and so does opening a receivable.
Transitions ==
  Verbs(<<"expenses">>, "expense",
        {"submit", "submit-for-approval", "approve", "reject", "resubmit", "void"})
    \cup Verbs(<<"contracts">>, "contract", {"submit", "approve", "reject", "resubmit"})
    \cup Verbs(<<"payment-applies">>, "payment",
               {"submit", "approve", "reject", "resubmit", "update", "void"})
    \cup Verbs(<<"tenders">>, "tender",
               {"publish", "open_bidding", "award", "complete", "cancel"})
    \cup Verbs(<<"suppliers">>, "supplier",
               {"update", "submit_review", "review", "blacklist", "void"})
    \cup Verbs(<<"loans">>, "loan",
               {"submit-for-approval", "offset", "sync-from-workflow", "update", "void"})
    \cup
  {Command(<<"source", "cost", "contracts", Name, "milestones">>, "milestone", "create"),
   Command(<<"source", "cost", "milestones", Name, "trigger-event">>,
           "milestone", "trigger_event"),
   Command(<<"fund", "dispatches", Name, "approve">>, "fund_dispatch", "approve"),
   Command(<<"fund", "plans", Name, "delete">>, "fund_plan", "delete"),
   Command(<<"plan", "tasks", Name, "report">>, "task_report", "create"),
   Command(<<"plan", "tasks", Name, "delete">>, "plan_task", "delete"),
   Command(<<"delivery", "tasks", Name, "report">>, "task_report", "create"),
   Command(<<"delivery", "outputs", Name, "confirm">>, "output", "confirm"),
   Command(<<"marketing", "placements", Name, "effect">>, "placement", "effect")}
    \cup Verbs(<<"delivery", "progress">>, "progress", {"report", "accept", "reject"})

\* Every verb of sales with every one of its families, sensible or not.
SalesTransitionRoutes ==
  {Command(<<"sales", "contracts", Name, "open_receivable">>, "receivable", "create")}
    \cup UNION {Verbs(<<"sales", w>>, SalesFamily(w),
                  {"update", "block", "archive", "convert", "cancel", "fulfill",
                   "approve", "release", "pay", "reject", "delete",
                   "confirm-received"}) : w \in SalesWords}

\* The two that read but are posted.
PostedReads ==
  {Read(<<"budget-check">>), Read(<<"reports", "templates", "run">>)}

MessagePosts ==
  {Command(<<"source", "notify", "messages", "read-all">>, "message", "read_all"),
   Command(<<"source", "notify", "messages", Name, "read">>, "message", "read")}

SubscriptionRoutes(method) ==
  CASE method = "POST" ->
         {Command(<<"source", "notify", "subscriptions">>, "subscription", "create")}
    [] method = "PATCH" ->
         {Command(<<"source", "notify", "subscriptions", Digits>>, "subscription", "update")}
    [] method = "DELETE" ->
         {Command(<<"source", "notify", "subscriptions", Digits>>, "subscription", "delete")}

PostOrder ==
  <<MessagePosts, SubscriptionRoutes("POST"), PostedReads, Creations,
    MoreCreations, Transitions, SalesTransitionRoutes>>

\* The aliases for PUT and DELETE translate the method into a type.
As(method, put, delete) == IF method = "PUT" THEN put ELSE delete

DynamicCostAlias(method) ==
  {Command(<<"source", "cost", "dynamic-cost", Name>>, "dynamic_cost",
           As(method, "update", "void"))}

CostAliases(method) ==
  {Alias(<<"source", "cost", "contracts", Name>>, "contract", As(method, "update", "void")),
   Command(<<"source", "cost", "milestones", Name>>, "milestone",
           As(method, "update", "delete")),
   Alias(<<"source", "cost", "payment-applies", Name>>, "payment",
         As(method, "update", "void"))}

PlanningAliases(method) ==
  {Command(<<"plan", "tasks", Name>>, "plan_task", As(method, "update", "delete")),
   Command(<<"fund", "plans", Name>>, "fund_plan", As(method, "update", "delete"))}

OwnAliases(method) ==
  {Command(<<"expenses", Name>>, "expense", As(method, "update", "void")),
   Command(<<"sales", "revenues", Name>>, "revenues", As(method, "update", "delete")),
   Command(<<"marketing", "campaigns", Name>>, "campaign", As(method, "update", "delete"))}

LoanAlias(method) ==
  {Command(<<"loans", Name>>, "loan", As(method, "update", "void"))}

PartyAliases(method) ==
  {Alias(<<"source", "mdm", "projects", Name>>, "project", As(method, "update", "delete")),
   Alias(<<"source", "srm", "providers", Name>>, "supplier", As(method, "update", "void"))}

PreferenceAlias(method) ==
  {Command(<<"source", "auth", "prefs", Name>>, "preference", As(method, "set", "delete"))}

PairedAliases(method) ==
  DynamicCostAlias(method) \cup CostAliases(method) \cup PlanningAliases(method)
    \cup OwnAliases(method) \cup LoanAlias(method) \cup PartyAliases(method)
    \cup PreferenceAlias(method)

PutOrder ==
  <<PairedAliases("PUT"),
    {Command(<<"marketing", "placements", Name, "effect">>, "placement", "effect")}>>

PatchOrder ==
  <<{Command(<<"admin", "dict", "options", Name>>, "admin_dict", "update")},
    SubscriptionRoutes("PATCH"),
    {Alias(<<"source", "srm", "providers", Name>>, "supplier", "update")}>>

TemplateDeletion ==
  {Command(<<"reports", "templates", Name>>, "report_template", "delete")}

InvoiceDeletions ==
  {Command(<<"source", "invoice", w, Name>>, "invoice", "delete") : w \in {"in", "out"}}

PlanDeletions ==
  {Command(<<"delivery", "progress", Name>>, "progress", "delete"),
   Command(<<"tenders", Name>>, "tender", "delete"),
   Command(<<"source", "tender", "tenders", Name>>, "tender", "delete")}

MarketingDeletions ==
  {Command(<<"marketing", "channels", Name>>, "channel", "delete"),
   Command(<<"marketing", "materials", Name>>, "material", "delete")}

DeleteOrder ==
  <<SubscriptionRoutes("DELETE"), PairedAliases("DELETE"),
    TemplateDeletion \cup InvoiceDeletions \cup PlanDeletions \cup MarketingDeletions>>

\* Fault: the reads of one payment application before its eligibility.
Order_Reversed(method) ==
  CASE method = "GET" -> Reverse(ReadOrder)
    [] method = "POST" -> PostOrder
    [] method = "PUT" -> PutOrder
    [] method = "PATCH" -> PatchOrder
    [] method = "DELETE" -> DeleteOrder

\* The routes of a method, in the order they are tried.
Order(method) ==
  CASE method = "GET" -> ReadOrder
    [] method = "POST" -> PostOrder
    [] method = "PUT" -> PutOrder
    [] method = "PATCH" -> PatchOrder
    [] method = "DELETE" -> DeleteOrder

Methods == {"GET", "POST", "PUT", "PATCH", "DELETE"}

Routes(method) == UNION ToSet(Order(method))

CommandRoutes == UNION {{r \in Routes(m) : "family" \in DOMAIN r} : m \in Methods}

\* A path matches a route word by word.
Matches(path, route) ==
  /\ Len(path) = Len(route.path)
  /\ \A i \in DOMAIN path :
       \/ path[i] = route.path[i]
       \/ route.path[i] = Name
       \/ route.path[i] = Digits /\ path[i] = "7"

\* The routes that serve a path: those of the first group that has any.
Serving(method, path) ==
  LET order == Order(method)
      found == {i \in DOMAIN order : \E r \in order[i] : Matches(path, r)}
  IN IF found = {} THEN {}
     ELSE {r \in order[CHOOSE i \in found : \A j \in found : i <= j] : Matches(path, r)}

=============================================================================
