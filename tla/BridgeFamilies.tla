--------------------------- MODULE BridgeFamilies ---------------------------
(***************************************************************************)
(* The command families of the Python bridge, each by its tables (see      *)
(* BridgeTables), under one name per table.                                *)
(***************************************************************************)
EXTENDS BridgeProcurement, BridgeCommercial, BridgeAdministration, Naturals

AllFamilies ==
  {"expense", "contract", "payment", "milestone", "split", "supplier",
   "tender", "invoice", "loan", "plan_task", "preference", "admin_dict",
   "report_template", "dynamic_cost", "project", "warning", "subscription",
   "message"}
    \cup SalesFamilies \cup MarketingFamilies \cup DeliveryFamilies
    \cup FundFamilies

Types(f) ==
  CASE f = "expense" -> ExpenseTypes
    [] f = "contract" -> ContractTypes
    [] f = "payment" -> PaymentTypes
    [] f = "milestone" -> MilestoneTypes
    [] f = "split" -> SplitTypes
    [] f = "supplier" -> SupplierTypes
    [] f = "tender" -> TenderTypes
    [] f = "invoice" -> InvoiceTypes
    [] f \in SalesFamilies -> SalesTypes(f)
    [] f \in MarketingFamilies -> MarketingTypes(f)
    [] f \in DeliveryFamilies -> DeliveryTypes(f)
    [] f = "loan" -> LoanTypes
    [] f \in FundFamilies -> FundTypes(f)
    [] f = "plan_task" -> PlanTaskTypes
    [] f = "preference" -> PreferenceTypes
    [] f = "admin_dict" -> AdminDictTypes
    [] f = "report_template" -> ReportTemplateTypes
    [] f = "dynamic_cost" -> DynamicCostTypes
    [] f = "project" -> ProjectTypes
    [] f = "warning" -> WarningTypes
    [] f = "subscription" -> SubscriptionTypes
    [] f = "message" -> MessageTypes

\* The ways a creation gets the identity of its record.
Identities(f) ==
  CASE f \in {"expense", "payment", "tender"} -> {"given", "fresh"}
    [] f \in {"milestone", "invoice", "loan", "plan_task"}
               \cup MarketingFamilies \cup FundFamilies -> {"given", "keyed"}
    [] f \in {"admin_dict", "report_template", "project"} -> {"keyed"}
    [] f = "subscription" -> {"allocated"}
    [] OTHER -> {"given"}

Stamped(f, type) ==
  CASE f = "payment" -> PaymentStamped(type)
    [] f = "milestone" -> MilestoneStamped(type)
    [] f = "invoice" -> InvoiceStamped(type)
    [] f \in SalesFamilies -> SalesStamped(f, type)
    [] f \in MarketingFamilies -> MarketingStamped(f, type)
    [] f \in FundFamilies -> FundStamped(f, type)
    [] f = "message" -> MessageStamped(type)
    [] OTHER -> FALSE

Pre(f, type) ==
  CASE f = "payment" -> PaymentPre(type)
    [] f = "milestone" -> MilestonePre(type)
    [] f = "split" -> SplitPre(type)
    [] f = "tender" -> TenderPre(type)
    [] f \in SalesFamilies -> SalesPre(f, type)
    [] f \in DeliveryFamilies -> DeliveryPre(f)
    [] f \in FundFamilies -> FundPre(type)
    [] f = "plan_task" -> PlanTaskPre(type)
    [] f = "preference" -> PreferencePre(type)
    [] f = "admin_dict" -> AdminDictPre(type)
    [] f = "report_template" -> ReportTemplatePre(type)
    [] f = "dynamic_cost" -> DynamicCostPre(type)
    [] f = "project" -> ProjectPre(type)
    [] f = "warning" -> WarningPre(type)
    [] f = "subscription" -> SubscriptionPre(type)
    [] f = "message" -> MessagePre(type)
    [] OTHER -> ReceiptFirst

Shown(f, state) ==
  CASE f = "contract" -> ContractShown(state)
    [] f = "tender" -> TenderShown(state)
    [] f = "project" -> ProjectShown(state)
    [] OTHER -> state

Admits(f, type, state, mine) ==
  CASE f = "expense" -> ExpenseAdmits(type, state, mine)
    [] f = "contract" -> ContractAdmits(type, state)
    [] f = "payment" -> PaymentAdmits(type, state)
    [] f = "milestone" -> MilestoneAdmits(type, state)
    [] f = "split" -> SplitAdmits(type, state)
    [] f = "supplier" -> SupplierAdmits(type, state)
    [] f = "tender" -> TenderAdmits(type, state)
    [] f = "invoice" -> InvoiceAdmits(type, state, mine)
    [] f \in SalesFamilies -> SalesAdmits(f, type, state)
    [] f \in MarketingFamilies -> MarketingAdmits(type, state, mine)
    [] f \in DeliveryFamilies -> DeliveryAdmits(f, type, state)
    [] f = "loan" -> LoanAdmits(type, state, mine)
    [] f \in FundFamilies -> FundAdmits(f, type, state, mine)
    [] f = "plan_task" -> PlanTaskAdmits(type, state, mine)
    [] f = "admin_dict" -> AdminDictAdmits(type, state)
    [] f = "report_template" -> ReportTemplateAdmits(type, state, mine)
    [] f = "dynamic_cost" -> DynamicCostAdmits(type, state)
    [] f = "project" -> ProjectAdmits(type, state)
    [] f = "warning" -> WarningAdmits(type, state)
    [] f = "subscription" -> SubscriptionAdmits(type, state)
    [] OTHER -> TRUE

Txn(f, type) ==
  CASE f = "expense" -> ExpenseTxn(type)
    [] f = "contract" -> ContractTxn(type)
    [] f = "payment" -> PaymentTxn(type)
    [] f = "milestone" -> MilestoneTxn(type)
    [] f = "split" -> SplitTxn(type)
    [] f = "supplier" -> SupplierTxn(type)
    [] f = "tender" -> TenderTxn(type)
    [] f = "invoice" -> InvoiceTxn(type)
    [] f \in SalesFamilies -> SalesTxn(type)
    [] f \in MarketingFamilies -> MarketingTxn(type)
    [] f \in DeliveryFamilies -> DeliveryTxn(type)
    [] f = "loan" -> LoanTxn(type)
    [] f \in FundFamilies -> FundTxn(type)
    [] f = "plan_task" -> PlanTaskTxn(type)
    [] f = "preference" -> PreferenceTxn(type)
    [] f = "admin_dict" -> AdminDictTxn(type)
    [] f = "report_template" -> ReportTemplateTxn(type)
    [] f = "dynamic_cost" -> DynamicCostTxn(type)
    [] f = "project" -> ProjectTxn(type)
    [] f = "warning" -> WarningTxn(type)
    [] f = "subscription" -> SubscriptionTxn(type)
    [] f = "message" -> MessageTxn(type)

Rechecks(f, type, state) ==
  CASE f = "expense" -> ExpenseRechecks(type, state)
    [] f = "contract" -> ContractRechecks(type, state)
    [] f = "payment" -> PaymentRechecks(type, state)
    [] f = "milestone" -> MilestoneRechecks(type, state)
    [] f = "split" -> SplitRechecks(type, state)
    [] f = "supplier" -> SupplierRechecks(type, state)
    [] f = "tender" -> TenderRechecks(type, state)
    [] f = "invoice" -> InvoiceRechecks(type, state)
    [] f \in SalesFamilies -> SalesRechecks(type, state)
    [] f \in MarketingFamilies -> MarketingRechecks(type, state)
    [] f \in DeliveryFamilies -> DeliveryRechecks(f, type, state)
    [] f = "loan" -> LoanRechecks(type, state)
    [] f \in FundFamilies -> FundRechecks(type, state)
    [] f = "plan_task" -> PlanTaskRechecks(type, state)
    [] f = "preference" -> PreferenceRechecks(type, state)
    [] f = "admin_dict" -> AdminDictRechecks(type, state)
    [] f = "report_template" -> ReportTemplateRechecks(type, state)
    [] f = "dynamic_cost" -> DynamicCostRechecks(type, state)
    [] f = "project" -> ProjectRechecks(type, state)
    [] f = "warning" -> WarningRechecks(type, state)
    [] f = "subscription" -> SubscriptionRechecks(type, state)
    [] f = "message" -> TRUE

\* What a command may ask of the state it leaves ("": nothing), and where the
\* creation of a milestone names another one, if it does.
Wants(f, type) ==
  CASE f = "milestone" /\ type = "create" -> {"", "before", "after"}
    [] f = "milestone" /\ type = "update" -> {"", "reached", "paid"}
    [] f = "supplier" /\ type = "review" -> {"", "qualified"}
    [] f = "revenues" /\ type = "create" -> {"", "received"}
    [] f = "campaign" /\ type = "update" -> {"", "running"}
    [] f = "placement" /\ type = "effect" -> {"", "placed"}
    [] f = "plan_task" /\ type = "update" -> {"", "in_progress", "done"}
    [] OTHER -> {""}

Leaves(f, type, state, wants) ==
  CASE f = "expense" -> ExpenseLeaves(type)
    [] f = "contract" -> ContractLeaves(type, state)
    [] f = "payment" -> PaymentLeaves(type, state)
    [] f = "milestone" -> MilestoneLeaves(type, state, wants)
    [] f = "split" -> SplitLeaves(type)
    [] f = "supplier" -> SupplierLeaves(type, state, wants = "qualified")
    [] f = "tender" -> TenderLeaves(type)
    [] f = "invoice" -> InvoiceLeaves(type)
    [] f \in SalesFamilies -> SalesLeaves(f, type, state, wants)
    [] f \in MarketingFamilies -> MarketingLeaves(f, type, state, wants)
    [] f \in DeliveryFamilies -> DeliveryLeaves(f, type)
    [] f = "loan" -> LoanLeaves(type)
    [] f \in FundFamilies -> FundLeaves(f, type)
    [] f = "plan_task" -> PlanTaskLeaves(type, state, wants)
    [] f = "preference" -> PreferenceLeaves(type)
    [] f = "admin_dict" -> AdminDictLeaves(type)
    [] f = "report_template" -> ReportTemplateLeaves(type)
    [] f = "dynamic_cost" -> DynamicCostLeaves(type, state)
    [] f = "project" -> ProjectLeaves(type)
    [] f = "warning" -> WarningLeaves(type)
    [] f = "subscription" -> SubscriptionLeaves(type)
    [] f = "message" -> MessageLeaves(type)

\* The commands that are refused to anyone but the owner of the record.
Owned(f, type) ==
  CASE f \in {"expense", "fund_plan", "plan_task"} -> type \in {"update", "void", "delete"}
    [] f = "loan" -> type \in {"submit", "update", "void"}
    [] f \in MarketingFamilies \cup {"invoice", "report_template"} -> type # "create"
    [] OTHER -> FALSE

\* The states a record can be brought to, one command after the other.
After(f, states) ==
  states \cup
    {Leaves(f, y[1], y[2], y[3]) : y \in
       {x \in Types(f) \X states \X UNION {Wants(f, t) : t \in Types(f)} :
          /\ x[3] \in Wants(f, x[1])
          /\ Admits(f, x[1], Shown(f, x[2]), TRUE)
          /\ Rechecks(f, x[1], x[2])}}

Reachable ==
  [f \in AllFamilies |->
     LET within[n \in 0..6] == IF n = 0 THEN {Absent} ELSE After(f, within[n - 1])
     IN within[6]]

\* Before the transaction: does the stored request answer this one?
Uncompared == {"preference", "admin_dict", "project"}

\* Fault: a stored receipt answers whatever is asked under its key.
Answers_Anything(f, stored, mine) == TRUE

Answers(f, stored, mine) ==
  CASE f \in Uncompared -> TRUE
    [] f = "report_template" -> ReportTemplateAnswers(stored, mine)
    [] f = "message" -> MessageAnswers(stored, mine)
    [] OTHER -> stored = mine

\* The families that run their transaction once, and read the receipt back
\* instead of comparing it when the key turns out to be taken.
Single == {"admin_dict", "report_template", "warning"}

=============================================================================
