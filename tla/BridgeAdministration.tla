------------------------ MODULE BridgeAdministration ------------------------
(***************************************************************************)
(* The command families of the Python bridge that deal with planning and   *)
(* administration: project-plan tasks, projects, dynamic costs, user       *)
(* preferences, dictionary options, report templates, warnings and         *)
(* notifications.                                                          *)
(***************************************************************************)
EXTENDS BridgeTables

-----------------------------------------------------------------------------
(***************************************************************************)
(* Project-plan tasks                                                      *)
(***************************************************************************)
PlanTaskTypes == {"create", "update", "delete"}

PlanTaskPre(type) ==
  IF type = "create" THEN <<"related">> \o Receipt ELSE CurrentFirst

\* Only the creator changes a task; a creation does not look for a local task.
PlanTaskAdmits(type, state, mine) ==
  type = "create" \/ (state \notin {Absent, "deleted"} /\ mine)

PlanTaskTxn(type) == IF type = "create" THEN LockedFirstTxn ELSE LockedTxn

PlanTaskRechecks(type, state) ==
  IF type = "create" THEN state = Absent ELSE state \notin {Absent, "deleted"}

PlanTaskLeaves(type, state, wants) ==
  CASE type = "create" -> "pending"
    [] type = "update" -> IF wants = "" THEN state ELSE wants
    [] type = "delete" -> "deleted"

-----------------------------------------------------------------------------
(***************************************************************************)
(* User preferences                                                        *)
(***************************************************************************)
PreferenceTypes == {"set", "delete"}

\* The record is not read before the transaction, nor the stored request
\* compared.
PreferencePre(type) == Receipt

PreferenceTxn(type) == LockedTxn

\* A deleted preference may be deleted again.
PreferenceRechecks(type, state) == type = "delete" => state # Absent

PreferenceLeaves(type) == IF type = "set" THEN "active" ELSE "deleted"

-----------------------------------------------------------------------------
(***************************************************************************)
(* Dictionary options                                                      *)
(***************************************************************************)
AdminDictTypes == {"create", "update"}

AdminDictPre(type) ==
  IF type = "create" THEN Receipt \o <<"unique">> ELSE ReceiptFirst

\* An update starts from the local option.
AdminDictAdmits(type, state) == type = "create" \/ state # Absent

AdminDictTxn(type) == IF type = "create" THEN LockedFirstTxn ELSE LockedTxn

AdminDictRechecks(type, state) == type = "create" => state = Absent

AdminDictLeaves(type) == "active"

-----------------------------------------------------------------------------
(***************************************************************************)
(* Report templates                                                        *)
(***************************************************************************)
ReportTemplateTypes == {"create", "delete"}

ReportTemplatePre(type) ==
  IF type = "create" THEN Receipt ELSE ReceiptFirst

ReportTemplateAdmits(type, state, mine) ==
  type = "create" \/ (state \notin {Absent, "deleted"} /\ mine)

ReportTemplateTxn(type) ==
  IF type = "create" THEN LockedFirstTxn ELSE LockedTxn

ReportTemplateRechecks(type, state) ==
  IF type = "create" THEN state = Absent ELSE state \notin {Absent, "deleted"}

ReportTemplateLeaves(type) == IF type = "create" THEN "active" ELSE "deleted"

\* The stored request is compared field by field with the fields the client
\* sent, and a deletion is not asked whether the receipt is a deletion's.
ReportTemplateAnswers(stored, mine) ==
  IF mine.type = "create"
  THEN stored.type = "create" /\ stored.body = mine.body
  ELSE /\ stored.record = mine.record
       /\ stored.type = "delete" => stored.body = mine.body

-----------------------------------------------------------------------------
(***************************************************************************)
(* Dynamic costs                                                           *)
(***************************************************************************)
DynamicCostTypes == {"create", "update", "void"}

DynamicCostPre(type) ==
  IF type = "create" THEN <<"related">> \o ReceiptFirst ELSE ReceiptFirst

\* A voided cost may be created again under its identity.
DynamicCostAdmits(type, state) ==
  IF type = "create" THEN state \in {Absent, "deleted"}
  ELSE state \notin {Absent, "deleted"}

DynamicCostTxn(type) == RereadTxn

\* A change asks only that there be a revision.
DynamicCostRechecks(type, state) ==
  IF type = "create" THEN state \in {Absent, "deleted"} ELSE state # Absent

DynamicCostLeaves(type, state) ==
  CASE type = "create" -> "active"
    [] type = "update" -> state
    [] type = "void" -> "deleted"

-----------------------------------------------------------------------------
(***************************************************************************)
(* Projects                                                                *)
(***************************************************************************)
ProjectTypes == {"create", "update", "delete"}

ProjectPre(type) ==
  CASE type = "create" -> Receipt \o <<"unique", "related", "current">>
    [] type = "update" -> ReceiptFirst \o <<"related">>
    [] type = "delete" -> ReceiptFirst

\* The list of projects drops the deleted ones.
ProjectShown(state) == IF state = "deleted" THEN Absent ELSE state

ProjectAdmits(type, state) == (type = "create") <=> (state = Absent)

ProjectTxn(type) == IF type = "create" THEN LockedFirstTxn ELSE LockedTxn

ProjectRechecks(type, state) ==
  IF type = "create" THEN state = Absent ELSE state \notin {Absent, "deleted"}

ProjectLeaves(type) == IF type = "delete" THEN "deleted" ELSE "active"

-----------------------------------------------------------------------------
(***************************************************************************)
(* Warnings: a finding the rules still make is open until it is handled.   *)
(***************************************************************************)
WarningTypes == {"resolve", "ignore"}

WarningPre(type) == Receipt \o <<"related", "current">>

WarningAdmits(type, state) == state = Absent

\* Fault: a resolution stores its receipt before it takes the lock.
WarningTxn_Crossed(type) ==
  IF type = "resolve" THEN <<"key", "lock", "read", "number", "write">> ELSE LockedTxn

WarningTxn(type) == LockedTxn

WarningRechecks(type, state) == state = Absent

WarningLeaves(type) == IF type = "resolve" THEN "resolved" ELSE "ignored"

-----------------------------------------------------------------------------
(***************************************************************************)
(* Notification subscriptions and messages                                 *)
(***************************************************************************)
SubscriptionTypes == {"create", "update", "delete"}

\* A creation allocates the identity before it looks the receipt up again.
SubscriptionPre(type) ==
  IF type = "create" THEN <<"fetch", "allocate", "receipt">> ELSE CurrentFirst

SubscriptionAdmits(type, state) ==
  CASE type = "create" -> TRUE
    [] type = "update" -> state \notin {Absent, "deleted"}
    [] type = "delete" -> state # Absent

SubscriptionTxn(type) == IF type = "create" THEN LockedFirstTxn ELSE LockedTxn

\* The transaction does not look at the state.
SubscriptionRechecks(type, state) == (type = "create") <=> (state = Absent)

SubscriptionLeaves(type) == IF type = "delete" THEN "deleted" ELSE "active"

MessageTypes == {"read", "read_all"}

\* The day the message is read on.
MessageStamped(type) == TRUE

MessagePre(type) == Receipt

MessageTxn(type) == LockedTxn

MessageLeaves(type) == "read"

\* The stored request is compared by its user and its type only.
MessageAnswers(stored, mine) == stored.type = mine.type

=============================================================================
