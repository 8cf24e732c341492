--------------------------- MODULE BridgeWorkViews ---------------------------
(***************************************************************************)
(* The reads of the Python bridge on what people work on: project-plan     *)
(* tasks and delivery, projects, approval workflows, warnings, marketing   *)
(* and notifications.                                                      *)
(*                                                                         *)
(* Rows of the tables:                                                     *)
(*   task        id, gone, proj, type, state, begin, end (days)            *)
(*   report      id, task           progress, output   id, proj            *)
(*   project     id, gone, unit, busy (planned, developed or sold)         *)
(*   stage       id                                                        *)
(*   stage_of    id, proj, stage, state                                    *)
(*   process     id, key      step  id, process    assignee  id, step, user*)
(*   instance    id, process, biz, state, by, at (day)                     *)
(*   action      id, instance, user                                        *)
(*   campaign, placement (campaign, channel), channel, material: id, state *)
(*   message     id, user, read                                            *)
(*   subscription id, user                                                 *)
(* A drafted project gives its own stages or not (stages: "own" or "");    *)
(* a drafted plan task has the fields of a staged one except gone.         *)
(***************************************************************************)
EXTENDS BridgeLedger, Integers, FiniteSetsExt

Gone == {"deleted"}

-----------------------------------------------------------------------------
(***************************************************************************)
(* Delivery and project-plan tasks.  An imported task is shown though the  *)
(* source deleted it; a local one is shown beside an imported one of the   *)
(* same identity.                                                          *)
(***************************************************************************)
DeliveryProgress(proj) ==
  {p \in Imported(raw.progress) : Fits(proj, p.proj)}
    \cup {p \in Commanded(Kept("progress", Gone)) : Fits(proj, p.proj)}

DeliveryOutputs(proj) ==
  {o \in Imported(raw.output) \cup Commanded(local.output) : Fits(proj, o.proj)}

SourceProgress(proj) == {p \in raw.progress : Fits(proj, p.proj)}

SourceOutputs(proj, state) ==
  {o \in raw.output : Fits(proj, o.proj) /\ Fits(state, o.state)}

TaskRow(t, kind) ==
  [id |-> t.id, kind |-> kind, type |-> t.type, state |-> t.state,
   begin |-> t.begin, end |-> t.end]

\* Is the task shown as late?
Delayed(t) == t.state = "overdue" \/ (t.end < Today /\ t.state # "done")

DeliveryTasks(proj) ==
  {TaskRow(t, "imported") : t \in {r \in raw.task : Fits(proj, r.proj)}}
    \cup {TaskRow(t, "command") :
            t \in {l \in Kept("plan_task", Gone) : Fits(proj, l.proj)}}

TaskReports(task) ==
  {r \in Imported(raw.report) \cup Commanded(local.task_report) : Fits(task, r.task)}

\* How many tasks there are of each state; one of another state is pending.
Counts(tasks) ==
  LET States == {"done", "in_progress", "pending", "overdue", "blocked"}
      Of(s) == {t \in tasks : t.state = s}
      Other == {t \in tasks : t.state \notin States}
  IN [s \in States |-> IF s = "pending" THEN Cardinality(Of(s) \cup Other)
                       ELSE Cardinality(Of(s))]

DeliverySummary(proj) == Counts(DeliveryTasks(proj))

\* Fault: a local task that was deleted stays in the plan.
PlanTasks_All(proj, type) ==
  {TaskRow(t, "imported") : t \in {r \in raw.task : r.proj = proj /\ Fits(type, r.type)}}
    \cup {TaskRow(t, "command") :
            t \in {l \in local.plan_task : l.proj = proj /\ Fits(type, l.type)}}

PlanTasks(proj, type) ==
  {TaskRow(t, "imported") : t \in {r \in raw.task : r.proj = proj /\ Fits(type, r.type)}}
    \cup {TaskRow(t, "command") :
            t \in {l \in Kept("plan_task", Gone) : l.proj = proj /\ Fits(type, l.type)}}

\* The page of a task: the imported one if there is one.
PlanTaskPage(id) ==
  {[proj |-> t.proj, task |-> TaskRow(t, "imported"), reports |-> TaskReports(id)] :
     t \in {r \in raw.task : r.id = id}}
    \cup IF In("task", id) THEN {}
         ELSE {[proj |-> t.proj, task |-> TaskRow(t, "command"),
                reports |-> TaskReports(id)] :
                 t \in {l \in Kept("plan_task", Gone) : l.id = id}}

KeyNodes(proj) == PlanTasks(proj, "key_node")

PlanSummary(proj) == Counts(KeyNodes(proj))

\* What a delay of an imported task moves: whatever begins once it has ended,
\* the task itself if it takes no time.
DelayImpact(id) ==
  UNION {{t \in PlanTasks(r.proj, NoFilter) : t.begin >= r.end} :
           r \in {q \in raw.task : q.id = id}}

DeliveryOverview(proj) ==
  LET tasks == DeliveryTasks(proj)
  IN [tasks |-> tasks, progress |-> DeliveryProgress(proj),
      outputs |-> DeliveryOutputs(proj), summary |-> Counts(tasks),
      reports |-> {r \in TaskReports(NoFilter) : r.task \in Ids(tasks)}]

-----------------------------------------------------------------------------
(***************************************************************************)
(* Projects                                                                *)
(***************************************************************************)
\* The state of each stage of a project: what its instance says.
Lifecycle(proj) ==
  [s \in Ids(raw.stage) |->
     LET of == {i \in raw.stage_of : i.proj = proj /\ i.stage = s}
     IN IF of = {} THEN "pending" ELSE (CHOOSE i \in of : TRUE).state]

ProjectTasks(proj) == {t \in Live("task") : t.proj = proj}

ProjectRow(p, kind, lifecycle) ==
  [id |-> p.id, kind |-> kind, lifecycle |-> lifecycle, tasks |-> ProjectTasks(p.id)]

Projects(id) ==
  {ProjectRow(p, "imported", Lifecycle(p.id)) :
     p \in {r \in Live("project") : Fits(id, r.id)}}
    \cup {ProjectRow(p, "command", IF p.stages = "own" THEN <<>> ELSE Lifecycle(p.id)) :
            p \in {l \in Kept("project", Gone) : Fits(id, l.id)}}

ProjectLifecycle(id) == {p.lifecycle : p \in Projects(id)}

-----------------------------------------------------------------------------
(***************************************************************************)
(* Approval workflows of the source                                        *)
(***************************************************************************)
ProcessDefs(key) ==
  {[id |-> p.id,
    steps |-> {[id |-> s.id,
                users |-> {a.user : a \in {b \in raw.assignee : b.step = s.id}}] :
                 s \in {t \in raw.step : t.process = p.id}}] :
     p \in {r \in raw.process : Fits(key, r.key)}}

Running == {"Running", "Approving", "running", "submitted"}

ActionsOf(i) == {a \in raw.action : a.instance = i}

\* What waits for a user: what it has an action in, whatever it decided, and
\* whatever nobody has an action in.
TasksMine(user) ==
  {i \in raw.instance :
     /\ i.state \in Running
     /\ \/ user = NoFilter \/ ActionsOf(i.id) = {}
        \/ \E a \in ActionsOf(i.id) : a.user = user}

TasksInitiated(user) == {i \in raw.instance : Fits(user, i.by)}

History(user) ==
  {a \in raw.action : Fits(user, a.user) /\ In("instance", a.instance)}

InstancePage(id) ==
  {[instance |-> i, actions |-> ActionsOf(id),
    steps |-> {s \in raw.step : s.process = i.process}] :
     i \in {r \in raw.instance : r.id = id}}

\* The page of the instance that was initiated last for a document.
InstanceOf(biz) ==
  LET found == {i \in raw.instance : i.biz = biz}
  IN UNION {InstancePage(i.id) :
              i \in {f \in found : \A g \in found : g.at <= f.at}}

-----------------------------------------------------------------------------
(***************************************************************************)
(* Warnings: a finding with what was decided about it                      *)
(***************************************************************************)
\* Fault: what was decided on a rule holds for each of its findings.
Handled_Rule(w) == {l \in local.warning : l.id[1] = w[1]}

Handled(w) == {l \in local.warning : l.id = w}

Warnings ==
  {[id |-> w, state |-> IF Handled(w) = {} THEN "open"
                        ELSE (CHOOSE l \in Handled(w) : TRUE).state] : w \in Findings}

WarningList(state, rule) ==
  {w \in Warnings : Fits(state, w.state) /\ Fits(rule, w.id[1])}

WarningBadge == Cardinality(WarningList("open", NoFilter))

\* For each rule with an open finding, how many there are.
WarningRules ==
  LET open == {w \in Warnings : w.state = "open"}
  IN [r \in {w.id[1] : w \in open} |-> Cardinality({w \in open : w.id[1] = r})]

-----------------------------------------------------------------------------
(***************************************************************************)
(* Marketing                                                               *)
(***************************************************************************)
Marketing(f) == Imported(raw[f]) \cup Commanded(local[f])

Active(f) == {m \in Marketing(f) : m.state # "deleted"}

Campaigns(state) == {c \in Active("campaign") : Fits(state, c.state)}

Placements(campaign) == {p \in Active("placement") : Fits(campaign, p.campaign)}

\* The placements a channel is given count the deleted ones.
Channels ==
  {[id |-> c.id, kind |-> c.kind,
    placements |-> {p \in Marketing("placement") : p.channel = c.id}] :
     c \in Active("channel")}

Materials == Active("material")

-----------------------------------------------------------------------------
(***************************************************************************)
(* Notifications                                                           *)
(***************************************************************************)
\* The messages that the commands of a user, or of all, say are read.
MarkedRead(user) ==
  UNION {l.messages : l \in {c \in local.message : Fits(user, c.by)}}

ReadBy(m, user) == m.read \/ m.id \in MarkedRead(user)

\* Fault: to read them all is to read those that come later as well.
Messages_All(user, status) ==
  LET Read(m) == ReadBy(m, user)
                   \/ \E c \in local.message : c.type = "read_all" /\ Fits(user, c.by)
  IN {m \in raw.message :
        /\ Fits(user, m.user)
        /\ status = "read" => Read(m)
        /\ status = "unread" => ~Read(m)}

Messages(user, status) ==
  {m \in raw.message :
     /\ Fits(user, m.user)
     /\ status = "read" => ReadBy(m, user)
     /\ status = "unread" => ~ReadBy(m, user)}

UnreadCount(user) == Cardinality(Messages(user, "unread"))

\* A local subscription that was deleted hides the imported one.
Subscriptions(user) ==
  LET mine == {l \in local.subscription : Fits(user, l.by)}
  IN {s \in Imported(raw.subscription) : Fits(user, s.user) /\ s.id \notin Ids(mine)}
       \cup Commanded({l \in mine : l.state # "deleted"})

-----------------------------------------------------------------------------
(***************************************************************************)
(* The worlds the properties are about                                     *)
(***************************************************************************)
\* The world has messages and subscriptions; a message is for somebody, and what
\* is drafted of reading them names who reads and, if it names them, what, as does
\* its identity.
HasInbox ==
  /\ {"message", "subscription"} \subseteq Tables \cap Families
  /\ \A s \in Scopes :
       /\ "message" \in DOMAIN s.imports => \A m \in s.imports["message"] : m.user # NoFilter
       /\ "message" \in DOMAIN s.drafts => \A d \in s.drafts["message"] :
            /\ {"by", "type", "messages"} \subseteq DOMAIN d
            /\ d.type \in {"read", "read_all"}
            /\ d.type = "read_all" => d.messages = {}
            /\ \A e \in s.drafts["message"] :
                 e.id = d.id => e.by = d.by /\ e.type = d.type /\ e.messages = d.messages

\* The tables that findings are about.
FindingTables ==
  {"project", "contract", "apply", "cost", "expense", "share", "loan", "task",
   "supplier", "user"}

\* The world has what the rules look at, and decisions on what they find.
HasFindings == FindingTables \subseteq Tables /\ "warning" \in Families

\* The world has what the reads on work are of.  The rows have the fields that are
\* shown of them, and what is measured is a number.
WorkTables ==
  {"task", "report", "progress", "output", "project", "stage", "stage_of", "process",
   "step", "assignee", "instance", "action", "cost"}

HasWork ==
  /\ WorkTables \subseteq Tables
  /\ {"plan_task", "task_report", "progress", "output", "project"} \subseteq Families
  /\ \A s \in Scopes :
       /\ "task" \in DOMAIN s.imports =>
            \A t \in s.imports["task"] : t.id # NoFilter
       /\ "plan_task" \in DOMAIN s.drafts => \A d \in s.drafts["plan_task"] : d.id # NoFilter
       /\ \A t \in {"progress", "output"} \cap DOMAIN s.imports :
            \A r \in s.imports[t] : "proj" \in DOMAIN r
       /\ "instance" \in DOMAIN s.imports => \A i \in s.imports["instance"] : i.at \in Int
       /\ "cost" \in DOMAIN s.imports => \A k \in s.imports["cost"] :
            k.target \in Int /\ k.cost \in Int

-----------------------------------------------------------------------------
(***************************************************************************)
(* Properties                                                              *)
(***************************************************************************)
\* A task has a page if and only if a plan lists it, and the page and
\* the plan of its project show it alike; whatever else shows a task of a
\* project (the project's page, a delay's impact, the overview) shows tasks of
\* its plan, the reports of the overview are on the pages of their tasks, the
\* two summaries count every task of their list once, and the overview leaves
\* out nothing that the source-shaped lists of delivery show.
TasksAgree ==
  /\ \A id \in Ids(raw.task) \cup Ids(local.plan_task) :
       LET plans == {p \in {t.proj : t \in raw.task \cup local.plan_task} :
                       id \in Ids(PlanTasks(p, NoFilter))}
       IN /\ PlanTaskPage(id) = {} <=> plans = {}
          /\ \A page \in PlanTaskPage(id) :
               /\ page.task \in PlanTasks(page.proj, NoFilter)
               /\ page.reports \subseteq DeliveryOverview(page.proj).reports
          /\ DelayImpact(id) \subseteq UNION {PlanTasks(p, NoFilter) : p \in plans}
  /\ \A p \in Projects(NoFilter) :
       LET overview == DeliveryOverview(p.id)
           Counted(summary) == MapThenSumSet(LAMBDA s : summary[s], DOMAIN summary)
       IN /\ Ids(p.tasks) \subseteq Ids(PlanTasks(p.id, NoFilter))
          /\ Counted(DeliverySummary(p.id)) = Cardinality(overview.tasks)
          /\ Counted(PlanSummary(p.id)) = Cardinality(KeyNodes(p.id))
          /\ Imported(SourceProgress(p.id)) \subseteq overview.progress
          /\ Imported(SourceOutputs(p.id, NoFilter)) \subseteq overview.outputs

\* An approval under way waits in the list of some user, a decision in
\* a user's history is on the page of its instance, and the page of a document
\* shows the last approval that somebody initiated for it; a page shows the
\* steps of the process that its instance runs.
ApprovalsSeen ==
  LET users == {a.user : a \in raw.action} \cup {i.by : i \in raw.instance}
  IN /\ \A i \in raw.instance : i.state \in Running =>
          \E u \in users : i \in TasksMine(u) /\ ActionsOf(i.id) \subseteq UNION
            {p.actions : p \in InstancePage(i.id)}
     /\ \A u \in users : \A a \in History(u) :
          \E p \in InstancePage(a.instance) : a \in p.actions
     /\ \A u \in users : \A i \in TasksInitiated(u) :
          \E p \in InstanceOf(i.biz) : p.instance.at >= i.at
     /\ \A i \in raw.instance : \A d \in ProcessDefs(NoFilter) :
          d.id = i.process => \A p \in InstancePage(i.id) : Ids(p.steps) = Ids(d.steps)

\* What was decided on a finding stays until a command on that very
\* finding, though the findings come and go with what is staged; and the badge
\* falls only when a finding is decided on or is gone, and is the sum of what the
\* rules with an open finding show.
DecisionsStay ==
  [][/\ \A w \in Warnings : \A v \in Warnings' :
          v.id = w.id /\ v.state # w.state =>
            Stored("warning", w.id) # Stored("warning", w.id)'
     /\ WarningBadge' < WarningBadge =>
          local.warning' # local.warning \/ ~(Findings \subseteq Findings')
     /\ WarningBadge = MapThenSumSet(LAMBDA r : WarningRules[r], DOMAIN WarningRules)]_ledgerVars

\* In this step a command to read all messages of the user is stored over one
\* that was stored since it had looked for what was marked before.
StoredOver(user) ==
  \E c \in commands \ commands' :
    /\ c.type = "read_all" /\ c.draft.by = user
    /\ c.basis # Stored("message", c.draft.id)

\* A message becomes read by a command of its reader only, and one that arrives
\* later is unread although all were read (but for one that its reader marked by
\* name before it came); it is unread again, and the count of unread ones grows
\* without one arriving, only where two commands to read all crossed (the lists
\* are merged before the lock is taken); and no user's list of subscriptions
\* names one twice.
InboxMoves ==
  [][\A u \in {m.user : m \in raw.message'} :
       /\ \A m \in Messages(u, "read")' \ Messages(u, "read") :
            m \in raw.message => \E l \in local.message' \ local.message : l.by = u
       /\ Messages(u, "read") \subseteq Messages(u, "read")' \/ StoredOver(u)
       /\ UnreadCount(u)' > UnreadCount(u) => raw.message' # raw.message \/ StoredOver(u)
       /\ OnceEach(Subscriptions(u)')
       /\ \A m \in raw.message' \ raw.message :
            m.user = u /\ ~m.read => \/ m \in Messages(u, "unread")'
                                     \/ \E l \in local.message :
                                          l.type = "read" /\ m.id \in l.messages]_ledgerVars
=============================================================================
